------------------------------- MODULE Params -------------------------------
(***************************************************************************)
(* How a parameter reaches the server and a value comes back: substituted  *)
(* into the text of a simple query (src/client.rs:265-323), or bound to an *)
(* extended one (src/codec.rs:373-429), and read from the row the server   *)
(* answers with (src/codec.rs:227-275, src/row.rs).                        *)
(*                                                                         *)
(* Texts are sequences of byte values. Inside a message an integer field   *)
(* is one element, whatever its width.                                     *)
(***************************************************************************)
EXTENDS SqlText, SequencesExt

CONSTANTS
  Texts,       \* the statements that are called
  ParamLists,  \* the parameters that are substituted into them
  BindLists,   \* the parameters of extended queries
  Names,       \* schemas and strings to quote
  Columns,     \* names the server gives to columns
  Counts       \* how many values a parameter count has: 2^16 in the code, less in a run

Bytes == 0..255

\* A str is a sequence of bytes; a column name ends at a byte 0 (read_cstr).
ASSUME ParamsAssumption ==
  /\ Counts \in Nat \ {0}
  /\ Texts \cup Names \subseteq Seq(Bytes)
  /\ Columns \subseteq Seq(Bytes \ {0})

VARIABLES
  path,    \* which call: "params", "strings", "quote", "schema" or "extended"
  stage,   \* how far it has got
  sql, params,
  i,       \* the loop over the parameters, from the last to the first
  text,    \* the statement as it is sent
  bind,    \* the Bind message
  names,   \* the columns of the answer, as the server names them
  row      \* the Row the application gets

vars == <<path, stage, sql, params, i, text, bind, names, row>>

\* A Rust value: its type, and a text, a sequence of one integer (bool: 0 or 1), or
\* nothing (Option::None). A uuid, a json and an f64 are known by the text that the server
\* shows of them.
Value(ty, of) == [ty |-> ty, of |-> of]
IntTypes  == {"i16", "i32"}
TextTypes == {"text", "uuid", "json", "f64"}
Types     == IntTypes \cup TextTypes \cup {"bool", "bytea", "none"}
None      == Value("none", <<>>)

MaxOf(ty) == IF ty = "i16" THEN 32767 ELSE 2147483647

\* The values the types have.
IsValue(v) ==
  /\ v \in [ty : Types, of : Seq(Int)]
  /\ v.ty \in IntTypes => Len(v.of) = 1 /\ v.of[1] \in -MaxOf(v.ty) - 1..MaxOf(v.ty)
  /\ v.ty = "bool" => v.of \in {<<0>>, <<1>>}
  /\ v.ty = "none" => v.of = <<>>
  /\ v.ty = "f64" => v.of # <<>>
  /\ v.ty \in TextTypes \cup {"bytea"} => v.of \in Seq(Bytes)

ASSUME ValuesAssumption ==
  \A list \in ParamLists \cup BindLists :
    list \in Seq([ty : Types, of : Seq(Int)]) /\ \A k \in DOMAIN list : IsValue(list[k])

-----------------------------------------------------------------------------
(* ToSql *)

to_sql(v) ==
  CASE v.ty \in IntTypes -> IF v.of[1] < 0 THEN <<Minus>> \o Decimal(-v.of[1]) ELSE Decimal(v.of[1])
    [] v.ty = "bool"     -> IF v.of[1] = 1 THEN <<116>> ELSE <<102>>   \* t, f
    [] OTHER             -> v.of

oid(v) ==
  [text |-> 25, i16 |-> 21, i32 |-> 23, f64 |-> 701, bool |-> 16, bytea |-> 17,
   uuid |-> 2950, json |-> 3802, none |-> 0][v.ty]

Nibble(n) == IF n < 10 THEN 48 + n ELSE 87 + n

Hex(bytes) ==
  FlattenSeq([k \in DOMAIN bytes |-> <<Nibble(bytes[k] \div 16), Nibble(bytes[k] % 16)>>])

-----------------------------------------------------------------------------
(* Quoting and substitution *)

quote_string(s) == <<Quote>> \o Replace(s, <<Quote>>, <<Quote, Quote>>) \o <<Quote>>

\* Mutant: the quotes of a string are doubled instead of those of an identifier.
DoubleWrongQuote(s) == <<DQuote>> \o Replace(s, <<Quote>>, <<Quote, Quote>>) \o <<DQuote>>

double_quote_identifier(s) == <<DQuote>> \o Replace(s, <<DQuote>>, <<DQuote, DQuote>>) \o <<DQuote>>

Placeholder(n) == <<Dollar>> \o Decimal(n)

Null == <<78, 85, 76, 76>>

\* The text put in the place of a placeholder. substitute_str_params is the case of texts.
Escaped(v) ==
  IF to_sql(v) = <<>> /\ oid(v) = 0 THEN Null
  ELSE CASE oid(v) \in {25, 1043} -> quote_string(to_sql(v))
         [] oid(v) = 17 -> <<LetterE, Quote, Backslash, Backslash, 120>> \o Hex(v.of) \o <<Quote>>
         [] OTHER -> to_sql(v)

Init ==
  /\ path = "none" /\ stage = "idle" /\ sql = <<>> /\ params = <<>> /\ i = 0
  /\ text = <<>> /\ bind = <<>> /\ names = <<>>
  /\ row = [columns |-> <<>>, values |-> <<>>]

\* Mutant: the loop begins one past the last parameter.
CallPastEnd(p, s, list) ==
  /\ p = "strings" => \A k \in DOMAIN list : list[k].ty = "text"
  /\ stage' = "replace" /\ path' = p /\ sql' = s /\ params' = list
  /\ text' = s /\ i' = Len(list) + 1
  /\ UNCHANGED <<bind, names, row>>

\* query_params, execute_params and query.
CallSubstituted(p, s, list) ==
  /\ p = "strings" => \A k \in DOMAIN list : list[k].ty = "text"
  /\ stage' = "replace" /\ path' = p /\ sql' = s /\ params' = list
  /\ text' = s /\ i' = Len(list)
  /\ UNCHANGED <<bind, names, row>>

\* Mutant: the placeholders are replaced from the first to the last.
ReplaceForwards ==
  /\ stage = "replace" /\ i > 0
  /\ LET n == Len(params) + 1 - i
     IN text' = Replace(text, Placeholder(n), Escaped(params[n]))
  /\ i' = i - 1
  /\ UNCHANGED <<path, stage, sql, params, bind, names, row>>

ReplaceParam ==
  /\ stage = "replace" /\ i > 0
  /\ text' = Replace(text, Placeholder(i), Escaped(params[i]))
  /\ i' = i - 1
  /\ UNCHANGED <<path, stage, sql, params, bind, names, row>>

SendText ==
  /\ stage = "replace" /\ i = 0
  /\ stage' = "sent"
  /\ UNCHANGED <<path, sql, params, i, text, bind, names, row>>

\* set_schema writes SET search_path TO and the quoted name; quote_string is for
\* statements the application writes itself.
QuoteName(p, name) ==
  /\ stage' = "sent" /\ path' = p /\ params' = <<Value("text", name)>>
  /\ text' = IF p = "schema" THEN double_quote_identifier(name) ELSE quote_string(name)
  /\ UNCHANGED <<sql, i, bind, names, row>>

-----------------------------------------------------------------------------
(* The extended protocol *)

\* Mutant: the count leaves out the values that are NULL.
CountNonEmpty(list) == Len(SelectSeq(list, LAMBDA v : to_sql(v) # <<>>)) % Counts

Count(list) == Len(list) % Counts

\* Mutant: an empty value is sent with its length, 0.
BindEmptyAsEmpty(list) ==
  LET Data(v) == <<Len(to_sql(v))>> \o to_sql(v)
  IN <<0, 0, Count(list)>> \o [k \in DOMAIN list |-> 0] \o <<Count(list)>>
       \o FlattenSeq([k \in DOMAIN list |-> Data(list[k])]) \o <<1, 0>>

\* build_bind_message with unnamed portal and statement: format codes (all 0, text),
\* values with their lengths (-1 for an empty one), and one result format.
build_bind_message(list) ==
  LET Data(v) == IF to_sql(v) = <<>> THEN <<-1>> ELSE <<Len(to_sql(v))>> \o to_sql(v)
  IN <<0, 0, Count(list)>> \o [k \in DOMAIN list |-> 0] \o <<Count(list)>>
       \o FlattenSeq([k \in DOMAIN list |-> Data(list[k])]) \o <<1, 0>>

\* build_parse_message with an unnamed statement, behind the text, which stays as it is: an
\* oid for each parameter.
build_parse_message(list) == <<Count(list)>> \o [k \in DOMAIN list |-> oid(list[k])]

\* query_extended.
CallExtended(s, list) ==
  /\ stage' = "sent" /\ path' = "extended" /\ sql' = s /\ params' = list
  /\ text' = s /\ bind' = build_bind_message(list)
  /\ UNCHANGED <<i, names, row>>

-----------------------------------------------------------------------------
(* The row: a value is NULL or bytes *)

NullValue   == [null |-> TRUE, bytes |-> <<>>]
Some(bytes) == [null |-> FALSE, bytes |-> bytes]

\* A value in a message: its length, negative for NULL, and its bytes. A reader takes n
\* things one after the other: the first at place "first", the others where the next is.
ValueAt(message, p)   == IF message[p] < 0 THEN NullValue ELSE Some(SubSeq(message, p + 1, p + message[p]))
PastValue(message, p) == IF message[p] < 0 THEN p + 1 ELSE p + 1 + message[p]

Places(n, first, next) ==
  LET place[k \in 1..n] == IF k = 1 THEN first ELSE next[place[k - 1]]
  IN place

ValuesAt(message, n, first) ==
  LET place == Places(n, first, [p \in DOMAIN message |-> PastValue(message, p)])
  IN [k \in 1..n |-> ValueAt(message, place[k])]

\* The server's reading of the values in a Bind message.
BoundValues(message) == ValuesAt(message, Len(params), 5 + message[3])

\* The text input of a bytea: a backslash begins another backslash or three octal digits,
\* and \x at the front means that all the rest is hex digits in pairs and white space.
Malformed == -1

Escapes(bytes) ==
  LET octal(k) == k + 3 <= Len(bytes) /\ bytes[k + 1] \in 48..51 /\ {bytes[k + 2], bytes[k + 3]} \subseteq 48..55
      code(k)  == 64 * (bytes[k + 1] - 48) + 8 * (bytes[k + 2] - 48) + bytes[k + 3] - 48
  IN From(Len(bytes), [k \in DOMAIN bytes |->
       CASE bytes[k] # Backslash -> Read(<<bytes[k]>>, k + 1)
         [] bytes[k] = Backslash /\ Byte(bytes, k + 1) = Backslash -> Read(<<Backslash>>, k + 2)
         [] bytes[k] = Backslash /\ octal(k) -> Read(<<code(k)>>, k + 4)
         [] OTHER -> Read(<<Malformed>>, Len(bytes) + 1)])[1]

Unhexed(bytes) ==
  LET digit(k) == {n \in 0..15 : Byte(bytes, k) \in {Nibble(n), Nibble(n) - 32 * (n \div 10)}}
  IN From(Len(bytes), [k \in DOMAIN bytes |->
       CASE bytes[k] \in Spaces -> Read(<<>>, k + 1)
         [] bytes[k] \notin Spaces /\ digit(k) # {} /\ digit(k + 1) # {} ->
              Read(<<16 * (CHOOSE n \in digit(k) : TRUE) + (CHOOSE n \in digit(k + 1) : TRUE)>>, k + 2)
         [] OTHER -> Read(<<Malformed>>, Len(bytes) + 1)])[1]

ByteaIn(bytes) ==
  IF StartsAt(bytes, <<Backslash, 120>>, 1) THEN Unhexed(SubSeq(bytes, 3, Len(bytes))) ELSE Escapes(bytes)

\* Format code 0: the server reads a value as text of its declared type. It takes no text
\* with a byte 0. Whether it takes bytes that need not be UTF-8, or a json with an escape
\* (it takes no \u0000), is left open.
Refuses(v, value) ==
  ~value.null /\ (Has(value.bytes, 0) \/ (v.ty = "bytea" /\ Has(ByteaIn(value.bytes), Malformed)))

MayRefuse(v, value) ==
  /\ ~value.null
  /\ \/ v.ty = "bytea" /\ \E k \in DOMAIN value.bytes : value.bytes[k] >= 128
     \/ v.ty = "json" /\ Has(value.bytes, Backslash)

\* A bytea is shown as \x and hex digits; every other type as the text it was given.
Shown(v, value) ==
  IF v.ty = "bytea" /\ ~value.null THEN Some(<<Backslash, 120>> \o Hex(ByteaIn(value.bytes))) ELSE value

\* RowDescription: six integers follow the name of each column.
DescriptionOf(cols) ==
  <<Len(cols)>> \o FlattenSeq([k \in DOMAIN cols |-> cols[k].name \o <<0, 0, 0, cols[k].type_oid, -1, -1, 0>>])

DataRowOf(values) ==
  <<Len(values)>> \o
    FlattenSeq([k \in DOMAIN values |->
                  IF values[k].null THEN <<-1>> ELSE <<Len(values[k].bytes)>> \o values[k].bytes])

\* read_cstr: where the name that begins at p ends.
EndOfName(body, p) ==
  CHOOSE z \in p..Len(body) : body[z] = 0 /\ \A j \in p..z - 1 : body[j] # 0

\* Mutant: the attribute number is not read.
SkipOneField(body) ==
  LET place == Places(body[1], 2, [p \in DOMAIN body |-> EndOfName(body, p) + 6])
      end(k) == EndOfName(body, place[k])
  IN [k \in 1..body[1] |-> [name |-> SubSeq(body, place[k], end(k) - 1), type_oid |-> body[end(k) + 2]]]

\* read_cstr for the name, then the integers; kept are the name and the type.
decode_row_description(body) ==
  LET place == Places(body[1], 2, [p \in DOMAIN body |-> EndOfName(body, p) + 7])
      end(k) == EndOfName(body, place[k])
  IN [k \in 1..body[1] |-> [name |-> SubSeq(body, place[k], end(k) - 1), type_oid |-> body[end(k) + 3]]]

decode_data_row(body) == ValuesAt(body, body[1], 2)

\* The count of a Parse or of a Bind is not that of what it carries.
Miscounted == build_parse_message(params)[1] # Len(params) \/ bind[3] # Len(params)

\* A statement such as SELECT $1, $2: the server takes the parameters by their declared
\* types and answers with a row of them.
ServerRefuses ==
  /\ stage = "sent" /\ path = "extended"
  /\ ~Miscounted =>
       \E k \in DOMAIN params : LET value == BoundValues(bind)[k]
                              IN Refuses(params[k], value) \/ MayRefuse(params[k], value)
  /\ stage' = "refused"
  /\ UNCHANGED <<path, sql, params, i, text, bind, names, row>>

ServerEchoes(cols) ==
  /\ stage = "sent" /\ path = "extended" /\ ~Miscounted
  /\ \A k \in DOMAIN params : ~Refuses(params[k], BoundValues(bind)[k])
  /\ LET values == BoundValues(bind)
         shown  == [k \in DOMAIN params |-> Shown(params[k], values[k])]
         described == [k \in DOMAIN cols |-> [name |-> cols[k], type_oid |-> oid(params[k])]]
     IN row' = [columns |-> decode_row_description(DescriptionOf(described)),
                values  |-> decode_data_row(DataRowOf(shown))]
  /\ stage' = "row" /\ names' = cols
  /\ UNCHANGED <<path, sql, params, i, text, bind>>

-----------------------------------------------------------------------------
(* FromSql and Row::get *)

Ok(v) == [ok |-> TRUE, is |-> v]
Err   == [ok |-> FALSE, is |-> None]

Plus == 43

\* str::parse for an integer type.
ParseInt(ty, bytes) ==
  LET max      == MaxOf(ty)
      negative == bytes # <<>> /\ bytes[1] = Minus
      signed   == bytes # <<>> /\ bytes[1] \in {Minus, Plus}
      digits   == IF signed THEN Tail(bytes) ELSE bytes
      number   == IF negative THEN -NumberOf(digits) ELSE NumberOf(digits)
  IN IF digits # <<>> /\ Range(digits) \subseteq Digits /\ number <= max /\ number >= -max - 1
       THEN Ok(Value(ty, <<number>>)) ELSE Err

\* NULL is an error, except for serde_json's Value, which has a null of its own.
from_sql(ty, raw) ==
  IF raw.null THEN IF ty = "json" THEN Ok(Value("json", Null)) ELSE Err
  ELSE CASE ty \in IntTypes -> ParseInt(ty, raw.bytes)
         [] ty = "bool" -> IF raw.bytes \in {<<116>>, <<49>>} THEN Ok(Value("bool", <<1>>))
                           ELSE IF raw.bytes \in {<<102>>, <<48>>} THEN Ok(Value("bool", <<0>>))
                           ELSE Err
         [] OTHER -> Ok(Value(ty, raw.bytes))

\* FromSql for Option<T>.
from_sql_option(ty, raw) == IF raw.null THEN Ok(None) ELSE from_sql(ty, raw)

get(ty, idx) == IF idx \in DOMAIN row.values THEN from_sql(ty, row.values[idx]) ELSE Err

\* The first column of that name.
get_by_name(ty, name) ==
  LET named == {k \in DOMAIN row.columns : row.columns[k].name = name}
  IN IF named = {} THEN Err ELSE get(ty, CHOOSE k \in named : \A j \in named : k <= j)

\* One call.
Call ==
  /\ stage = "idle"
  /\ \/ \E p \in {"params", "strings"}, s \in Texts, list \in ParamLists : CallSubstituted(p, s, list)
     \/ \E p \in {"quote", "schema"}, name \in Names : QuoteName(p, name)
     \/ \E list \in BindLists : CallExtended(<<>>, list)

Answer == ServerRefuses \/ \E cols \in [DOMAIN params -> Columns] : ServerEchoes(cols)

Next == Call \/ ReplaceParam \/ SendText \/ Answer

Spec == Init /\ [][Next]_vars

-----------------------------------------------------------------------------
(* Properties *)

\* Type invariant. The loop stays within the parameters.
TypeOK ==
  /\ stage \in {"idle", "replace", "sent", "refused", "row"}
  /\ \A k \in DOMAIN params : params[k].ty \in Types
  /\ i \in 0..Len(params)
  /\ \A t \in {sql, text} : Range(t) \subseteq 0..255
  /\ Range(bind) \subseteq Int
  /\ \A k \in DOMAIN row.values : row.values[k].null => row.values[k].bytes = <<>>

\* What a parameter stands for in a statement, as tokens. (How tightly the minus of a number
\* binds is left to what reads the tokens.)
Denotes(v) ==
  CASE v.ty \in IntTypes ->
         IF v.of[1] < 0 THEN <<Token("op", <<Minus>>), Token("num", Decimal(-v.of[1]))>>
                        ELSE <<Token("num", Decimal(v.of[1]))>>
    [] v.ty = "f64" /\ Range(v.of) \subseteq Digits -> <<Token("num", v.of)>>
    [] v.ty = "bytea" -> <<Token("str", <<Backslash, 120>> \o Hex(v.of))>>
    [] v.ty = "none" -> <<Token("name", Null)>>
    [] OTHER -> <<Token("str", to_sql(v))>>

IsParam(token, n) == token.is = "param" /\ token.of = Decimal(n)

\* The statement with each placeholder standing for its parameter, all at once.
Meaning ==
  LET tokens == Lex(sql)
  IN FlattenSeq([k \in DOMAIN tokens |->
       IF \E n \in DOMAIN params : IsParam(tokens[k], n)
         THEN Denotes(params[CHOOSE n \in DOMAIN params : IsParam(tokens[k], n)])
         ELSE <<tokens[k]>>])

StandsFor(k, n) == NumberAt(sql, k) = Decimal(n)

Used(n) == \E k \in Marked(sql) : StandsFor(k, n)

Occurs(part, t) == \E k \in DOMAIN t : StartsAt(t, part, k)

\* A placeholder stands inside a literal, a name or a comment of the statement, or behind
\* what SqlText does not read: a literal, or a comment, that is never closed, and a comment
\* with another one inside.
InsideLiteral == ~(Marked(sql) \subseteq Starts(sql))

\* A placeholder without a parameter begins like one that has a parameter.
LongerNumber ==
  \E k \in Marked(sql) :
    /\ \E n \in DOMAIN params : StartsAt(sql, Placeholder(n), k)
    /\ ~ \E n \in DOMAIN params : StandsFor(k, n)

Dot == 46
Ampersand == 38

\* The server joins two literals with nothing but white space and a line end between them.
AcrossLines ==
  /\ \E k \in DOMAIN sql : sql[k] \in Newlines
  /\ LET tokens == Lex(sql) IN
     \E j \in 1..Len(tokens) - 1 : {tokens[j].is, tokens[j + 1].is} \subseteq {"param", "str"}

\* Nothing separates a placeholder from a word, a literal, a number (its point and its
\* exponent included), the & of U&'..' or another placeholder; or a line end joins it to one.
Touching ==
  \/ AcrossLines
  \/ \E k \in Marked(sql) :
       \/ k > 1 /\ sql[k - 1] \in Digits \cup {Quote, Dollar, Dot, Ampersand}
       \/ k > 2 /\ sql[k - 1] \in {Minus, Plus} /\ sql[k - 2] \in {LetterE, SmallE}
       \/ Byte(sql, MarkEnd(sql, k)) \in Letters \cup {Quote, Dollar, Dot}

\* A value that was put in contains the placeholder of a parameter before it.
InsideValue ==
  \E n \in DOMAIN params : Used(n) /\ \E m \in 1..n - 1 : Occurs(Placeholder(m), Escaped(params[n]))

\* A value whose type is put in without quotes although it is not a number.
Unquoted ==
  \E n \in DOMAIN params :
    /\ Used(n)
    /\ \/ params[n].ty \in {"bool", "uuid", "json"}
       \/ params[n].ty = "f64" /\ ~(Range(params[n].of) \subseteq Digits)

\* The bytes of operators, and those whose presence lets an operator end with a minus.
EndsWithMinus == {126, 33, 64, 35, 37, 94, 38, 124, 96, 63}   \* ~ ! @ # % ^ & | ` ?
OpBytes == EndsWithMinus \cup {Plus, Minus, Star, Slash, 60, 61, 62}   \* and + - * / < = >

\* The minus of a negative number becomes a part of what is directly before it: -$1 with -7
\* begins a comment, and @$1 is the operator @- and a 7.
MinusSwallowed ==
  \E n \in DOMAIN params :
    /\ params[n].ty \in IntTypes /\ params[n].of[1] < 0
    /\ \/ Occurs(<<Minus>> \o Placeholder(n), sql)
       \/ \E j, k \in DOMAIN sql :
            /\ j < k /\ StartsAt(sql, Placeholder(n), k)
            /\ sql[j] \in EndsWithMinus /\ \A m \in j..k - 1 : sql[m] \in OpBytes

\* A statement with substituted parameters reads as if every placeholder stood for its
\* value (src/client.rs:265), whatever quotes the values have and whatever digits the
\* placeholders share ($1 and $10), except in the six cases; and the server takes no text
\* with a byte 0 in it. Two of the six, InsideValue and Unquoted, are against what the code
\* says of itself: ValuesAreLiterals leaves them out.
StatementKeepsMeaning ==
  (stage = "sent" /\ path \in {"params", "strings"} /\ ~Has(text, 0)) =>
    \/ Lex(text) = Meaning
    \/ InsideLiteral \/ LongerNumber \/ Touching \/ InsideValue \/ Unquoted \/ MinusSwallowed

\* What the comments say (src/client.rs:265 and 36, 303 and 25 for strings): placeholders
\* are replaced by quoted, escaped values, numeric and boolean ones by their text. Then
\* what a value contains is never taken for a placeholder, and a value of any other type is
\* a literal. A run finds that it is not so.
ValuesAreLiterals ==
  (stage = "sent" /\ path \in {"params", "strings"} /\ ~Has(text, 0)) =>
    \/ Lex(text) = Meaning
    \/ InsideLiteral \/ LongerNumber \/ Touching \/ MinusSwallowed
    \/ \E n \in DOMAIN params : params[n].ty \in {"bool", "f64"}

\* What quote_string and double_quote_identifier (set_schema) write is read back as one
\* literal or one name with exactly that text. (The server takes no text with a byte 0 in
\* it, and no name without any.)
QuotedReadsBack ==
  (stage = "sent" /\ path \in {"quote", "schema"} /\ ~Has(text, 0)
     /\ (path = "schema" => params[1].of # <<>>)) =>
    Lex(text) = <<Token(IF path = "quote" THEN "str" ELSE "ident", params[1].of)>>

\* A row that echoes the parameters of query_extended gives each of them back: NULL for
\* Option::None, and for a value without bytes, which Bind cannot tell from it; the hex
\* text for bytes without a backslash (the text input of a bytea reads one as an escape);
\* and for everything else the value, also through Option and, if it fits, through the
\* other integer type.
ExtendedKeepsValues ==
  stage = "row" =>
    /\ Len(row.values) = Len(params)
    /\ \A n \in DOMAIN params : LET v == params[n] IN
         CASE to_sql(v) = <<>> -> row.values[n].null /\ from_sql_option(v.ty, row.values[n]) = Ok(None)
           [] to_sql(v) # <<>> /\ v.ty = "bytea" ->
                ~Has(v.of, Backslash) => get("bytea", n) = Ok(Value("bytea", <<Backslash, 120>> \o Hex(v.of)))
           [] OTHER ->
                /\ get(v.ty, n) = Ok(v) /\ from_sql_option(v.ty, row.values[n]) = Ok(v)
                /\ v.ty \in IntTypes => \A ty \in IntTypes : get(ty, n) \in {Err, Ok(Value(ty, v.of))}

\* A server that checks what it gets refuses a query_extended only beyond the 16 bits of
\* the parameter count, or for a value its text input need not take: one with a byte 0,
\* a json with an escape, and bytes with a backslash or beyond ASCII.
RefusedOnlyIf ==
  stage = "refused" =>
    \/ Len(params) >= Counts
    \/ \E n \in DOMAIN params : LET v == params[n] IN
         \/ v.ty \in TextTypes \cup {"bytea"} /\ Has(v.of, 0)
         \/ v.ty \in {"json", "bytea"} /\ Has(v.of, Backslash)
         \/ v.ty = "bytea" /\ \E k \in DOMAIN v.of : v.of[k] >= 128

\* Every column keeps the name and the type the server gave it, in order, and get_by_name
\* finds the value of the first column of a name, however many have it.
NamesFindTheirColumn ==
  stage = "row" =>
    /\ Len(row.columns) = Len(row.values)
    /\ \A n \in DOMAIN names :
         /\ row.columns[n] = [name |-> names[n], type_oid |-> oid(params[n])]
         /\ (\A m \in 1..n - 1 : names[m] # names[n]) =>
              get_by_name(params[n].ty, names[n]) = get(params[n].ty, n)
=============================================================================
