------------------------------- MODULE Config -------------------------------
(***************************************************************************)
(* src/config.rs: Config::parse of a connection string, either key=value   *)
(* pairs or a URI, and Config::apply_env.                                  *)
(*                                                                         *)
(* A text is a sequence of symbols: a character that means something to    *)
(* the parser, or a whole word that does not (a key, a number). The        *)
(* application writes each string from a list of settings; what the        *)
(* parsers make of it is compared with those settings.                     *)
(***************************************************************************)
EXTENDS Text, SequencesExt

CONSTANTS
  Chars,     \* the characters and words that the application's texts are made of
  DsnLists,  \* the lists of settings written as key=value pairs
  UriLists,  \* the lists of settings written as a URI
  Envs       \* environments: [Fields -> text or Unset]

VARIABLES
  stage,    \* "idle", "split", "uri", "parts", "parsed", "failed", "filled"
  given,    \* the settings that were written
  rest,     \* the text that has not been looked at
  current, in_single, in_double, parts,  \* its local variables
  config,   \* [Fields -> text or Unset]
  env       \* the environment that apply_env finds

vars == <<stage, given, rest, current, in_single, in_double, parts, config, env>>

\* ssl_root_cert, ssl_cert and ssl_key are treated like application_name.
Fields == {"host", "port", "user", "password", "dbname",
           "application_name", "connect_timeout", "sslmode"}

Unset == <<"(unset)">>   \* Option::None, or an environment variable that is not set

Default == [host |-> <<"127.0.0.1">>, port |-> <<"5432">>, user |-> <<>>, password |-> <<>>,
            dbname |-> <<"postgres">>, application_name |-> Unset, connect_timeout |-> Unset,
            sslmode |-> <<"prefer">>]

\* A setting as it is written: its key, its value, and how the value is put down: "bare",
\* "single" or "double" quotes in a pair, "raw" or "encoded" (percent) in a URI.
Setting(key, value, style) == [key |-> key, value |-> value, style |-> style]

Blank  == " "
Tab    == "\t"   \* any other white space
Single == "'"
Double == "\""

\* "other" is a key the parsers do not know.
Keys   == Fields \cup {"other"}
Quotes == {"bare", "single", "double"}

\* The keys that a URI has in its query.
QueryKeys == {"application_name", "connect_timeout", "sslmode", "other"}

SslModes == {"disable", "prefer", "require", "verify-ca", "verify-full"}
Ports    == {"5432", "5433"}                 \* the numbers among the symbols that fit u16
Seconds  == Ports \cup {"70000"}             \* those that fit u64

Bad == "(bad)"   \* an escape that cannot be decoded

\* Characters that only percent_decode makes: of bytes outside ASCII, and of escapes that
\* stand for nothing below.
Latin == {"A~", "(c)", "(byte)"}

\* Only the query of a URI can have a key more than once.
ASSUME ConfigAssumption ==
  /\ Chars \cap ({Bad, Unset[1]} \cup Latin) = {}
  /\ DsnLists \subseteq Seq([key : Keys, value : Seq(Chars), style : Quotes])
  /\ UriLists \subseteq Seq([key : Keys, value : Seq(Chars), style : {"raw", "encoded"}])
  /\ \A list \in UriLists : \A j, k \in DOMAIN list :
       list[j].key = list[k].key => j = k \/ list[j].key \in QueryKeys

\* str::parse of a number, parse_sslmode, and the outcome of percent_decode.
Valid(key, value) ==
  CASE key = "port"            -> value \in {<<n>> : n \in Ports}
    [] key = "connect_timeout" -> value \in {<<n>> : n \in Seconds}
    [] key = "sslmode"         -> value \in {<<m>> : m \in SslModes}
    [] OTHER -> ~Has(value, Bad)

Init ==
  /\ stage = "idle" /\ given = <<>> /\ rest = <<>>
  /\ current = <<>> /\ in_single = FALSE /\ in_double = FALSE /\ parts = <<>>
  /\ config = Default /\ env = [f \in Fields |-> Unset]

-----------------------------------------------------------------------------
(* key=value pairs *)

WritePair(s) ==
  LET q == CASE s.style = "single" -> <<Single>> [] s.style = "double" -> <<Double>> [] OTHER -> <<>>
  IN <<s.key, "=">> \o q \o s.value \o q

WriteDsn(list) == FlattenSeq([k \in DOMAIN list |-> WritePair(list[k]) \o <<Blank>>])

CallDsn(list) ==
  /\ stage = "idle" /\ stage' = "split"
  /\ given' = list /\ rest' = WriteDsn(list)
  /\ UNCHANGED <<current, in_single, in_double, parts, config, env>>

\* Mutant: a quote of the other kind inside a quoted value is not skipped.
SplitIgnoringOther ==
  /\ stage = "split" /\ rest # <<>>
  /\ LET ch == Head(rest)
         cut == ch = Blank /\ ~in_single /\ ~in_double
     IN /\ in_single' = (in_single # (ch = Single))
        /\ in_double' = (in_double # (ch = Double))
        /\ current' = IF cut THEN <<>> ELSE Append(current, ch)
        /\ parts' = IF cut /\ current # <<>> THEN Append(parts, current) ELSE parts
  /\ rest' = Tail(rest)
  /\ UNCHANGED <<stage, given, config, env>>

\* One turn of the loop of split_key_value_parts.
SplitChar ==
  /\ stage = "split" /\ rest # <<>>
  /\ LET ch == Head(rest)
         cut == ch = Blank /\ ~in_single /\ ~in_double
     IN /\ in_single' = (in_single # (ch = Single /\ ~in_double))
        /\ in_double' = (in_double # (ch = Double /\ ~in_single))
        /\ current' = IF cut THEN <<>> ELSE Append(current, ch)
        /\ parts' = IF cut /\ current # <<>> THEN Append(parts, current) ELSE parts
  /\ rest' = Tail(rest)
  /\ UNCHANGED <<stage, given, config, env>>

\* A value that begins and ends with the same quote loses both.
Stripped(value) ==
  IF Len(value) >= 2 /\ value[1] = Last(value) /\ value[1] \in {Single, Double}
    THEN SubSeq(value, 2, Len(value) - 1) ELSE value

\* The last part is pushed, and the surrounding quotes of values are removed.
SplitDone ==
  /\ stage = "split" /\ rest = <<>>
  /\ LET all == IF current # <<>> THEN Append(parts, current) ELSE parts
     IN parts' = [k \in DOMAIN all |->
                    IF Has(all[k], "=") THEN Before(all[k], "=") \o <<"=">> \o Stripped(After(all[k], "="))
                    ELSE all[k]]
  /\ stage' = "parts" /\ current' = <<>>
  /\ config' = [config EXCEPT !.dbname = <<>>]
  /\ UNCHANGED <<given, rest, in_single, in_double, env>>

\* str::trim.
Trimmed(text) ==
  LET kept == {k \in DOMAIN text : text[k] \notin {Blank, Tab}}
  IN IF kept = {} THEN <<>> ELSE SubSeq(text, Min(kept), Max(kept))

\* One turn of the loop of parse_key_value. Parts without "=" and unknown keys are ignored.
\* (parse_uri trims nothing: the keys of its parts are single words.)
ParsePart ==
  /\ stage = "parts" /\ parts # <<>>
  /\ LET key == Trimmed(Before(Head(parts), "="))  value == After(Head(parts), "=") IN
     IF Has(Head(parts), "=") /\ key \in {<<f>> : f \in Fields}
       THEN IF Valid(key[1], value)
              THEN config' = [config EXCEPT ![key[1]] = value] /\ UNCHANGED stage
              ELSE stage' = "failed" /\ UNCHANGED config
       ELSE UNCHANGED <<stage, config>>
  /\ parts' = Tail(parts)
  /\ UNCHANGED <<given, rest, current, in_single, in_double, env>>

\* Mutant: the user is not required.
AcceptNoUser(c) ==
  /\ stage' = "parsed"
  /\ config' = IF c.dbname = <<>> THEN [c EXCEPT !.dbname = Default.dbname] ELSE c

\* The end of both parsers: a user is required, dbname has a default.
Checked(c) ==
  IF c.user = <<>> THEN stage' = "failed" /\ config' = c
  ELSE /\ stage' = "parsed"
       /\ config' = IF c.dbname = <<>> THEN [c EXCEPT !.dbname = Default.dbname] ELSE c

PartsDone ==
  /\ stage = "parts" /\ parts = <<>>
  /\ Checked(config)
  /\ UNCHANGED <<given, rest, current, in_single, in_double, parts, env>>

-----------------------------------------------------------------------------
(* URIs *)

\* "e'" is a character outside ASCII: two bytes in a text, which are Latin-1 characters
\* of their own when each is taken for one.
Bytes(text) ==
  FlattenSeq([k \in DOMAIN text |-> IF text[k] = "e'" THEN <<"A~", "(c)">> ELSE <<text[k]>>])

\* The bytes that are written in percent encoding, and their hex digits.
Code ==
  [c \in {":", "@", "/", "?", "%", "+", Blank, "&", "A~", "(c)"} |->
     CASE c = ":" -> <<"3", "a">> [] c = "@" -> <<"4", "0">> [] c = "/" -> <<"2", "f">>
       [] c = "?" -> <<"3", "f">> [] c = "%" -> <<"2", "5">> [] c = "+" -> <<"2", "b">>
       [] c = Blank -> <<"2", "0">> [] c = "&" -> <<"2", "6">>
       [] c = "A~" -> <<"c", "3">> [] c = "(c)" -> <<"a", "9">>]

HexDigits == {"0", "2", "3", "4", "5", "6", "9", "a", "b", "c", "f"}

Written(s) ==
  LET bytes == Bytes(s.value)
  IN IF s.style = "raw" THEN s.value
     ELSE FlattenSeq([k \in DOMAIN bytes |->
            IF bytes[k] \in DOMAIN Code THEN <<"%">> \o Code[bytes[k]] ELSE <<bytes[k]>>])

\* scheme user:password@host:port/dbname?key=value&key=value, without what is not given.
WriteUri(list) ==
  LET part(key, prefix) ==
        FlattenSeq([k \in DOMAIN list |-> IF list[k].key = key THEN prefix \o Written(list[k]) ELSE <<>>])
      first(k) == \A j \in 1..k - 1 : list[j].key \notin QueryKeys
      at == IF \E k \in DOMAIN list : list[k].key \in {"user", "password"} THEN <<"@">> ELSE <<>>
  IN part("user", <<>>) \o part("password", <<":">>) \o at
       \o part("host", <<>>) \o part("port", <<":">>) \o part("dbname", <<"/">>)
       \o FlattenSeq([k \in DOMAIN list |->
            IF list[k].key \in QueryKeys
              THEN <<IF first(k) THEN "?" ELSE "&", list[k].key, "=">> \o Written(list[k]) ELSE <<>>])

\* Mutant: an escape at the end of the text is not decoded.
DecodeNotLast(text) ==
  LET bytes == Bytes(text)
      Byte(hex) == IF hex \in Range(Code) THEN CHOOSE c \in DOMAIN Code : Code[c] = hex
                   ELSE IF hex[1] \in HexDigits \cup {"+"} /\ hex[2] \in HexDigits THEN "(byte)" ELSE Bad
      read == [k \in DOMAIN bytes |->
                 IF bytes[k] = "%" /\ k + 2 < Len(bytes)
                   THEN Read(<<Byte(SubSeq(bytes, k + 1, k + 2))>>, k + 3)
                   ELSE Read(<<IF bytes[k] = "+" THEN Blank ELSE bytes[k]>>, k + 1)]
  IN From(Len(bytes), read)[1]

\* Each byte becomes a character of its own, an escape without two digits (or a sign and a
\* digit, to from_str_radix) an error; "%" in the last two places stands for itself.
percent_decode(text) ==
  LET bytes == Bytes(text)
      Byte(hex) == IF hex \in Range(Code) THEN CHOOSE c \in DOMAIN Code : Code[c] = hex
                   ELSE IF hex[1] \in HexDigits \cup {"+"} /\ hex[2] \in HexDigits THEN "(byte)" ELSE Bad
      read == [k \in DOMAIN bytes |->
                 IF bytes[k] = "%" /\ k + 2 <= Len(bytes)
                   THEN Read(<<Byte(SubSeq(bytes, k + 1, k + 2))>>, k + 3)
                   ELSE Read(<<IF bytes[k] = "+" THEN Blank ELSE bytes[k]>>, k + 1)]
  IN From(Len(bytes), read)[1]

\* What the parts of a URI assign to the fields. user:password@ where present.
FromUserinfo(authority) ==
  LET info == Before(authority, "@")
  IN IF ~Has(authority, "@") \/ authority[1] = "@" THEN <<>>
     ELSE << <<"user", "=">> \o percent_decode(Before(info, ":")) >>
            \o (IF Has(info, ":") THEN << <<"password", "=">> \o percent_decode(After(info, ":")) >> ELSE <<>>)

FromHostport(hostport) ==
  IF Has(hostport, ":")
    THEN << <<"host", "=">> \o Before(hostport, ":"), <<"port", "=">> \o After(hostport, ":") >>
  ELSE IF hostport # <<>> THEN << <<"host", "=">> \o hostport >> ELSE <<>>

\* The path without its leading slashes, not decoded.
FromPath(path) ==
  LET names == {k \in DOMAIN path : path[k] # "/"}
  IN IF names = {} THEN <<>> ELSE << <<"dbname", "=">> \o SubSeq(path, Min(names), Len(path)) >>

\* Of the query, the pairs of a key that is known.
FromPair(pair) ==
  LET key == Before(pair, "=")  value == After(pair, "=") IN
  IF ~Has(pair, "=") \/ key \notin {<<f>> : f \in QueryKeys} THEN <<>>
  ELSE << <<key[1], "=">> \o (IF key[1] = "application_name" THEN percent_decode(value) ELSE value) >>

FromQuery(query) ==
  LET pairs == Split(query, "&") IN FlattenSeq([k \in DOMAIN pairs |-> FromPair(pairs[k])])

CallUri(list) ==
  /\ stage = "idle" /\ stage' = "uri"
  /\ given' = list /\ rest' = WriteUri(list)
  /\ UNCHANGED <<current, in_single, in_double, parts, config, env>>

\* parse_uri, after the scheme, up to the assignments, which ParsePart makes in their order.
ParseUri ==
  /\ stage = "uri" /\ stage' = "parts" /\ rest' = <<>>
  /\ LET authority == Before(Before(rest, "?"), "/")
         hostport  == IF Has(authority, "@") THEN After(authority, "@") ELSE authority
     IN parts' = FromUserinfo(authority) \o FromHostport(hostport)
                   \o FromPath(After(Before(rest, "?"), "/")) \o FromQuery(After(rest, "?"))
  /\ UNCHANGED <<given, current, in_single, in_double, config, env>>

-----------------------------------------------------------------------------
(* The environment *)

\* Mutant: every variable that is set is taken.
TakeAllEnv(e) ==
  /\ stage \in {"idle", "parsed"} /\ stage' = "filled" /\ env' = e
  /\ config' = [f \in Fields |-> IF e[f] # Unset /\ Valid(f, e[f]) THEN e[f] ELSE config[f]]
  /\ UNCHANGED <<given, rest, current, in_single, in_double, parts>>

\* apply_env, on a parsed Config or on Config::new(). A field that has its default is
\* taken for missing; a variable that does not parse is ignored.
ApplyEnv(e) ==
  /\ stage \in {"idle", "parsed"} /\ stage' = "filled" /\ env' = e
  /\ config' = [f \in Fields |->
       IF config[f] = Default[f] /\ e[f] # Unset /\ Valid(f, e[f]) THEN e[f] ELSE config[f]]
  /\ UNCHANGED <<given, rest, current, in_single, in_double, parts>>

-----------------------------------------------------------------------------
Call ==
  /\ stage = "idle"
  /\ (\E list \in DsnLists : CallDsn(list)) \/ (\E list \in UriLists : CallUri(list))

Next ==
  \/ Call \/ ParseUri \/ SplitChar \/ SplitDone \/ ParsePart \/ PartsDone
  \/ \E e \in Envs : ApplyEnv(e)

Spec == Init /\ [][Next]_vars

-----------------------------------------------------------------------------
(* Properties *)

Symbols(text) == ToSet(text)

\* Type invariant; a Config that parse returns has a user, a database, and a port and an
\* sslmode that exist.
TypeOK ==
  /\ stage \in {"idle", "split", "uri", "parts", "parsed", "failed", "filled"}
  /\ {in_single, in_double} \subseteq BOOLEAN
  /\ DOMAIN config = Fields
  /\ stage \in {"parsed", "filled"} => \A f \in Fields : config[f] = Unset \/ Valid(f, config[f])
  /\ stage = "parsed" => config.user # <<>> /\ config.dbname # <<>>

\* The value of the last setting of a key.
GivenAs(f) ==
  LET those == {k \in DOMAIN given : given[k].key = f}
  IN IF those = {} THEN Unset ELSE given[Max(those)].value

\* What the settings mean: the last one of a key counts, what is not given has its
\* default, and so has an empty database.
Meant ==
  [f \in Fields |->
     IF GivenAs(f) = Unset \/ (f = "dbname" /\ GivenAs(f) = <<>>) THEN Default[f] ELSE GivenAs(f)]

Acceptable == Meant.user # <<>> /\ \A k \in DOMAIN given : Valid(given[k].key, given[k].value)

ReadsAsMeant == IF Acceptable THEN stage = "parsed" /\ config = Meant ELSE stage = "failed"

Parsed == stage \in {"parsed", "failed"}

\* A bare value with a space or a quote, or a quoted one with its own quote: there is no
\* escape for them.
HasOwnQuote ==
  \E k \in DOMAIN given : LET s == given[k] IN
    \/ s.style = "bare" /\ Symbols(s.value) \cap {Blank, Single, Double} # {}
    \/ s.style = "single" /\ Single \in Symbols(s.value)
    \/ s.style = "double" /\ Double \in Symbols(s.value)

\* A list of settings, written as key=value pairs, is read back as it was meant: values
\* with spaces, "=" and the other quote, repeated and unknown keys included.
DsnReadsBack ==
  (Parsed /\ \A k \in DOMAIN given : given[k].style \in {"bare", "single", "double"}) =>
    ReadsAsMeant \/ HasOwnQuote

\* What a component of a URI cannot contain without percent encoding.
Delimiters ==
  [user |-> {":", "@", "/", "?", "%", "+"}, password |-> {"@", "/", "?", "%", "+"},
   host |-> {":", "@", "/", "?"}, port |-> {"@", "/", "?"}, dbname |-> {"?", "/"},
   application_name |-> {"&", "%", "+"}, connect_timeout |-> {"&"}, sslmode |-> {"&"}, other |-> {"&"}]

Undelimited ==
  \E k \in DOMAIN given : LET s == given[k] IN
    s.style = "raw" /\ Symbols(s.value) \cap Delimiters[s.key] # {}

\* Only these are percent-decoded.
Decoded == {"user", "password", "application_name"}

EncodedInVain ==
  \E k \in DOMAIN given : LET s == given[k] IN
    s.key \notin Decoded /\ s.style = "encoded" /\ Written(s) # s.value

\* Decoded text outside ASCII becomes one character for each byte.
OutsideAscii ==
  \E k \in DOMAIN given : given[k].key \in Decoded /\ "e'" \in Symbols(given[k].value)

\* ":5433" without a host is a host with an empty name; without a port, that is no host.
EmptyHost ==
  \/ GivenAs("host") = Unset /\ GivenAs("port") # Unset
  \/ GivenAs("host") = <<>> /\ GivenAs("port") = Unset

\* A list of settings, written as a URI, is read back as it was meant, whatever delimiters
\* the encoded components contain, except in the four cases.
UriReadsBack ==
  (Parsed /\ \A k \in DOMAIN given : given[k].style \in {"raw", "encoded"}) =>
    ReadsAsMeant \/ Undelimited \/ EncodedInVain \/ OutsideAscii \/ EmptyHost

ReadOtherwise == HasOwnQuote \/ Undelimited \/ EncodedInVain \/ OutsideAscii \/ EmptyHost

\* What a field is given, else what the environment has for it, else its default.
Filled(f) ==
  config[f] = IF GivenAs(f) = Unset /\ env[f] # Unset /\ Valid(f, env[f]) THEN env[f] ELSE Meant[f]

\* apply_env keeps what the connection string gave and takes what it did not give from the
\* environment, except that a setting with the default as its value is replaced too: the
\* code compares with the default, and cannot tell it from a value that is missing.
EnvReplacesOnlyDefaults ==
  stage = "filled" =>
    ReadOtherwise \/ \A f \in Fields : Filled(f) \/ (GivenAs(f) # Unset /\ Meant[f] = Default[f])

\* A comment of apply_env (src/config.rs:50): fill missing values from environment
\* variables. Then a value that is not missing stays. A run finds that a setting with the
\* default as its value (sslmode=prefer, say) is replaced.
EnvFillsMissing ==
  stage = "filled" =>
    ReadOtherwise \/ \A f \in Fields : Filled(f) \/ GivenAs(f) = <<>>
=============================================================================
