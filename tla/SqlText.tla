------------------------------ MODULE SqlText -------------------------------
(***************************************************************************)
(* How the server reads the text of a statement, as far as placeholders,   *)
(* literals and quoted names are concerned. External: the lexical rules of *)
(* the server the text is written for, with standard_conforming_strings.   *)
(* A text is a sequence of byte values.                                    *)
(*                                                                         *)
(* Operators are left as single bytes, a number as its runs of digits, and *)
(* the escapes of U&'..' as they are: where a value that is put in would   *)
(* become a part of one of these, Params says so (Touching, MinusSwallowed).*)
(***************************************************************************)
EXTENDS Text, Integers

Space == 32
Newlines == {10, 13}
Spaces == {Space, 9, 12} \cup Newlines
Quote == 39
DQuote == 34
Dollar == 36
Minus == 45
Slash == 47
Star == 42
Backslash == 92
LetterE == 69
SmallE == 101

Digits == 48..57
\* What a name begins with, and what it goes on with.
Letters == (65..90) \cup (97..122) \cup {95} \cup (128..255)
NameBytes == Letters \cup Digits \cup {Dollar}

\* The digits of n in Nat.
Decimal(n) ==
  LET digits[m \in 0..n] ==
        IF m < 10 THEN <<48 + m>> ELSE Append(digits[m \div 10], 48 + (m % 10))
  IN digits[n]

\* What a sequence of digits denotes.
NumberOf(text) ==
  LET number[k \in 0..Len(text)] == IF k = 0 THEN 0 ELSE 10 * number[k - 1] + text[k] - 48
  IN number[Len(text)]

\* The byte at place k, 0 behind the end.
Byte(text, k) == IF k <= Len(text) THEN text[k] ELSE 0

\* The first place from k on whose byte is not in S.
Past(text, k, S) ==
  CHOOSE j \in k..Len(text) + 1 : Byte(text, j) \notin S /\ \A n \in k..j - 1 : Byte(text, n) \in S

\* The place of the closing quote from a place on, as a sequence that is empty without one. A
\* doubled quote is part of the text, and so is what follows a backslash with escapes.
Close(text, from, quote, escapes) ==
  LET Escape(k) == escapes /\ text[k] = Backslash
      Closes(k) == text[k] = quote /\ ~Escape(k) /\ Byte(text, k + 1) # quote
      Double(k) == Escape(k) \/ text[k] = quote
      read == [k \in DOMAIN text |->
                 IF Closes(k) THEN Read(<<k>>, Len(text) + 1)
                 ELSE Read(<<>>, IF Double(k) /\ k < Len(text) THEN k + 2 ELSE k + 1)]
  IN From(Len(text), read)[from]

Token(is, of) == [is |-> is, of |-> of]

\* A token of bytes in S, from a place on.
Word(text, is, from, S) ==
  LET end == Past(text, from, S) IN Read(<<Token(is, SubSeq(text, from, end - 1))>>, end)

\* A literal or a quoted name whose text begins at a place.
Quoted(text, is, from, quote, escapes) ==
  LET close == Close(text, from, quote, escapes)
      body  == Replace(SubSeq(text, from, close[1] - 1), <<quote, quote>>, <<quote>>)
  IN IF close = <<>> THEN Read(<<Token("error", <<>>)>>, Len(text) + 1)
     ELSE Read(<<Token(is, IF escapes THEN Replace(body, <<Backslash, Backslash>>, <<Backslash>>)
                                      ELSE body)>>, close[1] + 1)

\* The first place from a place on where a part stands, as a sequence that is empty without
\* one.
Where(text, part, from) ==
  LET found == {j \in from..Len(text) : StartsAt(text, part, j)}
  IN IF found = {} THEN <<>> ELSE <<CHOOSE j \in found : \A m \in found : j <= m>>

\* All that is left of a text, where this module reads no further.
Unread(text, k) == Read(<<Token("rest", SubSeq(text, k, Len(text)))>>, Len(text) + 1)

\* A comment up to the end of its line, and one that is closed. One that has another inside
\* is not read.
LineComment(text, k) == Read(<<>>, Past(text, k, (1..255) \ Newlines))

Comment(text, k) ==
  LET close  == Where(text, <<Star, Slash>>, k + 2)
      nested == \E m \in k + 2..close[1] : StartsAt(text, <<Slash, Star>>, m)
  IN IF close = <<>> \/ nested THEN Unread(text, k) ELSE Read(<<>>, close[1] + 2)

\* A literal between two equal delimiters: a name, or nothing, between two dollars.
DollarQuoted(text, k) ==
  LET open      == Past(text, k + 1, NameBytes \ {Dollar})
      delimiter == SubSeq(text, k, open)
      close     == Where(text, delimiter, open + 1)
  IN IF Byte(text, open) # Dollar \/ close = <<>> THEN Unread(text, k)
     ELSE Read(<<Token("str", SubSeq(text, open + 1, close[1] - 1))>>, close[1] + Len(delimiter))

\* What stands at place k: its token, and where the next one begins. Tokens are "param",
\* "num", "str", "ident" (quoted), "name", "op", "error" for a quote that is never closed,
\* and "rest".
TokenAt(text, k) ==
  LET next    == Byte(text, k + 1)
      escaped == text[k] \in {LetterE, SmallE} /\ next = Quote
  IN
  CASE text[k] \in Spaces -> Read(<<>>, k + 1)
    [] text[k] = Minus /\ next = Minus -> LineComment(text, k)
    [] text[k] = Slash /\ next = Star -> Comment(text, k)
    [] text[k] = Quote -> Quoted(text, "str", k + 1, Quote, FALSE)
    [] escaped -> Quoted(text, "str", k + 2, Quote, TRUE)
    [] text[k] = DQuote -> Quoted(text, "ident", k + 1, DQuote, FALSE)
    [] text[k] = Dollar /\ next \in Digits -> Word(text, "param", k + 1, Digits)
    [] text[k] = Dollar /\ next \notin Digits -> DollarQuoted(text, k)
    [] text[k] \in Digits -> Word(text, "num", k, Digits)
    [] text[k] \in Letters /\ ~escaped -> Word(text, "name", k, NameBytes)
    [] OTHER -> Read(<<Token("op", <<text[k]>>)>>, k + 1)

\* The tokens of a text.
Lex(text) ==
  From(Len(text), [k \in DOMAIN text |-> TokenAt(text, k)])[1]

\* The places where tokens begin, and where spaces and comments do.
Starts(text) ==
  LET places == From(Len(text), [k \in DOMAIN text |-> Read(<<k>>, TokenAt(text, k).next)])[1]
  IN {places[j] : j \in DOMAIN places}

\* The places of a dollar and a digit, and the digits behind one.
Marked(text) == {k \in DOMAIN text : text[k] = Dollar /\ Byte(text, k + 1) \in Digits}
MarkEnd(text, k) == Past(text, k + 1, Digits)
NumberAt(text, k) == SubSeq(text, k + 1, MarkEnd(text, k) - 1)
=============================================================================
