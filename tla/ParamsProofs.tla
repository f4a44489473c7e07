---------------------------- MODULE ParamsProofs ----------------------------
(***************************************************************************)
(* Proofs about Params: what quote_string and double_quote_identifier      *)
(* write is one literal or name of that text; what a Bind, a               *)
(* RowDescription and a DataRow say is what was put into them; and a       *)
(* statement with substituted parameters reads as if each placeholder      *)
(* stood for its value. For every text, every list of parameters and every *)
(* count.                                                                  *)
(***************************************************************************)
EXTENDS Params, DataProofs

(* Numbers as digits: i16::to_string and str::parse *)

LEMMA Quotient ==
  ASSUME NEW m \in Nat, m >= 10
  PROVE  m \div 10 \in 0..m - 1 /\ m % 10 \in 0..9 /\ m = 10 * (m \div 10) + (m % 10)
  OBVIOUS

\* One entry of the recursive function of Decimal, and all of them up to n.
DigitsAt(f, m) == IF m < 10 THEN <<48 + m>> ELSE Append(f[m \div 10], 48 + (m % 10))

Digital(n, f) == \A m \in 0..n : f[m] = DigitsAt(f, m)

LEMMA DigitsExist ==
  ASSUME NEW n \in Nat
  PROVE  \E f : f = [m \in 0..n |-> DigitsAt(f, m)]
  <1> DEFINE S == {j \in Nat : \E f : f = [m \in 0..j |-> DigitsAt(f, m)]}
  <1>1. 0 \in S
    <2> DEFINE f == [m \in 0..0 |-> <<48 + m>>]
    <2>1. \A m \in 0..0 : f[m] = <<48 + m>> /\ m < 10
      OBVIOUS
    <2>2. f = [m \in 0..0 |-> f[m]]
      OBVIOUS
    <2> HIDE DEF f
    <2>3. \A m \in 0..0 : f[m] = DigitsAt(f, m)
      BY <2>1 DEF DigitsAt
    <2>4. f = [m \in 0..0 |-> DigitsAt(f, m)]
      BY <2>2, <2>3
    <2> QED
      BY <2>4
  <1>2. ASSUME NEW j \in Nat, j \in S PROVE j + 1 \in S
    <2>1. PICK f : f = [m \in 0..j |-> DigitsAt(f, m)]
      BY <1>2
    <2>2. \A m \in 0..j : f[m] = DigitsAt(f, m)
      BY <2>1
    <2> DEFINE g == [m \in 0..j + 1 |-> IF m = j + 1 THEN DigitsAt(f, m) ELSE f[m]]
    <2>3. g[j + 1] = DigitsAt(f, j + 1) /\ \A m \in 0..j : g[m] = f[m]
      OBVIOUS
    <2>4. g = [m \in 0..j + 1 |-> g[m]]
      OBVIOUS
    <2> HIDE DEF g
    <2>5. ASSUME NEW m \in 0..j + 1 PROVE DigitsAt(f, m) = DigitsAt(g, m)
      <3>1. CASE m < 10
        BY <3>1 DEF DigitsAt
      <3>2. CASE ~(m < 10)
        <4>1. m \div 10 \in 0..m - 1
          BY <3>2, Quotient
        <4>2. m \div 10 \in 0..j
          BY <4>1
        <4>3. g[m \div 10] = f[m \div 10]
          BY <2>3, <4>2
        <4> QED
          BY <4>3 DEF DigitsAt
      <3> QED
        BY <3>1, <3>2
    <2>6. \A m \in 0..j + 1 : g[m] = DigitsAt(g, m)
      BY <2>2, <2>3, <2>5
    <2>7. g = [m \in 0..j + 1 |-> DigitsAt(g, m)]
      BY <2>4, <2>6
    <2> QED
      BY <2>7
  <1> HIDE DEF S
  <1>3. Nat \subseteq S
    BY <1>1, <1>2, SetInduction
  <1> QED
    BY <1>3 DEF S

LEMMA DigitsAgree ==
  ASSUME NEW n \in Nat, NEW k \in Nat, NEW f, NEW g,
         Digital(n, f), Digital(k, g)
  PROVE  \A m \in Nat : m <= n /\ m <= k => f[m] = g[m]
  <1> DEFINE S == {m \in Nat : m <= n /\ m <= k => f[m] = g[m]}
  <1>1. ASSUME NEW m \in Nat, \A j \in 0..m - 1 : j \in S PROVE m \in S
    <2> SUFFICES ASSUME m <= n, m <= k PROVE f[m] = g[m]
      OBVIOUS
    <2>1. f[m] = DigitsAt(f, m) /\ g[m] = DigitsAt(g, m)
      BY DEF Digital
    <2>2. CASE m < 10
      BY <2>1, <2>2 DEF DigitsAt
    <2>3. CASE ~(m < 10)
      <3>1. m \div 10 \in 0..m - 1
        BY <2>3, Quotient
      <3>2. f[m \div 10] = g[m \div 10]
        BY <1>1, <3>1
      <3> QED
        BY <2>1, <3>2 DEF DigitsAt
    <2> QED
      BY <2>2, <2>3
  <1> HIDE DEF S
  <1>2. Nat \subseteq S
    BY <1>1, StrongSetInduction
  <1> QED
    BY <1>2 DEF S

LEMMA DecimalStep ==
  ASSUME NEW n \in Nat
  PROVE  Decimal(n) = IF n < 10 THEN <<48 + n>> ELSE Append(Decimal(n \div 10), 48 + (n % 10))
  <1> DEFINE Digit(j) == CHOOSE f : f = [m \in 0..j |-> DigitsAt(f, m)]
  <1>1. \A j \in Nat : Decimal(j) = Digit(j)[j]
    BY DEF Decimal, DigitsAt
  <1>2. ASSUME NEW j \in Nat PROVE \A m \in 0..j : Digit(j)[m] = DigitsAt(Digit(j), m)
    <2>1. PICK f : f = Digit(j)
      OBVIOUS
    <2>2. f = [m \in 0..j |-> DigitsAt(f, m)]
      BY <2>1, DigitsExist
    <2> HIDE DEF Digit
    <2>3. \A m \in 0..j : f[m] = DigitsAt(f, m)
      BY <2>2
    <2> QED
      BY <2>1, <2>3
  <1> HIDE DEF Digit
  <1>3. PICK f : f = Digit(n)
    OBVIOUS
  <1>4. n \in 0..n
    OBVIOUS
  <1>5. Decimal(n) = DigitsAt(f, n)
    BY <1>1, <1>2, <1>3, <1>4
  <1>6. CASE n < 10
    BY <1>5, <1>6 DEF DigitsAt
  <1>7. CASE ~(n < 10)
    <2>1. PICK j \in Nat : j = n \div 10 /\ j <= n
      BY <1>7, Quotient
    <2>2. PICK g : g = Digit(j)
      OBVIOUS
    <2>3. Digital(n, f) /\ Digital(j, g)
      BY <1>2, <1>3, <2>2 DEF Digital
    <2>4. f[j] = g[j]
      <3>1. \A m \in Nat : m <= n /\ m <= j => f[m] = g[m]
        BY <2>3, DigitsAgree
      <3> QED
        BY <2>1, <3>1
    <2>5. Decimal(j) = f[j]
      BY <1>1, <2>2, <2>4
    <2> QED
      BY <1>5, <1>7, <2>1, <2>5 DEF DigitsAt
  <1> QED
    BY <1>6, <1>7

\* The number that the first k symbols of a text denote.
Counted(s, f, n) ==
  f[0] = 0 /\ \A k \in 1..n : f[k] = 10 * f[k - 1] + s[k] - 48

Same(n, s, t) == \A k \in 1..n : s[k] = t[k]

LEMMA CountedAgree ==
  ASSUME NEW n \in Nat, NEW s, NEW t, Same(n, s, t),
         NEW f, NEW g, Counted(s, f, n), Counted(t, g, n)
  PROVE  f[n] = g[n]
  <1> DEFINE S == {k \in Nat : k <= n => f[k] = g[k]}
  <1>1. 0 \in S
    BY DEF Counted
  <1>2. ASSUME NEW k \in Nat, k \in S PROVE k + 1 \in S
    <2> SUFFICES ASSUME k + 1 <= n PROVE f[k + 1] = g[k + 1]
      OBVIOUS
    <2>1. PICK i0 : i0 = k + 1
      OBVIOUS
    <2>2. i0 \in 1..n /\ i0 - 1 = k
      BY <2>1
    <2>3. f[i0] = 10 * f[i0 - 1] + s[i0] - 48 /\ g[i0] = 10 * g[i0 - 1] + t[i0] - 48 /\ s[i0] = t[i0]
      BY <2>2 DEF Counted, Same
    <2>4. f[k] = g[k]
      BY <1>2
    <2> QED
      BY <2>1, <2>2, <2>3, <2>4
  <1> HIDE DEF S
  <1>3. Nat \subseteq S
    BY <1>1, <1>2, SetInduction
  <1> QED
    BY <1>3 DEF S

LEMMA NumberCounted ==
  ASSUME NEW s \in Seq(Int)
  PROVE  \E f : Counted(s, f, Len(s)) /\ NumberOf(s) = f[Len(s)] /\ NumberOf(s) \in Int
  <1>1. PICK n \in Nat : n = Len(s)
    BY LenProperties
  <1>2. \A k \in 1..n : s[k] \in Int
    BY <1>1, ElementOfSeq
  <1> DEFINE h == [k \in 1..n |-> [x \in Int |-> 10 * x + s[k] - 48]]
  <1>3. Steps(n, Int, h)
    BY <1>2 DEF Steps
  <1>4. \A k \in 1..n : \A x \in Int : h[k][x] = 10 * x + s[k] - 48
    OBVIOUS
  <1> HIDE DEF h
  <1>5. PICK f \in [0..n -> Int] : f[0] = 0 /\ \A k \in 1..n : f[k] = h[k][f[k - 1]]
    <2>1. PICK V, v, g : V = Int /\ v = 0 /\ g = h
      OBVIOUS
    <2>2. v \in V /\ Steps(n, V, g)
      BY <1>3, <2>1
    <2>3. \E f \in [0..n -> V] : f[0] = v /\ \A k \in 1..n : f[k] = g[k][f[k - 1]]
      BY <2>2, StepsExist
    <2> QED
      BY <2>1, <2>3
  <1>6. Counted(s, f, n)
    <2>1. \A k \in 1..n : k - 1 \in 0..n
      OBVIOUS
    <2>2. \A k \in 1..n : f[k - 1] \in Int
      BY <1>5, <2>1
    <2> QED
      BY <1>4, <1>5, <2>2 DEF Counted
  <1> DEFINE All(g) == [k \in 0..n |-> IF k = 0 THEN 0 ELSE 10 * g[k - 1] + s[k] - 48]
  <1>7. f = All(f)
    BY <1>5, <1>6 DEF Counted
  <1>8. PICK g : g = CHOOSE x : x = All(x)
    OBVIOUS
  <1>9. g = All(g)
    BY <1>7, <1>8
  <1>10. NumberOf(s) = g[n]
    BY <1>1, <1>8 DEF NumberOf
  <1>11. Counted(s, g, n)
    BY <1>9 DEF Counted
  <1>12. f[n] = g[n]
    <2>1. Same(n, s, s)
      BY DEF Same
    <2> QED
      BY <1>6, <1>11, <2>1, CountedAgree
  <1>13. f[n] \in Int
    BY <1>5
  <1> QED
    BY <1>1, <1>6, <1>10, <1>12, <1>13

LEMMA NumberOfDigit ==
  ASSUME NEW d \in Int
  PROVE  NumberOf(<<d>>) = d - 48
  <1>1. PICK t : t = <<d>>
    OBVIOUS
  <1>2. t \in Seq(Int) /\ Len(t) = 1 /\ t[1] = d
    BY <1>1
  <1>3. PICK f : Counted(t, f, 1) /\ NumberOf(t) = f[1]
    BY <1>2, NumberCounted
  <1>4. f[1] = 10 * f[1 - 1] + t[1] - 48 /\ f[0] = 0
    BY <1>3 DEF Counted
  <1>5. 1 - 1 = 0
    OBVIOUS
  <1>6. f[1] = 10 * 0 + d - 48
    BY <1>2, <1>4, <1>5
  <1> QED
    BY <1>1, <1>3, <1>6

LEMMA NumberOfAppend ==
  ASSUME NEW s \in Seq(Int), NEW d \in Int
  PROVE  NumberOf(Append(s, d)) = 10 * NumberOf(s) + d - 48
  <1>1. PICK n \in Nat : n = Len(s)
    BY LenProperties
  <1>2. PICK t : t = Append(s, d)
    OBVIOUS
  <1>3. t \in Seq(Int) /\ Len(t) = n + 1 /\ t[n + 1] = d /\ Same(n, t, s)
    BY <1>1, <1>2, AppendProperties DEF Same
  <1>4. PICK f : Counted(t, f, n + 1) /\ NumberOf(t) = f[n + 1]
    BY <1>3, NumberCounted
  <1>5. PICK g : Counted(s, g, n) /\ NumberOf(s) = g[n] /\ NumberOf(s) \in Int
    BY <1>1, NumberCounted
  <1>6. Counted(t, f, n)
    BY <1>4 DEF Counted
  <1>7. f[n] = g[n]
    BY <1>3, <1>5, <1>6, CountedAgree
  <1>8. PICK k : k = n + 1
    OBVIOUS
  <1>9. k \in 1..n + 1 /\ k - 1 = n
    BY <1>8
  <1>10. f[k] = 10 * f[k - 1] + t[k] - 48
    BY <1>4, <1>9 DEF Counted
  <1> QED
    BY <1>2, <1>3, <1>4, <1>5, <1>7, <1>8, <1>9, <1>10

\* What to_string writes consists of digits and is parsed as the same number.
LEMMA DecimalIs ==
  ASSUME NEW n \in Nat
  PROVE  /\ Decimal(n) \in Seq(Digits) /\ Len(Decimal(n)) > 0
         /\ NumberOf(Decimal(n)) = n
  <1> DEFINE S == {m \in Nat : /\ Decimal(m) \in Seq(Digits) /\ Len(Decimal(m)) > 0
                               /\ NumberOf(Decimal(m)) = m}
  <1>1. ASSUME NEW m \in Nat, \A j \in 0..m - 1 : j \in S PROVE m \in S
    <2>1. CASE m < 10
      <3>1. PICK d \in Digits : d = 48 + m
        BY <2>1 DEF Digits
      <3>2. d \in Int
        BY <3>1
      <3>3. Decimal(m) = <<d>>
        BY <2>1, <3>1, DecimalStep
      <3>4. <<d>> \in Seq(Digits) /\ Len(<<d>>) > 0
        OBVIOUS
      <3>5. NumberOf(<<d>>) = m
        BY <3>1, <3>2, NumberOfDigit
      <3> QED
        BY <3>3, <3>4, <3>5
    <2>2. CASE ~(m < 10)
      <3>1. PICK j \in 0..m - 1, r \in 0..9 : j = m \div 10 /\ r = m % 10 /\ m = 10 * j + r
        BY <2>2, Quotient
      <3>2. PICK s \in Seq(Digits) : s = Decimal(j) /\ Len(s) > 0 /\ NumberOf(s) = j
        BY <1>1, <3>1
      <3>3. PICK d \in Digits : d = 48 + r
        BY DEF Digits
      <3>4. Decimal(m) = Append(s, d)
        BY <2>2, <3>1, <3>2, <3>3, DecimalStep
      <3>5. Append(s, d) \in Seq(Digits) /\ Len(Append(s, d)) = Len(s) + 1 /\ Len(s) \in Nat
        BY AppendProperties, LenProperties
      <3>6. s \in Seq(Int) /\ d \in Int
        <4>1. Digits \subseteq Int
          BY DEF Digits
        <4> QED
          BY <4>1, SeqMonotonic
      <3>7. NumberOf(Append(s, d)) = 10 * j + d - 48
        BY <3>2, <3>6, NumberOfAppend
      <3>8. 10 * j + d - 48 = m
        BY <3>1, <3>3
      <3> QED
        <4>1. Len(Append(s, d)) > 0
          BY <3>5
        <4>2. NumberOf(Append(s, d)) = m
          BY <3>7, <3>8
        <4> QED
          BY <3>4, <3>5, <4>1, <4>2
    <2> QED
      BY <2>1, <2>2
  <1> HIDE DEF S
  <1>2. Nat \subseteq S
    BY <1>1, StrongSetInduction
  <1> QED
    BY <1>2 DEF S

-----------------------------------------------------------------------------
(* The token at a place *)

CommentAt(s, k) == s[k] = Minus /\ Byte(s, k + 1) = Minus
BlockAt(s, k)   == s[k] = Slash /\ Byte(s, k + 1) = Star
EscapedAt(s, k) == s[k] \in {LetterE, SmallE} /\ Byte(s, k + 1) = Quote
ParamAt(s, k)   == s[k] = Dollar /\ Byte(s, k + 1) \in Digits
DollarAt(s, k)  == s[k] = Dollar /\ Byte(s, k + 1) \notin Digits
NameAt(s, k)    == s[k] \in Letters /\ ~EscapedAt(s, k)
OpAt(s, k)      == /\ s[k] \notin Spaces \cup {Quote, DQuote, Dollar} \cup Digits \cup Letters
                   /\ ~CommentAt(s, k) /\ ~BlockAt(s, k)

\* A byte is of one class only.
LEMMA Apartness ==
  /\ Spaces \cap ({Quote, DQuote, Dollar, Minus, Slash} \cup Digits \cup Letters) = {}
  /\ Digits \cap ({Quote, DQuote, Dollar, Minus, Slash} \cup Letters) = {}
  /\ Letters \cap {Quote, DQuote, Dollar, Minus, Slash} = {}
  /\ {LetterE, SmallE} \subseteq Letters
  /\ Quote # DQuote /\ Quote # Dollar /\ Quote # Minus /\ Quote # Slash /\ DQuote # Dollar
  /\ DQuote # Minus /\ DQuote # Slash /\ Dollar # Minus /\ Dollar # Slash /\ Minus # Slash
  <1>1. Spaces \subseteq 9..32 /\ Digits = 48..57
    BY DEF Spaces, Newlines, Space, Digits
  <1>2. \A c \in Letters : c >= 65
    BY DEF Letters
  <1>3. /\ Quote = 39 /\ DQuote = 34 /\ Dollar = 36 /\ Minus = 45 /\ Slash = 47
        /\ LetterE = 69 /\ SmallE = 101
    BY DEF Quote, DQuote, Dollar, Minus, Slash, LetterE, SmallE
  <1>4. {LetterE, SmallE} \subseteq Letters
    BY <1>3 DEF Letters
  <1>5. ASSUME NEW c \in Spaces PROVE c \notin {Quote, DQuote, Dollar, Minus, Slash} \cup Digits \cup Letters
    <2>1. c \in 9..32
      BY <1>1
    <2>2. c \notin Letters
      BY <1>2, <2>1
    <2>3. c \notin Digits /\ c \notin {39, 34, 36, 45, 47}
      BY <1>1, <2>1
    <2> QED
      BY <1>3, <2>2, <2>3
  <1>6. ASSUME NEW c \in Digits PROVE c \notin {Quote, DQuote, Dollar, Minus, Slash} \cup Letters
    <2>1. c \in 48..57
      BY <1>1
    <2>2. c \notin Letters
      BY <1>2, <2>1
    <2>3. c \notin {39, 34, 36, 45, 47}
      BY <2>1
    <2> QED
      BY <1>3, <2>2, <2>3
  <1>7. {Quote, DQuote, Dollar, Minus, Slash} \cap Letters = {}
    <2>1. \A c \in {39, 34, 36, 45, 47} : c \notin Letters
      BY <1>2
    <2> QED
      BY <1>3, <2>1
  <1> QED
    BY <1>3, <1>4, <1>5, <1>6, <1>7

\* The cases of TokenAt exclude each other, so that their order does not matter.
LEMMA TokenOf ==
  ASSUME NEW s, NEW k
  PROVE  /\ s[k] \in Spaces => TokenAt(s, k) = Read(<<>>, k + 1)
         /\ CommentAt(s, k) => TokenAt(s, k) = LineComment(s, k)
         /\ BlockAt(s, k) => TokenAt(s, k) = Comment(s, k)
         /\ s[k] = Quote => TokenAt(s, k) = Quoted(s, "str", k + 1, Quote, FALSE)
         /\ EscapedAt(s, k) => TokenAt(s, k) = Quoted(s, "str", k + 2, Quote, TRUE)
         /\ s[k] = DQuote => TokenAt(s, k) = Quoted(s, "ident", k + 1, DQuote, FALSE)
         /\ ParamAt(s, k) => TokenAt(s, k) = Word(s, "param", k + 1, Digits)
         /\ DollarAt(s, k) => TokenAt(s, k) = DollarQuoted(s, k)
         /\ s[k] \in Digits => TokenAt(s, k) = Word(s, "num", k, Digits)
         /\ NameAt(s, k) => TokenAt(s, k) = Word(s, "name", k, NameBytes)
         /\ OpAt(s, k) => TokenAt(s, k) = Read(<<Token("op", <<s[k]>>)>>, k + 1)
  <1> DEFINE B(x)   == s[k] = x
             In(S)  == s[k] \in S
             NextIs(x) == Byte(s, k + 1) = x
             Number == Byte(s, k + 1) \in Digits
  <1>1. TokenAt(s, k) =
          CASE In(Spaces) -> Read(<<>>, k + 1)
            [] B(Minus) /\ NextIs(Minus) -> LineComment(s, k)
            [] B(Slash) /\ NextIs(Star) -> Comment(s, k)
            [] B(Quote) -> Quoted(s, "str", k + 1, Quote, FALSE)
            [] In({LetterE, SmallE}) /\ NextIs(Quote) -> Quoted(s, "str", k + 2, Quote, TRUE)
            [] B(DQuote) -> Quoted(s, "ident", k + 1, DQuote, FALSE)
            [] B(Dollar) /\ Number -> Word(s, "param", k + 1, Digits)
            [] B(Dollar) /\ ~Number -> DollarQuoted(s, k)
            [] In(Digits) -> Word(s, "num", k, Digits)
            [] In(Letters) /\ ~(In({LetterE, SmallE}) /\ NextIs(Quote)) -> Word(s, "name", k, NameBytes)
            [] OTHER -> Read(<<Token("op", <<s[k]>>)>>, k + 1)
    BY DEF TokenAt
  <1>2. /\ In(Spaces) => ~B(Quote) /\ ~B(DQuote) /\ ~B(Dollar) /\ ~B(Minus) /\ ~B(Slash) /\ ~In(Digits) /\ ~In(Letters)
        /\ In(Digits) => ~B(Quote) /\ ~B(DQuote) /\ ~B(Dollar) /\ ~B(Minus) /\ ~B(Slash) /\ ~In(Letters)
        /\ In(Letters) => ~B(Quote) /\ ~B(DQuote) /\ ~B(Dollar) /\ ~B(Minus) /\ ~B(Slash)
        /\ In({LetterE, SmallE}) => In(Letters)
        /\ B(Quote) => ~B(DQuote) /\ ~B(Dollar) /\ ~B(Minus) /\ ~B(Slash)
        /\ B(DQuote) => ~B(Dollar) /\ ~B(Minus) /\ ~B(Slash)
        /\ B(Dollar) => ~B(Minus) /\ ~B(Slash)
        /\ B(Minus) => ~B(Slash)
    BY Apartness
  <1>3. /\ CommentAt(s, k) <=> B(Minus) /\ NextIs(Minus)
        /\ BlockAt(s, k) <=> B(Slash) /\ NextIs(Star)
        /\ EscapedAt(s, k) <=> In({LetterE, SmallE}) /\ NextIs(Quote)
        /\ ParamAt(s, k) <=> B(Dollar) /\ Number
        /\ DollarAt(s, k) <=> B(Dollar) /\ ~Number
        /\ NameAt(s, k) <=> In(Letters) /\ ~(In({LetterE, SmallE}) /\ NextIs(Quote))
        /\ OpAt(s, k) <=> /\ ~In(Spaces) /\ ~B(Quote) /\ ~B(DQuote) /\ ~B(Dollar) /\ ~In(Digits) /\ ~In(Letters)
                          /\ ~(B(Minus) /\ NextIs(Minus)) /\ ~(B(Slash) /\ NextIs(Star))
    BY DEF CommentAt, BlockAt, EscapedAt, ParamAt, DollarAt, NameAt, OpAt
  <1> HIDE DEF B, In, Tail, Number
  <1>4. In(Spaces) => TokenAt(s, k) = Read(<<>>, k + 1)
    BY <1>1, <1>2, Zenon
  <1>5. B(Minus) /\ NextIs(Minus) => TokenAt(s, k) = LineComment(s, k)
    BY <1>1, <1>2, Zenon
  <1>6. B(Slash) /\ NextIs(Star) => TokenAt(s, k) = Comment(s, k)
    BY <1>1, <1>2, Zenon
  <1>7. B(Quote) => TokenAt(s, k) = Quoted(s, "str", k + 1, Quote, FALSE)
    BY <1>1, <1>2, Zenon
  <1>8. In({LetterE, SmallE}) /\ NextIs(Quote) => TokenAt(s, k) = Quoted(s, "str", k + 2, Quote, TRUE)
    BY <1>1, <1>2, Zenon
  <1>9. B(DQuote) => TokenAt(s, k) = Quoted(s, "ident", k + 1, DQuote, FALSE)
    BY <1>1, <1>2, Zenon
  <1>10. B(Dollar) /\ Number => TokenAt(s, k) = Word(s, "param", k + 1, Digits)
    BY <1>1, <1>2, Zenon
  <1>11. B(Dollar) /\ ~Number => TokenAt(s, k) = DollarQuoted(s, k)
    BY <1>1, <1>2, Zenon
  <1>12. In(Digits) => TokenAt(s, k) = Word(s, "num", k, Digits)
    BY <1>1, <1>2, Zenon
  <1>13. In(Letters) /\ ~(In({LetterE, SmallE}) /\ NextIs(Quote)) => TokenAt(s, k) = Word(s, "name", k, NameBytes)
    BY <1>1, <1>2, Zenon
  <1>14. OpAt(s, k) => TokenAt(s, k) = Read(<<Token("op", <<s[k]>>)>>, k + 1)
    BY <1>1, <1>2, <1>3, Zenon
  <1> QED
    BY <1>3, <1>4, <1>5, <1>6, <1>7, <1>8, <1>9, <1>10, <1>11, <1>12, <1>13, <1>14 DEF B, In

LEMMA TokenKinds ==
  ASSUME NEW s, NEW k
  PROVE  \/ s[k] \in Spaces \/ CommentAt(s, k) \/ BlockAt(s, k) \/ s[k] = Quote \/ EscapedAt(s, k)
         \/ s[k] = DQuote \/ ParamAt(s, k) \/ DollarAt(s, k) \/ s[k] \in Digits \/ NameAt(s, k) \/ OpAt(s, k)
  BY DEF NameAt, OpAt, ParamAt, DollarAt

LEMMA NoZero ==
  /\ 0 \notin Digits /\ 0 \notin NameBytes /\ 0 \notin NameBytes \ {Dollar} /\ 0 \notin (1..255) \ Newlines
  /\ 0 # Quote /\ 0 # DQuote /\ 0 # Dollar
  BY DEF Digits, NameBytes, Letters, Dollar, Quote, DQuote

LEMMA ByteIs ==
  ASSUME NEW s \in Seq(Bytes), NEW k \in Nat
  PROVE  /\ k <= Len(s) => Byte(s, k) = s[k]
         /\ k > Len(s) => Byte(s, k) = 0
  <1>1. Len(s) \in Nat
    BY LenProperties
  <1> QED
    BY <1>1 DEF Byte

-----------------------------------------------------------------------------
(* The lexer makes progress *)

LEMMA PastIs ==
  ASSUME NEW s \in Seq(Bytes), NEW S, 0 \notin S, NEW k \in 1..Len(s) + 1
  PROVE  /\ Past(s, k, S) \in k..Len(s) + 1 /\ Byte(s, Past(s, k, S)) \notin S
         /\ \A m \in k..Past(s, k, S) - 1 : Byte(s, m) \in S
  <1>1. PICK n \in Nat : n = Len(s)
    BY LenProperties
  <1> DEFINE M == {j \in k..n + 1 : Byte(s, j) \notin S}
  <1>2. n + 1 \in M
    <2>1. n + 1 \in k..n + 1 /\ ~(n + 1 <= Len(s))
      BY <1>1
    <2> QED
      BY <2>1 DEF Byte
  <1>3. PICK j \in M : \A m \in M : j <= m
    <2>1. M \subseteq Nat /\ M # {}
      BY <1>2
    <2> HIDE DEF M
    <2> QED
      BY <2>1, Least
  <1>4. \A m \in k..j - 1 : Byte(s, m) \in S
    <2> SUFFICES ASSUME NEW m \in k..j - 1, Byte(s, m) \notin S PROVE FALSE
      OBVIOUS
    <2>1. m \in M /\ m < j
      OBVIOUS
    <2> QED
      BY <1>3, <2>1
  <1>5. \E x \in k..Len(s) + 1 : Byte(s, x) \notin S /\ \A m \in k..x - 1 : Byte(s, m) \in S
    BY <1>1, <1>4
  <1> QED
    BY <1>5 DEF Past

\* How the lexer looks for the end of a literal or a quoted name.
Closing(s, quote, escapes) ==
  [k \in DOMAIN s |->
     IF s[k] = quote /\ ~(escapes /\ s[k] = Backslash) /\ Byte(s, k + 1) # quote
       THEN Read(<<k>>, Len(s) + 1)
     ELSE Read(<<>>, IF ((escapes /\ s[k] = Backslash) \/ s[k] = quote) /\ k < Len(s) THEN k + 2 ELSE k + 1)]

LEMMA ClosingAdvances ==
  ASSUME NEW s \in Seq(Bytes), NEW quote, NEW escapes
  PROVE  Advances(Len(s), Closing(s, quote, escapes))
  <1>1. Len(s) \in Nat /\ DOMAIN s = 1..Len(s)
    BY LenProperties
  <1>2. ASSUME NEW k \in 1..Len(s)
        PROVE  Closing(s, quote, escapes)[k].next \in k + 1..Len(s) + 1
    <2>1. \/ Closing(s, quote, escapes)[k].next = Len(s) + 1
          \/ Closing(s, quote, escapes)[k].next = k + 2 /\ k < Len(s)
          \/ Closing(s, quote, escapes)[k].next = k + 1
      BY <1>1 DEF Closing, Read
    <2> QED
      BY <1>1, <2>1
  <1> QED
    BY <1>2 DEF Advances

LEMMA CloseStep ==
  ASSUME NEW s \in Seq(Bytes), NEW quote, NEW escapes
  PROVE  /\ Close(s, Len(s) + 1, quote, escapes) = <<>>
         /\ \A k \in 1..Len(s) : LET r == Closing(s, quote, escapes)[k]
                                 IN Close(s, k, quote, escapes) = r.piece \o Close(s, r.next, quote, escapes)
  <1>1. Len(s) \in Nat
    BY LenProperties
  <1>2. PICK read : read = Closing(s, quote, escapes)
    OBVIOUS
  <1>3. \A k : Close(s, k, quote, escapes) = From(Len(s), read)[k]
    BY <1>2 DEF Close, Closing
  <1>4. Advances(Len(s), read)
    BY <1>2, ClosingAdvances
  <1>5. /\ From(Len(s), read)[Len(s) + 1] = <<>>
        /\ \A k \in 1..Len(s) : From(Len(s), read)[k] = read[k].piece \o From(Len(s), read)[read[k].next]
    BY <1>1, <1>4, FromStep
  <1> QED
    BY <1>2, <1>3, <1>5

\* The closing quote is not before the place from which it is looked for.
LEMMA CloseIs ==
  ASSUME NEW s \in Seq(Bytes), NEW quote, NEW escapes, NEW k \in 1..Len(s) + 1
  PROVE  \/ Close(s, k, quote, escapes) = <<>>
         \/ \E j \in k..Len(s) : Close(s, k, quote, escapes) = <<j>>
  <1>1. PICK n \in Nat : n = Len(s)
    BY LenProperties
  <1>2. PICK c : c = [m \in 1..n + 1 |-> Close(s, m, quote, escapes)]
    OBVIOUS
  <1>3. PICK read : read = Closing(s, quote, escapes)
    OBVIOUS
  <1>4. c[n + 1] = <<>> /\ \A m \in 1..n : read[m].next \in m + 1..n + 1 /\ c[m] = read[m].piece \o c[read[m].next]
    <2>1. \A m \in 1..n : read[m].next \in m + 1..n + 1
      BY <1>1, <1>3, ClosingAdvances DEF Advances
    <2>2. n + 1 \in 1..n + 1
      OBVIOUS
    <2>3. c[n + 1] = <<>>
      BY <1>1, <1>2, <2>2, CloseStep
    <2>4. \A m \in 1..n : m \in 1..n + 1 /\ read[m].next \in 1..n + 1
      BY <2>1
    <2>5. \A m \in 1..n : Close(s, m, quote, escapes) = read[m].piece \o Close(s, read[m].next, quote, escapes)
      BY <1>1, <1>3, CloseStep
    <2> QED
      BY <1>2, <2>1, <2>3, <2>4, <2>5
  <1> DEFINE S == {m \in 1..n + 1 : c[m] = <<>> \/ \E j \in m..n : c[m] = <<j>>}
  <1>5. n + 1 \in S
    BY <1>4
  <1>6. ASSUME NEW m \in 1..n, \A j \in m + 1..n + 1 : j \in S PROVE m \in S
    <2>1. read[m].next \in S
      BY <1>4, <1>6
    <2>2. CASE read[m] = Read(<<m>>, n + 1)
      <3>1. c[m] = <<m>> \o <<>>
        <4>1. read[m].piece = <<m>> /\ read[m].next = n + 1
          BY <2>2 DEF Read
        <4>2. c[m] = read[m].piece \o c[read[m].next]
          BY <1>4
        <4> QED
          BY <1>4, <4>1, <4>2
      <3>2. <<m>> \in Seq(Nat)
        OBVIOUS
      <3>3. c[m] = <<m>>
        BY <3>1, <3>2, ConcatEmptySeq
      <3>4. m \in m..n /\ m \in 1..n + 1
        OBVIOUS
      <3> QED
        BY <3>3, <3>4
    <2>3. CASE read[m].piece = <<>>
      <3>1. PICK next : next = read[m].next
        OBVIOUS
      <3>2. next \in m + 1..n + 1 /\ c[m] = <<>> \o c[next]
        BY <1>4, <2>3, <3>1
      <3>3. next \in S
        BY <2>1, <3>1
      <3>4. c[next] \in Seq(Nat)
        <4>1. CASE c[next] = <<>>
          BY <4>1
        <4>2. CASE c[next] # <<>>
          <5>1. PICK j \in next..n : c[next] = <<j>>
            BY <3>3, <4>2
          <5>2. j \in Nat
            BY <3>2
          <5> QED
            BY <5>1, <5>2
        <4> QED
          BY <4>1, <4>2
      <3>5. c[m] = c[next]
        BY <3>2, <3>4, ConcatEmptySeq
      <3>6. next..n \subseteq m..n /\ m \in 1..n + 1
        BY <3>2
      <3> QED
        BY <3>3, <3>5, <3>6
    <2>4. read[m] = Read(<<m>>, n + 1) \/ read[m].piece = <<>>
      <3>1. m \in DOMAIN s
        BY <1>1, LenProperties
      <3> QED
        BY <1>1, <1>3, <3>1 DEF Closing, Read
    <2> QED
      BY <2>2, <2>3, <2>4
  <1> HIDE DEF S
  <1>7. 1..n + 1 \subseteq S
    BY <1>5, <1>6, DownInduction
  <1>8. k \in S
    BY <1>1, <1>7
  <1> QED
    BY <1>1, <1>2, <1>8 DEF S

LEMMA WordAdvances ==
  ASSUME NEW s \in Seq(Bytes), NEW is, NEW S, 0 \notin S, NEW k \in 1..Len(s) + 1
  PROVE  /\ Word(s, is, k, S).next \in k..Len(s) + 1
         /\ Byte(s, k) \in S => Word(s, is, k, S).next \in k + 1..Len(s) + 1
  <1>1. PICK p : p = Past(s, k, S)
    OBVIOUS
  <1>2. Len(s) \in Nat /\ p \in k..Len(s) + 1 /\ Byte(s, p) \notin S
    BY <1>1, PastIs, LenProperties
  <1>3. Word(s, is, k, S).next = p
    BY <1>1 DEF Word, Read
  <1>4. Byte(s, k) \in S => p # k
    BY <1>2
  <1> QED
    BY <1>2, <1>3, <1>4

LEMMA QuotedAdvances ==
  ASSUME NEW s \in Seq(Bytes), NEW is, NEW k \in 2..Len(s) + 1, NEW quote, NEW escapes
  PROVE  Quoted(s, is, k, quote, escapes).next \in k..Len(s) + 1
  <1>1. PICK close : close = Close(s, k, quote, escapes)
    OBVIOUS
  <1>2. Len(s) \in Nat /\ k \in 1..Len(s) + 1
    BY LenProperties
  <1>3. close = <<>> \/ \E j \in k..Len(s) : close = <<j>>
    BY <1>1, <1>2, CloseIs
  <1>4. CASE close = <<>>
    <2>1. Quoted(s, is, k, quote, escapes).next = Len(s) + 1
      BY <1>1, <1>4 DEF Quoted, Read
    <2> QED
      BY <1>2, <2>1
  <1>5. CASE close # <<>>
    <2>1. PICK j \in k..Len(s) : close = <<j>>
      BY <1>3, <1>5
    <2>2. close[1] = j
      BY <2>1
    <2>3. Quoted(s, is, k, quote, escapes).next = close[1] + 1
      BY <1>1, <1>5 DEF Quoted, Read
    <2> QED
      BY <1>2, <2>2, <2>3
  <1> QED
    BY <1>4, <1>5

\* Where a part stands first.
LEMMA WhereIs ==
  ASSUME NEW s \in Seq(Bytes), NEW part, NEW from \in Nat
  PROVE  \/ Where(s, part, from) = <<>> /\ \A j \in from..Len(s) : ~StartsAt(s, part, j)
         \/ \E j \in from..Len(s) :
              /\ Where(s, part, from) = <<j>> /\ StartsAt(s, part, j)
              /\ \A m \in from..j - 1 : ~StartsAt(s, part, m)
  <1>1. PICK found : found = {j \in from..Len(s) : StartsAt(s, part, j)}
    OBVIOUS
  <1>2. Where(s, part, from) = IF found = {} THEN <<>> ELSE <<CHOOSE j \in found : \A m \in found : j <= m>>
    BY <1>1 DEF Where
  <1>3. CASE found = {}
    BY <1>1, <1>2, <1>3
  <1>4. CASE found # {}
    <2>1. found \subseteq Nat
      BY <1>1, LenProperties
    <2>2. \E j \in found : \A m \in found : j <= m
      BY <1>4, <2>1, Least
    <2>3. PICK j \in found : j = (CHOOSE x \in found : \A m \in found : x <= m) /\ \A m \in found : j <= m
      BY <2>2
    <2>4. j \in from..Len(s) /\ StartsAt(s, part, j)
      BY <1>1
    <2>5. ASSUME NEW m \in from..j - 1 PROVE ~StartsAt(s, part, m)
      <3>1. m \in from..Len(s) /\ m < j /\ m \in Int /\ j \in Int
        BY <2>4, LenProperties
      <3>2. m \notin found
        BY <2>3, <3>1
      <3> QED
        BY <1>1, <3>1, <3>2
    <2>6. Where(s, part, from) = <<j>>
      BY <1>2, <1>4, <2>3
    <2> QED
      BY <2>4, <2>5, <2>6
  <1> QED
    BY <1>3, <1>4

LEMMA WhereUnique ==
  ASSUME NEW s \in Seq(Bytes), NEW part, NEW from \in Nat, NEW j \in from..Len(s),
         StartsAt(s, part, j), \A m \in from..j - 1 : ~StartsAt(s, part, m)
  PROVE  Where(s, part, from) = <<j>>
  <1>1. PICK q \in from..Len(s) :
          /\ Where(s, part, from) = <<q>> /\ StartsAt(s, part, q)
          /\ \A m \in from..q - 1 : ~StartsAt(s, part, m)
    BY WhereIs
  <1>2. Len(s) \in Nat
    BY LenProperties
  <1>3. ~(q < j) /\ ~(j < q)
    <2>1. q < j => q \in from..j - 1
      BY <1>2
    <2>2. j < q => j \in from..q - 1
      BY <1>2
    <2> QED
      BY <1>1, <2>1, <2>2
  <1>4. q = j
    BY <1>2, <1>3
  <1> QED
    BY <1>1, <1>4

\* A closed comment: where its end stands.
ClosedBlock(s, k, j) ==
  /\ StartsAt(s, <<Star, Slash>>, j) /\ \A m \in k + 2..j - 1 : ~StartsAt(s, <<Star, Slash>>, m)
  /\ \A m \in k + 2..j : ~StartsAt(s, <<Slash, Star>>, m)

LEMMA BlockIs ==
  ASSUME NEW s \in Seq(Bytes), NEW k \in 1..Len(s)
  PROVE  /\ \/ Comment(s, k) = Unread(s, k)
            \/ \E j \in k + 2..Len(s) : Comment(s, k) = Read(<<>>, j + 2) /\ ClosedBlock(s, k, j)
         /\ \A j \in k + 2..Len(s) : ClosedBlock(s, k, j) => Comment(s, k) = Read(<<>>, j + 2)
  <1>1. PICK close : close = Where(s, <<Star, Slash>>, k + 2)
    OBVIOUS
  <1>2. k + 2 \in Nat
    OBVIOUS
  <1>3. Comment(s, k) = IF close = <<>> \/ \E m \in k + 2..close[1] : StartsAt(s, <<Slash, Star>>, m)
                        THEN Unread(s, k) ELSE Read(<<>>, close[1] + 2)
    BY <1>1 DEF Comment
  <1>4. ASSUME Comment(s, k) # Unread(s, k)
        PROVE  \E j \in k + 2..Len(s) : Comment(s, k) = Read(<<>>, j + 2) /\ ClosedBlock(s, k, j)
    <2>1. close # <<>> /\ ~(\E m \in k + 2..close[1] : StartsAt(s, <<Slash, Star>>, m))
      BY <1>3, <1>4
    <2>2. PICK j \in k + 2..Len(s) :
            /\ close = <<j>> /\ StartsAt(s, <<Star, Slash>>, j)
            /\ \A m \in k + 2..j - 1 : ~StartsAt(s, <<Star, Slash>>, m)
      <3>1. PICK part, from : part = <<Star, Slash>> /\ from = k + 2
        OBVIOUS
      <3>2. \E j \in from..Len(s) : /\ close = <<j>> /\ StartsAt(s, part, j)
                                    /\ \A m \in from..j - 1 : ~StartsAt(s, part, m)
        BY <1>1, <1>2, <2>1, <3>1, WhereIs
      <3> QED
        BY <3>1, <3>2
    <2>3. close[1] = j
      BY <2>2
    <2>4. ClosedBlock(s, k, j)
      BY <2>1, <2>2, <2>3 DEF ClosedBlock
    <2> QED
      BY <1>3, <2>1, <2>3, <2>4
  <1>5. ASSUME NEW j \in k + 2..Len(s), ClosedBlock(s, k, j) PROVE Comment(s, k) = Read(<<>>, j + 2)
    <2>1. close = <<j>>
      BY <1>1, <1>2, <1>5, WhereUnique DEF ClosedBlock
    <2>2. close # <<>> /\ close[1] = j
      BY <2>1
    <2> QED
      BY <1>3, <1>5, <2>2 DEF ClosedBlock
  <1> QED
    BY <1>4, <1>5

\* A literal between delimiters: where the first one ends and the second one stands.
Delimiter(s, k, o) == SubSeq(s, k, o)
Inside(s, o, j)    == SubSeq(s, o + 1, j - 1)

ClosedDollar(s, k, o, j) ==
  /\ Byte(s, o) = Dollar /\ \A m \in k + 1..o - 1 : Byte(s, m) \in NameBytes \ {Dollar}
  /\ StartsAt(s, Delimiter(s, k, o), j) /\ \A m \in o + 1..j - 1 : ~StartsAt(s, Delimiter(s, k, o), m)

LEMMA DelimiterIs ==
  ASSUME NEW s \in Seq(Bytes), NEW k \in 1..Len(s), NEW o \in k + 1..Len(s)
  PROVE  Delimiter(s, k, o) \in Seq(Bytes) /\ Len(Delimiter(s, k, o)) = o - k + 1
  <1>1. o \in Nat /\ 1 <= k /\ k <= o + 1 /\ o <= Len(s)
    BY LenProperties
  <1> QED
    BY <1>1, SubSeqIs DEF Delimiter

LEMMA DollarIs ==
  ASSUME NEW s \in Seq(Bytes), NEW k \in 1..Len(s)
  PROVE  /\ \/ DollarQuoted(s, k) = Unread(s, k)
            \/ \E o \in k + 1..Len(s) : \E j \in o + 1..Len(s) :
                 /\ DollarQuoted(s, k) = Read(<<Token("str", SubSeq(s, o + 1, j - 1))>>, j + (o - k + 1))
                 /\ ClosedDollar(s, k, o, j)
         /\ \A o \in k + 1..Len(s) : \A j \in o + 1..Len(s) :
              ClosedDollar(s, k, o, j) =>
                DollarQuoted(s, k) = Read(<<Token("str", SubSeq(s, o + 1, j - 1))>>, j + (o - k + 1))
  <1>1. PICK n \in Nat : n = Len(s)
    BY LenProperties
  <1>2. PICK S : S = NameBytes \ {Dollar}
    OBVIOUS
  <1>3. PICK p \in k + 1..n + 1 :
          p = Past(s, k + 1, S) /\ Byte(s, p) \notin S /\ \A m \in k + 1..p - 1 : Byte(s, m) \in S
    <2>1. k + 1 \in 1..Len(s) + 1
      BY <1>1
    <2>2. 0 \notin S
      BY <1>2, NoZero
    <2> QED
      BY <1>1, <2>1, <2>2, PastIs
  <1>4. PICK d, close : d = Delimiter(s, k, p) /\ close = Where(s, d, p + 1)
    OBVIOUS
  <1>5. DollarQuoted(s, k) =
          IF Byte(s, p) # Dollar \/ close = <<>> THEN Unread(s, k)
          ELSE Read(<<Token("str", SubSeq(s, p + 1, close[1] - 1))>>, close[1] + Len(d))
    BY <1>2, <1>3, <1>4 DEF DollarQuoted, Delimiter
  <1>6. p + 1 \in Nat
    BY <1>1
  <1>7. Byte(s, p) = Dollar => p \in k + 1..n
    BY <1>1, NoZero DEF Byte
  <1>8. Byte(s, p) = Dollar => Len(d) = p - k + 1
    BY <1>1, <1>4, <1>7, DelimiterIs
  <1>9. ASSUME DollarQuoted(s, k) # Unread(s, k)
        PROVE  \E o \in k + 1..Len(s) : \E j \in o + 1..Len(s) :
                 /\ DollarQuoted(s, k) = Read(<<Token("str", SubSeq(s, o + 1, j - 1))>>, j + (o - k + 1))
                 /\ ClosedDollar(s, k, o, j)
    <2>1. Byte(s, p) = Dollar /\ close # <<>>
      BY <1>5, <1>9
    <2>2. PICK j \in p + 1..Len(s) :
            /\ close = <<j>> /\ StartsAt(s, d, j) /\ \A m \in p + 1..j - 1 : ~StartsAt(s, d, m)
      BY <1>4, <1>6, <2>1, WhereIs
    <2>3. close[1] = j
      BY <2>2
    <2>4. ClosedDollar(s, k, p, j)
      BY <1>2, <1>3, <1>4, <2>1, <2>2 DEF ClosedDollar
    <2>5. DollarQuoted(s, k) = Read(<<Token("str", SubSeq(s, p + 1, j - 1))>>, j + (p - k + 1))
      BY <1>5, <1>8, <2>1, <2>3
    <2>6. p \in k + 1..Len(s)
      BY <1>1, <1>7, <2>1
    <2> QED
      BY <2>4, <2>5, <2>6
  <1>10. ASSUME NEW o \in k + 1..Len(s), NEW j \in o + 1..Len(s), ClosedDollar(s, k, o, j)
         PROVE  DollarQuoted(s, k) = Read(<<Token("str", SubSeq(s, o + 1, j - 1))>>, j + (o - k + 1))
    <2>1. Byte(s, o) \notin S /\ \A m \in k + 1..o - 1 : Byte(s, m) \in S
      BY <1>2, <1>10 DEF ClosedDollar
    <2>2. ~(o < p) /\ ~(p < o)
      <3>1. o < p => o \in k + 1..p - 1
        BY <1>1
      <3>2. p < o => p \in k + 1..o - 1
        BY <1>1
      <3> QED
        BY <1>3, <2>1, <3>1, <3>2
    <2>3. o = p
      BY <1>1, <2>2
    <2>4. Byte(s, p) = Dollar /\ StartsAt(s, d, j) /\ \A m \in p + 1..j - 1 : ~StartsAt(s, d, m)
      BY <1>4, <1>10, <2>3 DEF ClosedDollar
    <2>5. close = <<j>>
      <3>1. j \in p + 1..Len(s)
        BY <2>3
      <3> QED
        BY <1>4, <1>6, <2>4, <3>1, WhereUnique
    <2>6. close # <<>> /\ close[1] = j
      BY <2>5
    <2> QED
      BY <1>5, <1>8, <2>3, <2>4, <2>6
  <1> QED
    BY <1>9, <1>10

LEMMA UnreadIs ==
  ASSUME NEW s, NEW k
  PROVE  /\ Unread(s, k).piece = <<Token("rest", SubSeq(s, k, Len(s)))>>
         /\ Unread(s, k).next = Len(s) + 1
  BY DEF Unread, Read

LEMMA CommentAdvances ==
  ASSUME NEW s \in Seq(Bytes), NEW k \in 1..Len(s)
  PROVE  Comment(s, k).next \in k + 1..Len(s) + 1
  <1>1. PICK n \in Nat : n = Len(s)
    BY LenProperties
  <1>2. CASE Comment(s, k) = Unread(s, k)
    BY <1>1, <1>2, UnreadIs
  <1>3. CASE Comment(s, k) # Unread(s, k)
    <2>1. PICK j \in k + 2..Len(s) : Comment(s, k) = Read(<<>>, j + 2) /\ ClosedBlock(s, k, j)
      BY <1>3, BlockIs
    <2>2. j + 2 <= n + 1
      <3>1. j + Len(<<Star, Slash>>) <= Len(s) + 1
        BY <2>1 DEF ClosedBlock, StartsAt
      <3>2. Len(<<Star, Slash>>) = 2
        OBVIOUS
      <3> QED
        BY <1>1, <3>1, <3>2
    <2>3. Comment(s, k).next = j + 2
      BY <2>1 DEF Read
    <2> QED
      BY <1>1, <2>2, <2>3
  <1> QED
    BY <1>2, <1>3

LEMMA DollarAdvances ==
  ASSUME NEW s \in Seq(Bytes), NEW k \in 1..Len(s)
  PROVE  DollarQuoted(s, k).next \in k + 1..Len(s) + 1
  <1>1. PICK n \in Nat : n = Len(s)
    BY LenProperties
  <1>2. CASE DollarQuoted(s, k) = Unread(s, k)
    BY <1>1, <1>2, UnreadIs
  <1>3. CASE DollarQuoted(s, k) # Unread(s, k)
    <2>1. PICK o \in k + 1..Len(s) : \E j \in o + 1..Len(s) :
            /\ DollarQuoted(s, k) = Read(<<Token("str", SubSeq(s, o + 1, j - 1))>>, j + (o - k + 1))
            /\ ClosedDollar(s, k, o, j)
      BY <1>3, DollarIs
    <2>2. PICK j \in o + 1..Len(s) :
            /\ DollarQuoted(s, k) = Read(<<Token("str", SubSeq(s, o + 1, j - 1))>>, j + (o - k + 1))
            /\ ClosedDollar(s, k, o, j)
      BY <2>1
    <2>3. j + Len(Delimiter(s, k, o)) <= Len(s) + 1
      BY <2>2 DEF ClosedDollar, StartsAt
    <2>4. Len(Delimiter(s, k, o)) = o - k + 1
      BY DelimiterIs
    <2>5. DollarQuoted(s, k).next = j + (o - k + 1)
      BY <2>2 DEF Read
    <2> QED
      BY <1>1, <2>3, <2>4, <2>5
  <1> QED
    BY <1>2, <1>3

LEMMA LineAdvances ==
  ASSUME NEW s \in Seq(Bytes), NEW k \in 1..Len(s), CommentAt(s, k)
  PROVE  /\ LineComment(s, k).piece = <<>> /\ LineComment(s, k).next \in k + 1..Len(s) + 1
         /\ LineComment(s, k).next = Past(s, k, (1..255) \ Newlines)
  <1>1. PICK n \in Nat : n = Len(s)
    BY LenProperties
  <1>2. PICK S : S = (1..255) \ Newlines
    OBVIOUS
  <1>3. 0 \notin S /\ k \in 1..Len(s) + 1
    BY <1>1, <1>2, NoZero
  <1>4. PICK p : p = Past(s, k, S)
    OBVIOUS
  <1>5. p \in k..Len(s) + 1 /\ Byte(s, p) \notin S
    BY <1>3, <1>4, PastIs
  <1>6. Byte(s, k) \in S
    <2>1. Byte(s, k) = Minus
      BY <1>1 DEF Byte, CommentAt
    <2> QED
      BY <1>2, <2>1 DEF Minus, Newlines
  <1>7. p \in k + 1..Len(s) + 1
    <2>1. p # k
      BY <1>5, <1>6
    <2> QED
      BY <1>1, <1>5, <2>1
  <1>8. LineComment(s, k) = Read(<<>>, p)
    BY <1>2, <1>4 DEF LineComment
  <1> QED
    BY <1>2, <1>4, <1>7, <1>8 DEF Read

LEMMA TokenAtAdvances ==
  ASSUME NEW s \in Seq(Bytes)
  PROVE  Advances(Len(s), [k \in DOMAIN s |-> TokenAt(s, k)])
  <1>1. Len(s) \in Nat /\ DOMAIN s = 1..Len(s)
    BY LenProperties
  <1>2. ASSUME NEW k \in 1..Len(s)
        PROVE  TokenAt(s, k).next \in k + 1..Len(s) + 1
    <2>1. k + 1 \in 2..Len(s) + 1 /\ k + 1 \in 1..Len(s) + 1 /\ k \in 1..Len(s) + 1 /\ k <= Len(s)
      BY <1>1
    <2>2. Byte(s, k) = s[k]
      BY <2>1 DEF Byte
    <2>3. ASSUME NEW piece, TokenAt(s, k) = Read(piece, k + 1) PROVE TokenAt(s, k).next \in k + 1..Len(s) + 1
      BY <2>1, <2>3 DEF Read
    <2>4. CASE s[k] \in Spaces
      BY <2>3, <2>4, TokenOf
    <2>5. CASE CommentAt(s, k)
      BY <2>5, TokenOf, LineAdvances
    <2>6. CASE BlockAt(s, k)
      BY <2>6, TokenOf, CommentAdvances
    <2>7. CASE s[k] = Quote
      <3>1. TokenAt(s, k) = Quoted(s, "str", k + 1, Quote, FALSE)
        BY <2>7, TokenOf
      <3> QED
        BY <2>1, <3>1, QuotedAdvances
    <2>8. CASE EscapedAt(s, k)
      <3>1. TokenAt(s, k) = Quoted(s, "str", k + 2, Quote, TRUE)
        BY <2>8, TokenOf
      <3>2. k + 1 <= Len(s)
        BY <2>8 DEF Byte, Quote, EscapedAt
      <3>3. k + 2 \in 2..Len(s) + 1
        BY <1>1, <3>2
      <3>4. Quoted(s, "str", k + 2, Quote, TRUE).next \in k + 2..Len(s) + 1
        BY <3>3, QuotedAdvances
      <3>5. k + 2..Len(s) + 1 \subseteq k + 1..Len(s) + 1
        BY <1>1
      <3> QED
        BY <3>1, <3>4, <3>5
    <2>9. CASE s[k] = DQuote
      <3>1. TokenAt(s, k) = Quoted(s, "ident", k + 1, DQuote, FALSE)
        BY <2>9, TokenOf
      <3> QED
        BY <2>1, <3>1, QuotedAdvances
    <2>10. CASE ParamAt(s, k)
      <3>1. TokenAt(s, k) = Word(s, "param", k + 1, Digits)
        BY <2>10, TokenOf
      <3> QED
        BY <2>1, <3>1, NoZero, WordAdvances
    <2>11. CASE DollarAt(s, k)
      BY <2>11, TokenOf, DollarAdvances
    <2>12. CASE s[k] \in Digits
      <3>1. TokenAt(s, k) = Word(s, "num", k, Digits)
        BY <2>12, TokenOf
      <3> QED
        BY <2>1, <2>2, <2>12, <3>1, NoZero, WordAdvances
    <2>13. CASE NameAt(s, k)
      <3>1. PICK S : S = NameBytes
        OBVIOUS
      <3>2. TokenAt(s, k) = Word(s, "name", k, S)
        BY <2>13, <3>1, TokenOf
      <3>3. Byte(s, k) \in S /\ 0 \notin S
        BY <2>2, <2>13, <3>1, NoZero DEF NameAt, NameBytes
      <3> QED
        BY <2>1, <3>2, <3>3, WordAdvances
    <2>14. CASE OpAt(s, k)
      BY <2>3, <2>14, TokenOf
    <2> QED
      BY <2>4, <2>5, <2>6, <2>7, <2>8, <2>9, <2>10, <2>11, <2>12, <2>13, <2>14, TokenKinds
  <1> QED
    BY <1>1, <1>2 DEF Advances

-----------------------------------------------------------------------------
(* Quoting *)

\* What quote_string and double_quote_identifier do to a text, and what the lexer does to it.
Doubled(s, q)   == Replace(s, <<q>>, <<q, q>>)
Undoubled(s, q) == Replace(s, <<q, q>>, <<q>>)

LEMMA DoubledHead ==
  ASSUME NEW s \in Seq(Bytes), Len(s) > 0, NEW q \in Bytes
  PROVE  Doubled(s, q) = IF s[1] = q THEN <<q, q>> \o Doubled(Rest(s, 1), q)
                                     ELSE <<s[1]>> \o Doubled(Rest(s, 1), q)
  <1>1. Len(s) \in Nat /\ 1 \in 1..Len(s)
    BY LenProperties
  <1>2. PICK old : old = <<q>>
    OBVIOUS
  <1>3. old \in Seq(Bytes) /\ Len(old) = 1 /\ old[1] = q
    BY <1>2
  <1>4. StartsAt(s, old, 1) <=> /\ 1 + Len(old) <= Len(s) + 1
                                /\ \A j \in 1..Len(old) : s[1 + j - 1] = old[j]
    BY <1>1, <1>3, StartsAtIs, SMTT(30)
  <1>5. StartsAt(s, old, 1) <=> s[1] = q
    <2>1. \A j \in 1..1 : 1 + j - 1 = 1 /\ j = 1
      OBVIOUS
    <2> QED
      BY <1>1, <1>3, <1>4, <2>1
  <1>6. Len(old) > 0
    BY <1>3
  <1>7. PICK new : new = <<q, q>>
    OBVIOUS
  <1>8. Replace(s, old, new) = IF StartsAt(s, old, 1) THEN new \o Replace(Rest(s, Len(old)), old, new)
                                                      ELSE <<s[1]>> \o Replace(Rest(s, 1), old, new)
    BY <1>3, <1>6, ReplaceHead
  <1> QED
    BY <1>2, <1>3, <1>5, <1>7, <1>8 DEF Doubled

LEMMA DoubledType ==
  ASSUME NEW s \in Seq(Bytes), NEW q \in Bytes
  PROVE  Doubled(s, q) \in Seq(Bytes) /\ (Len(s) = 0 => Doubled(s, q) = <<>>)
  <1>1. PICK old, new : old = <<q>> /\ new = <<q, q>>
    OBVIOUS
  <1>2. old \in Seq(Bytes) /\ Len(old) > 0 /\ new \in Seq(Bytes)
    BY <1>1
  <1>3. Replace(s, old, new) \in Seq(Bytes)
    BY <1>2, ReplaceType
  <1>4. Len(s) = 0 => Replace(s, old, new) = <<>>
    BY ReplaceNothing
  <1> QED
    BY <1>1, <1>3, <1>4 DEF Doubled

LEMMA UndoubledHead ==
  ASSUME NEW s \in Seq(Bytes), Len(s) > 0, NEW q \in Bytes
  PROVE  /\ s[1] # q => Undoubled(s, q) = <<s[1]>> \o Undoubled(Rest(s, 1), q)
         /\ (Len(s) > 1 /\ s[1] = q /\ s[2] = q) => Undoubled(s, q) = <<q>> \o Undoubled(Rest(s, 2), q)
  <1>1. Len(s) \in Nat /\ 1 \in 1..Len(s)
    BY LenProperties
  <1>2. PICK old : old = <<q, q>>
    OBVIOUS
  <1>3. old \in Seq(Bytes) /\ Len(old) = 2 /\ old[1] = q /\ old[2] = q
    BY <1>2
  <1>4. StartsAt(s, old, 1) <=> /\ 1 + Len(old) <= Len(s) + 1
                                /\ \A j \in 1..Len(old) : s[1 + j - 1] = old[j]
    <2>1. old \in Seq(Bytes)
      BY <1>3
    <2> QED
      BY <1>1, <2>1, StartsAtIs
  <1>5. StartsAt(s, old, 1) <=> Len(s) > 1 /\ s[1] = q /\ s[2] = q
    <2>1. 1..Len(old) = {1, 2} /\ 1 + 1 - 1 = 1 /\ 1 + 2 - 1 = 2
      BY <1>3
    <2>2. (\A j \in 1..Len(old) : s[1 + j - 1] = old[j]) <=> s[1] = q /\ s[2] = q
      BY <1>3, <2>1
    <2>3. 1 + Len(old) <= Len(s) + 1 <=> Len(s) > 1
      BY <1>1, <1>3
    <2> QED
      BY <1>4, <2>2, <2>3
  <1>6. Len(old) > 0
    BY <1>3
  <1>7. PICK new : new = <<q>>
    OBVIOUS
  <1>8. Replace(s, old, new) = IF StartsAt(s, old, 1) THEN new \o Replace(Rest(s, Len(old)), old, new)
                                                      ELSE <<s[1]>> \o Replace(Rest(s, 1), old, new)
    BY <1>3, <1>6, ReplaceHead
  <1> QED
    BY <1>2, <1>3, <1>5, <1>7, <1>8 DEF Undoubled

LEMMA UndoubledDoubled ==
  ASSUME NEW s \in Seq(Bytes), NEW q \in Bytes
  PROVE  Undoubled(Doubled(s, q), q) = s
  <1> DEFINE S == {m \in Nat : \A t \in Seq(Bytes) : Len(t) = m => Undoubled(Doubled(t, q), q) = t}
  <1>1. 0 \in S
    <2> SUFFICES ASSUME NEW t \in Seq(Bytes), Len(t) = 0 PROVE Undoubled(Doubled(t, q), q) = t
      OBVIOUS
    <2>1. t = <<>> /\ Doubled(t, q) = <<>>
      BY DoubledType, EmptySeq
    <2>2. Undoubled(t, q) = <<>>
      BY ReplaceNothing DEF Undoubled
    <2> QED
      BY <2>1, <2>2
  <1>2. ASSUME NEW m \in Nat, m \in S PROVE m + 1 \in S
    <2> SUFFICES ASSUME NEW t \in Seq(Bytes), Len(t) = m + 1 PROVE Undoubled(Doubled(t, q), q) = t
      OBVIOUS
    <2>1. Len(t) > 0 /\ 1 \in 0..Len(t) /\ 1 \in 1..Len(t)
      OBVIOUS
    <2>2. PICK u : u = Rest(t, 1)
      OBVIOUS
    <2>3. u \in Seq(Bytes) /\ Len(u) = m
      BY <2>1, <2>2, RestIs, SMTT(30)
    <2>4. PICK b : b = Doubled(u, q)
      OBVIOUS
    <2>5. b \in Seq(Bytes) /\ Undoubled(b, q) = u /\ Len(b) \in Nat
      BY <1>2, <2>3, <2>4, DoubledType, LenProperties
    <2>6. t = <<t[1]>> \o u /\ t[1] \in Bytes
      BY <2>1, <2>2, HeadRest, ElementOfSeq
    <2>7. CASE t[1] = q
      <3>1. PICK a : a = <<q, q>>
        OBVIOUS
      <3>2. a \in Seq(Bytes) /\ Len(a) = 2 /\ a[1] = q /\ a[2] = q
        BY <3>1
      <3>3. PICK c : c = a \o b
        OBVIOUS
      <3>4. c \in Seq(Bytes) /\ Len(c) = 2 + Len(b) /\ c[1] = q /\ c[2] = q
        <4>1. 1 \in 1..Len(a) + Len(b) /\ 2 \in 1..Len(a) + Len(b) /\ 1 <= Len(a) /\ 2 <= Len(a)
          BY <2>5, <3>2
        <4> QED
          BY <2>5, <3>2, <3>3, <4>1, ConcatProperties
      <3>5. Doubled(t, q) = c
        BY <2>1, <2>2, <2>4, <2>7, <3>1, <3>3, DoubledHead
      <3>6. Rest(c, 2) = b
        BY <2>5, <3>2, <3>3, RestConcat
      <3>7. Len(c) > 0 /\ Len(c) > 1
        BY <2>5, <3>4
      <3>8. Undoubled(c, q) = <<q>> \o Undoubled(b, q)
        BY <3>4, <3>6, <3>7, UndoubledHead
      <3> QED
        BY <2>5, <2>6, <2>7, <3>5, <3>8
    <2>8. CASE t[1] # q
      <3>1. PICK a : a = <<t[1]>>
        OBVIOUS
      <3>2. a \in Seq(Bytes) /\ Len(a) = 1 /\ a[1] = t[1]
        BY <2>6, <3>1
      <3>3. PICK c : c = a \o b
        OBVIOUS
      <3>4. c \in Seq(Bytes) /\ Len(c) = 1 + Len(b) /\ c[1] = t[1]
        <4>1. 1 \in 1..Len(a) + Len(b) /\ 1 <= Len(a)
          BY <2>5, <3>2
        <4> QED
          BY <2>5, <3>2, <3>3, <4>1, ConcatProperties
      <3>5. Doubled(t, q) = c
        BY <2>1, <2>2, <2>4, <2>8, <3>1, <3>3, DoubledHead
      <3>6. Rest(c, 1) = b
        BY <2>5, <3>2, <3>3, RestConcat
      <3>7. Len(c) > 0
        BY <2>5, <3>4
      <3>8. Undoubled(c, q) = <<t[1]>> \o Undoubled(b, q)
        BY <2>8, <3>4, <3>6, <3>7, UndoubledHead
      <3> QED
        BY <2>5, <2>6, <3>5, <3>8
    <2> QED
      BY <2>7, <2>8
  <1> HIDE DEF S
  <1>3. Nat \subseteq S
    BY <1>1, <1>2, SetInduction
  <1>4. Len(s) \in S
    BY <1>3, LenProperties
  <1> QED
    BY <1>4 DEF S

\* Behind place d, a doubled text and the quote.
DoubledAt(t, d, s, q) == Rest(t, d) = Doubled(s, q) \o <<q>>

\* The lexer finds the quote behind a doubled text, whatever the text is.
LEMMA CloseDoubled ==
  ASSUME NEW t \in Seq(Bytes), NEW q \in Bytes \ {0}, NEW s \in Seq(Bytes), NEW d \in 0..Len(t),
         DoubledAt(t, d, s, q)
  PROVE  Close(t, d + 1, q, FALSE) = <<Len(t)>>
  <1>1. PICK n \in Nat : n = Len(t)
    BY LenProperties
  <1>2. PICK no : no = FALSE
    OBVIOUS
  <1>3. PICK last : last = <<q>>
    OBVIOUS
  <1>4. last \in Seq(Bytes) /\ Len(last) = 1 /\ last[1] = q
    BY <1>3
  <1>5. PICK read : read = Closing(t, q, no)
    OBVIOUS
  <1>6. \A k \in 1..n : read[k] = IF t[k] = q /\ Byte(t, k + 1) # q THEN Read(<<k>>, n + 1)
                                  ELSE Read(<<>>, IF t[k] = q /\ k < n THEN k + 2 ELSE k + 1)
    <2>1. DOMAIN t = 1..n
      BY <1>1, LenProperties
    <2> QED
      BY <1>2, <1>1, <1>5, <2>1 DEF Closing
  <1>7. /\ Close(t, n + 1, q, no) = <<>>
        /\ \A k \in 1..n : Close(t, k, q, no) = read[k].piece \o Close(t, read[k].next, q, no)
    <2>1. Close(t, n + 1, q, no) = <<>>
      BY <1>1, CloseStep
    <2>2. \A k \in 1..n : Close(t, k, q, no) = read[k].piece \o Close(t, read[k].next, q, no)
      <3> SUFFICES ASSUME NEW k \in 1..Len(t)
                   PROVE  Close(t, k, q, no) = read[k].piece \o Close(t, read[k].next, q, no)
        BY <1>1
      <3>1. PICK r : r = Closing(t, q, no)[k]
        OBVIOUS
      <3>2. Close(t, k, q, no) = r.piece \o Close(t, r.next, q, no)
        BY <3>1, CloseStep, ZenonT(30)
      <3> QED
        BY <1>5, <3>1, <3>2
    <2> QED
      BY <2>1, <2>2
  <1>8. \A k \in 1..n + 1 : Close(t, k, q, no) \in Seq(Nat)
    <2> SUFFICES ASSUME NEW k \in 1..n + 1 PROVE Close(t, k, q, no) \in Seq(Nat)
      OBVIOUS
    <2>1. CASE Close(t, k, q, no) = <<>>
      BY <2>1
    <2>2. CASE Close(t, k, q, no) # <<>>
      <3>1. PICK j \in k..n : Close(t, k, q, no) = <<j>>
        BY <1>1, <2>2, CloseIs
      <3>2. j \in Nat
        OBVIOUS
      <3>3. <<j>> \in Seq(Nat)
        BY <3>2
      <3> QED
        BY <3>1, <3>3
    <2> QED
      BY <2>1, <2>2
  <1> DEFINE Ends(u, e) == DoubledAt(t, e, u, q) => Close(t, e + 1, q, no) = <<n>>
  <1> DEFINE S == {m \in Nat : \A u \in Seq(Bytes) : \A e \in 0..n : Len(u) = m => Ends(u, e)}
  <1> HIDE DEF Ends, S
  <1>9. 0 \in S
    <2> SUFFICES ASSUME NEW u \in Seq(Bytes), NEW e \in 0..n, Len(u) = 0,
                        DoubledAt(t, e, u, q)
                 PROVE  Close(t, e + 1, q, no) = <<n>>
      BY DEF S, Ends
    <2>1. Rest(t, e) = last
      <3>1. Doubled(u, q) = <<>>
        BY DoubledType
      <3> QED
        BY <1>3, <1>4, <3>1, ConcatEmptySeq DEF DoubledAt
    <2>2. Len(last) = n - e /\ \A k \in 1..n - e : last[k] = t[k + e]
      <3>1. PICK r : r = Rest(t, e)
        OBVIOUS
      <3>2. Len(r) = n - e /\ \A k \in 1..n - e : r[k] = t[k + e]
        <4>1. e \in 0..Len(t)
          BY <1>1
        <4>2. Len(r) = n - e /\ \A k \in 1..n - e : r[k] = t[k + e]
          <5>1. Len(r) = Len(t) - e
            BY <3>1, <4>1, RestIs
          <5>2. \A k \in 1..Len(t) - e : r[k] = t[k + e]
            <6> SUFFICES ASSUME NEW k \in 1..Len(t) - e PROVE r[k] = t[k + e]
              OBVIOUS
            <6>1. Rest(t, e)[k] = t[k + e]
              BY <4>1, RestIs
            <6> QED
              BY <3>1, <6>1
          <5> QED
            BY <1>1, <5>1, <5>2
        <4> QED
          BY <4>2
      <3> QED
        BY <2>1, <3>1, <3>2
    <2>3. n = e + 1 /\ e + 1 \in 1..n
      <3>1. n - e = 1
        BY <1>4, <2>2
      <3> QED
        BY <3>1
    <2>4. t[n] = q
      <3>1. 1 \in 1..n - e /\ 1 + e = n
        BY <2>3
      <3> QED
        BY <1>4, <2>2, <3>1
    <2>5. Byte(t, n + 1) # q
      <3>1. ~(n + 1 <= Len(t)) /\ q # 0
        BY <1>1
      <3> QED
        BY <3>1 DEF Byte
    <2>6. n \in 1..n
      BY <2>3
    <2>7. read[n] = Read(<<n>>, n + 1)
      BY <1>6, <2>4, <2>5, <2>6
    <2>8. read[n].piece = <<n>> /\ read[n].next = n + 1
      BY <2>7 DEF Read
    <2>9. Close(t, n, q, no) = <<n>> \o <<>>
      BY <1>7, <2>6, <2>8
    <2>10. <<n>> \in Seq(Nat)
      OBVIOUS
    <2> QED
      BY <2>3, <2>9, <2>10, ConcatEmptySeq
  <1>10. ASSUME NEW m \in Nat, m \in S PROVE m + 1 \in S
    <2> SUFFICES ASSUME NEW u \in Seq(Bytes), NEW e \in 0..n, Len(u) = m + 1,
                        DoubledAt(t, e, u, q)
                 PROVE  Close(t, e + 1, q, no) = <<n>>
      BY DEF S, Ends
    <2>1. Len(u) > 0 /\ 1 \in 0..Len(u) /\ 1 \in 1..Len(u)
      <3>1. Len(u) = m + 1
        OBVIOUS
      <3> QED
        BY <3>1
    <2>2. PICK v : v = Rest(u, 1)
      OBVIOUS
    <2>3. v \in Seq(Bytes) /\ Len(v) = m /\ u[1] \in Bytes
      <3>1. v \in Seq(Bytes) /\ Len(v) = Len(u) - 1
        BY <2>1, <2>2, RestIs
      <3>2. u[1] \in Bytes
        BY <2>1, ElementOfSeq
      <3>3. Len(u) = m + 1
        OBVIOUS
      <3> QED
        BY <3>1, <3>2, <3>3
    <2>4. PICK b : b = Doubled(v, q)
      OBVIOUS
    <2>5. b \in Seq(Bytes)
      BY <2>3, <2>4, DoubledType
    <2>6. PICK c : c = b \o last
      OBVIOUS
    <2>7. c \in Seq(Bytes) /\ Len(c) \in Nat /\ Len(c) >= 1
      <3>1. c \in Seq(Bytes) /\ Len(c) = Len(b) + Len(last) /\ Len(b) \in Nat
        BY <1>4, <2>5, <2>6, ConcatProperties, LenProperties
      <3> QED
        BY <1>4, <3>1
    <2>8. PICK a : a = IF u[1] = q THEN <<q, q>> ELSE <<u[1]>>
      OBVIOUS
    <2>9. /\ a \in Seq(Bytes) /\ Len(a) \in {1, 2} /\ a[1] = u[1]
          /\ u[1] = q => Len(a) = 2 /\ a[2] = q
          /\ u[1] # q => Len(a) = 1
      <3>1. CASE u[1] = q
        BY <2>3, <2>8, <3>1
      <3>2. CASE u[1] # q
        BY <2>3, <2>8, <3>2
      <3> QED
        BY <3>1, <3>2
    <2>10. Rest(t, e) = a \o c
      <3>1. Doubled(u, q) = a \o b
        BY <2>1, <2>2, <2>4, <2>8, DoubledHead
      <3>2. (a \o b) \o last = a \o (b \o last)
        <4>1. a \in Seq(Bytes) /\ b \in Seq(Bytes) /\ last \in Seq(Bytes)
          BY <1>4, <2>5, <2>9
        <4> QED
          BY <4>1, ConcatAssociative, SMTT(30)
      <3> QED
        BY <1>3, <2>6, <3>1, <3>2 DEF DoubledAt
    <2>11. PICK l \in {1, 2} : l = Len(a)
      BY <2>9
    <2>12. /\ n - e = l + Len(c)
           /\ \A k \in 1..l : t[k + e] = a[k]
      <3>1. PICK r : r = Rest(t, e)
        OBVIOUS
      <3>2. Len(r) = n - e /\ \A k \in 1..n - e : r[k] = t[k + e]
        BY <1>1, <3>1, RestIs, ZenonT(30)
      <3>3. Len(r) = l + Len(c) /\ \A k \in 1..l + Len(c) : r[k] = IF k <= l THEN a[k] ELSE c[k - l]
        BY <2>7, <2>9, <2>10, <2>11, <3>1, ConcatProperties
      <3>4. \A k \in 1..l : k \in 1..l + Len(c) /\ k \in 1..n - e /\ k <= l
        BY <2>7, <3>2, <3>3
      <3> QED
        BY <3>2, <3>3, <3>4
    <2>13. Rest(t, e + l) = c
      <3>1. l \in 0..Len(t) - e /\ e \in 0..Len(t)
        BY <1>1, <2>7, <2>12
      <3>2. Rest(Rest(t, e), l) = Rest(t, e + l)
        BY <3>1, RestRest
      <3>3. Rest(a \o c, l) = c
        BY <2>7, <2>9, <2>11, RestConcat
      <3> QED
        BY <2>10, <3>2, <3>3
    <2>14. e + l \in 0..n /\ e + l + 1 \in 1..n + 1 /\ e + 1 \in 1..n /\ e + 1 < n
      BY <2>7, <2>12
    <2>15. Close(t, e + l + 1, q, no) = <<n>>
      <3>1. Ends(v, e + l)
        BY <1>10, <2>3, <2>14 DEF S
      <3> QED
        BY <1>3, <2>4, <2>6, <2>13, <3>1 DEF Ends, DoubledAt
    <2>16. PICK k : k = e + 1
      OBVIOUS
    <2>17. k \in 1..n /\ k < n /\ t[k] = u[1]
      <3>1. 1 \in 1..l /\ 1 + e = k
        BY <2>16
      <3>2. t[1 + e] = a[1]
        BY <2>12, <3>1
      <3> QED
        BY <2>9, <2>14, <2>16, <3>1, <3>2
    <2>18. read[k] = Read(<<>>, e + l + 1)
      <3>1. CASE u[1] = q
        <4>1. l = 2 /\ a[2] = q
          BY <2>9, <2>11, <3>1
        <4>2. 2 \in 1..l /\ 2 + e = k + 1 /\ e + l + 1 = k + 2
          BY <2>16, <4>1
        <4>3. t[k + 1] = q
          BY <2>12, <4>1, <4>2
        <4>4. k + 1 <= Len(t)
          BY <1>1, <2>17
        <4>5. Byte(t, k + 1) = q
          BY <4>3, <4>4 DEF Byte
        <4> QED
          BY <1>6, <2>17, <3>1, <4>2, <4>5
      <3>2. CASE u[1] # q
        <4>1. e + l + 1 = k + 1
          BY <2>9, <2>11, <2>16, <3>2
        <4> QED
          BY <1>6, <2>17, <3>2, <4>1
      <3> QED
        BY <3>1, <3>2
    <2>19. read[k].piece = <<>> /\ read[k].next = e + l + 1
      BY <2>18 DEF Read
    <2>20. Close(t, k, q, no) = <<>> \o Close(t, e + l + 1, q, no)
      BY <1>7, <2>17, <2>19
    <2>21. <<>> \o <<n>> = <<n>>
      <3>1. <<n>> \in Seq(Nat)
        OBVIOUS
      <3> QED
        BY <3>1, ConcatEmptySeq
    <2> QED
      BY <2>15, <2>16, <2>20, <2>21
  <1>11. Nat \subseteq S
    BY <1>9, <1>10, SetInduction
  <1>12. Len(s) \in S
    BY <1>11, LenProperties
  <1>13. Ends(s, d)
    BY <1>1, <1>12 DEF S
  <1> QED
    BY <1>2, <1>1, <1>13 DEF Ends

\* What is written between quotes, with the quotes inside doubled, is one token.
LEMMA QuotedToken ==
  ASSUME NEW s \in Seq(Bytes), NEW q \in {Quote, DQuote}
  PROVE  \E t \in Seq(Bytes) :
           /\ t = <<q>> \o Doubled(s, q) \o <<q>> /\ Len(t) >= 2 /\ t[1] = q /\ t[Len(t)] = q
           /\ TokenAt(t, 1) = Read(<<Token(IF q = Quote THEN "str" ELSE "ident", s)>>, Len(t) + 1)
  <1>1. q \in Bytes /\ q \in Bytes \ {0}
    BY DEF Bytes, Quote, DQuote
  <1>2. PICK b : b = Doubled(s, q)
    OBVIOUS
  <1>3. b \in Seq(Bytes)
    BY <1>1, <1>2, DoubledType
  <1>4. PICK one : one = <<q>>
    OBVIOUS
  <1>5. one \in Seq(Bytes) /\ Len(one) = 1 /\ one[1] = q
    BY <1>1, <1>4
  <1>6. PICK m \in Nat : m = Len(b)
    BY <1>3, LenProperties
  <1>7. PICK c : c = b \o one
    OBVIOUS
  <1>8. c \in Seq(Bytes) /\ Len(c) = m + 1 /\ \A k \in 1..m : c[k] = b[k]
    <2>1. /\ c \in Seq(Bytes) /\ Len(c) = m + 1
          /\ \A k \in 1..m + 1 : c[k] = IF k <= m THEN b[k] ELSE one[k - m]
      <3>1. /\ b \o one \in Seq(Bytes) /\ Len(b \o one) = Len(b) + Len(one)
            /\ \A k \in 1..Len(b) + Len(one) : (b \o one)[k] = IF k <= Len(b) THEN b[k] ELSE one[k - Len(b)]
        BY <1>3, <1>5, ConcatProperties
      <3> QED
        BY <1>5, <1>6, <1>7, <3>1
    <2> QED
      BY <2>1
  <1>9. PICK t : t = one \o c
    OBVIOUS
  <1>10. <<q>> \o Doubled(s, q) \o <<q>> = t
    BY <1>9, <1>2, <1>3, <1>4, <1>5, <1>7, ConcatAssociative
  <1>11. t \in Seq(Bytes) /\ Len(t) = m + 2 /\ t[1] = q /\ \A k \in 1..m + 1 : t[k + 1] = c[k]
    <2>1. /\ t \in Seq(Bytes) /\ Len(t) = 1 + (m + 1)
          /\ \A k \in 1..1 + (m + 1) : t[k] = IF k <= 1 THEN one[k] ELSE c[k - 1]
      <3>1. /\ one \o c \in Seq(Bytes) /\ Len(one \o c) = Len(one) + Len(c)
            /\ \A k \in 1..Len(one) + Len(c) : (one \o c)[k] = IF k <= Len(one) THEN one[k] ELSE c[k - Len(one)]
        BY <1>5, <1>8, ConcatProperties
      <3> QED
        BY <1>5, <1>8, <1>9, <3>1
    <2>2. \A k \in 1..m + 1 : k + 1 \in 1..1 + (m + 1) /\ ~(k + 1 <= 1) /\ (k + 1) - 1 = k
      OBVIOUS
    <2>3. 1 \in 1..1 + (m + 1)
      OBVIOUS
    <2>4. t[1] = q
      BY <1>5, <2>1, <2>3
    <2>5. \A k \in 1..m + 1 : t[k + 1] = c[k]
      BY <2>1, <2>2
    <2> QED
      BY <2>1, <2>4, <2>5
  <1>12. Close(t, 2, q, FALSE) = <<m + 2>>
    <2>1. Rest(t, 1) = c
      BY <1>5, <1>8, <1>9, RestConcat
    <2>2. DoubledAt(t, 1, s, q)
      BY <1>2, <1>4, <1>7, <2>1 DEF DoubledAt
    <2>3. 1 \in 0..Len(t) /\ 1 + 1 = 2
      BY <1>11
    <2>4. Close(t, 1 + 1, q, FALSE) = <<Len(t)>>
      BY <1>1, <1>11, <2>2, <2>3, CloseDoubled
    <2> QED
      BY <1>11, <2>3, <2>4
  <1>13. SubSeq(t, 2, (m + 2) - 1) = b
    <2>1. PICK u, z : z = (m + 2) - 1 /\ u = SubSeq(t, 2, z)
      OBVIOUS
    <2>2. z \in Int /\ z = m + 1
      BY <2>1
    <2>3. \A k \in 2..z : t[k] \in Bytes
      BY <1>11, <2>2, ElementOfSeq
    <2>4. /\ u \in Seq(Bytes)
          /\ Len(u) = IF 2 <= z THEN z - 2 + 1 ELSE 0
          /\ \A k \in 1..z - 2 + 1 : u[k] = t[2 + k - 1]
      <3>1. 2 \in Int
        OBVIOUS
      <3> QED
        BY <2>1, <2>2, <2>3, <3>1, SubSeqProperties
    <2>5. Len(u) = m
      BY <2>2, <2>4
    <2>6. ASSUME NEW k \in 1..m PROVE u[k] = b[k]
      <3>1. k \in 1..z - 2 + 1 /\ 2 + k - 1 = k + 1 /\ k \in 1..m + 1
        BY <2>2
      <3> QED
        BY <1>8, <1>11, <2>4, <3>1
    <2> QED
      BY <1>3, <1>6, <2>1, <2>4, <2>5, <2>6, SeqEqual
  <1>14. Replace(b, <<q, q>>, <<q>>) = s
    BY <1>1, <1>2, UndoubledDoubled DEF Undoubled
  <1> DEFINE is == IF q = Quote THEN "str" ELSE "ident"
  <1>15. Quoted(t, is, 2, q, FALSE) = Read(<<Token(is, s)>>, (m + 2) + 1)
    <2>1. PICK close : close = Close(t, 2, q, FALSE)
      OBVIOUS
    <2>2. close = <<m + 2>> /\ close[1] = m + 2 /\ close # <<>>
      <3>1. close = <<m + 2>>
        BY <1>12, <2>1
      <3> QED
        BY <3>1
    <2>3. Replace(SubSeq(t, 2, close[1] - 1), <<q, q>>, <<q>>) = s
      BY <1>13, <1>14, <2>2
    <2>4. Quoted(t, is, 2, q, FALSE)
            = Read(<<Token(is, Replace(SubSeq(t, 2, close[1] - 1), <<q, q>>, <<q>>))>>, close[1] + 1)
      BY <2>1, <2>2 DEF Quoted
    <2> QED
      BY <2>2, <2>3, <2>4
  <1>16. TokenAt(t, 1) = Quoted(t, is, 2, q, FALSE)
    <2>1. PICK k : k = 1 /\ k + 1 = 2
      OBVIOUS
    <2>2. CASE q = Quote
      <3>1. t[k] = Quote
        BY <1>11, <2>1, <2>2
      <3>2. TokenAt(t, k) = Quoted(t, "str", k + 1, Quote, FALSE)
        BY <3>1, TokenOf
      <3> QED
        BY <2>1, <2>2, <3>2
    <2>3. CASE q = DQuote
      <3>1. t[k] = DQuote
        BY <1>11, <2>1, <2>3
      <3>2. Quote # DQuote
        BY DEF Quote, DQuote
      <3>3. TokenAt(t, k) = Quoted(t, "ident", k + 1, DQuote, FALSE)
        BY <3>1, TokenOf
      <3> QED
        BY <2>1, <2>3, <3>2, <3>3
    <2> QED
      BY <2>2, <2>3
  <1>17. t[Len(t)] = q
    <2>1. m + 1 \in 1..m + 1 /\ (m + 1) + 1 = Len(t)
      BY <1>11
    <2>2. t[(m + 1) + 1] = c[m + 1]
      BY <1>11, <2>1
    <2>3. c[m + 1] = one[1]
      <3>1. 1 \in 1..Len(one)
        BY <1>5
      <3>2. (b \o one)[Len(b) + 1] = one[1]
        <4>1. one \in Seq(Bytes)
          BY <1>5
        <4> QED
          BY <1>3, <3>1, <4>1, ConcatIs
      <3> QED
        BY <1>6, <1>7, <3>2
    <2> QED
      BY <1>5, <2>1, <2>2, <2>3
  <1>18. Len(t) = m + 2 /\ (m + 2) + 1 = Len(t) + 1
    BY <1>11
  <1> QED
    <2>1. TokenAt(t, 1) = Read(<<Token(IF q = Quote THEN "str" ELSE "ident", s)>>, Len(t) + 1)
      BY <1>15, <1>16, <1>18 DEF is
    <2>2. t \in Seq(Bytes) /\ Len(t) >= 2 /\ t[1] = q
      BY <1>11
    <2> QED
      BY <1>10, <1>17, <2>1, <2>2, Zenon

LEMMA QuotedLex ==
  ASSUME NEW s \in Seq(Bytes), NEW q \in {Quote, DQuote}
  PROVE  Lex(<<q>> \o Doubled(s, q) \o <<q>>) = <<Token(IF q = Quote THEN "str" ELSE "ident", s)>>
  <1> DEFINE is == IF q = Quote THEN "str" ELSE "ident"
  <1>1. PICK t \in Seq(Bytes) :
          /\ t = <<q>> \o Doubled(s, q) \o <<q>> /\ Len(t) >= 2
          /\ TokenAt(t, 1) = Read(<<Token(is, s)>>, Len(t) + 1)
    BY QuotedToken
  <1>2. t \in Seq(Bytes) /\ Len(t) >= 2 /\ TokenAt(t, 1) = Read(<<Token(is, s)>>, Len(t) + 1)
    BY <1>1
  <1> HIDE DEF is
  <1>17. PICK n \in Nat : n = Len(t)
    BY LenProperties
  <1>18. PICK read : read = [k \in DOMAIN t |-> TokenAt(t, k)]
    OBVIOUS
  <1>19. Advances(n, read)
    BY <1>2, <1>17, <1>18, TokenAtAdvances
  <1>20. 1 \in 1..n /\ 1 \in DOMAIN t
    BY <1>2, <1>17, LenProperties
  <1>21. read[1].piece = <<Token(is, s)>> /\ read[1].next = n + 1
    <2>1. read[1] = Read(<<Token(is, s)>>, n + 1)
      BY <1>2, <1>17, <1>18, <1>20
    <2> QED
      BY <1>17, <2>1 DEF Read
  <1>22. From(n, read)[1] = <<Token(is, s)>> \o <<>>
    <2>1. From(n, read)[n + 1] = <<>>
      BY <1>19, FromStep
    <2>2. From(n, read)[1] = read[1].piece \o From(n, read)[read[1].next]
      BY <1>19, <1>20, FromStep
    <2> QED
      BY <1>21, <2>1, <2>2
  <1>23. <<Token(is, s)>> \o <<>> = <<Token(is, s)>>
    <2>1. PICK token : token = Token(is, s)
      OBVIOUS
    <2>2. <<token>> \in Seq({token})
      OBVIOUS
    <2>3. <<token>> \o <<>> = <<token>>
      BY <2>2, ConcatEmptySeq
    <2> QED
      BY <2>1, <2>3
  <1>24. Lex(t) = From(n, read)[1]
    BY <1>17, <1>18 DEF Lex
  <1> QED
    BY <1>1, <1>22, <1>23, <1>24 DEF is

-----------------------------------------------------------------------------
(* The bytes of values *)

\* A value is of one of the types.
LEMMA ValueKinds ==
  ASSUME NEW v, IsValue(v)
  PROVE  \/ v.ty = "i16" \/ v.ty = "i32" \/ v.ty = "text" \/ v.ty = "uuid" \/ v.ty = "json"
         \/ v.ty = "f64" \/ v.ty = "bool" \/ v.ty = "bytea" \/ v.ty = "none"
  BY DEF IsValue, Types, IntTypes, TextTypes

LEMMA IntValue ==
  ASSUME NEW v, IsValue(v), v.ty \in IntTypes
  PROVE  v.of = <<v.of[1]>> /\ v.of[1] \in Int /\ v.of[1] \in -MaxOf(v.ty) - 1..MaxOf(v.ty)
  <1>1. v.of \in Seq(Int) /\ Len(v.of) = 1 /\ v.of[1] \in -MaxOf(v.ty) - 1..MaxOf(v.ty)
    BY DEF IsValue
  <1>2. 1 \in 1..Len(v.of)
    BY <1>1
  <1>3. v.of[1] \in Int
    BY <1>1, <1>2, ElementOfSeq
  <1>4. PICK s : s = v.of
    OBVIOUS
  <1>5. s = <<s[1]>>
    BY <1>1, <1>4
  <1> QED
    BY <1>1, <1>3, <1>4, <1>5

LEMMA DecimalBytes ==
  ASSUME NEW n \in Nat
  PROVE  Decimal(n) \in Seq(Bytes)
  <1>1. Digits \subseteq Bytes
    BY DEF Digits, Bytes
  <1> QED
    BY <1>1, DecimalIs, SeqMonotonic

LEMMA ToSqlType ==
  ASSUME NEW v, IsValue(v)
  PROVE  to_sql(v) \in Seq(Bytes)
  <1>1. CASE v.ty \in IntTypes
    <2>1. v.of[1] \in Int
      BY <1>1, IntValue
    <2>2. CASE v.of[1] < 0
      <3>1. -v.of[1] \in Nat
        BY <2>1, <2>2
      <3>2. PICK d : d = Decimal(-v.of[1])
        OBVIOUS
      <3>3. d \in Seq(Bytes)
        BY <3>1, <3>2, DecimalBytes
      <3>4. to_sql(v) = <<Minus>> \o d
        BY <1>1, <2>2, <3>2 DEF to_sql, IntTypes
      <3>5. <<Minus>> \in Seq(Bytes)
        BY DEF Minus, Bytes
      <3> QED
        BY <3>3, <3>4, <3>5, ConcatProperties
    <2>3. CASE ~(v.of[1] < 0)
      <3>1. v.of[1] \in Nat
        BY <2>1, <2>3
      <3>2. to_sql(v) = Decimal(v.of[1])
        BY <1>1, <2>3 DEF to_sql, IntTypes
      <3> QED
        BY <3>1, <3>2, DecimalBytes
    <2> QED
      BY <2>2, <2>3
  <1>2. CASE v.ty = "bool"
    <2>1. to_sql(v) = <<116>> \/ to_sql(v) = <<102>>
      BY <1>2 DEF to_sql, IntTypes
    <2>2. 116 \in Bytes /\ 102 \in Bytes
      BY DEF Bytes
    <2>3. <<116>> \in Seq(Bytes) /\ <<102>> \in Seq(Bytes)
      BY <2>2
    <2> QED
      BY <2>1, <2>3
  <1>3. CASE v.ty \notin IntTypes /\ v.ty # "bool"
    <2>1. to_sql(v) = v.of
      BY <1>3 DEF to_sql
    <2>2. v.ty = "none" \/ v.ty \in TextTypes \cup {"bytea"}
      BY <1>3 DEF IsValue, Types
    <2>3. v.of \in Seq(Bytes)
      BY <2>2, EmptySeq DEF IsValue
    <2> QED
      BY <2>1, <2>3
  <1> QED
    BY <1>1, <1>2, <1>3

HexDigits == Digits \cup (97..102)

LEMMA HexType ==
  ASSUME NEW s \in Seq(Bytes)
  PROVE  Hex(s) \in Seq(HexDigits) /\ Hex(s) \in Seq(Bytes)
  <1>1. \A n \in 0..15 : Nibble(n) \in HexDigits
    BY DEF HexDigits, Digits, Nibble
  <1>2. PICK seqs : seqs = [k \in DOMAIN s |-> <<Nibble(s[k] \div 16), Nibble(s[k] % 16)>>]
    OBVIOUS
  <1>3. PICK n \in Nat : n = Len(s)
    BY LenProperties
  <1>4. DOMAIN s = 1..n
    BY <1>3, LenProperties
  <1>5. ASSUME NEW k \in 1..n PROVE seqs[k] \in Seq(HexDigits)
    <2>1. PICK c \in 0..255 : c = s[k]
      BY <1>3, ElementOfSeq DEF Bytes
    <2>2. c \div 16 \in 0..15 /\ c % 16 \in 0..15
      OBVIOUS
    <2>3. PICK a \in HexDigits, b \in HexDigits : a = Nibble(c \div 16) /\ b = Nibble(c % 16)
      BY <1>1, <2>2
    <2>4. seqs[k] = <<a, b>>
      BY <1>2, <1>4, <2>1, <2>3
    <2> QED
      BY <2>4
  <1>6. seqs \in [1..n -> Seq(HexDigits)]
    BY <1>2, <1>4, <1>5
  <1>7. seqs \in Seq(Seq(HexDigits))
    BY <1>6, SeqDef
  <1>8. Hex(s) = FlattenSeq(seqs)
    BY <1>2 DEF Hex
  <1>9. PICK h : h = Hex(s)
    OBVIOUS
  <1>10. h \in Seq(HexDigits)
    BY <1>7, <1>8, <1>9, FlattenType
  <1>11. HexDigits \subseteq Bytes
    BY DEF HexDigits, Digits, Bytes
  <1> QED
    BY <1>9, <1>10, <1>11, SeqMonotonic

LEMMA QuoteStringIs ==
  ASSUME NEW s \in Seq(Bytes)
  PROVE  /\ quote_string(s) = <<Quote>> \o Doubled(s, Quote) \o <<Quote>>
         /\ double_quote_identifier(s) = <<DQuote>> \o Doubled(s, DQuote) \o <<DQuote>>
         /\ quote_string(s) \in Seq(Bytes) /\ double_quote_identifier(s) \in Seq(Bytes)
  <1>1. Quote \in Bytes /\ DQuote \in Bytes
    BY DEF Quote, DQuote, Bytes
  <1>2. Doubled(s, Quote) \in Seq(Bytes) /\ Doubled(s, DQuote) \in Seq(Bytes)
    BY <1>1, DoubledType
  <1>3. ASSUME NEW q \in Bytes, NEW b \in Seq(Bytes) PROVE <<q>> \o b \o <<q>> \in Seq(Bytes)
    <2>1. <<q>> \in Seq(Bytes)
      OBVIOUS
    <2>2. <<q>> \o b \in Seq(Bytes)
      BY <2>1, ConcatProperties
    <2> QED
      BY <2>1, <2>2, ConcatProperties
  <1> QED
    BY <1>1, <1>2, <1>3 DEF quote_string, double_quote_identifier, Doubled

LEMMA EscapedType ==
  ASSUME NEW v, IsValue(v)
  PROVE  Escaped(v) \in Seq(Bytes)
  <1>1. to_sql(v) \in Seq(Bytes)
    BY ToSqlType
  <1>2. CASE to_sql(v) = <<>> /\ oid(v) = 0
    <2>1. Escaped(v) = Null
      BY <1>2 DEF Escaped
    <2> QED
      <3>1. 78 \in Bytes /\ 85 \in Bytes /\ 76 \in Bytes
        BY DEF Bytes
      <3> QED
        BY <2>1, <3>1 DEF Null
  <1>3. CASE ~(to_sql(v) = <<>> /\ oid(v) = 0)
    <2>1. CASE oid(v) \in {25, 1043}
      <3>1. Escaped(v) = quote_string(to_sql(v))
        BY <1>3, <2>1 DEF Escaped
      <3> QED
        BY <1>1, <3>1, QuoteStringIs
    <2>2. CASE oid(v) = 17
      <3>1. v.ty = "bytea"
        BY <2>2, ValueKinds DEF oid
      <3>2. v.of \in Seq(Bytes)
        BY <3>1 DEF IsValue
      <3>3. PICK h : h = Hex(v.of)
        OBVIOUS
      <3>4. h \in Seq(Bytes)
        BY <3>2, <3>3, HexType
      <3>5. Escaped(v) = <<LetterE, Quote, Backslash, Backslash, 120>> \o h \o <<Quote>>
        BY <1>3, <2>2, <3>3 DEF Escaped
      <3>6. LetterE \in Bytes /\ Quote \in Bytes /\ Backslash \in Bytes /\ 120 \in Bytes
        BY DEF LetterE, Quote, Backslash, Bytes
      <3>7. <<LetterE, Quote, Backslash, Backslash, 120>> \in Seq(Bytes) /\ <<Quote>> \in Seq(Bytes)
        BY <3>6
      <3>8. <<LetterE, Quote, Backslash, Backslash, 120>> \o h \in Seq(Bytes)
        BY <3>4, <3>7, ConcatProperties
      <3> QED
        BY <3>5, <3>7, <3>8, ConcatProperties
    <2>3. CASE oid(v) \notin {25, 1043} /\ oid(v) # 17
      <3>1. Escaped(v) = to_sql(v)
        BY <1>3, <2>3 DEF Escaped
      <3> QED
        BY <1>1, <3>1
    <2> QED
      BY <2>1, <2>2, <2>3
  <1> QED
    BY <1>2, <1>3

-----------------------------------------------------------------------------
(* Messages: what is put into them at which place *)

\* Each thing begins where the one before it says.
Chained(n, first, next, at) ==
  /\ n > 0 => at[1] = first
  /\ \A k \in 2..n : next[at[k - 1]] = at[k]

LEMMA PlacesAre ==
  ASSUME NEW n \in Nat, NEW first, NEW next, NEW at, Chained(n, first, next, at)
  PROVE  \A k \in 1..n : Places(n, first, next)[k] = at[k]
  <1> DEFINE All(g) == [k \in 1..n |-> IF k = 1 THEN first ELSE next[g[k - 1]]]
  <1>1. \E g : g = All(g)
    <2> DEFINE g == [k \in 1..n |-> at[k]]
    <2>1. ASSUME NEW k \in 1..n PROVE g[k] = IF k = 1 THEN first ELSE next[g[k - 1]]
      <3>1. CASE k = 1
        BY <3>1 DEF Chained
      <3>2. CASE k # 1
        <4>1. k \in 2..n /\ k - 1 \in 1..n
          BY <3>2
        <4> QED
          BY <3>2, <4>1 DEF Chained
      <3> QED
        BY <3>1, <3>2
    <2>2. g = [k \in 1..n |-> g[k]]
      OBVIOUS
    <2> HIDE DEF g
    <2>3. g = All(g)
      BY <2>1, <2>2
    <2> QED
      BY <2>3
  <1>2. PICK g : g = CHOOSE x : x = All(x)
    OBVIOUS
  <1>3. g = All(g)
    BY <1>1, <1>2
  <1>4. Places(n, first, next) = g
    BY <1>2 DEF Places
  <1>5. \A k \in 1..n : g[k] = IF k = 1 THEN first ELSE next[g[k - 1]]
    BY <1>3
  <1> HIDE DEF All
  <1> DEFINE S == {m \in Nat : m + 1 <= n => g[m + 1] = at[m + 1]}
  <1>6. 0 \in S
    BY <1>5 DEF Chained
  <1>7. ASSUME NEW m \in Nat, m \in S PROVE m + 1 \in S
    <2> SUFFICES ASSUME (m + 1) + 1 <= n PROVE g[(m + 1) + 1] = at[(m + 1) + 1]
      OBVIOUS
    <2>1. PICK k : k = (m + 1) + 1
      OBVIOUS
    <2>2. k \in 2..n /\ k \in 1..n /\ k # 1 /\ k - 1 = m + 1
      BY <2>1
    <2>3. g[k] = next[g[k - 1]] /\ next[at[k - 1]] = at[k] /\ g[m + 1] = at[m + 1]
      BY <1>5, <1>7, <2>2 DEF Chained
    <2> QED
      BY <2>1, <2>2, <2>3
  <1> HIDE DEF S
  <1>8. Nat \subseteq S
    BY <1>6, <1>7, SetInduction
  <1>9. ASSUME NEW k \in 1..n PROVE g[k] = at[k]
    <2>1. PICK m \in Nat : m = k - 1 /\ m + 1 = k
      <3>1. k - 1 \in Nat /\ (k - 1) + 1 = k
        OBVIOUS
      <3> QED
        BY <3>1
    <2>2. m + 1 <= n
      BY <2>1
    <2>3. g[m + 1] = at[m + 1]
      BY <1>8, <2>2 DEF S
    <2> QED
      BY <2>1, <2>3
  <1> QED
    BY <1>4, <1>9

\* A sequence stands in a message from a place on.
HasAt(message, p, d) == \A j \in 1..Len(d) : message[p + j - 1] = d[j]

\* Where the sequences of a message are, behind its front.
Holds(message, first, seqs, off) ==
  /\ off[0] = 0
  /\ \A k \in 1..Len(seqs) : /\ off[k] = off[k - 1] + Len(seqs[k])
                             /\ first + off[k - 1] + Len(seqs[k]) - 1 <= Len(message)
                             /\ HasAt(message, first + off[k - 1], seqs[k])

LEMMA MessageHolds ==
  ASSUME NEW front \in Seq(Int), NEW seqs \in Seq(Seq(Int)), NEW back \in Seq(Int)
  PROVE  /\ front \o FlattenSeq(seqs) \o back \in Seq(Int)
         /\ \A k \in 1..Len(front) : (front \o FlattenSeq(seqs) \o back)[k] = front[k]
         /\ \E off \in [0..Len(seqs) -> Nat] : Holds(front \o FlattenSeq(seqs) \o back, Len(front) + 1, seqs, off)
  <1>1. PICK all : all = FlattenSeq(seqs)
    OBVIOUS
  <1>2. all \in Seq(Int)
    BY <1>1, FlattenType
  <1>3. PICK off \in [0..Len(seqs) -> Nat] : Offsets(seqs, all, off)
    BY <1>1, FlattenPlaces
  <1>4. PICK f \in Nat, a \in Nat, b \in Nat, n \in Nat : f = Len(front) /\ a = Len(all) /\ b = Len(back) /\ n = Len(seqs)
    BY <1>2, LenProperties
  <1>5. PICK left : left = front \o all
    OBVIOUS
  <1>6. /\ left \in Seq(Int) /\ Len(left) = f + a
        /\ \A k \in 1..f + a : left[k] = IF k <= f THEN front[k] ELSE all[k - f]
    <2>1. /\ front \o all \in Seq(Int) /\ Len(front \o all) = Len(front) + Len(all)
          /\ \A k \in 1..Len(front) + Len(all) : (front \o all)[k] = IF k <= Len(front) THEN front[k] ELSE all[k - Len(front)]
      BY <1>2, ConcatProperties
    <2> QED
      BY <1>4, <1>5, <2>1
  <1>7. PICK message : message = left \o back
    OBVIOUS
  <1>8. /\ message \in Seq(Int) /\ Len(message) = f + a + b
        /\ \A k \in 1..f + a + b : message[k] = IF k <= f + a THEN left[k] ELSE back[k - (f + a)]
    <2>1. /\ left \o back \in Seq(Int) /\ Len(left \o back) = Len(left) + Len(back)
          /\ \A k \in 1..Len(left) + Len(back) : (left \o back)[k] = IF k <= Len(left) THEN left[k] ELSE back[k - Len(left)]
      BY <1>6, ConcatProperties
    <2> QED
      BY <1>4, <1>6, <1>7, <2>1
  <1>9. \A k \in 1..f : message[k] = front[k]
    <2>1. \A k \in 1..f : k \in 1..f + a /\ k \in 1..f + a + b /\ k <= f + a /\ k <= f
      OBVIOUS
    <2> QED
      BY <1>6, <1>8, <2>1
  <1>10. ASSUME NEW x \in 1..a PROVE message[f + x] = all[x]
    <2>1. f + x \in 1..f + a /\ f + x \in 1..f + a + b /\ f + x <= f + a /\ ~(f + x <= f) /\ (f + x) - f = x
      OBVIOUS
    <2>2. message[f + x] = left[f + x]
      BY <1>8, <2>1
    <2>3. left[f + x] = all[(f + x) - f]
      BY <1>6, <2>1
    <2> QED
      BY <2>1, <2>2, <2>3
  <1>11. Holds(message, f + 1, seqs, off)
    <2>1. off[0] = 0
      BY <1>3 DEF Offsets
    <2>2. ASSUME NEW k \in 1..n
          PROVE  /\ off[k] = off[k - 1] + Len(seqs[k])
                 /\ (f + 1) + off[k - 1] + Len(seqs[k]) - 1 <= Len(message)
                 /\ HasAt(message, (f + 1) + off[k - 1], seqs[k])
      <3>1. PICK o \in Nat : o = off[k - 1]
        <4>1. k - 1 \in 0..n
          OBVIOUS
        <4> QED
          BY <1>4, <4>1
      <3>2. PICK l \in Nat : l = Len(seqs[k])
        <4>1. seqs[k] \in Seq(Int)
          BY <1>4, ElementOfSeq
        <4> QED
          BY <4>1, LenProperties
      <3>3. off[k] = o + l /\ o + l <= a /\ \A j \in 1..l : all[o + j] = seqs[k][j]
        BY <1>3, <1>4, <3>1, <3>2 DEF Offsets
      <3>4. (f + 1) + o + l - 1 <= f + a + b
        BY <3>3
      <3>5. ASSUME NEW j \in 1..l PROVE message[(f + 1) + o + j - 1] = seqs[k][j]
        <4>1. o + j \in 1..a /\ f + (o + j) = (f + 1) + o + j - 1
          BY <3>3
        <4>2. message[f + (o + j)] = all[o + j]
          BY <1>10, <4>1
        <4> QED
          BY <3>3, <4>1, <4>2
      <3>6. HasAt(message, (f + 1) + off[k - 1], seqs[k])
        BY <3>1, <3>2, <3>5 DEF HasAt
      <3> QED
        BY <1>8, <3>1, <3>2, <3>3, <3>4, <3>6
    <2> QED
      BY <1>4, <2>1, <2>2 DEF Holds
  <1> QED
    BY <1>1, <1>3, <1>4, <1>5, <1>7, <1>8, <1>9, <1>11

\* A value in a message: NULL, or its length and its bytes.
Carries(d, value) ==
  \/ d = <<-1>> /\ value = NullValue
  \/ \E b \in Seq(Bytes) : d = <<Len(b)>> \o b /\ value = Some(b)

LEMMA CarriesType ==
  ASSUME NEW d, NEW value, Carries(d, value)
  PROVE  d \in Seq(Int)
  <1>1. CASE d = <<-1>>
    BY <1>1
  <1>2. CASE \E b \in Seq(Bytes) : d = <<Len(b)>> \o b
    <2>1. PICK b \in Seq(Bytes) : d = <<Len(b)>> \o b
      BY <1>2
    <2>2. Len(b) \in Int
      BY LenProperties
    <2>3. <<Len(b)>> \in Seq(Int)
      BY <2>2
    <2>4. Bytes \subseteq Int
      BY DEF Bytes
    <2>5. b \in Seq(Int)
      BY <2>4, SeqMonotonic
    <2> QED
      BY <2>1, <2>3, <2>5, ConcatProperties
  <1> QED
    BY <1>1, <1>2 DEF Carries

\* A value is read where it was put, and the next one is looked for behind it.
LEMMA ValueReadAt ==
  ASSUME NEW message, NEW p \in Int, NEW d, NEW value, Carries(d, value),
         HasAt(message, p, d)
  PROVE  ValueAt(message, p) = value /\ PastValue(message, p) = p + Len(d) /\ Len(d) > 0
  <1>1. CASE d = <<-1>> /\ value = NullValue
    <2>1. Len(d) = 1 /\ d[1] = -1
      BY <1>1
    <2>2. p + 1 - 1 = p /\ 1 \in 1..Len(d)
      BY <2>1
    <2>3. message[p] = -1
      BY <2>1, <2>2 DEF HasAt
    <2> QED
      BY <1>1, <2>1, <2>3 DEF ValueAt, PastValue
  <1>2. CASE \E b \in Seq(Bytes) : d = <<Len(b)>> \o b /\ value = Some(b)
    <2>1. PICK b \in Seq(Bytes) : d = <<Len(b)>> \o b /\ value = Some(b)
      BY <1>2
    <2>2. PICK l \in Nat : l = Len(b)
      BY LenProperties
    <2>3. PICK one : one = <<l>>
      OBVIOUS
    <2>4. one \in Seq(Int) /\ Len(one) = 1 /\ one[1] = l
      BY <2>3
    <2>5. b \in Seq(Int)
      <3>1. Bytes \subseteq Int
        BY DEF Bytes
      <3> QED
        BY <3>1, SeqMonotonic
    <2>6. Len(d) = l + 1 /\ d[1] = l /\ \A j \in 1..l : d[j + 1] = b[j]
      <3>1. /\ Len(one \o b) = Len(one) + Len(b)
            /\ \A j \in 1..Len(one) + Len(b) : (one \o b)[j] = IF j <= Len(one) THEN one[j] ELSE b[j - Len(one)]
        BY <2>4, <2>5, ConcatProperties
      <3>2. Len(d) = 1 + l /\ \A j \in 1..1 + l : d[j] = IF j <= 1 THEN one[j] ELSE b[j - 1]
        BY <2>1, <2>2, <2>3, <2>4, <3>1
      <3>3. 1 \in 1..1 + l
        OBVIOUS
      <3>4. \A j \in 1..l : j + 1 \in 1..1 + l /\ ~(j + 1 <= 1) /\ (j + 1) - 1 = j
        OBVIOUS
      <3> QED
        BY <2>4, <3>2, <3>3, <3>4
    <2>7. message[p] = l
      <3>1. p + 1 - 1 = p /\ 1 \in 1..Len(d)
        BY <2>6
      <3> QED
        BY <2>6, <3>1 DEF HasAt
    <2>8. SubSeq(message, p + 1, p + l) = b
      <3>1. PICK x \in Int, y \in Int : x = p + 1 /\ y = p + l
        <4>1. p + 1 \in Int /\ p + l \in Int
          OBVIOUS
        <4> QED
          BY <4>1
      <3>2. ASSUME NEW j \in 1..l PROVE message[x + j - 1] = b[j]
        <4>1. j + 1 \in 1..Len(d) /\ p + (j + 1) - 1 = x + j - 1
          BY <2>6, <3>1
        <4>2. message[p + (j + 1) - 1] = d[j + 1]
          BY <4>1 DEF HasAt
        <4> QED
          BY <2>6, <4>1, <4>2
      <3>3. \A k \in x..y : message[k] \in Bytes
        <4> SUFFICES ASSUME NEW k \in x..y PROVE message[k] \in Bytes
          OBVIOUS
        <4>1. k - p \in 1..l /\ x + (k - p) - 1 = k
          BY <3>1
        <4>2. b[k - p] \in Bytes
          BY <2>2, <4>1, ElementOfSeq
        <4>3. message[x + (k - p) - 1] = b[k - p]
          BY <3>2, <4>1
        <4> QED
          BY <4>1, <4>2, <4>3
      <3>4. PICK u : u = SubSeq(message, x, y)
        OBVIOUS
      <3>5. /\ u \in Seq(Bytes)
            /\ Len(u) = IF x <= y THEN y - x + 1 ELSE 0
            /\ \A j \in 1..y - x + 1 : u[j] = message[x + j - 1]
        BY <3>3, <3>4, SubSeqProperties
      <3>6. y - x + 1 = l /\ (x <= y \/ l = 0)
        BY <3>1
      <3>7. Len(u) = l /\ \A j \in 1..l : u[j] = b[j]
        BY <3>2, <3>5, <3>6
      <3>8. u = b
        BY <2>2, <3>5, <3>7, SeqEqual
      <3> QED
        BY <3>1, <3>4, <3>8
    <2>9. ~(message[p] < 0)
      BY <2>7
    <2>10. p + 1 + l = p + Len(d) /\ Len(d) > 0
      BY <2>6
    <2>11. ValueAt(message, p) = Some(SubSeq(message, p + 1, p + message[p]))
      BY <2>9 DEF ValueAt
    <2>12. PastValue(message, p) = p + 1 + message[p]
      BY <2>9 DEF PastValue
    <2> QED
      BY <2>1, <2>7, <2>8, <2>10, <2>11, <2>12
  <1> QED
    BY <1>1, <1>2 DEF Carries

Carried(n, seqs, w) == \A k \in 1..n : Carries(seqs[k], w[k])

Listed(n, w) == [k \in 1..n |-> w[k]]

\* Values put into a message one after the other are read back.
LEMMA ValuesRead ==
  ASSUME NEW n \in Nat, NEW message \in Seq(Int), NEW first \in Nat \ {0},
         NEW seqs \in Seq(Seq(Int)), Len(seqs) = n, NEW off \in [0..n -> Nat],
         Holds(message, first, seqs, off),
         NEW w, Carried(n, seqs, w)
  PROVE  ValuesAt(message, n, first) = Listed(n, w)
  <1>1. PICK at : at = [k \in 1..n |-> first + off[k - 1]]
    OBVIOUS
  <1>2. PICK next : next = [p \in DOMAIN message |-> PastValue(message, p)]
    OBVIOUS
  <1>3. PICK place : place = Places(n, first, next)
    OBVIOUS
  <1>4. DOMAIN message = 1..Len(message) /\ Len(message) \in Nat
    BY LenProperties
  <1>5. ASSUME NEW k \in 1..n
        PROVE  /\ at[k] \in DOMAIN message /\ ValueAt(message, at[k]) = w[k]
               /\ next[at[k]] = first + off[k]
    <2>1. PICK o \in Nat : o = off[k - 1]
      <3>1. k - 1 \in 0..n
        OBVIOUS
      <3> QED
        BY <3>1
    <2>2. PICK d : d = seqs[k]
      OBVIOUS
    <2>3. Carries(d, w[k]) /\ d \in Seq(Int)
      BY <2>2, ElementOfSeq DEF Carried
    <2>4. PICK l \in Nat : l = Len(d)
      BY <2>3, LenProperties
    <2>5. PICK p \in Nat : p = first + o
      OBVIOUS
    <2>6. /\ off[k] = o + l /\ p + l - 1 <= Len(message)
          /\ HasAt(message, p, d)
      BY <2>1, <2>2, <2>4, <2>5 DEF Holds
    <2>7. ValueAt(message, p) = w[k] /\ PastValue(message, p) = p + l /\ l > 0
      BY <2>3, <2>4, <2>6, ValueReadAt, SMTT(30)
    <2>8. p \in 1..Len(message)
      BY <1>4, <2>5, <2>6, <2>7
    <2>9. at[k] = p
      BY <1>1, <2>1, <2>5
    <2>10. p + l = first + off[k]
      BY <2>5, <2>6
    <2> QED
      BY <1>2, <1>4, <2>7, <2>8, <2>9, <2>10
  <1>6. n > 0 => at[1] = first
    <2> SUFFICES ASSUME n > 0 PROVE at[1] = first
      OBVIOUS
    <2>1. 1 \in 1..n /\ 1 - 1 = 0
      OBVIOUS
    <2>2. at[1] = first + off[0]
      BY <1>1, <2>1
    <2>3. off[0] = 0
      BY DEF Holds
    <2> QED
      BY <2>2, <2>3
  <1>7. \A k \in 2..n : next[at[k - 1]] = at[k]
    <2> SUFFICES ASSUME NEW k \in 2..n PROVE next[at[k - 1]] = at[k]
      OBVIOUS
    <2>1. k - 1 \in 1..n /\ k \in 1..n
      OBVIOUS
    <2>2. next[at[k - 1]] = first + off[k - 1]
      BY <1>5, <2>1
    <2> QED
      BY <1>1, <2>1, <2>2
  <1>8. \A k \in 1..n : place[k] = at[k]
    <2>1. Chained(n, first, next, at)
      BY <1>6, <1>7 DEF Chained
    <2> QED
      BY <1>3, <2>1, PlacesAre
  <1>9. \A k \in 1..n : ValueAt(message, place[k]) = w[k]
    BY <1>5, <1>8
  <1>10. ValuesAt(message, n, first) = [k \in 1..n |-> ValueAt(message, place[k])]
    BY <1>2, <1>3 DEF ValuesAt
  <1> QED
    BY <1>9, <1>10 DEF Listed

-----------------------------------------------------------------------------
(* What Bind carries *)

\* A parameter as a value of a row: without bytes it is NULL.
Sent(v) == IF to_sql(v) = <<>> THEN NullValue ELSE Some(to_sql(v))

Datum(v) == IF to_sql(v) = <<>> THEN <<-1>> ELSE <<Len(to_sql(v))>> \o to_sql(v)

LEMMA DatumCarries ==
  ASSUME NEW v, IsValue(v)
  PROVE  Carries(Datum(v), Sent(v))
  <1>1. PICK b \in Seq(Bytes) : b = to_sql(v)
    BY ToSqlType
  <1>2. CASE b = <<>>
    BY <1>1, <1>2 DEF Carries, Datum, Sent
  <1>3. CASE b # <<>>
    <2>1. Datum(v) = <<Len(b)>> \o b /\ Sent(v) = Some(b)
      BY <1>1, <1>3 DEF Datum, Sent
    <2> QED
      BY <2>1 DEF Carries
  <1> QED
    BY <1>2, <1>3

IsList(list) ==
  /\ list \in Seq([ty : Types, of : Seq(Int)])
  /\ \A k \in DOMAIN list : IsValue(list[k])

LEMMA ListLength ==
  ASSUME NEW list, IsList(list)
  PROVE  Len(list) \in Nat /\ DOMAIN list = 1..Len(list)
  BY LenProperties DEF IsList

LEMMA CountType ==
  ASSUME NEW list, IsList(list)
  PROVE  Count(list) \in Nat /\ (Len(list) < Counts => Count(list) = Len(list))
  <1>1. PICK n \in Nat : n = Len(list)
    BY ListLength
  <1>2. Counts \in Nat \ {0}
    BY ParamsAssumption
  <1>3. n % Counts \in Nat /\ (n < Counts => n % Counts = n)
    BY <1>2
  <1> QED
    BY <1>1, <1>3 DEF Count

\* The front of a Bind message: the formats, and twice how many values there are.
BindFront(n, c) == <<0, 0, c>> \o [k \in 1..n |-> 0] \o <<c>>

LEMMA FrontIs ==
  ASSUME NEW n \in Nat, NEW c \in Int
  PROVE  BindFront(n, c) \in Seq(Int) /\ Len(BindFront(n, c)) = n + 4 /\ BindFront(n, c)[3] = c
  <1> DEFINE front == BindFront(n, c)
  <1>1. PICK zeros : zeros = [k \in 1..n |-> 0]
    OBVIOUS
  <1>10. zeros \in Seq(Int) /\ Len(zeros) = n
    BY <1>1
  <1>2. PICK one, three : one = <<c>> /\ three = <<0, 0, c>>
    OBVIOUS
  <1>3. /\ one \in Seq(Int) /\ Len(one) = 1
        /\ three \in Seq(Int) /\ Len(three) = 3 /\ three[3] = c
    BY <1>2
  <1>4. PICK left : left = three \o zeros
    OBVIOUS
  <1>5. /\ left \in Seq(Int) /\ Len(left) = Len(three) + Len(zeros)
        /\ \A k \in 1..Len(three) + Len(zeros) : left[k] = IF k <= Len(three) THEN three[k] ELSE zeros[k - Len(three)]
    BY <1>10, <1>3, <1>4, ConcatProperties
  <1>6. Len(left) = n + 3 /\ left[3] = c
    <2>1. 3 \in 1..3 + n /\ 3 <= 3
      OBVIOUS
    <2> QED
      BY <1>10, <1>3, <1>5, <2>1
  <1>7. front = left \o one
    BY <1>1, <1>2, <1>4 DEF BindFront
  <1> HIDE DEF front
  <1>8. /\ front \in Seq(Int) /\ Len(front) = Len(left) + Len(one)
        /\ \A k \in 1..Len(left) + Len(one) : front[k] = IF k <= Len(left) THEN left[k] ELSE one[k - Len(left)]
    <2>1. /\ left \o one \in Seq(Int) /\ Len(left \o one) = Len(left) + Len(one)
          /\ \A k \in 1..Len(left) + Len(one) : (left \o one)[k] = IF k <= Len(left) THEN left[k] ELSE one[k - Len(left)]
      <3>1. left \in Seq(Int)
        BY <1>5
      <3>2. one \in Seq(Int)
        BY <1>3
      <3> QED
        BY <3>1, <3>2, ConcatProperties
    <2> QED
      BY <1>7, <2>1
  <1>9. 3 \in 1..n + 4 /\ 3 <= n + 3
    OBVIOUS
  <1>11. front \in Seq(Int) /\ Len(front) = n + 4 /\ front[3] = c
    BY <1>3, <1>6, <1>8, <1>9
  <1> QED
    BY <1>11 DEF front

\* The message is one of integers, says how many values it has, and carries each of them.
LEMMA BindIs ==
  ASSUME NEW list, IsList(list)
  PROVE  /\ build_bind_message(list) \in Seq(Int)
         /\ build_bind_message(list)[3] = Count(list)
         /\ ValuesAt(build_bind_message(list), Len(list), 5 + Len(list)) = [k \in 1..Len(list) |-> Sent(list[k])]
  <1>1. PICK n \in Nat : n = Len(list) /\ DOMAIN list = 1..n
    BY ListLength
  <1>2. PICK c \in Nat : c = Count(list)
    BY CountType
  <1>3. PICK front : front = BindFront(n, c)
    OBVIOUS
  <1>4. front \in Seq(Int) /\ Len(front) = n + 4 /\ front[3] = c
    <2>1. c \in Int
      OBVIOUS
    <2>2. BindFront(n, c) \in Seq(Int) /\ Len(BindFront(n, c)) = n + 4 /\ BindFront(n, c)[3] = c
      BY <2>1, FrontIs
    <2> QED
      BY <1>3, <2>2
  <1>5. PICK seqs : seqs = [k \in 1..n |-> Datum(list[k])]
    OBVIOUS
  <1>6. PICK w : w = [k \in 1..n |-> Sent(list[k])]
    OBVIOUS
  <1>7. ASSUME NEW k \in 1..n PROVE Carries(seqs[k], w[k]) /\ seqs[k] \in Seq(Int)
    <2>1. IsValue(list[k])
      BY <1>1 DEF IsList
    <2>2. Carries(seqs[k], w[k])
      BY <1>5, <1>6, <2>1, DatumCarries
    <2> QED
      BY <2>2, CarriesType
  <1>8. seqs \in Seq(Seq(Int)) /\ Len(seqs) = n
    BY <1>5, <1>7
  <1>9. PICK back : back = <<1, 0>>
    OBVIOUS
  <1>10. back \in Seq(Int)
    BY <1>9
  <1>11. PICK message : message = front \o FlattenSeq(seqs) \o back
    OBVIOUS
  <1>12. /\ message \in Seq(Int) /\ \A k \in 1..Len(front) : message[k] = front[k]
         /\ \E off \in [0..Len(seqs) -> Nat] : Holds(message, Len(front) + 1, seqs, off)
    BY <1>4, <1>8, <1>10, <1>11, MessageHolds
  <1>20. message \in Seq(Int)
    BY <1>12
  <1>13. message[3] = c
    <2>1. 3 \in 1..n + 4
      OBVIOUS
    <2> QED
      BY <1>4, <1>12, <2>1
  <1>14. message = build_bind_message(list)
    BY <1>1, <1>2, <1>3, <1>5, <1>9, <1>11 DEF build_bind_message, Datum, BindFront
  <1>15. PICK first \in Nat \ {0} : first = n + 5
    OBVIOUS
  <1>16. PICK off \in [0..n -> Nat] : Holds(message, first, seqs, off)
    <2>1. Len(front) + 1 = first
      BY <1>4, <1>15
    <2> QED
      BY <1>8, <1>12, <2>1
  <1>17. ValuesAt(message, n, first) = Listed(n, w)
    <2>1. Carried(n, seqs, w)
      BY <1>7 DEF Carried
    <2> QED
      BY <1>8, <1>16, <1>20, <2>1, ValuesRead, ZenonT(30)
  <1>18. Listed(n, w) = w
    BY <1>6 DEF Listed
  <1>19. 5 + n = first
    BY <1>15
  <1> QED
    BY <1>1, <1>2, <1>6, <1>12, <1>13, <1>14, <1>17, <1>18, <1>19

-----------------------------------------------------------------------------
(* The row of the answer *)

\* The values a row can have.
IsField(value) == value = NullValue \/ \E b \in Seq(Bytes) : value = Some(b)

FieldDatum(value) == IF value.null THEN <<-1>> ELSE <<Len(value.bytes)>> \o value.bytes

LEMMA FieldCarries ==
  ASSUME NEW value, IsField(value)
  PROVE  Carries(FieldDatum(value), value)
  <1>1. CASE value = NullValue
    <2>1. FieldDatum(value) = <<-1>>
      BY <1>1 DEF FieldDatum, NullValue
    <2> QED
      BY <1>1, <2>1 DEF Carries
  <1>2. CASE \E b \in Seq(Bytes) : value = Some(b)
    <2>1. PICK b \in Seq(Bytes) : value = Some(b)
      BY <1>2
    <2>2. FieldDatum(value) = <<Len(b)>> \o b
      BY <2>1 DEF FieldDatum, Some
    <2> QED
      BY <2>1, <2>2 DEF Carries
  <1> QED
    BY <1>1, <1>2 DEF IsField

Fields(n, w) == \A k \in 1..n : IsField(w[k])

\* The application reads the row that was sent.
LEMMA DataRowIs ==
  ASSUME NEW n \in Nat, NEW w, Fields(n, w)
  PROVE  decode_data_row(DataRowOf(Listed(n, w))) = Listed(n, w)
  <1>1. PICK list : list = Listed(n, w)
    OBVIOUS
  <1>2. DOMAIN list = 1..n /\ Len(list) = n /\ \A k \in 1..n : list[k] = w[k]
    BY <1>1 DEF Listed
  <1>3. PICK front : front = <<n>>
    OBVIOUS
  <1>4. front \in Seq(Int) /\ Len(front) = 1 /\ front[1] = n
    BY <1>3
  <1>5. PICK seqs : seqs = [k \in 1..n |-> FieldDatum(list[k])]
    OBVIOUS
  <1>6. ASSUME NEW k \in 1..n PROVE Carries(seqs[k], w[k]) /\ seqs[k] \in Seq(Int)
    <2>1. IsField(w[k]) /\ seqs[k] = FieldDatum(w[k])
      BY <1>2, <1>5 DEF Fields
    <2>2. Carries(seqs[k], w[k])
      BY <2>1, FieldCarries
    <2> QED
      BY <2>2, CarriesType
  <1>7. seqs \in Seq(Seq(Int)) /\ Len(seqs) = n
    BY <1>5, <1>6
  <1>8. PICK back : back = <<>>
    OBVIOUS
  <1>9. back \in Seq(Int)
    BY <1>8
  <1>10. PICK all : all = FlattenSeq(seqs)
    OBVIOUS
  <1>11. PICK message : message = front \o all \o back
    OBVIOUS
  <1>12. /\ message \in Seq(Int) /\ \A k \in 1..Len(front) : message[k] = front[k]
         /\ \E off \in [0..Len(seqs) -> Nat] : Holds(message, Len(front) + 1, seqs, off)
    BY <1>4, <1>7, <1>9, <1>10, <1>11, MessageHolds
  <1>13. message \in Seq(Int) /\ message[1] = n
    <2>1. 1 \in 1..1
      OBVIOUS
    <2> QED
      BY <1>4, <1>12, <2>1
  <1>14. message = DataRowOf(list)
    <2>1. all \in Seq(Int)
      BY <1>7, <1>10, FlattenType
    <2>2. front \o all \in Seq(Int)
      BY <1>4, <2>1, ConcatProperties
    <2>3. message = front \o all
      BY <1>8, <1>11, <2>2, ConcatEmptySeq
    <2>4. DataRowOf(list) = front \o all
      BY <1>2, <1>3, <1>5, <1>10 DEF DataRowOf, FieldDatum
    <2> QED
      BY <2>3, <2>4
  <1>15. PICK first \in Nat \ {0} : first = 2
    OBVIOUS
  <1>16. PICK off \in [0..n -> Nat] : Holds(message, first, seqs, off)
    <2>1. Len(front) + 1 = first
      BY <1>4, <1>15
    <2> QED
      BY <1>7, <1>12, <2>1
  <1>17. ValuesAt(message, n, first) = Listed(n, w)
    <2>1. Carried(n, seqs, w)
      BY <1>6 DEF Carried
    <2> QED
      BY <1>7, <1>13, <1>16, <2>1, ValuesRead
  <1>18. decode_data_row(message) = ValuesAt(message, n, first)
    BY <1>13, <1>15 DEF decode_data_row
  <1> QED
    BY <1>1, <1>14, <1>17, <1>18

\* A column in a row description.
ColumnDatum(col) == col.name \o <<0, 0, 0, col.type_oid, -1, -1, 0>>

IsColumn(col) == col \in [name : Seq(Bytes \ {0}), type_oid : Int]

LEMMA ColumnDatumIs ==
  ASSUME NEW col, IsColumn(col), NEW l, l = Len(col.name)
  PROVE  /\ ColumnDatum(col) \in Seq(Int) /\ l \in Nat /\ Len(ColumnDatum(col)) = l + 7
         /\ \A j \in 1..l : ColumnDatum(col)[j] = col.name[j] /\ col.name[j] \in Bytes \ {0}
         /\ ColumnDatum(col)[l + 1] = 0 /\ ColumnDatum(col)[l + 4] = col.type_oid
  <1>1. PICK s \in Seq(Bytes \ {0}), o \in Int : s = col.name /\ o = col.type_oid
    BY DEF IsColumn
  <1>2. PICK n \in Nat : n = l /\ n = Len(s)
    BY <1>1, LenProperties
  <1>3. s \in Seq(Int)
    <2>1. Bytes \ {0} \subseteq Int
      BY DEF Bytes
    <2> QED
      BY <2>1, SeqMonotonic
  <1>4. PICK t : t = <<0, 0, 0, o, -1, -1, 0>>
    OBVIOUS
  <1>5. t \in Seq(Int) /\ Len(t) = 7 /\ t[1] = 0 /\ t[4] = o
    BY <1>4
  <1>6. PICK d : d = s \o t
    OBVIOUS
  <1>7. /\ d \in Seq(Int) /\ Len(d) = Len(s) + Len(t)
        /\ \A j \in 1..Len(s) + Len(t) : d[j] = IF j <= Len(s) THEN s[j] ELSE t[j - Len(s)]
    <2>1. t \in Seq(Int)
      BY <1>5
    <2> QED
      BY <1>3, <1>6, <2>1, ConcatProperties
  <1>8. Len(d) = n + 7 /\ \A j \in 1..n + 7 : d[j] = IF j <= n THEN s[j] ELSE t[j - n]
    BY <1>2, <1>5, <1>7
  <1>9. d[n + 1] = 0
    <2>1. n + 1 \in 1..n + 7 /\ ~(n + 1 <= n) /\ (n + 1) - n = 1
      OBVIOUS
    <2> QED
      BY <1>5, <1>8, <2>1
  <1>10. d[n + 4] = o
    <2>1. n + 4 \in 1..n + 7 /\ ~(n + 4 <= n) /\ (n + 4) - n = 4
      OBVIOUS
    <2> QED
      BY <1>5, <1>8, <2>1
  <1>11. \A j \in 1..n : d[j] = s[j] /\ s[j] \in Bytes \ {0}
    <2> SUFFICES ASSUME NEW j \in 1..n PROVE d[j] = s[j] /\ s[j] \in Bytes \ {0}
      OBVIOUS
    <2>1. j \in 1..n + 7 /\ j <= n
      OBVIOUS
    <2>2. s[j] \in Bytes \ {0}
      BY <1>2, ElementOfSeq
    <2> QED
      BY <1>8, <2>1, <2>2
  <1>12. ColumnDatum(col) = d
    BY <1>1, <1>4, <1>6 DEF ColumnDatum
  <1> QED
    BY <1>1, <1>2, <1>7, <1>8, <1>9, <1>10, <1>11, <1>12

ColumnFound(body, p, l, col) ==
  /\ EndOfName(body, p) = p + l
  /\ SubSeq(body, p, p + l - 1) = col.name
  /\ body[p + l + 3] = col.type_oid

\* A column is read where it was put, and the next one is looked for behind it.
LEMMA ColumnReadAt ==
  ASSUME NEW body \in Seq(Int), NEW p \in Nat \ {0}, NEW col, IsColumn(col),
         NEW l, l = Len(col.name), p + l + 6 <= Len(body), HasAt(body, p, ColumnDatum(col))
  PROVE  ColumnFound(body, p, l, col)
  <1>1. PICK d : d = ColumnDatum(col)
    OBVIOUS
  <1>2. PICK s : s = col.name
    OBVIOUS
  <1>3. /\ d \in Seq(Int) /\ l \in Nat /\ Len(d) = l + 7
        /\ \A j \in 1..l : d[j] = s[j] /\ s[j] \in Bytes \ {0}
        /\ d[l + 1] = 0 /\ d[l + 4] = col.type_oid
    BY <1>1, <1>2, ColumnDatumIs, ZenonT(30)
  <1>30. l \in Nat
    BY <1>3
  <1>4. \A j \in 1..l + 7 : body[p + j - 1] = d[j]
    BY <1>1, <1>3 DEF HasAt
  <1>5. body[p + l] = 0
    <2>1. l + 1 \in 1..l + 7 /\ p + (l + 1) - 1 = p + l
      BY <1>3
    <2> QED
      BY <1>3, <1>4, <2>1
  <1>6. body[p + l + 3] = col.type_oid
    <2>1. l + 4 \in 1..l + 7 /\ p + (l + 4) - 1 = p + l + 3
      BY <1>3
    <2> QED
      BY <1>3, <1>4, <2>1
  <1>7. ASSUME NEW k \in p..p + l - 1
        PROVE  body[k] = s[k - p + 1] /\ body[k] \in Bytes \ {0} /\ body[k] # 0
    <2>1. PICK j \in 1..l : j = k - p + 1
      BY <1>3
    <2>2. j \in 1..l + 7 /\ p + j - 1 = k
      BY <1>3, <2>1
    <2>3. body[p + j - 1] = d[j]
      BY <1>4, <2>2
    <2> QED
      BY <1>3, <2>1, <2>2, <2>3
  <1>8. PICK m \in Nat : m = Len(body)
    BY LenProperties
  <1>9. EndOfName(body, p) = p + l
    <2> DEFINE Ends(z) == body[z] = 0 /\ \A j \in p..z - 1 : body[j] # 0
    <2>1. p + l \in p..m
      BY <1>30, <1>8
    <2>2. Ends(p + l)
      <3>1. \A j \in p..p + l - 1 : body[j] # 0
        BY <1>7
      <3> QED
        BY <1>5, <3>1
    <2>3. ASSUME NEW z \in p..m, Ends(z) PROVE z = p + l
      <3>1. CASE z < p + l
        <4>1. z \in p..p + l - 1
          BY <1>30, <3>1
        <4> QED
          BY <1>7, <2>3, <4>1
      <3>2. CASE z > p + l
        <4>1. p + l \in p..z - 1
          BY <1>30, <3>2
        <4> QED
          BY <1>5, <2>3, <4>1
      <3> QED
        BY <1>30, <3>1, <3>2, SMTT(30)
    <2>4. EndOfName(body, p) = CHOOSE z \in p..m : Ends(z)
      BY <1>8 DEF EndOfName
    <2> HIDE DEF Ends
    <2> QED
      BY <2>1, <2>2, <2>3, <2>4
  <1>10. SubSeq(body, p, p + l - 1) = s
    <2>1. PICK y \in Int : y = p + l - 1
      <3>1. p + l - 1 \in Int
        BY <1>30
      <3> QED
        BY <3>1
    <2>2. PICK u : u = SubSeq(body, p, y)
      OBVIOUS
    <2>3. \A k \in p..y : body[k] \in Bytes \ {0}
      BY <1>7, <2>1
    <2>4. /\ u \in Seq(Bytes \ {0})
          /\ Len(u) = IF p <= y THEN y - p + 1 ELSE 0
          /\ \A j \in 1..y - p + 1 : u[j] = body[p + j - 1]
      BY <2>2, <2>3, SubSeqProperties
    <2>5. y - p + 1 = l /\ (p <= y \/ l = 0)
      BY <1>3, <2>1
    <2>6. Len(u) = l
      BY <2>4, <2>5
    <2>7. \A j \in 1..l : u[j] = s[j]
      <3> SUFFICES ASSUME NEW j \in 1..l PROVE u[j] = s[j]
        OBVIOUS
      <3>1. j \in 1..l + 7 /\ j \in 1..y - p + 1
        BY <1>30, <2>5
      <3>2. d[j] = s[j]
        BY <1>3
      <3>3. body[p + j - 1] = d[j]
        BY <1>4, <3>1
      <3>4. u[j] = body[p + j - 1]
        BY <2>4, <3>1
      <3> QED
        BY <3>2, <3>3, <3>4
    <2>8. s \in Seq(Bytes \ {0}) /\ Len(s) = l
      BY <1>2 DEF IsColumn
    <2>9. u = s
      BY <2>4, <2>6, <2>7, <2>8, SeqEqual
    <2> QED
      BY <2>1, <2>2, <2>9
  <1> QED
    BY <1>2, <1>6, <1>9, <1>10 DEF ColumnFound

AllColumns(n, w) == \A k \in 1..n : IsColumn(w[k])

\* The application reads the description that was sent.
LEMMA DescriptionIs ==
  ASSUME NEW n \in Nat, NEW w, AllColumns(n, w)
  PROVE  decode_row_description(DescriptionOf(Listed(n, w))) = Listed(n, w)
  <1>1. PICK list : list = Listed(n, w)
    OBVIOUS
  <1>2. DOMAIN list = 1..n /\ Len(list) = n /\ \A k \in 1..n : list[k] = w[k]
    BY <1>1 DEF Listed
  <1>3. PICK front : front = <<n>>
    OBVIOUS
  <1>4. front \in Seq(Int) /\ Len(front) = 1 /\ front[1] = n
    BY <1>3
  <1>5. PICK seqs : seqs = [k \in 1..n |-> ColumnDatum(list[k])]
    OBVIOUS
  <1>6. ASSUME NEW k \in 1..n
        PROVE  /\ IsColumn(w[k]) /\ seqs[k] = ColumnDatum(w[k]) /\ seqs[k] \in Seq(Int)
               /\ Len(w[k].name) \in Nat /\ Len(seqs[k]) = Len(w[k].name) + 7
    <2>1. IsColumn(w[k]) /\ seqs[k] = ColumnDatum(w[k])
      BY <1>2, <1>5 DEF AllColumns
    <2>2. PICK l : l = Len(w[k].name)
      OBVIOUS
    <2>3. ColumnDatum(w[k]) \in Seq(Int) /\ l \in Nat /\ Len(ColumnDatum(w[k])) = l + 7
      BY <2>1, <2>2, ColumnDatumIs
    <2> QED
      BY <2>1, <2>2, <2>3
  <1>7. seqs \in Seq(Seq(Int)) /\ Len(seqs) = n
    BY <1>5, <1>6
  <1>8. PICK back : back = <<>>
    OBVIOUS
  <1>9. back \in Seq(Int)
    BY <1>8
  <1>10. PICK all : all = FlattenSeq(seqs)
    OBVIOUS
  <1>11. PICK message : message = front \o all \o back
    OBVIOUS
  <1>12. /\ message \in Seq(Int) /\ \A k \in 1..Len(front) : message[k] = front[k]
         /\ \E off \in [0..Len(seqs) -> Nat] : Holds(message, Len(front) + 1, seqs, off)
    BY <1>4, <1>7, <1>9, <1>10, <1>11, MessageHolds
  <1>13. message \in Seq(Int) /\ message[1] = n
    <2>1. 1 \in 1..1
      OBVIOUS
    <2> QED
      BY <1>4, <1>12, <2>1
  <1>14. message = DescriptionOf(list)
    <2>1. all \in Seq(Int)
      BY <1>7, <1>10, FlattenType
    <2>2. front \o all \in Seq(Int)
      BY <1>4, <2>1, ConcatProperties
    <2>3. message = front \o all
      BY <1>8, <1>11, <2>2, ConcatEmptySeq
    <2>4. DescriptionOf(list) = front \o all
      BY <1>2, <1>3, <1>5, <1>10 DEF DescriptionOf, ColumnDatum
    <2> QED
      BY <2>3, <2>4
  <1>15. PICK first \in Nat \ {0} : first = 2
    OBVIOUS
  <1>16. PICK off \in [0..n -> Nat] : Holds(message, first, seqs, off)
    <2>1. Len(front) + 1 = first
      BY <1>4, <1>15
    <2> QED
      BY <1>7, <1>12, <2>1
  <1>17. PICK m \in Nat : m = Len(message) /\ DOMAIN message = 1..m
    <2>1. message \in Seq(Int)
      BY <1>13
    <2> QED
      BY <2>1, LenProperties
  <1>18. PICK next : next = [p \in DOMAIN message |-> EndOfName(message, p) + 7]
    OBVIOUS
  <1>19. PICK at : at = [k \in 1..n |-> first + off[k - 1]]
    OBVIOUS
  <1>20. ASSUME NEW k \in 1..n
         PROVE  /\ [name |-> SubSeq(message, at[k], EndOfName(message, at[k]) - 1),
                    type_oid |-> message[EndOfName(message, at[k]) + 3]] = w[k]
                /\ next[at[k]] = first + off[k]
    <2>1. PICK o \in Nat : o = off[k - 1]
      <3>1. k - 1 \in 0..n
        OBVIOUS
      <3> QED
        BY <3>1
    <2>2. PICK col, d : col = w[k] /\ d = seqs[k]
      OBVIOUS
    <2>3. PICK l \in Nat : l = Len(col.name)
      BY <1>6, <2>2
    <2>4. IsColumn(col) /\ d = ColumnDatum(col) /\ Len(d) = l + 7
      BY <1>6, <2>2, <2>3
    <2>5. PICK p \in Nat \ {0} : p = first + o
      OBVIOUS
    <2>6. off[k] = o + (l + 7) /\ p + (l + 7) - 1 <= m /\ HasAt(message, p, d)
      BY <1>7, <1>16, <1>17, <2>1, <2>2, <2>4, <2>5 DEF Holds
    <2>13. IsColumn(col)
      BY <2>4
    <2>7. p + l + 6 <= Len(message) /\ HasAt(message, p, ColumnDatum(col))
      BY <1>17, <2>4, <2>6
    <2>8. /\ EndOfName(message, p) = p + l
          /\ SubSeq(message, p, p + l - 1) = col.name
          /\ message[p + l + 3] = col.type_oid
      <3>1. message \in Seq(Int)
        BY <1>13
      <3> QED
        <4>1. ColumnFound(message, p, l, col)
          BY <2>3, <2>7, <2>13, <3>1, ColumnReadAt
        <4> QED
          BY <4>1 DEF ColumnFound
    <2>9. at[k] = p
      BY <1>19, <2>1, <2>5
    <2>10. p \in 1..m
      BY <2>6
    <2>11. next[p] = first + off[k]
      <3>1. next[p] = p + l + 7
        BY <1>17, <1>18, <2>8, <2>10
      <3> QED
        BY <2>5, <2>6, <3>1
    <2>12. [name |-> col.name, type_oid |-> col.type_oid] = col
      BY <2>4 DEF IsColumn
    <2> QED
      <3>1. SubSeq(message, at[k], EndOfName(message, at[k]) - 1) = col.name
        BY <2>8, <2>9
      <3>2. message[EndOfName(message, at[k]) + 3] = col.type_oid
        BY <2>8, <2>9
      <3> QED
        BY <2>2, <2>9, <2>11, <2>12, <3>1, <3>2
  <1>21. PICK place : place = Places(n, first, next)
    OBVIOUS
  <1>22. Chained(n, first, next, at)
    <2>1. n > 0 => at[1] = first
      <3> SUFFICES ASSUME n > 0 PROVE at[1] = first
        OBVIOUS
      <3>1. 1 \in 1..n /\ 1 - 1 = 0
        OBVIOUS
      <3>2. at[1] = first + off[0]
        BY <1>19, <3>1
      <3>3. off[0] = 0
        BY <1>16 DEF Holds
      <3> QED
        BY <3>2, <3>3
    <2>2. \A k \in 2..n : next[at[k - 1]] = at[k]
      <3> SUFFICES ASSUME NEW k \in 2..n PROVE next[at[k - 1]] = at[k]
        OBVIOUS
      <3>1. k - 1 \in 1..n /\ k \in 1..n
        OBVIOUS
      <3>2. next[at[k - 1]] = first + off[k - 1]
        BY <1>20, <3>1
      <3> QED
        BY <1>19, <3>1, <3>2
    <2> QED
      BY <2>1, <2>2 DEF Chained
  <1>23. \A k \in 1..n : place[k] = at[k]
    BY <1>21, <1>22, PlacesAre
  <1>24. decode_row_description(message) =
           [k \in 1..n |-> [name |-> SubSeq(message, place[k], EndOfName(message, place[k]) - 1),
                            type_oid |-> message[EndOfName(message, place[k]) + 3]]]
    <2>1. Places(message[1], 2, [p \in DOMAIN message |-> EndOfName(message, p) + 7]) = place
      BY <1>13, <1>15, <1>18, <1>21
    <2> QED
      BY <1>13, <2>1 DEF decode_row_description
  <1>25. decode_row_description(message) = [k \in 1..n |-> w[k]]
    <2>1. \A k \in 1..n : [name |-> SubSeq(message, place[k], EndOfName(message, place[k]) - 1),
                           type_oid |-> message[EndOfName(message, place[k]) + 3]] = w[k]
      <3> SUFFICES ASSUME NEW k \in 1..n
                   PROVE [name |-> SubSeq(message, place[k], EndOfName(message, place[k]) - 1),
                          type_oid |-> message[EndOfName(message, place[k]) + 3]] = w[k]
        OBVIOUS
      <3>1. place[k] = at[k]
        BY <1>23
      <3> QED
        BY <1>20, <3>1
    <2> QED
      BY <1>24, <2>1
  <1> QED
    BY <1>1, <1>14, <1>25 DEF Listed

-----------------------------------------------------------------------------
(* The text input of a bytea *)

\* How the two forms are read.
Octal(s, k) == k + 3 <= Len(s) /\ s[k + 1] \in 48..51 /\ {s[k + 2], s[k + 3]} \subseteq 48..55

Code(s, k) == 64 * (s[k + 1] - 48) + 8 * (s[k + 2] - 48) + s[k + 3] - 48

EscapeAt(s, k) ==
  CASE s[k] # Backslash -> Read(<<s[k]>>, k + 1)
    [] s[k] = Backslash /\ Byte(s, k + 1) = Backslash -> Read(<<Backslash>>, k + 2)
    [] s[k] = Backslash /\ Octal(s, k) -> Read(<<Code(s, k)>>, k + 4)
    [] OTHER -> Read(<<Malformed>>, Len(s) + 1)

DigitAt(s, k) == {n \in 0..15 : Byte(s, k) \in {Nibble(n), Nibble(n) - 32 * (n \div 10)}}

PairAt(s, k) ==
  CASE s[k] \in Spaces -> Read(<<>>, k + 1)
    [] s[k] \notin Spaces /\ DigitAt(s, k) # {} /\ DigitAt(s, k + 1) # {} ->
         Read(<<16 * (CHOOSE n \in DigitAt(s, k) : TRUE) + (CHOOSE n \in DigitAt(s, k + 1) : TRUE)>>, k + 2)
    [] OTHER -> Read(<<Malformed>>, Len(s) + 1)

Decoded == Bytes \cup {Malformed}

LEMMA ByteBeyond ==
  ASSUME NEW s \in Seq(Bytes), NEW k \in Nat, Byte(s, k) # 0
  PROVE  k <= Len(s)
  BY DEF Byte

LEMMA EscapesType ==
  ASSUME NEW s \in Seq(Bytes)
  PROVE  Escapes(s) \in Seq(Decoded)
  <1>1. PICK n \in Nat : n = Len(s) /\ DOMAIN s = 1..n
    BY LenProperties
  <1>2. PICK read : read = [k \in DOMAIN s |-> EscapeAt(s, k)]
    OBVIOUS
  <1>3. ASSUME NEW k \in 1..n
        PROVE  read[k].next \in k + 1..n + 1 /\ read[k].piece \in Seq(Decoded)
    <2>1. read[k] = EscapeAt(s, k)
      BY <1>1, <1>2
    <2>2. CASE s[k] # Backslash
      <3>1. read[k] = Read(<<s[k]>>, k + 1)
        BY <2>1, <2>2 DEF EscapeAt
      <3>2. s[k] \in Decoded
        BY <1>1, ElementOfSeq DEF Decoded
      <3> QED
        BY <3>1, <3>2 DEF Read
    <2>3. CASE s[k] = Backslash /\ Byte(s, k + 1) = Backslash
      <3>2. Backslash \in Decoded
        BY DEF Decoded, Backslash, Bytes
      <3>3. k + 1 <= n
        <4>1. Backslash # 0 /\ k + 1 \in Nat
          BY DEF Backslash
        <4> QED
          BY <1>1, <2>3, <4>1, ByteBeyond
      <3>4. ~Octal(s, k)
        <4>1. s[k + 1] = 92
          BY <1>1, <2>3, <3>3 DEF Byte, Backslash
        <4> QED
          BY <4>1 DEF Octal
      <3>1. read[k] = Read(<<Backslash>>, k + 2)
        BY <2>1, <2>3, <3>4 DEF EscapeAt
      <3> QED
        BY <3>1, <3>2, <3>3 DEF Read
    <2>4. CASE s[k] = Backslash /\ Byte(s, k + 1) # Backslash /\ Octal(s, k)
      <3>1. read[k] = Read(<<Code(s, k)>>, k + 4)
        BY <2>1, <2>4 DEF EscapeAt
      <3>2. k + 3 <= n /\ s[k + 1] \in 48..51 /\ s[k + 2] \in 48..55 /\ s[k + 3] \in 48..55
        BY <1>1, <2>4 DEF Octal
      <3>3. Code(s, k) \in 0..255
        <4>1. PICK a \in 0..3, b \in 0..7, c \in 0..7 : s[k + 1] = 48 + a /\ s[k + 2] = 48 + b /\ s[k + 3] = 48 + c
          <5>1. s[k + 1] - 48 \in 0..3 /\ s[k + 2] - 48 \in 0..7 /\ s[k + 3] - 48 \in 0..7
            BY <3>2
          <5>2. /\ s[k + 1] = 48 + (s[k + 1] - 48)
                /\ s[k + 2] = 48 + (s[k + 2] - 48)
                /\ s[k + 3] = 48 + (s[k + 3] - 48)
            BY <3>2
          <5> QED
            BY <5>1, <5>2
        <4>2. Code(s, k) = 64 * a + 8 * b + c
          BY <4>1 DEF Code
        <4> QED
          BY <4>2
      <3>4. Code(s, k) \in Decoded
        BY <3>3 DEF Decoded, Bytes
      <3> QED
        BY <3>1, <3>2, <3>4 DEF Read
    <2>5. CASE s[k] = Backslash /\ Byte(s, k + 1) # Backslash /\ ~Octal(s, k)
      <3>1. read[k] = Read(<<Malformed>>, n + 1)
        BY <1>1, <2>1, <2>5 DEF EscapeAt
      <3>2. Malformed \in Decoded
        BY DEF Decoded
      <3> QED
        BY <3>1, <3>2 DEF Read
    <2> QED
      BY <2>2, <2>3, <2>4, <2>5
  <1>4. Escapes(s) = From(n, read)[1]
    BY <1>1, <1>2 DEF Escapes, EscapeAt, Octal, Code
  <1>5. Advances(n, read) /\ \A k \in 1..n : read[k].piece \in Seq(Decoded)
    BY <1>3 DEF Advances
  <1>6. 1 \in 1..n + 1
    OBVIOUS
  <1>7. From(n, read)[1] \in Seq(Decoded)
    BY <1>5, <1>6, FromType
  <1> QED
    BY <1>4, <1>7

LEMMA UnhexedType ==
  ASSUME NEW s \in Seq(Bytes)
  PROVE  Unhexed(s) \in Seq(Decoded)
  <1>1. PICK n \in Nat : n = Len(s) /\ DOMAIN s = 1..n
    BY LenProperties
  <1>2. PICK read : read = [k \in DOMAIN s |-> PairAt(s, k)]
    OBVIOUS
  <1>3. ASSUME NEW k \in 1..n
        PROVE  read[k].next \in k + 1..n + 1 /\ read[k].piece \in Seq(Decoded)
    <2>1. read[k] = PairAt(s, k)
      BY <1>1, <1>2
    <2>2. CASE s[k] \in Spaces
      <3>1. read[k] = Read(<<>>, k + 1)
        BY <2>1, <2>2 DEF PairAt
      <3> QED
        BY <3>1 DEF Read
    <2>3. CASE s[k] \notin Spaces /\ DigitAt(s, k) # {} /\ DigitAt(s, k + 1) # {}
      <3>1. PICK a, b : a = (CHOOSE m \in DigitAt(s, k) : TRUE) /\ b = (CHOOSE m \in DigitAt(s, k + 1) : TRUE)
        OBVIOUS
      <3>2. a \in DigitAt(s, k) /\ b \in DigitAt(s, k + 1)
        BY <2>3, <3>1
      <3>3. read[k] = Read(<<16 * a + b>>, k + 2)
        BY <2>1, <2>3, <3>1 DEF PairAt
      <3>4. a \in 0..15 /\ b \in 0..15
        BY <3>2 DEF DigitAt
      <3>5. 16 * a + b \in Decoded
        <4>1. 16 * a + b \in 0..255
          BY <3>4
        <4> QED
          BY <4>1 DEF Decoded, Bytes
      <3>6. k + 1 <= n
        <4>1. \A m \in 0..15 : 0 \notin {Nibble(m), Nibble(m) - 32 * (m \div 10)}
          <5> SUFFICES ASSUME NEW m \in 0..15 PROVE Nibble(m) # 0 /\ Nibble(m) - 32 * (m \div 10) # 0
            OBVIOUS
          <5>1. m \div 10 \in {0, 1}
            OBVIOUS
          <5>2. Nibble(m) >= 48 /\ Nibble(m) \in Nat
            BY DEF Nibble
          <5> QED
            BY <5>1, <5>2
        <4>2. Byte(s, k + 1) # 0
          BY <3>2, <3>4, <4>1 DEF DigitAt
        <4>3. k + 1 \in Nat
          OBVIOUS
        <4> QED
          BY <1>1, <4>2, <4>3, ByteBeyond
      <3> QED
        BY <3>3, <3>5, <3>6 DEF Read
    <2>4. CASE s[k] \notin Spaces /\ ~(DigitAt(s, k) # {} /\ DigitAt(s, k + 1) # {})
      <3>1. read[k] = Read(<<Malformed>>, n + 1)
        BY <1>1, <2>1, <2>4 DEF PairAt
      <3>2. Malformed \in Decoded
        BY DEF Decoded
      <3> QED
        BY <3>1, <3>2 DEF Read
    <2> QED
      BY <2>2, <2>3, <2>4
  <1>4. Unhexed(s) = From(n, read)[1]
    BY <1>1, <1>2 DEF Unhexed, PairAt, DigitAt
  <1>5. Advances(n, read) /\ \A k \in 1..n : read[k].piece \in Seq(Decoded)
    BY <1>3 DEF Advances
  <1>6. 1 \in 1..n + 1
    OBVIOUS
  <1>7. From(n, read)[1] \in Seq(Decoded)
    BY <1>5, <1>6, FromType
  <1> QED
    BY <1>4, <1>7

\* What is not refused is bytes again, and they are the same without a backslash.
LEMMA ByteaInIs ==
  ASSUME NEW s \in Seq(Bytes)
  PROVE  /\ ~Has(ByteaIn(s), Malformed) => ByteaIn(s) \in Seq(Bytes)
         /\ ~Has(s, Backslash) => ByteaIn(s) = s
  <1>1. PICK n \in Nat : n = Len(s) /\ DOMAIN s = 1..n
    BY LenProperties
  <1>2. ByteaIn(s) \in Seq(Decoded)
    <2>1. CASE StartsAt(s, <<Backslash, 120>>, 1)
      <3>1. 1 + 2 <= n + 1
        BY <1>1, <2>1 DEF StartsAt
      <3>2. SubSeq(s, 3, n) \in Seq(Bytes)
        <4>1. 3 \in Nat /\ 1 <= 3 /\ 3 <= n + 1 /\ n <= Len(s)
          BY <1>1, <3>1
        <4> QED
          BY <4>1, SubSeqIs
      <3>3. Unhexed(SubSeq(s, 3, n)) \in Seq(Decoded)
        BY <3>2, UnhexedType
      <3> QED
        BY <1>1, <2>1, <3>3 DEF ByteaIn
    <2>2. CASE ~StartsAt(s, <<Backslash, 120>>, 1)
      BY <2>2, EscapesType DEF ByteaIn
    <2> QED
      BY <2>1, <2>2
  <1>3. ASSUME ~Has(ByteaIn(s), Malformed) PROVE ByteaIn(s) \in Seq(Bytes)
    <2>1. PICK t : t = ByteaIn(s)
      OBVIOUS
    <2>2. t \in Seq(Decoded) /\ ~Has(t, Malformed)
      BY <1>2, <1>3, <2>1
    <2>3. PICK m \in Nat : m = Len(t) /\ DOMAIN t = 1..m /\ t \in [1..m -> Decoded]
      BY <2>2, LenProperties
    <2>4. \A k \in 1..m : t[k] \in Bytes
      BY <2>2, <2>3 DEF Has, Decoded
    <2>5. t \in [1..m -> Bytes]
      BY <2>3, <2>4
    <2>6. t \in Seq(Bytes)
      BY <2>5, SeqDef
    <2> QED
      BY <2>1, <2>6
  <1>4. ASSUME ~Has(s, Backslash) PROVE ByteaIn(s) = s
    <2>1. \A k \in 1..n : s[k] # Backslash
      BY <1>1, <1>4 DEF Has
    <2>2. ~StartsAt(s, <<Backslash, 120>>, 1)
      <3> SUFFICES ASSUME StartsAt(s, <<Backslash, 120>>, 1) PROVE FALSE
        OBVIOUS
      <3>1. 1 + 2 <= n + 1 /\ SubSeq(s, 1, 2) = <<Backslash, 120>>
        BY <1>1 DEF StartsAt
      <3>2. SubSeq(s, 1, 2)[1] = s[1]
        <4>1. PICK one \in Nat, two \in Nat : one = 1 /\ two = 2
          OBVIOUS
        <4>2. 1 <= one /\ one <= two + 1 /\ two <= Len(s)
          BY <1>1, <3>1, <4>1
        <4>3. \A k \in 1..two - one + 1 : SubSeq(s, one, two)[k] = s[one + k - 1]
          BY <4>2, SubSeqIs
        <4> QED
          BY <4>1, <4>3
      <3>3. s[1] = Backslash
        <4>1. <<Backslash, 120>>[1] = Backslash
          OBVIOUS
        <4> QED
          BY <3>1, <3>2, <4>1
      <3> QED
        BY <2>1, <3>1, <3>3
    <2>3. PICK read : read = [k \in DOMAIN s |-> EscapeAt(s, k)]
      OBVIOUS
    <2>4. \A k \in 1..n : read[k] = Read(<<s[k]>>, k + 1)
      BY <1>1, <2>1, <2>3 DEF EscapeAt
    <2>5. ByteaIn(s) = From(n, read)[1]
      BY <1>1, <2>2, <2>3 DEF ByteaIn, Escapes, EscapeAt, Octal, Code
    <2>6. Advances(n, read)
      <3>1. ASSUME NEW k \in 1..n PROVE read[k].next = k + 1
        <4>1. read[k] = Read(<<s[k]>>, k + 1)
          BY <2>4
        <4> QED
          BY <4>1 DEF Read
      <3> QED
        BY <3>1 DEF Advances
    <2> DEFINE S == {k \in 1..n + 1 : From(n, read)[k] = Rest(s, k - 1)}
    <2>7. n + 1 \in S
      <3>1. From(n, read)[n + 1] = <<>>
        BY <2>6, FromStep
      <3>2. Rest(s, n) = <<>>
        <4>1. n \in 0..Len(s)
          BY <1>1
        <4>2. Rest(s, n) \in Seq(Bytes) /\ Len(Rest(s, n)) = 0
          BY <1>1, <4>1, RestIs
        <4> QED
          BY <4>2, EmptySeq
      <3> QED
        BY <3>1, <3>2
    <2>8. ASSUME NEW k \in 1..n, \A j \in k + 1..n + 1 : j \in S PROVE k \in S
      <3>1. From(n, read)[k] = <<s[k]>> \o From(n, read)[k + 1]
        <4>1. From(n, read)[k] = read[k].piece \o From(n, read)[read[k].next]
          BY <2>6, FromStep
        <4>2. read[k] = Read(<<s[k]>>, k + 1)
          BY <2>4
        <4>3. read[k].piece = <<s[k]>> /\ read[k].next = k + 1
          BY <4>2 DEF Read
        <4> QED
          BY <4>1, <4>3
      <3>2. From(n, read)[k + 1] = Rest(s, k)
        <4>1. k + 1 \in S /\ (k + 1) - 1 = k
          BY <2>8
        <4> QED
          BY <4>1
      <3>3. PICK r : r = Rest(s, k - 1)
        OBVIOUS
      <3>4. k - 1 \in 0..Len(s) /\ 1 \in 0..Len(s) - (k - 1) /\ (k - 1) + 1 = k
        BY <1>1
      <3>5. r \in Seq(Bytes) /\ Len(r) > 0 /\ r[1] = s[k] /\ Rest(r, 1) = Rest(s, k)
        <4>1. /\ r \in Seq(Bytes) /\ Len(r) = Len(s) - (k - 1)
              /\ \A j \in 1..Len(s) - (k - 1) : r[j] = s[j + (k - 1)]
          BY <3>3, <3>4, RestIs
        <4>2. Len(r) > 0 /\ r[1] = s[k]
          <5>1. 1 \in 1..Len(s) - (k - 1) /\ 1 + (k - 1) = k
            BY <1>1
          <5> QED
            BY <1>1, <4>1, <5>1
        <4>3. Rest(Rest(s, k - 1), 1) = Rest(s, (k - 1) + 1)
          BY <3>4, RestRest
        <4> QED
          BY <3>3, <3>4, <4>1, <4>2, <4>3
      <3>6. <<r[1]>> \o Rest(r, 1) = r
        BY <3>5, HeadRest
      <3>7. From(n, read)[k] = Rest(s, k - 1)
        BY <3>1, <3>2, <3>3, <3>5, <3>6
      <3>8. k \in 1..n + 1
        OBVIOUS
      <3> QED
        BY <3>7, <3>8
    <2> HIDE DEF S
    <2>9. 1..n + 1 \subseteq S
      BY <2>7, <2>8, DownInduction
    <2>10. 1 \in S
      BY <2>9
    <2>11. From(n, read)[1] = Rest(s, 0)
      BY <2>10 DEF S
    <2> QED
      BY <2>5, <2>11, RestAll
  <1> QED
    BY <1>3, <1>4

\* What the application is shown of a parameter the server took, which is a value of a row.
LEMMA ShownIs ==
  ASSUME NEW v, IsValue(v)
  PROVE  /\ ~Refuses(v, Sent(v)) => IsField(Shown(v, Sent(v)))
         /\ to_sql(v) = <<>> => Shown(v, Sent(v)) = NullValue
         /\ (to_sql(v) # <<>> /\ v.ty = "bytea") =>
              Shown(v, Sent(v)) = Some(<<Backslash, 120>> \o Hex(ByteaIn(v.of)))
         /\ (to_sql(v) # <<>> /\ v.ty # "bytea") => Shown(v, Sent(v)) = Some(to_sql(v))
  <1>1. CASE to_sql(v) = <<>>
    <2>1. Sent(v) = NullValue /\ NullValue.null
      BY <1>1 DEF Sent, NullValue
    <2>2. Shown(v, Sent(v)) = NullValue
      BY <2>1 DEF Shown
    <2> QED
      BY <1>1, <2>2 DEF IsField
  <1>2. CASE to_sql(v) # <<>> /\ v.ty # "bytea"
    <2>1. Shown(v, Sent(v)) = Some(to_sql(v))
      BY <1>2 DEF Shown, Sent
    <2>2. to_sql(v) \in Seq(Bytes)
      BY ToSqlType
    <2> QED
      BY <1>2, <2>1, <2>2 DEF IsField
  <1>3. CASE to_sql(v) # <<>> /\ v.ty = "bytea"
    <2>1. v.of \in Seq(Bytes) /\ to_sql(v) = v.of
      BY <1>3 DEF IsValue, TextTypes, IntTypes, to_sql
    <2>2. ~Sent(v).null /\ Sent(v).bytes = v.of
      BY <1>3, <2>1 DEF Sent, Some
    <2>3. PICK lead : lead = <<Backslash, 120>>
      OBVIOUS
    <2>4. PICK hex : hex = Hex(ByteaIn(v.of))
      OBVIOUS
    <2>5. Shown(v, Sent(v)) = Some(lead \o hex)
      BY <1>3, <2>2, <2>3, <2>4 DEF Shown
    <2>6. lead \in Seq(Bytes)
      BY <2>3 DEF Bytes, Backslash
    <2>7. ASSUME ~Refuses(v, Sent(v)) PROVE IsField(Shown(v, Sent(v)))
      <3>1. ~Has(ByteaIn(v.of), Malformed)
        BY <1>3, <2>2, <2>7 DEF Refuses
      <3>2. ByteaIn(v.of) \in Seq(Bytes)
        BY <2>1, <3>1, ByteaInIs
      <3>3. hex \in Seq(Bytes)
        BY <2>4, <3>2, HexType
      <3>4. lead \o hex \in Seq(Bytes)
        BY <2>6, <3>3, ConcatProperties
      <3> QED
        BY <2>5, <3>4 DEF IsField
    <2> QED
      BY <1>3, <2>3, <2>4, <2>5, <2>7
  <1> QED
    BY <1>1, <1>2, <1>3

\* The row that answers a list of parameters.
Echoed(list) == [k \in DOMAIN list |-> Shown(list[k], Sent(list[k]))]

Described(cols, list) == [k \in DOMAIN cols |-> [name |-> cols[k], type_oid |-> oid(list[k])]]

LEMMA EchoedIs ==
  ASSUME NEW list, IsList(list), \A k \in DOMAIN list : ~Refuses(list[k], Sent(list[k]))
  PROVE  decode_data_row(DataRowOf(Echoed(list))) = Echoed(list)
  <1>1. PICK n \in Nat : n = Len(list) /\ DOMAIN list = 1..n
    BY ListLength
  <1>2. PICK w : w = Echoed(list)
    OBVIOUS
  <1>3. w = Listed(n, w)
    BY <1>1, <1>2 DEF Echoed, Listed
  <1>4. Fields(n, w)
    <2> SUFFICES ASSUME NEW k \in 1..n PROVE IsField(w[k])
      BY DEF Fields
    <2>1. IsValue(list[k])
      BY <1>1 DEF IsList
    <2>2. w[k] = Shown(list[k], Sent(list[k]))
      BY <1>1, <1>2 DEF Echoed
    <2>3. ~Refuses(list[k], Sent(list[k]))
      BY <1>1
    <2> QED
      BY <2>1, <2>2, <2>3, ShownIs
  <1>5. decode_data_row(DataRowOf(Listed(n, w))) = Listed(n, w)
    BY <1>4, DataRowIs
  <1> QED
    BY <1>2, <1>3, <1>5

LEMMA OidType ==
  ASSUME NEW v, IsValue(v)
  PROVE  oid(v) \in Int
  <1>1. v.ty \in {"i16", "i32", "text", "uuid", "json", "f64", "bool", "bytea", "none"}
    BY ValueKinds
  <1> QED
    BY <1>1 DEF oid

LEMMA DescribedIs ==
  ASSUME NEW list, IsList(list), NEW cols \in [DOMAIN list -> Columns]
  PROVE  decode_row_description(DescriptionOf(Described(cols, list))) = Described(cols, list)
  <1>1. PICK n \in Nat : n = Len(list) /\ DOMAIN list = 1..n
    BY ListLength
  <1>2. PICK w : w = Described(cols, list)
    OBVIOUS
  <1>3. DOMAIN cols = 1..n
    BY <1>1
  <1>4. w = Listed(n, w)
    BY <1>2, <1>3 DEF Described, Listed
  <1>5. AllColumns(n, w)
    <2> SUFFICES ASSUME NEW k \in 1..n PROVE IsColumn(w[k])
      BY DEF AllColumns
    <2>1. oid(list[k]) \in Int
      <3>1. IsValue(list[k])
        BY <1>1 DEF IsList
      <3> QED
        BY <3>1, OidType
    <2>2. cols[k] \in Seq(Bytes \ {0})
      <3>1. cols[k] \in Columns
        BY <1>1
      <3> QED
        BY <3>1, ParamsAssumption
    <2>3. w[k] = [name |-> cols[k], type_oid |-> oid(list[k])]
      BY <1>2, <1>3 DEF Described
    <2> QED
      BY <2>1, <2>2, <2>3 DEF IsColumn
  <1>6. decode_row_description(DescriptionOf(Listed(n, w))) = Listed(n, w)
    BY <1>5, DescriptionIs
  <1> QED
    BY <1>2, <1>4, <1>6

-----------------------------------------------------------------------------
(* The inductive invariant *)

\* Which calls go through which stages.
Routed ==
  /\ stage \in {"idle", "replace", "sent", "refused", "row"}
  /\ stage # "replace" => i = 0
  /\ stage = "replace" => path \in {"params", "strings"}
  /\ stage \in {"refused", "row"} => path = "extended"

Typed ==
  /\ IsList(params) /\ i \in 0..Len(params)
  /\ sql \in Seq(Bytes) /\ text \in Seq(Bytes) /\ bind \in Seq(Int)

\* What was quoted is the name that was given.
Written ==
  (stage = "sent" /\ path \in {"quote", "schema"}) =>
    \E s \in Names : /\ params = <<Value("text", s)>>
                     /\ text = IF path = "schema" THEN double_quote_identifier(s) ELSE quote_string(s)

\* The parameters are those of the Bind message.
Bound == (path = "extended" /\ stage \in {"sent", "refused", "row"}) => bind = build_bind_message(params)

\* The row is an echo of the parameters, all of which the server took.
Answered ==
  /\ stage = "refused" =>
       Miscounted \/ \E k \in DOMAIN params : \/ Refuses(params[k], Sent(params[k]))
                                           \/ MayRefuse(params[k], Sent(params[k]))
  /\ stage = "row" => /\ names \in [DOMAIN params -> Columns]
                      /\ \A k \in DOMAIN params : ~Refuses(params[k], Sent(params[k]))
                      /\ row = [columns |-> Described(names, params), values |-> Echoed(params)]
  /\ stage # "row" => row = [columns |-> <<>>, values |-> <<>>]

ParamsInv == Routed /\ Typed /\ Written /\ Bound /\ Answered

LEMMA EmptyList == IsList(<<>>)
  BY DEF IsList

LEMMA ParamsInit == Init => ParamsInv
  <1> SUFFICES ASSUME Init PROVE ParamsInv
    OBVIOUS
  <1>1. IsList(<<>>)
    BY EmptyList
  <1> QED
    BY <1>1 DEF Init, ParamsInv, Routed, Typed, Written, Bound, Answered

LEMMA CallSubstitutedInv ==
  ASSUME ParamsInv, stage = "idle", NEW p \in {"params", "strings"}, NEW s \in Texts,
         NEW list \in ParamLists, CallSubstituted(p, s, list)
  PROVE  ParamsInv'
  <1>1. IsList(list) /\ Len(list) \in Nat
    <2>1. IsList(list)
      BY ValuesAssumption DEF IsList
    <2> QED
      BY <2>1, ListLength
  <1>2. s \in Seq(Bytes)
    BY ParamsAssumption
  <1>3. Len(list) \in 0..Len(list)
    BY <1>1
  <1> QED
    BY <1>1, <1>2, <1>3 DEF CallSubstituted, ParamsInv, Routed, Typed, Written, Bound, Answered

LEMMA CallExtendedInv ==
  ASSUME ParamsInv, stage = "idle", NEW list \in BindLists, CallExtended(<<>>, list)
  PROVE  ParamsInv'
  <1>1. IsList(list) /\ Len(list) \in Nat
    <2>1. IsList(list)
      BY ValuesAssumption DEF IsList
    <2> QED
      BY <2>1, ListLength
  <1>2. <<>> \in Seq(Bytes)
    OBVIOUS
  <1>3. build_bind_message(list) \in Seq(Int)
    BY <1>1, BindIs
  <1>4. 0 \in 0..Len(list)
    BY <1>1
  <1> QED
    BY <1>1, <1>2, <1>3, <1>4 DEF CallExtended, ParamsInv, Routed, Typed, Written, Bound, Answered

LEMMA QuoteNameInv ==
  ASSUME ParamsInv, stage = "idle", NEW p \in {"quote", "schema"}, NEW s \in Names, QuoteName(p, s)
  PROVE  ParamsInv'
  <1>1. s \in Seq(Bytes)
    BY ParamsAssumption
  <1>2. PICK v : v = Value("text", s)
    OBVIOUS
  <1>3. v \in [ty : Types, of : Seq(Int)] /\ IsValue(v)
    <2>1. Bytes \subseteq Int
      BY DEF Bytes
    <2>2. s \in Seq(Int)
      BY <1>1, <2>1, SeqMonotonic
    <2>3. v \in [ty : Types, of : Seq(Int)]
      BY <1>2, <2>2 DEF Value, Types, TextTypes
    <2> QED
      BY <1>1, <1>2, <2>3 DEF IsValue, Value, IntTypes, TextTypes
  <1>4. IsList(<<v>>) /\ Len(<<v>>) = 1
    BY <1>3 DEF IsList
  <1>5. quote_string(s) \in Seq(Bytes) /\ double_quote_identifier(s) \in Seq(Bytes)
    BY <1>1, QuoteStringIs
  <1>6. params' = <<v>>
    BY <1>2 DEF QuoteName
  <1>7. text' \in Seq(Bytes)
    BY <1>5 DEF QuoteName
  <1>8. Typed'
    <2>1. i' = 0 /\ sql' = sql /\ bind' = bind
      BY DEF QuoteName, ParamsInv, Routed
    <2>2. i' \in 0..Len(params')
      BY <1>4, <1>6, <2>1
    <2>3. sql \in Seq(Bytes) /\ bind \in Seq(Int)
      BY DEF ParamsInv, Typed
    <2>4. IsList(params')
      BY <1>4, <1>6
    <2> QED
      BY <1>7, <2>1, <2>2, <2>3, <2>4 DEF Typed
  <1>9. Routed'
    BY DEF QuoteName, ParamsInv, Routed
  <1>10. Written'
    BY <1>2, <1>6 DEF QuoteName, Written
  <1>11. Bound' /\ Answered'
    BY DEF QuoteName, ParamsInv, Bound, Answered
  <1> QED
    BY <1>8, <1>9, <1>10, <1>11 DEF ParamsInv

LEMMA ReplaceParamInv ==
  ASSUME ParamsInv, ReplaceParam
  PROVE  ParamsInv'
  <1>1. i \in 1..Len(params) /\ Len(params) \in Nat /\ DOMAIN params = 1..Len(params)
    <2>1. Len(params) \in Nat /\ DOMAIN params = 1..Len(params)
      BY ListLength DEF ParamsInv, Typed
    <2> QED
      BY <2>1 DEF ReplaceParam, ParamsInv, Typed
  <1>2. PICK n \in Nat : n = i
    BY <1>1
  <1>3. IsValue(params[i])
    BY <1>1 DEF ParamsInv, Typed, IsList
  <1>4. Escaped(params[i]) \in Seq(Bytes)
    BY <1>3, EscapedType
  <1>5. PICK place : place = Placeholder(n)
    OBVIOUS
  <1>6. place \in Seq(Bytes) /\ Len(place) > 0
    <2>1. PICK digits \in Seq(Bytes) : digits = Decimal(n)
      BY DecimalBytes
    <2>2. PICK dollar : dollar = <<Dollar>>
      OBVIOUS
    <2>3. dollar \in Seq(Bytes) /\ Len(dollar) = 1
      BY <2>2 DEF Bytes, Dollar
    <2>4. dollar \o digits \in Seq(Bytes) /\ Len(dollar \o digits) = Len(dollar) + Len(digits)
      BY <2>3, ConcatProperties
    <2>5. Len(digits) \in Nat
      BY LenProperties
    <2>6. place = dollar \o digits
      BY <1>5, <2>1, <2>2 DEF Placeholder
    <2>7. Len(place) = 1 + Len(digits)
      BY <2>3, <2>4, <2>6
    <2> QED
      BY <2>4, <2>5, <2>6, <2>7
  <1>7. text' \in Seq(Bytes)
    <2>1. text \in Seq(Bytes)
      BY DEF ParamsInv, Typed
    <2>2. Replace(text, place, Escaped(params[i])) \in Seq(Bytes)
      BY <1>4, <1>6, <2>1, ReplaceType
    <2> QED
      BY <1>2, <1>5, <2>2 DEF ReplaceParam
  <1>8. i' \in 0..Len(params)
    BY <1>1 DEF ReplaceParam
  <1> QED
    BY <1>7, <1>8 DEF ReplaceParam, ParamsInv, Routed, Typed, Written, Bound, Answered

\* What the server reads of a Bind whose count is right.
LEMMA BoundIs ==
  ASSUME ParamsInv, stage = "sent", path = "extended", ~Miscounted
  PROVE  BoundValues(bind) = [k \in DOMAIN params |-> Sent(params[k])]
  <1>1. PICK list : list = params
    OBVIOUS
  <1>2. IsList(list)
    BY <1>1 DEF ParamsInv, Typed
  <1>3. DOMAIN list = 1..Len(list)
    BY <1>2, ListLength
  <1>4. bind = build_bind_message(list) /\ bind[3] = Len(list)
    BY <1>1 DEF ParamsInv, Bound, Miscounted
  <1>5. ValuesAt(build_bind_message(list), Len(list), 5 + Len(list)) = [k \in 1..Len(list) |-> Sent(list[k])]
    BY <1>2, BindIs
  <1>6. BoundValues(bind) = ValuesAt(bind, Len(list), 5 + Len(list))
    BY <1>1, <1>4 DEF BoundValues
  <1> QED
    BY <1>1, <1>3, <1>4, <1>5, <1>6

LEMMA ServerRefusesInv ==
  ASSUME ParamsInv, ServerRefuses
  PROVE  ParamsInv'
  <1>1. stage = "sent" /\ path = "extended" /\ stage' = "refused"
    BY DEF ServerRefuses
  <1>2. UNCHANGED <<path, sql, params, i, text, bind, names, row>>
    BY DEF ServerRefuses
  <1>3. Miscounted \/ \E k \in DOMAIN params : \/ Refuses(params[k], Sent(params[k]))
                                             \/ MayRefuse(params[k], Sent(params[k]))
    <2>1. CASE ~Miscounted
      <3>1. PICK k \in DOMAIN params : \/ Refuses(params[k], BoundValues(bind)[k])
                                     \/ MayRefuse(params[k], BoundValues(bind)[k])
        BY <2>1 DEF ServerRefuses
      <3>2. BoundValues(bind)[k] = Sent(params[k])
        BY <1>1, <2>1, BoundIs
      <3> QED
        BY <3>1, <3>2
    <2> QED
      BY <2>1
  <1>4. Miscounted' <=> Miscounted
    BY <1>2 DEF Miscounted
  <1>5. Answered'
    <2>1. row = [columns |-> <<>>, values |-> <<>>]
      BY <1>1 DEF ParamsInv, Answered
    <2> QED
      BY <1>1, <1>2, <1>3, <1>4, <2>1 DEF Answered
  <1>6. Routed' /\ Typed' /\ Written' /\ Bound'
    BY <1>1, <1>2 DEF ParamsInv, Routed, Typed, Written, Bound
  <1> QED
    BY <1>5, <1>6 DEF ParamsInv

LEMMA ServerEchoesInv ==
  ASSUME ParamsInv, NEW cols \in [DOMAIN params -> Columns], ServerEchoes(cols)
  PROVE  ParamsInv'
  <1>1. PICK list : list = params
    OBVIOUS
  <1>2. IsList(list)
    BY <1>1 DEF ParamsInv, Typed
  <1>3. stage = "sent" /\ path = "extended" /\ ~Miscounted
    BY DEF ServerEchoes
  <1>4. BoundValues(bind) = [k \in DOMAIN list |-> Sent(list[k])]
    BY <1>1, <1>3, BoundIs
  <1>5. \A k \in DOMAIN list : ~Refuses(list[k], Sent(list[k]))
    <2> SUFFICES ASSUME NEW k \in DOMAIN list PROVE ~Refuses(list[k], Sent(list[k]))
      OBVIOUS
    <2>1. ~Refuses(params[k], BoundValues(bind)[k])
      BY <1>1 DEF ServerEchoes
    <2>2. BoundValues(bind)[k] = Sent(list[k])
      BY <1>4
    <2> QED
      BY <1>1, <2>1, <2>2
  <1>6. [k \in DOMAIN params |-> Shown(params[k], BoundValues(bind)[k])] = Echoed(list)
    BY <1>1, <1>4 DEF Echoed
  <1>7. [k \in DOMAIN cols |-> [name |-> cols[k], type_oid |-> oid(params[k])]] = Described(cols, list)
    BY <1>1 DEF Described
  <1>8. row' = [columns |-> decode_row_description(DescriptionOf(Described(cols, list))),
                values  |-> decode_data_row(DataRowOf(Echoed(list)))]
    BY <1>6, <1>7 DEF ServerEchoes
  <1>9. decode_row_description(DescriptionOf(Described(cols, list))) = Described(cols, list)
    BY <1>1, <1>2, DescribedIs
  <1>10. decode_data_row(DataRowOf(Echoed(list))) = Echoed(list)
    BY <1>2, <1>5, EchoedIs
  <1>11. stage' = "row" /\ names' = cols /\ params' = list /\ UNCHANGED <<path, sql, i, text, bind>>
    BY <1>1 DEF ServerEchoes
  <1>12. Answered'
    BY <1>1, <1>5, <1>8, <1>9, <1>10, <1>11 DEF Answered
  <1>13. Routed' /\ Typed' /\ Written' /\ Bound'
    BY <1>1, <1>3, <1>11 DEF ParamsInv, Routed, Typed, Written, Bound
  <1> QED
    BY <1>12, <1>13 DEF ParamsInv

LEMMA ParamsNext == ParamsInv /\ [Next]_vars => ParamsInv'
  <1> SUFFICES ASSUME ParamsInv, [Next]_vars PROVE ParamsInv'
    OBVIOUS
  <1>1. CASE Call
    <2>1. ASSUME NEW p \in {"params", "strings"}, NEW s \in Texts, NEW list \in ParamLists, CallSubstituted(p, s, list)
          PROVE  ParamsInv'
      BY <1>1, <2>1, CallSubstitutedInv DEF Call
    <2>2. ASSUME NEW p \in {"quote", "schema"}, NEW s \in Names, QuoteName(p, s)
          PROVE  ParamsInv'
      BY <1>1, <2>2, QuoteNameInv DEF Call
    <2>3. ASSUME NEW list \in BindLists, CallExtended(<<>>, list)
          PROVE  ParamsInv'
      BY <1>1, <2>3, CallExtendedInv DEF Call
    <2> QED
      BY <1>1, <2>1, <2>2, <2>3 DEF Call
  <1>2. CASE ReplaceParam
    BY <1>2, ReplaceParamInv
  <1>3. CASE SendText
    BY <1>3 DEF SendText, ParamsInv, Routed, Typed, Written, Bound, Answered
  <1>4. CASE Answer
    <2>1. ASSUME NEW cols \in [DOMAIN params -> Columns], ServerEchoes(cols) PROVE ParamsInv'
      BY <2>1, ServerEchoesInv
    <2> QED
      BY <1>4, <2>1, ServerRefusesInv DEF Answer
  <1>5. CASE UNCHANGED vars
    <2>1. Miscounted' <=> Miscounted
      BY <1>5 DEF vars, Miscounted
    <2> QED
      BY <1>5, <2>1 DEF vars, ParamsInv, Routed, Typed, Written, Bound, Answered
  <1> QED
    BY <1>1, <1>2, <1>3, <1>4, <1>5 DEF Next

LEMMA ParamsAlways == Spec => []ParamsInv
  BY ParamsInit, ParamsNext, PTL DEF Spec

-----------------------------------------------------------------------------
(* Reading a value back *)

LEMMA TailIs ==
  ASSUME NEW c \in Int, NEW s \in Seq(Int)
  PROVE  /\ Tail(<<c>> \o s) = s /\ (<<c>> \o s)[1] = c
         /\ <<c>> \o s # <<>>
  <1>1. PICK one : one = <<c>>
    OBVIOUS
  <1>2. one \in Seq(Int) /\ Len(one) = 1 /\ one[1] = c
    BY <1>1
  <1>3. PICK n \in Nat : n = Len(s)
    BY LenProperties
  <1>4. PICK t : t = one \o s
    OBVIOUS
  <1>5. /\ t \in Seq(Int) /\ Len(t) = Len(one) + Len(s)
        /\ \A j \in 1..Len(one) + Len(s) : t[j] = IF j <= Len(one) THEN one[j] ELSE s[j - Len(one)]
    <2>1. one \in Seq(Int)
      BY <1>2
    <2> QED
      BY <1>4, <2>1, ConcatProperties
  <1>6. Len(t) = 1 + n /\ \A j \in 1..1 + n : t[j] = IF j <= 1 THEN one[j] ELSE s[j - 1]
    BY <1>2, <1>3, <1>5
  <1>7. t[1] = c
    <2>1. 1 \in 1..1 + n
      OBVIOUS
    <2> QED
      BY <1>2, <1>6, <2>1
  <1>8. \A j \in 1..n : t[j + 1] = s[j]
    <2> SUFFICES ASSUME NEW j \in 1..n PROVE t[j + 1] = s[j]
      OBVIOUS
    <2>1. j + 1 \in 1..1 + n /\ ~(j + 1 <= 1) /\ (j + 1) - 1 = j
      OBVIOUS
    <2> QED
      BY <1>6, <2>1
  <1>9. t # <<>>
    BY <1>6
  <1>10. t \in Seq(Int) /\ Len(t) = n + 1
    BY <1>5, <1>6
  <1>11. Tail(t) \in Seq(Int) /\ Len(Tail(t)) = n /\ \A j \in 1..n : Tail(t)[j] = t[j + 1]
    BY <1>9, <1>10
  <1>12. Tail(t) = s
    <2>1. \A j \in 1..n : Tail(t)[j] = s[j]
      BY <1>8, <1>11
    <2> QED
      BY <1>3, <1>11, <2>1, SeqEqual
  <1> QED
    BY <1>1, <1>4, <1>7, <1>9, <1>12

\* An integer as it is written.
Written10(x) == IF x < 0 THEN <<Minus>> \o Decimal(-x) ELSE Decimal(x)

Fits(ty, x) == x <= MaxOf(ty) /\ x >= -MaxOf(ty) - 1

\* An integer is read as it was written, by every type it fits.
LEMMA ParseIntIs ==
  ASSUME NEW x \in Int, NEW ty \in IntTypes
  PROVE  /\ Written10(x) # <<>>
         /\ ParseInt(ty, Written10(x)) = IF Fits(ty, x) THEN Ok(Value(ty, <<x>>)) ELSE Err
  <1>1. PICK bytes : bytes = Written10(x)
    OBVIOUS
  <1>2. CASE x < 0
    <2>1. PICK n \in Nat : n = -x
      <3>1. -x \in Nat
        BY <1>2
      <3> QED
        BY <3>1
    <2>2. PICK d : d = Decimal(n)
      OBVIOUS
    <2>3. d \in Seq(Digits) /\ Len(d) > 0 /\ NumberOf(d) = n
      BY <2>2, DecimalIs
    <2>4. d \in Seq(Int)
      <3>1. Digits \subseteq Int
        BY DEF Digits
      <3> QED
        BY <2>3, <3>1, SeqMonotonic
    <2>5. bytes = <<Minus>> \o d
      BY <1>1, <1>2, <2>1, <2>2 DEF Written10
    <2>6. Tail(bytes) = d /\ bytes[1] = Minus /\ bytes # <<>> /\ bytes[1] \in {Minus, Plus}
      <3>1. Minus \in Int
        BY DEF Minus
      <3> QED
        BY <2>4, <2>5, <3>1, TailIs
    <2>7. Range(d) \subseteq Digits /\ d # <<>>
      <3>1. Range(d) \subseteq Digits
        BY <2>3 DEF Range
      <3> QED
        BY <2>3, <3>1
    <2>8. -n = x
      BY <2>1
    <2>9. ParseInt(ty, bytes) = IF Fits(ty, x) THEN Ok(Value(ty, <<x>>)) ELSE Err
      BY <2>3, <2>6, <2>7, <2>8 DEF ParseInt, Fits
    <2> QED
      BY <1>1, <2>6, <2>9
  <1>3. CASE ~(x < 0)
    <2>1. PICK n \in Nat : n = x
      BY <1>3
    <2>2. bytes = Decimal(n)
      BY <1>1, <1>3, <2>1 DEF Written10
    <2>3. bytes \in Seq(Digits) /\ Len(bytes) > 0 /\ NumberOf(bytes) = n
      BY <2>2, DecimalIs
    <2>4. bytes[1] \notin {Minus, Plus} /\ bytes # <<>>
      <3>1. Len(bytes) \in Nat
        BY <2>3, LenProperties
      <3>2. 1 \in 1..Len(bytes)
        BY <2>3, <3>1
      <3>3. bytes[1] \in Digits
        BY <2>3, <3>2, ElementOfSeq
      <3> QED
        BY <2>3, <3>3 DEF Digits, Minus, Plus
    <2>5. Range(bytes) \subseteq Digits
      BY <2>3 DEF Range
    <2>6. ParseInt(ty, bytes) = IF Fits(ty, x) THEN Ok(Value(ty, <<x>>)) ELSE Err
      BY <2>1, <2>3, <2>4, <2>5 DEF ParseInt, Fits
    <2> QED
      BY <1>1, <2>4, <2>6
  <1> QED
    BY <1>2, <1>3

LEMMA ValueIs ==
  ASSUME NEW v, IsValue(v)
  PROVE  Value(v.ty, v.of) = v
  BY DEF IsValue, Value

\* What the conversion of a type makes of a value that was sent with bytes.
LEMMA FromSqlIs ==
  ASSUME NEW v, IsValue(v), to_sql(v) # <<>>, v.ty # "bytea"
  PROVE  /\ from_sql(v.ty, Some(to_sql(v))) = Ok(v)
         /\ from_sql_option(v.ty, Some(to_sql(v))) = Ok(v)
         /\ v.ty \in IntTypes => \A ty \in IntTypes : from_sql(ty, Some(to_sql(v))) \in {Err, Ok(Value(ty, v.of))}
  <1>1. PICK bytes : bytes = to_sql(v)
    OBVIOUS
  <1>2. ~Some(bytes).null /\ Some(bytes).bytes = bytes
    BY DEF Some
  <1>3. Value(v.ty, v.of) = v
    BY ValueIs
  <1>4. v.ty \notin IntTypes => from_sql(v.ty, Some(bytes)) = Ok(v)
    <2> SUFFICES ASSUME v.ty \notin IntTypes PROVE from_sql(v.ty, Some(bytes)) = Ok(v)
      OBVIOUS
    <2>1. CASE v.ty = "bool"
      <3>1. v.of = <<0>> \/ v.of = <<1>>
        BY <2>1 DEF IsValue
      <3>2. CASE v.of = <<1>>
        <4>1. v.of[1] = 1
          BY <3>2
        <4>2. bytes = <<116>>
          BY <1>1, <2>1, <4>1 DEF to_sql, IntTypes
        <4>3. from_sql(v.ty, Some(bytes)) = Ok(Value("bool", <<1>>))
          BY <1>2, <2>1, <4>2 DEF from_sql, IntTypes
        <4> QED
          BY <1>3, <2>1, <3>2, <4>3
      <3>3. CASE v.of = <<0>>
        <4>1. v.of[1] # 1
          BY <3>3
        <4>2. bytes = <<102>>
          BY <1>1, <2>1, <4>1 DEF to_sql, IntTypes
        <4>3. bytes # <<116>> /\ bytes # <<49>>
          BY <4>2
        <4>4. from_sql(v.ty, Some(bytes)) = Ok(Value("bool", <<0>>))
          BY <1>2, <2>1, <4>2, <4>3 DEF from_sql, IntTypes
        <4> QED
          BY <1>3, <2>1, <3>3, <4>4
      <3> QED
        BY <3>1, <3>2, <3>3
    <2>2. CASE v.ty # "bool"
      <3>1. bytes = v.of
        BY <1>1, <2>2 DEF to_sql
      <3>2. from_sql(v.ty, Some(bytes)) = Ok(Value(v.ty, bytes))
        BY <1>2, <2>2 DEF from_sql
      <3> QED
        BY <1>3, <3>1, <3>2
    <2> QED
      BY <2>1, <2>2
  <1>5. ASSUME v.ty \in IntTypes
        PROVE  /\ from_sql(v.ty, Some(bytes)) = Ok(v)
               /\ \A ty \in IntTypes : from_sql(ty, Some(bytes)) \in {Err, Ok(Value(ty, v.of))}
    <2>1. PICK x \in Int : x = v.of[1] /\ v.of = <<x>> /\ x \in -MaxOf(v.ty) - 1..MaxOf(v.ty)
      BY <1>5, IntValue
    <2>2. bytes = Written10(x)
      <3>1. v.ty # "bool"
        BY <1>5 DEF IntTypes
      <3>2. to_sql(v) = IF v.of[1] < 0 THEN <<Minus>> \o Decimal(-v.of[1]) ELSE Decimal(v.of[1])
        BY <1>5, <3>1 DEF to_sql
      <3> QED
        BY <1>1, <2>1, <3>2 DEF Written10
    <2>3. ASSUME NEW ty \in IntTypes
          PROVE  from_sql(ty, Some(bytes)) = IF Fits(ty, x) THEN Ok(Value(ty, v.of)) ELSE Err
      <3>1. from_sql(ty, Some(bytes)) = ParseInt(ty, bytes)
        BY <1>2 DEF from_sql, IntTypes
      <3>2. ParseInt(ty, Written10(x)) = IF Fits(ty, x) THEN Ok(Value(ty, <<x>>)) ELSE Err
        BY ParseIntIs
      <3> QED
        BY <2>1, <2>2, <3>1, <3>2
    <2>4. Fits(v.ty, x)
      BY <2>1 DEF Fits, MaxOf
    <2>5. from_sql(v.ty, Some(bytes)) = Ok(v)
      BY <1>3, <1>5, <2>3, <2>4
    <2>6. \A ty \in IntTypes : from_sql(ty, Some(bytes)) \in {Err, Ok(Value(ty, v.of))}
      BY <2>3
    <2> QED
      BY <2>5, <2>6
  <1>6. from_sql_option(v.ty, Some(bytes)) = from_sql(v.ty, Some(bytes))
    BY <1>2 DEF from_sql_option
  <1> QED
    BY <1>1, <1>4, <1>5, <1>6

-----------------------------------------------------------------------------
(* The properties *)

LEMMA FieldNull ==
  ASSUME NEW value, IsField(value)
  PROVE  value.null => value.bytes = <<>>
  BY DEF IsField, NullValue, Some

LEMMA RowIs ==
  ASSUME ParamsInv, stage = "row"
  PROVE  /\ DOMAIN row.values = DOMAIN params /\ Len(row.values) = Len(params)
         /\ DOMAIN row.columns = DOMAIN params /\ Len(row.columns) = Len(params)
         /\ DOMAIN names = DOMAIN params
         /\ \A n \in DOMAIN params :
              /\ IsValue(params[n]) /\ ~Refuses(params[n], Sent(params[n]))
              /\ row.values[n] = Shown(params[n], Sent(params[n]))
              /\ row.columns[n] = [name |-> names[n], type_oid |-> oid(params[n])]
  <1>1. PICK l \in Nat : l = Len(params) /\ DOMAIN params = 1..l
    BY ListLength DEF ParamsInv, Typed
  <1>2. row.columns = Described(names, params) /\ row.values = Echoed(params)
    BY DEF ParamsInv, Answered
  <1>3. DOMAIN names = DOMAIN params
    BY DEF ParamsInv, Answered
  <1>4. row.values = [n \in 1..l |-> Shown(params[n], Sent(params[n]))]
    BY <1>1, <1>2 DEF Echoed
  <1>5. row.columns = [n \in 1..l |-> [name |-> names[n], type_oid |-> oid(params[n])]]
    BY <1>1, <1>2, <1>3 DEF Described
  <1>6. \A n \in DOMAIN params : IsValue(params[n]) /\ ~Refuses(params[n], Sent(params[n]))
    BY DEF ParamsInv, Typed, IsList, Answered
  <1>7. DOMAIN row.values = 1..l /\ Len(row.values) = l
    BY <1>4
  <1>8. DOMAIN row.columns = 1..l /\ Len(row.columns) = l
    BY <1>5
  <1> QED
    BY <1>1, <1>3, <1>4, <1>5, <1>6, <1>7, <1>8

LEMMA ParamsTyped == ParamsInv => TypeOK
  <1> SUFFICES ASSUME ParamsInv PROVE TypeOK
    OBVIOUS
  <1>1. \A k \in DOMAIN params : params[k].ty \in Types
    BY DEF ParamsInv, Typed, IsList, IsValue
  <1>2. \A t \in {sql, text} : Range(t) \subseteq 0..255
    <2>1. ASSUME NEW t \in Seq(Bytes) PROVE Range(t) \subseteq 0..255
      <3>1. Bytes = 0..255
        BY DEF Bytes
      <3>2. \A k \in DOMAIN t : t[k] \in Bytes
        OBVIOUS
      <3>3. Range(t) \subseteq Bytes
        BY <3>2 DEF Range
      <3> QED
        BY <3>1, <3>3
    <2>2. sql \in Seq(Bytes) /\ text \in Seq(Bytes)
      BY DEF ParamsInv, Typed
    <2> QED
      BY <2>1, <2>2
  <1>3. Range(bind) \subseteq Int
    BY DEF ParamsInv, Typed, Range
  <1>4. \A k \in DOMAIN row.values : row.values[k].null => row.values[k].bytes = <<>>
    <2>1. CASE stage = "row"
      <3> SUFFICES ASSUME NEW k \in DOMAIN row.values
                   PROVE row.values[k].null => row.values[k].bytes = <<>>
        OBVIOUS
      <3>1. /\ IsValue(params[k]) /\ row.values[k] = Shown(params[k], Sent(params[k]))
            /\ ~Refuses(params[k], Sent(params[k]))
        BY <2>1, RowIs
      <3>2. IsField(row.values[k])
        BY <3>1, ShownIs
      <3> QED
        BY <3>2, FieldNull
    <2>2. CASE stage # "row"
      <3>1. row.values = <<>>
        BY <2>2 DEF ParamsInv, Answered
      <3>2. DOMAIN row.values = {}
        BY <3>1
      <3> QED
        BY <3>2
    <2> QED
      BY <2>1, <2>2
  <1>5. stage \in {"idle", "replace", "sent", "refused", "row"} /\ i \in 0..Len(params)
    BY DEF ParamsInv, Routed, Typed
  <1> QED
    BY <1>1, <1>2, <1>3, <1>4, <1>5 DEF TypeOK

\* The loop over the parameters stays within them, and whatever is called, the text, the
\* Bind message and the row of the answer are well formed (src/client.rs:265-324).
THEOREM ParamsTypeCorrect == Spec => []TypeOK
  BY ParamsAlways, ParamsTyped, PTL

LEMMA QuotedRight == ParamsInv => QuotedReadsBack
  <1> SUFFICES ASSUME ParamsInv, stage = "sent", path \in {"quote", "schema"}
               PROVE  Lex(text) = <<Token(IF path = "quote" THEN "str" ELSE "ident", params[1].of)>>
    BY DEF QuotedReadsBack
  <1>1. PICK s \in Names : /\ params = <<Value("text", s)>>
                           /\ text = IF path = "schema" THEN double_quote_identifier(s) ELSE quote_string(s)
    BY DEF ParamsInv, Written
  <1>2. s \in Seq(Bytes)
    BY ParamsAssumption
  <1>3. params[1].of = s
    BY <1>1 DEF Value
  <1>4. CASE path = "quote"
    <2>1. text = <<Quote>> \o Doubled(s, Quote) \o <<Quote>>
      BY <1>1, <1>2, <1>4, QuoteStringIs
    <2>2. Lex(<<Quote>> \o Doubled(s, Quote) \o <<Quote>>) = <<Token("str", s)>>
      BY <1>2, QuotedLex
    <2> QED
      BY <1>3, <1>4, <2>1, <2>2
  <1>5. CASE path = "schema"
    <2>1. text = <<DQuote>> \o Doubled(s, DQuote) \o <<DQuote>>
      BY <1>1, <1>2, <1>5, QuoteStringIs
    <2>2. Quote # DQuote
      BY DEF Quote, DQuote
    <2>3. Lex(<<DQuote>> \o Doubled(s, DQuote) \o <<DQuote>>) = <<Token("ident", s)>>
      BY <1>2, <2>2, QuotedLex
    <2> QED
      BY <1>3, <1>5, <2>1, <2>3
  <1> QED
    BY <1>4, <1>5

\* What quote_string and double_quote_identifier write is read by the server as one
\* literal, or one name, with exactly the text that was given: for every text, whatever
\* quotes it has and wherever (src/client.rs:316-324).
THEOREM QuotingReadsBack == Spec => []QuotedReadsBack
  BY ParamsAlways, QuotedRight, PTL

\* A count that is wrong is beyond its 16 bits.
LEMMA MiscountedBeyond ==
  ASSUME ParamsInv, path = "extended", stage \in {"sent", "refused", "row"}, Miscounted
  PROVE  Len(params) >= Counts
  <1>1. PICK list : list = params
    OBVIOUS
  <1>2. IsList(list)
    BY <1>1 DEF ParamsInv, Typed
  <1>3. PICK n \in Nat : n = Len(list) /\ DOMAIN list = 1..n
    BY <1>2, ListLength
  <1>4. PICK c \in Nat : c = Count(list)
    BY <1>2, CountType
  <1>5. bind[3] = c
    BY <1>1, <1>2, <1>4, BindIs DEF ParamsInv, Bound
  <1>6. build_parse_message(list)[1] = c
    <2>1. PICK oids : oids = [k \in 1..n |-> oid(list[k])]
      OBVIOUS
    <2>2. oids \in Seq(Int)
      <3>1. \A k \in 1..n : oids[k] \in Int
        BY <1>2, <1>3, <2>1, OidType DEF IsList
      <3> QED
        BY <2>1, <3>1
    <2>3. build_parse_message(list) = <<c>> \o oids
      BY <1>3, <1>4, <2>1 DEF build_parse_message
    <2>4. c \in Int
      OBVIOUS
    <2> QED
      BY <2>2, <2>3, <2>4, TailIs
  <1>7. c # n
    BY <1>1, <1>3, <1>5, <1>6 DEF Miscounted
  <1>8. n < Counts => c = n
    BY <1>2, <1>3, <1>4, CountType
  <1>9. Counts \in Nat
    BY ParamsAssumption
  <1>10. n >= Counts
    BY <1>7, <1>8, <1>9
  <1> QED
    BY <1>1, <1>3, <1>10

LEMMA RefusedRight == ParamsInv => RefusedOnlyIf
  <1> SUFFICES ASSUME ParamsInv, stage = "refused"
               PROVE  \/ Len(params) >= Counts
                      \/ \E n \in DOMAIN params : LET v == params[n] IN
                           \/ v.ty \in TextTypes \cup {"bytea"} /\ Has(v.of, 0)
                           \/ v.ty \in {"json", "bytea"} /\ Has(v.of, Backslash)
                           \/ v.ty = "bytea" /\ \E k \in DOMAIN v.of : v.of[k] >= 128
    BY DEF RefusedOnlyIf
  <1>1. CASE Miscounted
    <2>1. path = "extended"
      BY DEF ParamsInv, Routed
    <2> QED
      BY <1>1, <2>1, MiscountedBeyond
  <1>2. CASE ~Miscounted
    <2>1. PICK n \in DOMAIN params : Refuses(params[n], Sent(params[n])) \/ MayRefuse(params[n], Sent(params[n]))
      BY <1>2 DEF ParamsInv, Answered
    <2>2. PICK v : v = params[n]
      OBVIOUS
    <2>3. IsValue(v)
      BY <2>2 DEF ParamsInv, Typed, IsList
    <2>4. ~Sent(v).null
      BY <2>1, <2>2 DEF Refuses, MayRefuse
    <2>5. to_sql(v) # <<>> /\ Sent(v).bytes = to_sql(v)
      BY <2>4 DEF Sent, NullValue, Some
    <2>6. CASE v.ty \in IntTypes
      <3>1. ~MayRefuse(v, Sent(v)) /\ v.ty # "bytea"
        BY <2>6 DEF MayRefuse, IntTypes
      <3>2. Has(to_sql(v), 0)
        BY <2>1, <2>2, <2>5, <3>1 DEF Refuses
      <3>3. PICK x \in Int : x = v.of[1]
        BY <2>3, <2>6, IntValue
      <3>4. PICK m \in Nat : to_sql(v) \in {Decimal(m), <<Minus>> \o Decimal(m)}
        <4>1. CASE x < 0
          <5>1. -x \in Nat
            BY <4>1
          <5>2. to_sql(v) = <<Minus>> \o Decimal(-x)
            BY <2>6, <3>3, <4>1 DEF to_sql, IntTypes
          <5> QED
            BY <5>1, <5>2
        <4>2. CASE ~(x < 0)
          <5>1. x \in Nat
            BY <4>2
          <5>2. to_sql(v) = Decimal(x)
            BY <2>6, <3>3, <4>2 DEF to_sql, IntTypes
          <5> QED
            BY <5>1, <5>2
        <4> QED
          BY <4>1, <4>2
      <3>8. PICK d : d = Decimal(m)
        OBVIOUS
      <3>5. d \in Seq(Digits)
        BY <3>8, DecimalIs
      <3>6. ~Has(d, 0)
        <4>1. \A k \in DOMAIN d : d[k] \in Digits
          BY <3>5
        <4> QED
          BY <4>1 DEF Has, Digits
      <3>7. ~Has(<<Minus>> \o d, 0)
        <4>1. PICK one : one = <<Minus>>
          OBVIOUS
        <4>2. one \in Seq(Bytes) /\ ~Has(one, 0)
          BY <4>1 DEF Bytes, Minus, Has
        <4>3. d \in Seq(Bytes)
          BY <3>8, DecimalBytes
        <4> QED
          BY <3>6, <4>1, <4>2, <4>3, HasConcat
      <3> QED
        BY <3>2, <3>4, <3>6, <3>7, <3>8
    <2>7. CASE v.ty = "bool"
      <3>1. ~MayRefuse(v, Sent(v)) /\ v.ty # "bytea"
        BY <2>7 DEF MayRefuse
      <3>2. Has(to_sql(v), 0)
        BY <2>1, <2>2, <2>5, <3>1 DEF Refuses
      <3>3. to_sql(v) = <<116>> \/ to_sql(v) = <<102>>
        BY <2>7 DEF to_sql, IntTypes
      <3> QED
        BY <3>2, <3>3, HasOne
    <2>8. CASE v.ty \notin IntTypes /\ v.ty # "bool"
      <3>1. to_sql(v) = v.of
        BY <2>8 DEF to_sql
      <3>2. v.ty \in TextTypes \cup {"bytea"}
        <4>1. v.ty # "none"
          BY <2>3, <2>5, <3>1 DEF IsValue
        <4> QED
          BY <2>3, <2>8, <4>1 DEF IsValue, Types
      <3>3. CASE Has(v.of, 0)
        BY <2>2, <3>2, <3>3
      <3>4. CASE ~Has(v.of, 0)
        <4>1. CASE MayRefuse(v, Sent(v))
          BY <2>2, <2>5, <3>1, <4>1 DEF MayRefuse
        <4>2. CASE Refuses(v, Sent(v))
          <5>1. v.ty = "bytea" /\ Has(ByteaIn(v.of), Malformed)
            BY <2>5, <3>1, <3>4, <4>2 DEF Refuses
          <5>2. v.of \in Seq(Bytes)
            BY <2>3, <5>1 DEF IsValue
          <5>3. Has(v.of, Backslash)
            <6> SUFFICES ASSUME ~Has(v.of, Backslash) PROVE FALSE
              OBVIOUS
            <6>1. Has(v.of, Malformed)
              BY <5>1, <5>2, ByteaInIs
            <6>2. PICK k \in DOMAIN v.of : v.of[k] = Malformed
              BY <6>1 DEF Has
            <6>3. v.of[k] \in Bytes
              BY <5>2, <6>2
            <6> QED
              BY <6>2, <6>3 DEF Bytes, Malformed
          <5> QED
            BY <2>2, <5>1, <5>3
        <4> QED
          BY <2>1, <2>2, <4>1, <4>2
      <3> QED
        BY <3>3, <3>4
    <2> QED
      BY <2>6, <2>7, <2>8
  <1> QED
    BY <1>1, <1>2

\* For every list of parameters: a server that checks what it gets refuses an extended
\* query only for more of them than 16 bits can count, or for a value whose bytes are not
\* the text of its type (src/codec.rs:373-429, src/row.rs:231-326).
THEOREM RefusedRightly == Spec => []RefusedOnlyIf
  BY ParamsAlways, RefusedRight, PTL

LEMMA NamesRight == ParamsInv => NamesFindTheirColumn
  <1> SUFFICES ASSUME ParamsInv, stage = "row"
               PROVE  /\ Len(row.columns) = Len(row.values)
                      /\ \A n \in DOMAIN names :
                           /\ row.columns[n] = [name |-> names[n], type_oid |-> oid(params[n])]
                           /\ (\A m \in 1..n - 1 : names[m] # names[n]) =>
                                get_by_name(params[n].ty, names[n]) = get(params[n].ty, n)
    BY DEF NamesFindTheirColumn
  <1>1. Len(row.columns) = Len(row.values)
    BY RowIs
  <1>2. DOMAIN row.columns = DOMAIN names
    BY RowIs
  <1>3. \A n \in DOMAIN names : row.columns[n] = [name |-> names[n], type_oid |-> oid(params[n])]
    BY RowIs
  <1>5. PICK l \in Nat : DOMAIN names = 1..l
    BY ListLength, RowIs DEF ParamsInv, Typed
  <1>4. ASSUME NEW n \in DOMAIN names, \A m \in 1..n - 1 : names[m] # names[n]
        PROVE  get_by_name(params[n].ty, names[n]) = get(params[n].ty, n)
    <2>1. \A k \in DOMAIN names : row.columns[k].name = names[k]
      <3> SUFFICES ASSUME NEW k \in DOMAIN names PROVE row.columns[k].name = names[k]
        OBVIOUS
      <3>1. row.columns[k] = [name |-> names[k], type_oid |-> oid(params[k])]
        BY <1>3
      <3> QED
        BY <3>1
    <2>2. PICK named : named = {k \in DOMAIN row.columns : row.columns[k].name = names[n]}
      OBVIOUS
    <2>3. named \subseteq 1..l /\ n \in named
      BY <1>2, <1>5, <2>1, <2>2
    <2>4. \A k \in named : n <= k
      <3> SUFFICES ASSUME NEW k \in named, k < n PROVE FALSE
        BY <1>5, <2>3
      <3>1. k \in 1..n - 1
        BY <1>5, <2>3
      <3>2. names[k] = names[n]
        BY <1>2, <2>1, <2>2
      <3> QED
        BY <1>4, <3>1, <3>2
    <2>5. PICK j : j = CHOOSE k \in named : \A m \in named : k <= m
      OBVIOUS
    <2>6. j \in named /\ \A m \in named : j <= m
      BY <2>3, <2>4, <2>5
    <2>7. j = n
      <3>1. j <= n /\ n <= j /\ j \in 1..l /\ n \in 1..l
        BY <2>3, <2>4, <2>6
      <3> QED
        BY <3>1
    <2>8. named # {}
      BY <2>3
    <2> QED
      BY <2>2, <2>5, <2>7, <2>8 DEF get_by_name
  <1> QED
    BY <1>1, <1>3, <1>4

\* The columns of the answer keep the names and the types the server gave them, in order,
\* and get_by_name finds the first column of a name: for any number of columns and any
\* names (src/codec.rs:227-275, src/row.rs:27-45).
THEOREM NamesFind == Spec => []NamesFindTheirColumn
  BY ParamsAlways, NamesRight, PTL

LEMMA ExtendedRight == ParamsInv => ExtendedKeepsValues
  <1> SUFFICES ASSUME ParamsInv, stage = "row" PROVE ExtendedKeepsValues
    BY DEF ExtendedKeepsValues
  <1>1. Len(row.values) = Len(params)
    BY RowIs
  <1>2. ASSUME NEW n \in DOMAIN params
        PROVE  LET v == params[n] IN
                 CASE to_sql(v) = <<>> -> row.values[n].null /\ from_sql_option(v.ty, row.values[n]) = Ok(None)
                   [] to_sql(v) # <<>> /\ v.ty = "bytea" ->
                        ~Has(v.of, Backslash) =>
                          get("bytea", n) = Ok(Value("bytea", <<Backslash, 120>> \o Hex(v.of)))
                   [] OTHER ->
                        /\ get(v.ty, n) = Ok(v) /\ from_sql_option(v.ty, row.values[n]) = Ok(v)
                        /\ v.ty \in IntTypes => \A ty \in IntTypes : get(ty, n) \in {Err, Ok(Value(ty, v.of))}
    <2>1. PICK v : v = params[n]
      OBVIOUS
    <2>2. IsValue(v) /\ row.values[n] = Shown(v, Sent(v)) /\ n \in DOMAIN row.values
      BY <2>1, RowIs
    <2>3. \A ty : get(ty, n) = from_sql(ty, row.values[n])
      BY <2>2 DEF get
    <2>4. CASE to_sql(v) = <<>>
      <3>1. row.values[n] = NullValue
        BY <2>2, <2>4, ShownIs
      <3>2. row.values[n].null
        BY <3>1 DEF NullValue
      <3>3. from_sql_option(v.ty, row.values[n]) = Ok(None)
        BY <3>2 DEF from_sql_option
      <3> QED
        BY <2>1, <2>4, <3>2, <3>3
    <2>5. CASE to_sql(v) # <<>> /\ v.ty = "bytea"
      <3>1. PICK bytes : bytes = <<Backslash, 120>> \o Hex(v.of)
        OBVIOUS
      <3>2. ASSUME ~Has(v.of, Backslash) PROVE get("bytea", n) = Ok(Value("bytea", bytes))
        <4>1. v.of \in Seq(Bytes)
          BY <2>2, <2>5 DEF IsValue
        <4>2. ByteaIn(v.of) = v.of
          BY <3>2, <4>1, ByteaInIs
        <4>3. row.values[n] = Some(bytes)
          BY <2>2, <2>5, <3>1, <4>2, ShownIs
        <4>4. ~row.values[n].null /\ row.values[n].bytes = bytes
          BY <4>3 DEF Some
        <4> QED
          BY <2>3, <4>4 DEF from_sql, IntTypes
      <3> QED
        BY <2>1, <2>5, <3>1, <3>2
    <2>6. CASE to_sql(v) # <<>> /\ v.ty # "bytea"
      <3>1. row.values[n] = Some(to_sql(v))
        BY <2>2, <2>6, ShownIs
      <3>2. /\ from_sql(v.ty, Some(to_sql(v))) = Ok(v)
            /\ from_sql_option(v.ty, Some(to_sql(v))) = Ok(v)
            /\ v.ty \in IntTypes => \A ty \in IntTypes : from_sql(ty, Some(to_sql(v))) \in {Err, Ok(Value(ty, v.of))}
        BY <2>2, <2>6, FromSqlIs
      <3>3. /\ get(v.ty, n) = Ok(v) /\ from_sql_option(v.ty, row.values[n]) = Ok(v)
            /\ v.ty \in IntTypes => \A ty \in IntTypes : get(ty, n) \in {Err, Ok(Value(ty, v.of))}
        BY <2>3, <3>1, <3>2
      <3> QED
        BY <2>1, <2>6, <3>3
    <2> QED
      BY <2>4, <2>5, <2>6
  <1> QED
    BY <1>1, <1>2 DEF ExtendedKeepsValues

\* A parameter of an extended query that the server takes comes back as itself in the row
\* that echoes it, NULL for what has no bytes, and only bytes with a backslash as others:
\* through the digits of to_sql, the lengths of the Bind message and of the DataRow, and
\* the parsing of from_sql, for every number of parameters and every value of the types (src/codec.rs:249-275 and 373-429,
\* src/row.rs:27-326).
THEOREM ExtendedKeeps == Spec => []ExtendedKeepsValues
  BY ParamsAlways, ExtendedRight, PTL

-----------------------------------------------------------------------------
(* Two texts that are the same around a token *)

Matching(t, k, u, l, w) == \A x \in 0..w - 1 : t[k + x] = u[l + x]

LEMMA SubSeqSame ==
  ASSUME NEW t \in Seq(Bytes), NEW u \in Seq(Bytes), NEW k \in Nat, NEW l \in Nat, NEW w \in Nat,
         k >= 1, l >= 1, k + w <= Len(t) + 1, l + w <= Len(u) + 1, Matching(t, k, u, l, w)
  PROVE  SubSeq(t, k, k + w - 1) = SubSeq(u, l, l + w - 1)
  <1>1. PICK g \in Nat, j \in Nat : g = k + w - 1 /\ j = l + w - 1
    OBVIOUS
  <1>2. g <= Len(t) /\ j <= Len(u) /\ k <= g + 1 /\ l <= j + 1 /\ 1 <= k /\ 1 <= l
    BY <1>1, LenProperties
  <1>3. PICK a, b : a = SubSeq(t, k, g) /\ b = SubSeq(u, l, j)
    OBVIOUS
  <1>4. a \in Seq(Bytes) /\ Len(a) = g - k + 1 /\ \A x \in 1..g - k + 1 : a[x] = t[k + x - 1]
    <2>1. 1 <= k /\ k <= g + 1 /\ g <= Len(t)
      BY <1>2
    <2> QED
      BY <1>3, <2>1, SubSeqIs, SMTT(30)
  <1>5. b \in Seq(Bytes) /\ Len(b) = j - l + 1 /\ \A x \in 1..j - l + 1 : b[x] = u[l + x - 1]
    <2>1. 1 <= l /\ l <= j + 1 /\ j <= Len(u)
      BY <1>2
    <2> QED
      BY <1>3, <2>1, SubSeqIs, SMTT(30)
  <1>6. g - k + 1 = w /\ j - l + 1 = w
    BY <1>1
  <1>7. ASSUME NEW x \in 1..w PROVE a[x] = b[x]
    <2>1. x - 1 \in 0..w - 1 /\ k + (x - 1) = k + x - 1 /\ l + (x - 1) = l + x - 1
      OBVIOUS
    <2>2. t[k + (x - 1)] = u[l + (x - 1)]
      BY <2>1 DEF Matching
    <2> QED
      BY <1>4, <1>5, <1>6, <2>1, <2>2
  <1>8. a = b
    BY <1>4, <1>5, <1>6, <1>7, SeqEqual
  <1> QED
    BY <1>1, <1>3, <1>8

LEMMA PastUnique ==
  ASSUME NEW s \in Seq(Bytes), NEW S, NEW k \in 1..Len(s) + 1, NEW p \in k..Len(s) + 1, 0 \notin S,
         Byte(s, p) \notin S, \A m \in k..p - 1 : Byte(s, m) \in S
  PROVE  Past(s, k, S) = p
  <1>1. PICK n \in Nat : n = Len(s)
    BY LenProperties
  <1>2. PICK r : r = Past(s, k, S)
    OBVIOUS
  <1>3. r \in k..n + 1 /\ Byte(s, r) \notin S /\ \A m \in k..r - 1 : Byte(s, m) \in S
    BY <1>1, <1>2, PastIs
  <1>4. ~(r < p)
    <2> SUFFICES ASSUME r < p PROVE FALSE
      OBVIOUS
    <2>1. r \in k..p - 1
      BY <1>1, <1>3
    <2> QED
      BY <1>3, <2>1
  <1>5. ~(p < r)
    <2> SUFFICES ASSUME p < r PROVE FALSE
      OBVIOUS
    <2>1. p \in k..r - 1
      BY <1>1, <1>3
    <2> QED
      BY <1>3, <2>1
  <1> QED
    BY <1>1, <1>2, <1>3, <1>4, <1>5

LEMMA WordAgree ==
  ASSUME NEW t \in Seq(Bytes), NEW u \in Seq(Bytes), NEW is, NEW S,
         NEW k \in 1..Len(t) + 1, NEW l \in 1..Len(u) + 1, NEW w \in Nat, 0 \notin S,
         Word(t, is, k, S).next = k + w, l + w <= Len(u) + 1, Matching(t, k, u, l, w),
         Byte(u, l + w) \notin S
  PROVE  Word(u, is, l, S) = Read(Word(t, is, k, S).piece, l + w)
  <1>1. PICK n \in Nat, m \in Nat : n = Len(t) /\ m = Len(u)
    BY LenProperties
  <1>2. Past(t, k, S) = k + w
    BY DEF Word, Read
  <1>3. k + w \in k..n + 1 /\ \A x \in k..k + w - 1 : Byte(t, x) \in S
    BY <1>1, <1>2, PastIs
  <1>4. ASSUME NEW x \in l..l + w - 1 PROVE Byte(u, x) \in S
    <2>1. x - l \in 0..w - 1 /\ k + (x - l) \in k..k + w - 1 /\ l + (x - l) = x
      OBVIOUS
    <2>2. t[k + (x - l)] = u[x]
      BY <2>1 DEF Matching
    <2>3. k + (x - l) \in Nat /\ k + (x - l) <= Len(t) /\ x \in Nat /\ x <= Len(u)
      BY <1>1, <1>3, <2>1
    <2> QED
      BY <1>3, <2>1, <2>2, <2>3 DEF Byte
  <1>5. l + w \in l..Len(u) + 1
    BY <1>1
  <1>6. Past(u, l, S) = l + w
    BY <1>4, <1>5, PastUnique
  <1>7. SubSeq(t, k, k + w - 1) = SubSeq(u, l, l + w - 1)
    <2>1. k + w <= Len(t) + 1 /\ k \in Nat /\ l \in Nat /\ k >= 1 /\ l >= 1
      BY <1>1, <1>3
    <2> QED
      BY <2>1, SubSeqSame
  <1>8. PICK a : a = SubSeq(t, k, k + w - 1)
    OBVIOUS
  <1>9. Word(t, is, k, S).piece = <<Token(is, a)>>
    BY <1>2, <1>8 DEF Word, Read
  <1>10. Word(u, is, l, S) = Read(<<Token(is, a)>>, l + w)
    <2>1. PICK p : p = Past(u, l, S)
      OBVIOUS
    <2>2. Word(u, is, l, S) = Read(<<Token(is, SubSeq(u, l, p - 1))>>, p)
      BY <2>1 DEF Word
    <2>3. p = l + w
      BY <1>6, <2>1
    <2>4. SubSeq(u, l, p - 1) = a
      BY <1>7, <1>8, <2>3
    <2> QED
      BY <2>2, <2>3, <2>4, Zenon
  <1> QED
    BY <1>9, <1>10

-----------------------------------------------------------------------------
(* The closing quote *)

ClosesAt(s, k, quote, escapes) ==
  s[k] = quote /\ ~(escapes /\ s[k] = Backslash) /\ Byte(s, k + 1) # quote

Further(s, k, quote, escapes) ==
  IF ((escapes /\ s[k] = Backslash) \/ s[k] = quote) /\ k < Len(s) THEN k + 2 ELSE k + 1

LEMMA CloseHere ==
  ASSUME NEW s \in Seq(Bytes), NEW quote, NEW escapes, NEW k \in 1..Len(s)
  PROVE  /\ ClosesAt(s, k, quote, escapes) => Close(s, k, quote, escapes) = <<k>>
         /\ ~ClosesAt(s, k, quote, escapes) =>
              Close(s, k, quote, escapes) = Close(s, Further(s, k, quote, escapes), quote, escapes)
         /\ Further(s, k, quote, escapes) \in k + 1..Len(s) + 1
  <1>1. PICK n \in Nat : n = Len(s)
    BY LenProperties
  <1>2. PICK r : r = Closing(s, quote, escapes)[k]
    OBVIOUS
  <1>3. Close(s, k, quote, escapes) = r.piece \o Close(s, r.next, quote, escapes)
    BY <1>2, CloseStep, ZenonT(30)
  <1>4. k \in DOMAIN s
    BY LenProperties
  <1>5. Further(s, k, quote, escapes) \in k + 1..Len(s) + 1
    BY <1>1 DEF Further
  <1>6. ASSUME ClosesAt(s, k, quote, escapes) PROVE Close(s, k, quote, escapes) = <<k>>
    <2>1. r = Read(<<k>>, Len(s) + 1)
      BY <1>2, <1>4, <1>6 DEF Closing, ClosesAt
    <2>2. r.piece = <<k>> /\ r.next = Len(s) + 1
      BY <2>1 DEF Read
    <2>3. Close(s, Len(s) + 1, quote, escapes) = <<>>
      BY CloseStep
    <2>4. <<k>> \in Seq(Nat)
      BY <1>1
    <2> QED
      BY <1>3, <2>2, <2>3, <2>4, ConcatEmptySeq
  <1>7. ASSUME ~ClosesAt(s, k, quote, escapes)
        PROVE  Close(s, k, quote, escapes) = Close(s, Further(s, k, quote, escapes), quote, escapes)
    <2>1. r = Read(<<>>, Further(s, k, quote, escapes))
      BY <1>2, <1>4, <1>7 DEF Closing, ClosesAt, Further
    <2>2. PICK f \in 1..Len(s) + 1 : f = Further(s, k, quote, escapes)
      BY <1>1, <1>5
    <2>3. r.piece = <<>> /\ r.next = f
      BY <2>1, <2>2 DEF Read
    <2>4. PICK c : c = Close(s, f, quote, escapes)
      OBVIOUS
    <2>5. c = <<>> \/ \E j \in f..Len(s) : c = <<j>>
      BY <2>4, CloseIs
    <2>6. c \in Seq(Nat)
      <3>1. CASE c = <<>>
        BY <3>1
      <3>2. CASE c # <<>>
        <4>1. PICK j \in f..Len(s) : c = <<j>>
          BY <2>5, <3>2
        <4>2. j \in Nat
          BY <1>1
        <4> QED
          BY <4>1, <4>2
      <3> QED
        BY <3>1, <3>2
    <2> QED
      BY <1>3, <2>2, <2>3, <2>4, <2>6, ConcatEmptySeq
  <1> QED
    BY <1>5, <1>6, <1>7

Moved(t, u, d, f, j) == \A x \in f..j : u[x + d] = t[x]

LEMMA CloseAgree ==
  ASSUME NEW t \in Seq(Bytes), NEW u \in Seq(Bytes), NEW quote, NEW escapes, NEW d \in Int,
         NEW j \in 1..Len(t), NEW from \in 1..j, from + d >= 1, j + d <= Len(u),
         Moved(t, u, d, from, j), Byte(u, j + d + 1) # quote,
         Close(t, from, quote, escapes) = <<j>>
  PROVE  Close(u, from + d, quote, escapes) = <<j + d>>
  <1>1. PICK n \in Nat, m \in Nat : n = Len(t) /\ m = Len(u)
    BY LenProperties
  <1>a. \A x \in from..j : u[x + d] = t[x]
    BY DEF Moved
  <1> DEFINE Goal(x) == (x \in from..j /\ Close(t, x, quote, escapes) = <<j>>)
                          => Close(u, x + d, quote, escapes) = <<j + d>>
  <1> DEFINE S == {x \in 1..j + 1 : Goal(x)}
  <1>2. j + 1 \in S
    BY <1>1
  <1>3. ASSUME NEW x \in 1..j, \A y \in x + 1..j + 1 : y \in S PROVE x \in S
    <2> SUFFICES ASSUME x \in from..j, Close(t, x, quote, escapes) = <<j>>
                 PROVE  Close(u, x + d, quote, escapes) = <<j + d>>
      BY <1>1
    <2>1. x \in 1..Len(t) /\ x + d \in 1..Len(u) /\ u[x + d] = t[x]
      BY <1>1, <1>a
    <2>2. CASE ClosesAt(t, x, quote, escapes)
      <3>1. <<x>> = <<j>>
        BY <2>1, <2>2, CloseHere
      <3>2. x = j
        BY <3>1
      <3>3. ClosesAt(u, x + d, quote, escapes)
        BY <2>1, <2>2, <3>2 DEF ClosesAt
      <3> QED
        BY <2>1, <3>2, <3>3, CloseHere
    <2>3. CASE ~ClosesAt(t, x, quote, escapes)
      <3>1. PICK f : f = Further(t, x, quote, escapes)
        OBVIOUS
      <3>2. f \in x + 1..n + 1 /\ Close(t, f, quote, escapes) = <<j>>
        BY <1>1, <2>1, <2>3, <3>1, CloseHere
      <3>3. f <= j
        <4>1. f \in 1..Len(t) + 1
          BY <1>1, <3>2
        <4>2. <<j>> # <<>>
          OBVIOUS
        <4>3. PICK c : c = Close(t, f, quote, escapes)
          OBVIOUS
        <4>4. c = <<>> \/ \E y \in f..Len(t) : c = <<y>>
          BY <4>1, <4>3, CloseIs
        <4>5. c = <<j>>
          BY <3>2, <4>3
        <4>6. PICK y \in f..Len(t) : c = <<y>>
          BY <4>4, <4>5
        <4>7. y = j
          BY <4>5, <4>6
        <4> QED
          BY <3>2, <4>6, <4>7
      <3>4. x + 1 \in from..j /\ x < Len(t) /\ x + d < Len(u)
        BY <1>1, <3>2, <3>3
      <3>5. Byte(u, x + d + 1) = Byte(t, x + 1)
        <4>1. u[(x + 1) + d] = t[x + 1] /\ (x + 1) + d = x + d + 1
          BY <1>a, <3>4
        <4> QED
          BY <1>1, <3>4, <4>1 DEF Byte
      <3>6. ~ClosesAt(u, x + d, quote, escapes)
        BY <2>1, <2>3, <3>5 DEF ClosesAt
      <3>7. Further(u, x + d, quote, escapes) = f + d
        BY <1>1, <2>1, <3>1, <3>4 DEF Further
      <3>8. Close(u, x + d, quote, escapes) = Close(u, f + d, quote, escapes)
        BY <2>1, <3>6, <3>7, CloseHere
      <3>9. f \in S /\ f \in from..j
        BY <1>3, <3>2, <3>3
      <3> QED
        BY <3>2, <3>8, <3>9
    <2> QED
      BY <2>2, <2>3
  <1>4. 1..j + 1 \subseteq S
    <2> HIDE DEF S
    <2>1. j \in Nat
      BY <1>1
    <2> QED
      BY <1>2, <1>3, <2>1, DownInduction
  <1>5. from \in S /\ from \in from..j
    BY <1>1, <1>4
  <1> QED
    BY <1>5

LEMMA CloseFound ==
  ASSUME NEW s \in Seq(Bytes), NEW quote, NEW escapes, NEW from \in 1..Len(s) + 1, NEW j \in 1..Len(s),
         Close(s, from, quote, escapes) = <<j>>
  PROVE  ClosesAt(s, j, quote, escapes)
  <1>1. PICK n \in Nat : n = Len(s)
    BY LenProperties
  <1> DEFINE S == {x \in 1..n + 1 : Close(s, x, quote, escapes) = <<j>> => ClosesAt(s, j, quote, escapes)}
  <1>2. n + 1 \in S
    <2>1. Close(s, n + 1, quote, escapes) = <<>>
      BY <1>1, CloseStep
    <2>2. <<>> # <<j>>
      OBVIOUS
    <2> QED
      <3>1. ~(Close(s, n + 1, quote, escapes) = <<j>>)
        BY <2>1, <2>2, Zenon
      <3>2. n + 1 \in 1..n + 1
        OBVIOUS
      <3> QED
        BY <3>1, <3>2, Zenon
  <1>3. ASSUME NEW x \in 1..n, \A y \in x + 1..n + 1 : y \in S PROVE x \in S
    <2>1. x \in 1..Len(s)
      BY <1>1
    <2>2. CASE ClosesAt(s, x, quote, escapes)
      <3>1. Close(s, x, quote, escapes) = <<x>>
        BY <2>1, <2>2, CloseHere
      <3>2. <<x>> = <<j>> => x = j
        OBVIOUS
      <3> QED
        BY <2>2, <3>1, <3>2
    <2>3. CASE ~ClosesAt(s, x, quote, escapes)
      <3>1. PICK f : f = Further(s, x, quote, escapes)
        OBVIOUS
      <3>2. f \in x + 1..n + 1 /\ Close(s, x, quote, escapes) = Close(s, f, quote, escapes)
        BY <1>1, <2>1, <2>3, <3>1, CloseHere
      <3> QED
        BY <1>3, <3>2
    <2> QED
      BY <2>2, <2>3
  <1> HIDE DEF S
  <1>4. 1..n + 1 \subseteq S
    BY <1>2, <1>3, DownInduction
  <1>5. from \in S
    BY <1>1, <1>4
  <1> QED
    BY <1>5 DEF S

\* What Quoted makes of the text between the quotes.
Literal(is, b, quote, escapes) ==
  LET body == Replace(b, <<quote, quote>>, <<quote>>)
  IN Token(is, IF escapes THEN Replace(body, <<Backslash, Backslash>>, <<Backslash>>) ELSE body)

LEMMA QuotedIs ==
  ASSUME NEW s, NEW is, NEW k, NEW quote, NEW escapes
  PROVE  /\ Close(s, k, quote, escapes) = <<>> =>
              Quoted(s, is, k, quote, escapes) = Read(<<Token("error", <<>>)>>, Len(s) + 1)
         /\ \A j \in Nat : Close(s, k, quote, escapes) = <<j>> =>
              Quoted(s, is, k, quote, escapes)
                = Read(<<Literal(is, SubSeq(s, k, j - 1), quote, escapes)>>, j + 1)
  <1>1. ASSUME Close(s, k, quote, escapes) = <<>>
        PROVE  Quoted(s, is, k, quote, escapes) = Read(<<Token("error", <<>>)>>, Len(s) + 1)
    BY <1>1 DEF Quoted
  <1>2. ASSUME NEW j \in Nat, Close(s, k, quote, escapes) = <<j>>
        PROVE  Quoted(s, is, k, quote, escapes)
                 = Read(<<Literal(is, SubSeq(s, k, j - 1), quote, escapes)>>, j + 1)
    <2>1. PICK c : c = Close(s, k, quote, escapes)
      OBVIOUS
    <2>2. c # <<>> /\ c[1] = j
      BY <1>2, <2>1
    <2>3. Quoted(s, is, k, quote, escapes)
            = Read(<<Literal(is, SubSeq(s, k, c[1] - 1), quote, escapes)>>, c[1] + 1)
      BY <2>1, <2>2 DEF Quoted, Literal
    <2> QED
      BY <2>2, <2>3
  <1> QED
    BY <1>1, <1>2

\* A token that does not end because the text does.
Closed(piece) == piece # <<>> /\ piece[1].is \notin {"error", "rest"}

LEMMA QuotedAgree ==
  ASSUME NEW t \in Seq(Bytes), NEW u \in Seq(Bytes), NEW is, NEW quote, quote # 0, NEW escapes,
         NEW k \in 1..Len(t) + 1, NEW l \in 1..Len(u) + 1, NEW w \in Nat,
         Quoted(t, is, k, quote, escapes).next = k + w, l + w <= Len(u) + 1, Matching(t, k, u, l, w),
         Byte(u, l + w) = Byte(t, k + w) \/ Byte(u, l + w) # quote,
         k + w = Len(t) + 1 => l + w = Len(u) + 1 \/ Closed(Quoted(t, is, k, quote, escapes).piece)
  PROVE  Quoted(u, is, l, quote, escapes) = Read(Quoted(t, is, k, quote, escapes).piece, l + w)
  <1>1. PICK n \in Nat, m \in Nat : n = Len(t) /\ m = Len(u)
    BY LenProperties
  <1>2. CASE Close(t, k, quote, escapes) # <<>>
    <2>1. PICK j \in k..Len(t) : Close(t, k, quote, escapes) = <<j>>
      BY <1>2, CloseIs
    <2>2. j \in Nat /\ j \in 1..Len(t) /\ k \in 1..j
      BY <1>1
    <2>3. PICK a : a = SubSeq(t, k, j - 1)
      OBVIOUS
    <2>4. Quoted(t, is, k, quote, escapes) = Read(<<Literal(is, a, quote, escapes)>>, j + 1)
      BY <2>1, <2>2, <2>3, QuotedIs
    <2>5. /\ Quoted(t, is, k, quote, escapes).piece = <<Literal(is, a, quote, escapes)>>
          /\ j + 1 = k + w
      BY <2>4 DEF Read
    <2>a. j + 1 = k + w
      BY <2>5
    <2>6. PICK d \in Int : d = l - k
      BY <1>1
    <2>7. w >= 1 /\ j + d = l + w - 1 /\ k + d = l /\ j + d + 1 = l + w
      BY <1>1, <2>1, <2>a, <2>6
    <2>8. \A x \in k..j : u[x + d] = t[x]
      <3> SUFFICES ASSUME NEW x \in k..j PROVE u[x + d] = t[x]
        OBVIOUS
      <3>1. x - k \in 0..w - 1 /\ k + (x - k) = x /\ l + (x - k) = x + d
        BY <1>1, <2>1, <2>a, <2>6
      <3> QED
        BY <3>1 DEF Matching
    <2>b. Moved(t, u, d, k, j)
      BY <2>8 DEF Moved
    <2>9. Byte(u, j + d + 1) # quote
      <3>1. ClosesAt(t, j, quote, escapes)
        BY <2>1, <2>2, CloseFound
      <3> QED
        BY <2>5, <2>7, <3>1 DEF ClosesAt
    <2>10. Close(u, l, quote, escapes) = <<l + w - 1>>
      <3>1. k + d >= 1 /\ j + d <= Len(u)
        BY <1>1, <2>7
      <3>2. Close(u, k + d, quote, escapes) = <<j + d>>
        BY <2>1, <2>2, <2>b, <2>9, <3>1, CloseAgree
      <3> QED
        BY <2>7, <3>2
    <2>11. a = SubSeq(u, l, (l + w - 1) - 1)
      <3>1. PICK v \in Nat : v = w - 1
        BY <2>7
      <3>2. Matching(t, k, u, l, v)
        BY <3>1 DEF Matching
      <3>3. k \in Nat /\ l \in Nat /\ k >= 1 /\ l >= 1 /\ k + v <= Len(t) + 1 /\ l + v <= Len(u) + 1
        BY <1>1, <2>1, <2>5, <3>1
      <3>4. SubSeq(t, k, k + v - 1) = SubSeq(u, l, l + v - 1)
        BY <3>2, <3>3, SubSeqSame
      <3>5. k + v - 1 = j - 1 /\ l + v - 1 = (l + w - 1) - 1
        BY <2>5, <3>1
      <3> QED
        BY <2>3, <3>4, <3>5
    <2>12. PICK y \in Nat : y = l + w - 1
      BY <2>7
    <2>13. Quoted(u, is, l, quote, escapes) = Read(<<Literal(is, a, quote, escapes)>>, y + 1)
      BY <2>10, <2>11, <2>12, QuotedIs
    <2>14. y + 1 = l + w
      BY <2>12
    <2> QED
      BY <2>5, <2>13, <2>14
  <1>3. CASE Close(t, k, quote, escapes) = <<>>
    <2>1. Quoted(t, is, k, quote, escapes) = Read(<<Token("error", <<>>)>>, Len(t) + 1)
      BY <1>3, QuotedIs
    <2>2. /\ Quoted(t, is, k, quote, escapes).piece = <<Token("error", <<>>)>>
          /\ k + w = Len(t) + 1
      BY <2>1 DEF Read
    <2>3. ~Closed(Quoted(t, is, k, quote, escapes).piece)
      BY <2>2 DEF Closed, Token
    <2>4. l + w = Len(u) + 1
      BY <2>2, <2>3
    <2>5. SUFFICES ASSUME Close(u, l, quote, escapes) # <<>> PROVE FALSE
      <3>1. ASSUME Close(u, l, quote, escapes) = <<>>
            PROVE  Quoted(u, is, l, quote, escapes) = Read(<<Token("error", <<>>)>>, Len(u) + 1)
        BY <3>1, QuotedIs
      <3> QED
        BY <2>2, <2>4, <3>1
    <2>6. PICK j \in l..Len(u) : Close(u, l, quote, escapes) = <<j>>
      BY <2>5, CloseIs
    <2>7. j \in Nat /\ j \in 1..Len(u) /\ l \in 1..j
      BY <1>1
    <2>8. PICK d \in Int : d = k - l
      BY <1>1
    <2>9. j + d \in k..Len(t) /\ l + d = k
      BY <1>1, <2>2, <2>4, <2>6, <2>8
    <2>10. \A x \in l..Len(u) : t[x + d] = u[x]
      <3> SUFFICES ASSUME NEW x \in l..Len(u) PROVE t[x + d] = u[x]
        OBVIOUS
      <3>1. x - l \in 0..w - 1 /\ l + (x - l) = x /\ k + (x - l) = x + d
        BY <1>1, <2>4, <2>8
      <3> QED
        BY <3>1 DEF Matching
    <2>11. Byte(t, j + d + 1) # quote
      <3>1. Byte(u, j + 1) # quote
        BY <2>6, <2>7, CloseFound DEF ClosesAt
      <3>2. CASE j < Len(u)
        <4>1. j + 1 \in l..Len(u) /\ (j + 1) + d = j + d + 1 /\ j + d + 1 <= Len(t)
          BY <1>1, <2>2, <2>4, <2>8, <2>7, <3>2
        <4>2. t[(j + 1) + d] = u[j + 1]
          BY <2>10, <4>1
        <4> QED
          BY <3>1, <4>1, <4>2 DEF Byte
      <3>3. CASE ~(j < Len(u))
        <4>1. ~(j + d + 1 <= Len(t))
          BY <1>1, <2>2, <2>4, <2>7, <2>8, <3>3
        <4> QED
          BY <4>1 DEF Byte
      <3> QED
        BY <3>2, <3>3
    <2>12. Close(t, l + d, quote, escapes) = <<j + d>>
      <3>1. l + d >= 1 /\ j + d <= Len(t)
        BY <1>1, <2>9
      <3>2. Moved(u, t, d, l, j)
        <4>1. l..j \subseteq l..Len(u)
          BY <1>1, <2>7
        <4> QED
          BY <2>10, <4>1 DEF Moved
      <3> QED
        BY <2>6, <2>7, <2>11, <3>1, <3>2, CloseAgree
    <2>13. Close(t, k, quote, escapes) = <<j + d>> /\ <<j + d>> # <<>>
      BY <2>9, <2>12
    <2> QED
      BY <1>3, <2>13
  <1> QED
    BY <1>2, <1>3

-----------------------------------------------------------------------------
(* Comments, and literals between dollars *)

LEMMA StartsShift ==
  ASSUME NEW t \in Seq(Bytes), NEW u \in Seq(Bytes), NEW k \in Nat, NEW l \in Nat, NEW w \in Nat,
         k >= 1, l >= 1, k + w <= Len(t) + 1, l + w <= Len(u) + 1, Matching(t, k, u, l, w),
         NEW part, Len(part) \in Nat, NEW x \in Nat, x + Len(part) <= w
  PROVE  StartsAt(t, part, k + x) <=> StartsAt(u, part, l + x)
  <1>1. PICK v \in Nat, n \in Nat, m \in Nat : v = Len(part) /\ n = Len(t) /\ m = Len(u)
    BY LenProperties
  <1>2. Matching(t, k + x, u, l + x, v)
    <2> SUFFICES ASSUME NEW y \in 0..v - 1 PROVE t[k + x + y] = u[l + x + y]
      BY DEF Matching
    <2>1. x + y \in 0..w - 1 /\ k + (x + y) = k + x + y /\ l + (x + y) = l + x + y
      BY <1>1
    <2>2. t[k + (x + y)] = u[l + (x + y)]
      BY <2>1 DEF Matching
    <2> QED
      BY <2>1, <2>2
  <1>3. k + x + v <= n + 1 /\ l + x + v <= m + 1
    BY <1>1
  <1>4. SubSeq(t, k + x, k + x + v - 1) = SubSeq(u, l + x, l + x + v - 1)
    <2>1. PICK a \in Nat, b \in Nat : a = k + x /\ b = l + x
      OBVIOUS
    <2>2. a >= 1 /\ b >= 1 /\ a + v <= Len(t) + 1 /\ b + v <= Len(u) + 1 /\ Matching(t, a, u, b, v)
      BY <1>1, <1>2, <1>3, <2>1
    <2>3. SubSeq(t, a, a + v - 1) = SubSeq(u, b, b + v - 1)
      BY <2>2, SubSeqSame
    <2> QED
      BY <2>1, <2>3
  <1> QED
    BY <1>1, <1>3, <1>4 DEF StartsAt

LEMMA BlockShift ==
  ASSUME NEW t \in Seq(Bytes), NEW u \in Seq(Bytes), NEW k \in Nat, NEW l \in Nat, NEW w \in Nat,
         k >= 1, l >= 1, k + w <= Len(t) + 1, l + w <= Len(u) + 1, Matching(t, k, u, l, w),
         NEW j \in Nat, j >= 2, j + 2 <= w, ClosedBlock(t, k, k + j)
  PROVE  l + j \in l + 2..Len(u) /\ ClosedBlock(u, l, l + j)
  <1>1. PICK n \in Nat, m \in Nat : n = Len(t) /\ m = Len(u)
    BY LenProperties
  <1>2. PICK ends, begins : ends = <<Star, Slash>> /\ begins = <<Slash, Star>>
    OBVIOUS
  <1>3. Len(ends) = 2 /\ Len(begins) = 2
    BY <1>2
  <1>a. /\ StartsAt(t, ends, k + j) /\ \A y \in k + 2..k + j - 1 : ~StartsAt(t, ends, y)
        /\ \A y \in k + 2..k + j : ~StartsAt(t, begins, y)
    <2>1. PICK q : q = k + j
      OBVIOUS
    <2>2. ClosedBlock(t, k, q)
      BY <2>1
    <2>3. /\ StartsAt(t, ends, q) /\ \A y \in k + 2..q - 1 : ~StartsAt(t, ends, y)
          /\ \A y \in k + 2..q : ~StartsAt(t, begins, y)
      BY <1>2, <2>2 DEF ClosedBlock
    <2> QED
      BY <2>1, <2>3
  <1>4. ASSUME NEW x \in 0..j
        PROVE  /\ StartsAt(t, ends, k + x) <=> StartsAt(u, ends, l + x)
               /\ StartsAt(t, begins, k + x) <=> StartsAt(u, begins, l + x)
    <2>1. /\ x \in Nat /\ x + Len(ends) <= w /\ x + Len(begins) <= w
          /\ Len(ends) \in Nat /\ Len(begins) \in Nat
      BY <1>3
    <2>2. StartsAt(t, ends, k + x) <=> StartsAt(u, ends, l + x)
      BY <2>1, StartsShift
    <2>3. StartsAt(t, begins, k + x) <=> StartsAt(u, begins, l + x)
      BY <2>1, StartsShift
    <2> QED
      BY <2>2, <2>3
  <1>5. StartsAt(u, ends, l + j)
    <2>1. j \in 0..j
      OBVIOUS
    <2> QED
      BY <1>a, <1>4, <2>1
  <1>6. ASSUME NEW y \in l + 2..l + j - 1 PROVE ~StartsAt(u, ends, y)
    <2>1. PICK x \in 0..j : x = y - l
      <3>1. y - l \in 0..j
        OBVIOUS
      <3> QED
        BY <3>1
    <2>2. k + x \in k + 2..k + j - 1 /\ l + x = y
      BY <2>1
    <2>3. ~StartsAt(t, ends, k + x)
      BY <1>a, <2>2
    <2> QED
      BY <1>4, <2>2, <2>3
  <1>7. ASSUME NEW y \in l + 2..l + j PROVE ~StartsAt(u, begins, y)
    <2>1. PICK x \in 0..j : x = y - l
      <3>1. y - l \in 0..j
        OBVIOUS
      <3> QED
        BY <3>1
    <2>2. k + x \in k + 2..k + j /\ l + x = y
      BY <2>1
    <2>3. ~StartsAt(t, begins, k + x)
      BY <1>a, <2>2
    <2> QED
      BY <1>4, <2>2, <2>3
  <1>8. l + j \in l + 2..Len(u)
    BY <1>1
  <1>9. PICK q : q = l + j
    OBVIOUS
  <1>10. /\ StartsAt(u, ends, q) /\ \A y \in l + 2..q - 1 : ~StartsAt(u, ends, y)
         /\ \A y \in l + 2..q : ~StartsAt(u, begins, y)
    BY <1>5, <1>6, <1>7, <1>9
  <1>11. ClosedBlock(u, l, q)
    BY <1>2, <1>10 DEF ClosedBlock
  <1> QED
    BY <1>8, <1>9, <1>11

LEMMA DollarShift ==
  ASSUME NEW t \in Seq(Bytes), NEW u \in Seq(Bytes), NEW k \in Nat, NEW l \in Nat, NEW w \in Nat,
         k >= 1, l >= 1, k + w <= Len(t) + 1, l + w <= Len(u) + 1, Matching(t, k, u, l, w),
         NEW f \in Nat, NEW e \in Nat, NEW g \in Nat, NEW h \in Nat, f >= k + 1, e >= f + 1,
         e + (f - k + 1) <= k + w, g = l + (f - k), h = l + (e - k), ClosedDollar(t, k, f, e)
  PROVE  /\ g \in l + 1..Len(u) /\ h \in g + 1..Len(u) /\ ClosedDollar(u, l, g, h)
         /\ Inside(t, f, e) = Inside(u, g, h)
  <1>1. PICK n \in Nat, m \in Nat : n = Len(t) /\ m = Len(u)
    BY LenProperties
  <1>a. PICK o \in Nat, j \in Nat :
          /\ o >= 1 /\ j >= o + 1 /\ j + (o + 1) <= w
          /\ f = k + o /\ e = k + j /\ g = l + o /\ h = l + j
    <2>1. /\ f - k \in Nat /\ e - k \in Nat /\ f - k >= 1 /\ e - k >= (f - k) + 1 /\ (e - k) + ((f - k) + 1) <= w
          /\ f = k + (f - k) /\ e = k + (e - k)
      OBVIOUS
    <2> QED
      BY <2>1
  <1>b. ClosedDollar(t, k, k + o, k + j)
    BY <1>a
  <1>2. ASSUME NEW x \in 0..w - 1 PROVE Byte(t, k + x) = Byte(u, l + x)
    <2>1. t[k + x] = u[l + x]
      BY DEF Matching
    <2>2. k + x <= Len(t) /\ l + x <= Len(u)
      BY <1>1
    <2> QED
      BY <2>1, <2>2 DEF Byte
  <1>3. PICK d : d = Delimiter(t, k, k + o)
    OBVIOUS
  <1>4. Len(d) = o + 1
    <2>1. k \in 1..Len(t) /\ k + o \in k + 1..Len(t)
      BY <1>1, <1>a
    <2>2. Len(Delimiter(t, k, k + o)) = (k + o) - k + 1
      BY <2>1, DelimiterIs
    <2> QED
      BY <1>3, <2>2
  <1>5. d = Delimiter(u, l, l + o)
    <2>1. PICK v \in Nat : v = o + 1
      OBVIOUS
    <2>2. Matching(t, k, u, l, v)
      <3>1. 0..v - 1 \subseteq 0..w - 1
        BY <1>a, <2>1
      <3> QED
        BY <3>1 DEF Matching
    <2>3. k + v <= Len(t) + 1 /\ l + v <= Len(u) + 1
      BY <1>1, <1>a, <2>1
    <2>4. SubSeq(t, k, k + v - 1) = SubSeq(u, l, l + v - 1)
      BY <2>2, <2>3, SubSeqSame
    <2>5. k + v - 1 = k + o /\ l + v - 1 = l + o
      BY <2>1
    <2> QED
      BY <1>3, <2>4, <2>5 DEF Delimiter
  <1>6. ASSUME NEW x \in 0..j PROVE StartsAt(t, d, k + x) <=> StartsAt(u, d, l + x)
    <2>1. x \in Nat /\ x + Len(d) <= w /\ Len(d) \in Nat
      BY <1>a, <1>4
    <2> QED
      BY <2>1, StartsShift
  <1>7. Byte(u, l + o) = Dollar
    <2>1. o \in 0..w - 1
      BY <1>a
    <2> QED
      BY <1>2, <1>b, <2>1 DEF ClosedDollar
  <1>8. ASSUME NEW y \in l + 1..l + o - 1 PROVE Byte(u, y) \in NameBytes \ {Dollar}
    <2>1. PICK x \in 0..w - 1 : x = y - l
      <3>1. y - l \in 0..w - 1
        BY <1>a
      <3> QED
        BY <3>1
    <2>2. k + x \in k + 1..k + o - 1 /\ l + x = y
      BY <2>1
    <2>3. Byte(t, k + x) \in NameBytes \ {Dollar}
      BY <1>b, <2>2 DEF ClosedDollar
    <2> QED
      BY <1>2, <2>2, <2>3
  <1>9. StartsAt(u, d, l + j)
    <2>1. j \in 0..j
      OBVIOUS
    <2> QED
      BY <1>3, <1>6, <1>b, <2>1 DEF ClosedDollar
  <1>10. ASSUME NEW y \in l + o + 1..l + j - 1 PROVE ~StartsAt(u, d, y)
    <2>1. PICK x \in 0..j : x = y - l
      <3>1. y - l \in 0..j
        BY <1>a
      <3> QED
        BY <3>1
    <2>2. k + x \in k + o + 1..k + j - 1 /\ l + x = y
      BY <2>1
    <2>3. ~StartsAt(t, d, k + x)
      BY <1>3, <1>b, <2>2 DEF ClosedDollar
    <2> QED
      BY <1>6, <2>2, <2>3
  <1>11. Inside(t, k + o, k + j) = Inside(u, l + o, l + j)
    <2>1. PICK a \in Nat, b \in Nat, v \in Nat : a = k + o + 1 /\ b = l + o + 1 /\ v = j - o - 1
      <3>1. j - o - 1 \in Nat
        BY <1>a
      <3> QED
        BY <3>1
    <2>2. Matching(t, a, u, b, v)
      <3> SUFFICES ASSUME NEW y \in 0..v - 1 PROVE t[a + y] = u[b + y]
        BY DEF Matching
      <3>1. o + 1 + y \in 0..w - 1 /\ k + (o + 1 + y) = a + y /\ l + (o + 1 + y) = b + y
        BY <1>a, <2>1
      <3>2. t[k + (o + 1 + y)] = u[l + (o + 1 + y)]
        BY <3>1 DEF Matching
      <3> QED
        BY <3>1, <3>2
    <2>3. a >= 1 /\ b >= 1 /\ a + v <= Len(t) + 1 /\ b + v <= Len(u) + 1
      BY <1>1, <1>a, <2>1
    <2>4. SubSeq(t, a, a + v - 1) = SubSeq(u, b, b + v - 1)
      BY <2>2, <2>3, SubSeqSame
    <2>5. a + v - 1 = k + j - 1 /\ b + v - 1 = l + j - 1 /\ a = (k + o) + 1 /\ b = (l + o) + 1
      BY <1>a, <2>1
    <2> QED
      BY <2>4, <2>5 DEF Inside
  <1>12. g \in l + 1..Len(u) /\ h \in g + 1..Len(u)
    BY <1>1, <1>a
  <1>13. d = Delimiter(u, l, g) /\ Byte(u, g) = Dollar /\ StartsAt(u, d, h)
    BY <1>a, <1>5, <1>7, <1>9
  <1>14. \A y \in l + 1..g - 1 : Byte(u, y) \in NameBytes \ {Dollar}
    BY <1>a, <1>8
  <1>15. \A y \in g + 1..h - 1 : ~StartsAt(u, d, y)
    BY <1>a, <1>10
  <1>16. ClosedDollar(u, l, g, h)
    BY <1>13, <1>14, <1>15 DEF ClosedDollar
  <1>17. Inside(t, f, e) = Inside(u, g, h)
    BY <1>a, <1>11
  <1> QED
    BY <1>12, <1>16, <1>17

LEMMA UnreadOpen ==
  ASSUME NEW s, NEW k, NEW piece, piece = Unread(s, k).piece
  PROVE  piece # <<>> /\ piece[1].is = "rest" /\ ~Closed(piece)
  <1>1. PICK token : token = Token("rest", SubSeq(s, k, Len(s)))
    OBVIOUS
  <1>2. piece = <<token>>
    BY <1>1, UnreadIs
  <1>3. token.is = "rest"
    BY <1>1 DEF Token
  <1>4. piece # <<>> /\ piece[1] = token
    BY <1>2
  <1> QED
    BY <1>3, <1>4 DEF Closed

\* The rest of a text that is not read is the same where the texts end together.
LEMMA UnreadAgree ==
  ASSUME NEW t \in Seq(Bytes), NEW u \in Seq(Bytes), NEW k \in 1..Len(t), NEW l \in 1..Len(u),
         NEW w \in Nat, k + w = Len(t) + 1, l + w = Len(u) + 1, Matching(t, k, u, l, w)
  PROVE  Unread(u, l) = Read(Unread(t, k).piece, l + w)
  <1>1. PICK n \in Nat, m \in Nat : n = Len(t) /\ m = Len(u)
    BY LenProperties
  <1>2. SubSeq(t, k, k + w - 1) = SubSeq(u, l, l + w - 1)
    <2>1. k \in Nat /\ l \in Nat /\ k >= 1 /\ l >= 1 /\ k + w <= Len(t) + 1 /\ l + w <= Len(u) + 1
      BY <1>1
    <2> QED
      BY <2>1, SubSeqSame
  <1>3. k + w - 1 = Len(t) /\ l + w - 1 = Len(u)
    BY <1>1
  <1>4. PICK rest : rest = SubSeq(t, k, Len(t)) /\ rest = SubSeq(u, l, Len(u))
    BY <1>2, <1>3
  <1> QED
    BY <1>4 DEF Unread, Read

LEMMA BlockAgree ==
  ASSUME NEW t \in Seq(Bytes), NEW u \in Seq(Bytes), NEW k \in 1..Len(t), NEW l \in 1..Len(u),
         NEW w \in Nat, Comment(t, k).next = k + w, l + w <= Len(u) + 1, Matching(t, k, u, l, w),
         k + w = Len(t) + 1 => l + w = Len(u) + 1 \/ Closed(Comment(t, k).piece)
  PROVE  Comment(u, l) = Read(Comment(t, k).piece, l + w)
  <1>1. PICK n \in Nat, m \in Nat : n = Len(t) /\ m = Len(u)
    BY LenProperties
  <1>2. k \in Nat /\ l \in Nat /\ k >= 1 /\ l >= 1
    BY <1>1
  <1>3. k + w <= Len(t) + 1
    BY <1>1, CommentAdvances
  <1>4. CASE Comment(t, k) # Unread(t, k)
    <2>1. PICK q \in k + 2..Len(t) : Comment(t, k) = Read(<<>>, q + 2) /\ ClosedBlock(t, k, q)
      BY <1>4, BlockIs
    <2>2. PICK j \in Nat : j = q - k /\ k + j = q /\ j >= 2
      BY <1>1
    <2>3. k + w = q + 2 /\ Comment(t, k).piece = <<>>
      BY <2>1 DEF Read
    <2>a. q \in Int /\ k \in Nat /\ l \in Nat
      BY <1>1
    <2>4. j + 2 <= w /\ l + j + 2 = l + w
      <3>1. k + w = (k + j) + 2
        BY <2>2, <2>3
      <3>2. w = j + 2
        BY <2>a, <3>1
      <3> QED
        BY <2>a, <3>2
    <2>5. ClosedBlock(t, k, k + j)
      BY <2>1, <2>2
    <2>6. l + j \in l + 2..Len(u) /\ ClosedBlock(u, l, l + j)
      BY <1>2, <1>3, <2>2, <2>4, <2>5, BlockShift
    <2>7. Comment(u, l) = Read(<<>>, (l + j) + 2)
      BY <2>6, BlockIs
    <2> QED
      BY <2>3, <2>4, <2>7
  <1>5. CASE Comment(t, k) = Unread(t, k)
    <2>1. k + w = Len(t) + 1 /\ ~Closed(Comment(t, k).piece)
      BY <1>5, UnreadIs, UnreadOpen
    <2>2. l + w = Len(u) + 1
      BY <2>1
    <2>3. Comment(u, l) = Unread(u, l)
      <3> SUFFICES ASSUME Comment(u, l) # Unread(u, l) PROVE FALSE
        OBVIOUS
      <3>1. PICK q \in l + 2..Len(u) : Comment(u, l) = Read(<<>>, q + 2) /\ ClosedBlock(u, l, q)
        BY BlockIs
      <3>2. PICK j \in Nat : j = q - l /\ l + j = q /\ j >= 2
        BY <1>1
      <3>3. q + 2 <= Len(u) + 1
        <4>1. Comment(u, l).next = q + 2
          BY <3>1 DEF Read
        <4> QED
          BY <1>1, <4>1, CommentAdvances
      <3>4. j + 2 <= w
        BY <1>1, <2>2, <3>2, <3>3
      <3>5. Matching(u, l, t, k, w)
        BY DEF Matching
      <3>6. ClosedBlock(u, l, l + j)
        BY <3>1, <3>2
      <3>7. k + j \in k + 2..Len(t) /\ ClosedBlock(t, k, k + j)
        BY <1>2, <1>3, <3>2, <3>4, <3>5, <3>6, BlockShift
      <3>8. Comment(t, k) = Read(<<>>, (k + j) + 2)
        BY <3>7, BlockIs
      <3>9. Comment(t, k).piece = <<>>
        BY <3>8 DEF Read
      <3>10. Comment(t, k).piece # <<>>
        BY <1>5, UnreadOpen
      <3> QED
        BY <3>9, <3>10
    <2> QED
      BY <1>5, <2>1, <2>2, <2>3, UnreadAgree
  <1> QED
    BY <1>4, <1>5

LEMMA DollarAgree ==
  ASSUME NEW t \in Seq(Bytes), NEW u \in Seq(Bytes), NEW k \in 1..Len(t), NEW l \in 1..Len(u),
         NEW w \in Nat, DollarQuoted(t, k).next = k + w, l + w <= Len(u) + 1, Matching(t, k, u, l, w),
         k + w = Len(t) + 1 => l + w = Len(u) + 1 \/ Closed(DollarQuoted(t, k).piece)
  PROVE  /\ DollarQuoted(u, l) = Read(DollarQuoted(t, k).piece, l + w)
         /\ w = 1 => l = Len(u)
  <1>1. PICK n \in Nat, m \in Nat : n = Len(t) /\ m = Len(u)
    BY LenProperties
  <1>2. k \in Nat /\ l \in Nat /\ k >= 1 /\ l >= 1
    BY <1>1
  <1>3. k + w <= Len(t) + 1
    BY <1>1, DollarAdvances
  <1>4. CASE DollarQuoted(t, k) # Unread(t, k)
    <2>1. PICK f \in k + 1..Len(t) : \E e \in f + 1..Len(t) :
            /\ DollarQuoted(t, k) = Read(<<Token("str", Inside(t, f, e))>>, e + (f - k + 1))
            /\ ClosedDollar(t, k, f, e)
      BY <1>4, DollarIs DEF Inside
    <2>2. PICK e \in f + 1..Len(t) :
            /\ DollarQuoted(t, k) = Read(<<Token("str", Inside(t, f, e))>>, e + (f - k + 1))
            /\ ClosedDollar(t, k, f, e)
      BY <2>1
    <2>3. PICK body : body = Inside(t, f, e)
      OBVIOUS
    <2>4. k + w = e + (f - k + 1) /\ DollarQuoted(t, k).piece = <<Token("str", body)>>
      BY <2>2, <2>3 DEF Read
    <2>5. f \in Nat /\ e \in Nat /\ f >= k + 1 /\ e >= f + 1 /\ e + (f - k + 1) <= k + w
      BY <1>1, <2>4
    <2>6. PICK g \in Nat, h \in Nat : g = l + (f - k) /\ h = l + (e - k)
      <3>1. l + (f - k) \in Nat /\ l + (e - k) \in Nat
        BY <1>1, <2>5
      <3> QED
        BY <3>1
    <2>7. /\ g \in l + 1..Len(u) /\ h \in g + 1..Len(u) /\ ClosedDollar(u, l, g, h)
          /\ Inside(t, f, e) = Inside(u, g, h)
      BY <1>2, <1>3, <2>2, <2>5, <2>6, DollarShift
    <2>8. DollarQuoted(u, l) = Read(<<Token("str", Inside(u, g, h))>>, h + (g - l + 1))
      BY <2>7, DollarIs DEF Inside
    <2>9. h + (g - l + 1) = l + w /\ w > 1
      <3>1. k + w = e + (f - k + 1)
        BY <2>4
      <3> QED
        BY <1>2, <2>5, <2>6, <3>1
    <2>10. DollarQuoted(u, l) = Read(<<Token("str", body)>>, l + w)
      BY <2>3, <2>7, <2>8, <2>9
    <2> QED
      BY <2>4, <2>9, <2>10
  <1>5. CASE DollarQuoted(t, k) = Unread(t, k)
    <2>1. k + w = Len(t) + 1 /\ ~Closed(DollarQuoted(t, k).piece)
      BY <1>5, UnreadIs, UnreadOpen
    <2>2. l + w = Len(u) + 1
      BY <2>1
    <2>3. DollarQuoted(u, l) = Unread(u, l)
      <3> SUFFICES ASSUME DollarQuoted(u, l) # Unread(u, l) PROVE FALSE
        OBVIOUS
      <3>1. PICK f \in l + 1..Len(u) : \E e \in f + 1..Len(u) :
              /\ DollarQuoted(u, l) = Read(<<Token("str", Inside(u, f, e))>>, e + (f - l + 1))
              /\ ClosedDollar(u, l, f, e)
        BY DollarIs DEF Inside
      <3>2. PICK e \in f + 1..Len(u) :
              /\ DollarQuoted(u, l) = Read(<<Token("str", Inside(u, f, e))>>, e + (f - l + 1))
              /\ ClosedDollar(u, l, f, e)
        BY <3>1
      <3>3. f \in Nat /\ e \in Nat /\ f >= l + 1 /\ e >= f + 1 /\ e + (f - l + 1) <= l + w
        <4>1. DollarQuoted(u, l).next = e + (f - l + 1)
          BY <3>2 DEF Read
        <4>2. DollarQuoted(u, l).next \in l + 1..Len(u) + 1
          BY DollarAdvances
        <4> QED
          BY <1>1, <2>2, <4>1, <4>2
      <3>4. PICK g \in Nat, h \in Nat : g = k + (f - l) /\ h = k + (e - l)
        <4>1. k + (f - l) \in Nat /\ k + (e - l) \in Nat
          BY <1>1, <3>3
        <4> QED
          BY <4>1
      <3>5. Matching(u, l, t, k, w)
        BY DEF Matching
      <3>6. g \in k + 1..Len(t) /\ h \in g + 1..Len(t) /\ ClosedDollar(t, k, g, h)
        BY <1>2, <1>3, <3>2, <3>3, <3>4, <3>5, DollarShift
      <3>7. DollarQuoted(t, k) = Read(<<Token("str", Inside(t, g, h))>>, h + (g - k + 1))
        BY <3>6, DollarIs DEF Inside
      <3>8. PICK token : token = Token("str", Inside(t, g, h))
        OBVIOUS
      <3>9. DollarQuoted(t, k).piece = <<token>>
        BY <3>7, <3>8 DEF Read
      <3>10. DollarQuoted(t, k).piece[1].is = "str"
        <4>1. <<token>>[1] = token /\ token.is = "str"
          BY <3>8 DEF Token
        <4> QED
          BY <3>9, <4>1
      <3>11. DollarQuoted(t, k).piece[1].is = "rest"
        BY <1>5, UnreadOpen
      <3> QED
        BY <3>10, <3>11
    <2>4. w = 1 => l = Len(u)
      BY <1>1, <2>2
    <2> QED
      BY <1>5, <2>1, <2>2, <2>3, <2>4, UnreadAgree
  <1> QED
    BY <1>4, <1>5

LEMMA LineAgree ==
  ASSUME NEW t \in Seq(Bytes), NEW u \in Seq(Bytes), NEW k \in 1..Len(t), NEW l \in 1..Len(u),
         NEW w \in Nat, CommentAt(t, k), LineComment(t, k).next = k + w, l + w <= Len(u) + 1,
         Matching(t, k, u, l, w), k + w = Len(t) + 1 => l + w = Len(u) + 1,
         Byte(u, l + w) = Byte(t, k + w) \/ (k + w <= Len(t) => t[k + w] = Dollar)
  PROVE  w >= 2 /\ LineComment(u, l) = Read(<<>>, l + w)
  <1>1. PICK n \in Nat, m \in Nat : n = Len(t) /\ m = Len(u)
    BY LenProperties
  <1>2. PICK S : S = (1..255) \ Newlines
    OBVIOUS
  <1>3. 0 \notin S /\ Dollar \in S /\ Minus \in S
    BY <1>2 DEF Newlines, Dollar, Minus
  <1>4. Past(t, k, S) = k + w /\ k + w \in k + 1..Len(t) + 1
    BY <1>2, LineAdvances
  <1>5. Byte(t, k + w) \notin S
    <2>1. k \in 1..Len(t) + 1
      BY <1>1
    <2> QED
      BY <1>3, <1>4, <2>1, PastIs
  <1>6. w >= 2
    <2>1. w # 1
      <3>1. Byte(t, k + 1) \in S
        BY <1>3 DEF CommentAt
      <3> QED
        BY <1>5, <3>1
    <2> QED
      BY <1>4, <2>1
  <1>7. Byte(u, l + w) \notin S
    <2>1. CASE k + w = Len(t) + 1
      <3>1. Byte(u, l + w) = 0
        BY <1>1, <2>1 DEF Byte
      <3> QED
        BY <1>3, <3>1
    <2>2. CASE k + w # Len(t) + 1
      <3>1. k + w <= Len(t)
        BY <1>1, <1>4, <2>2
      <3>2. Byte(t, k + w) # Dollar /\ Byte(t, k + w) = t[k + w]
        BY <1>3, <1>5, <3>1 DEF Byte
      <3> QED
        BY <1>5, <3>1, <3>2
    <2> QED
      BY <2>1, <2>2
  <1>8. Word(u, "op", l, S) = Read(Word(t, "op", k, S).piece, l + w)
    <2>1. Word(t, "op", k, S).next = k + w
      BY <1>4 DEF Word, Read
    <2>2. k \in 1..Len(t) + 1 /\ l \in 1..Len(u) + 1
      BY <1>1
    <2> QED
      BY <1>3, <1>7, <2>1, <2>2, WordAgree
  <1>9. Past(u, l, S) = l + w
    <2>1. Word(u, "op", l, S).next = l + w
      BY <1>8 DEF Read
    <2> QED
      BY <2>1 DEF Word, Read
  <1> QED
    BY <1>2, <1>6, <1>9 DEF LineComment

\* Whether a token that ends with a byte "last", and is followed by "a", ends there too
\* when it is followed by "b".
Apart(last, a, b) ==
  /\ last = Quote => b # Quote
  /\ last = DQuote => b # DQuote
  /\ last = Minus => b # Minus
  /\ last = Slash => b # Star
  /\ last \in Digits \cup {Dollar} => b \notin Digits
  /\ (last \in NameBytes /\ a \notin NameBytes) => b \notin NameBytes \cup {Quote}

\* The bytes of a name are no space and no quote, and so on.
LEMMA Classes ==
  /\ Quote \notin NameBytes /\ DQuote \notin NameBytes /\ Quote # DQuote /\ Minus \notin NameBytes
  /\ Space \notin NameBytes /\ Minus # Quote /\ Minus # DQuote /\ Minus # Space
  /\ Space # Quote /\ Space # DQuote /\ Space \in Spaces /\ Slash \notin NameBytes
  /\ Dollar \notin Letters \cup Digits /\ LetterE \in Letters /\ LetterE \notin Digits
  /\ Dollar # Minus /\ LetterE # Minus /\ LetterE # Dollar /\ LetterE # Quote
  /\ Digits \cup Letters \subseteq NameBytes
  BY DEF NameBytes, Letters, Digits, Quote, DQuote, Minus, Space, Dollar, LetterE, Spaces, Slash

LEMMA DigitNoLetter == Digits \cap Letters = {}
  BY DEF Digits, Letters

\* What may follow a token so that it is still the same one.
Follows(t, k, u, l, w) ==
  \/ Byte(u, l + w) = Byte(t, k + w)
  \/ /\ Apart(t[k + w - 1], Byte(t, k + w), Byte(u, l + w))
     /\ k + w <= Len(t) => t[k + w] = Dollar

LastsAs(t, k, u, l, w) ==
  k + w = Len(t) + 1 => l + w = Len(u) + 1 \/ Closed(TokenAt(t, k).piece)

LEMMA TokenAgree ==
  ASSUME NEW t \in Seq(Bytes), NEW u \in Seq(Bytes), NEW k \in 1..Len(t), NEW l \in 1..Len(u),
         NEW w \in Nat, TokenAt(t, k).next = k + w, l + w <= Len(u) + 1,
         Matching(t, k, u, l, w), Follows(t, k, u, l, w), LastsAs(t, k, u, l, w)
  PROVE  TokenAt(u, l) = Read(TokenAt(t, k).piece, l + w)
  <1>1. PICK n \in Nat, m \in Nat : n = Len(t) /\ m = Len(u)
    BY LenProperties
  <1>2. k + w \in k + 1..n + 1 /\ w >= 1
    <2>1. k \in DOMAIN t
      BY LenProperties
    <2>2. TokenAt(t, k).next \in k + 1..Len(t) + 1
      BY <2>1, TokenAtAdvances DEF Advances
    <2> QED
      BY <1>1, <2>2
  <1>3. t[k] = u[l]
    <2>1. 0 \in 0..w - 1 /\ k + 0 = k /\ l + 0 = l
      BY <1>2
    <2>2. t[k + 0] = u[l + 0]
      BY <2>1 DEF Matching
    <2> QED
      BY <2>1, <2>2
  <1>4. w >= 2 => Byte(t, k + 1) = Byte(u, l + 1)
    <2> SUFFICES ASSUME w >= 2 PROVE Byte(t, k + 1) = Byte(u, l + 1)
      OBVIOUS
    <2>1. 1 \in 0..w - 1 /\ k + 1 <= Len(t) /\ l + 1 <= Len(u)
      BY <1>1, <1>2
    <2>2. t[k + 1] = u[l + 1]
      BY <2>1 DEF Matching
    <2> QED
      BY <2>1, <2>2 DEF Byte
  <1>5. w = 1 => \/ Byte(t, k + 1) = Byte(u, l + 1)
                 \/ Apart(t[k], Byte(t, k + 1), Byte(u, l + 1))
    <2> SUFFICES ASSUME w = 1 PROVE \/ Byte(t, k + 1) = Byte(u, l + 1)
                                    \/ Apart(t[k], Byte(t, k + 1), Byte(u, l + 1))
      OBVIOUS
    <2>1. k + w = k + 1 /\ l + w = l + 1 /\ k + w - 1 = k
      OBVIOUS
    <2> QED
      BY <2>1 DEF Follows
  <1>6. w = 1 \/ w >= 2
    BY <1>2
  <1>7. PICK b : b = TokenAt(t, k).piece
    OBVIOUS
  <1>a. PICK z \in Nat : z = l + w
    OBVIOUS
  <1>8. SUFFICES TokenAt(u, l) = Read(b, z)
    BY <1>7, <1>a
  <1>9. t[k + w - 1] = u[l + w - 1] /\ t[k + w - 1] = Byte(t, k + w - 1)
    <2>1. w - 1 \in 0..w - 1 /\ k + (w - 1) = k + w - 1 /\ l + (w - 1) = l + w - 1 /\ k + w - 1 <= Len(t)
      BY <1>1, <1>2
    <2>2. t[k + (w - 1)] = u[l + (w - 1)]
      BY <2>1 DEF Matching
    <2> QED
      BY <2>1, <2>2 DEF Byte
  <1> DEFINE Part(x) == Matching(t, k + x, u, l + x, w - x)
  <1>10. ASSUME NEW x \in 0..w PROVE Part(x)
    <2> SUFFICES ASSUME NEW y \in 0..(w - x) - 1 PROVE t[k + x + y] = u[l + x + y]
      BY DEF Matching
    <2>1. x + y \in 0..w - 1 /\ k + (x + y) = k + x + y /\ l + (x + y) = l + x + y
      OBVIOUS
    <2>2. t[k + (x + y)] = u[l + (x + y)]
      BY <2>1 DEF Matching
    <2> QED
      BY <2>1, <2>2
  <1> HIDE DEF Part
  \* A literal or name whose text begins x bytes behind place k.
  <1>11. ASSUME NEW is, NEW x \in 1..2, x <= w, NEW q \in {Quote, DQuote}, NEW esc \in BOOLEAN,
                TokenAt(t, k) = Quoted(t, is, k + x, q, esc)
         PROVE  Quoted(u, is, l + x, q, esc) = Read(b, z)
    <2>1. PICK f \in Nat, j \in Nat, v \in Nat : f = k + x /\ j = l + x /\ v = w - x
      BY <1>1, <1>11
    <2>2. f \in 1..Len(t) + 1 /\ j \in 1..Len(u) + 1 /\ f + v = k + w /\ j + v = l + w
      BY <1>1, <1>2, <2>1
    <2>3. PICK r : r = Quoted(t, is, f, q, esc)
      OBVIOUS
    <2>4. r.next = f + v /\ r.piece = b
      BY <1>7, <1>11, <2>1, <2>2, <2>3
    <2>5. Matching(t, f, u, j, v)
      BY <1>10, <1>11, <2>1 DEF Part
    <2>6. q # 0
      BY NoZero
    <2>7. f + v = Len(t) + 1 => j + v = Len(u) + 1 \/ Closed(r.piece)
      BY <1>7, <2>2, <2>4 DEF LastsAs
    <2>8. Byte(u, j + v) = Byte(t, f + v) \/ Byte(u, j + v) # q
      <3> SUFFICES ASSUME Byte(u, j + v) # Byte(t, f + v) PROVE Byte(u, j + v) # q
        OBVIOUS
      <3>1. Apart(t[k + w - 1], Byte(t, k + w), Byte(u, l + w))
        BY <2>2 DEF Follows
      <3>2. CASE Close(t, f, q, esc) = <<>>
        <4>1. r = Read(<<Token("error", <<>>)>>, Len(t) + 1)
          BY <2>3, <3>2, QuotedIs
        <4>2. r.piece = <<Token("error", <<>>)>> /\ r.next = Len(t) + 1
          BY <4>1 DEF Read
        <4>3. ~Closed(r.piece)
          BY <4>2 DEF Closed, Token
        <4>4. f + v = Len(t) + 1 /\ j + v = Len(u) + 1
          BY <2>4, <2>7, <4>2, <4>3
        <4>5. Byte(u, j + v) = 0
          BY <1>1, <4>4 DEF Byte
        <4> QED
          BY <2>6, <4>5
      <3>3. CASE Close(t, f, q, esc) # <<>>
        <4>1. PICK c \in f..Len(t) : Close(t, f, q, esc) = <<c>>
          BY <2>2, <3>3, CloseIs
        <4>2. c \in Nat /\ c \in 1..Len(t)
          BY <1>1, <2>2
        <4>3. PICK body : body = Literal(is, SubSeq(t, f, c - 1), q, esc)
          OBVIOUS
        <4>4. r = Read(<<body>>, c + 1)
          BY <2>3, <4>1, <4>2, <4>3, QuotedIs
        <4>5. c + 1 = k + w
          BY <2>2, <2>4, <4>4 DEF Read
        <4>6. t[c] = q
          BY <2>2, <4>1, <4>2, CloseFound DEF ClosesAt
        <4>7. t[k + w - 1] = q
          <5>1. k + w - 1 = c
            BY <1>1, <1>2, <4>2, <4>5
          <5> QED
            BY <4>6, <5>1
        <4> QED
          BY <2>2, <3>1, <4>7 DEF Apart
      <3> QED
        BY <3>2, <3>3
    <2>9. Quoted(u, is, j, q, esc) = Read(r.piece, j + v)
      <3>1. j + v <= Len(u) + 1
        BY <2>2
      <3> QED
        BY <2>2, <2>3, <2>4, <2>5, <2>6, <2>7, <2>8, <3>1, QuotedAgree
    <2> QED
      BY <1>a, <2>1, <2>2, <2>4, <2>9
  \* A word that begins x bytes behind place k.
  <1>12. ASSUME NEW is, NEW x \in 0..1, x < w, NEW S, 0 \notin S,
                TokenAt(t, k) = Word(t, is, k + x, S), Byte(u, l + w) \notin S
         PROVE  Word(u, is, l + x, S) = Read(b, z)
    <2>1. PICK f \in Nat, j \in Nat, v \in Nat : f = k + x /\ j = l + x /\ v = w - x
      BY <1>1, <1>12
    <2>2. f \in 1..Len(t) + 1 /\ j \in 1..Len(u) + 1 /\ f + v = k + w /\ j + v = l + w
      BY <1>1, <1>2, <1>12, <2>1
    <2>3. Matching(t, f, u, j, v)
      <3>1. x \in 0..w
        BY <1>12
      <3> QED
        BY <1>10, <2>1, <3>1 DEF Part
    <2>5. /\ Word(t, is, f, S).next = f + v /\ Word(t, is, f, S).piece = b /\ Byte(u, j + v) \notin S
          /\ j + v <= Len(u) + 1
      BY <1>7, <1>12, <2>1, <2>2
    <2>6. Word(u, is, j, S) = Read(Word(t, is, f, S).piece, j + v)
      <3>1. Word(t, is, f, S).next = f + v
        BY <2>5
      <3>2. Byte(u, j + v) \notin S /\ j + v <= Len(u) + 1 /\ 0 \notin S
        BY <1>12, <2>5
      <3> QED
        BY <2>2, <2>3, <3>1, <3>2, WordAgree
    <2> QED
      BY <1>a, <2>1, <2>2, <2>5, <2>6
  <1>b. Byte(u, l + w) = Byte(t, k + w) \/ Apart(t[k + w - 1], Byte(t, k + w), Byte(u, l + w))
    BY DEF Follows
  <1>c. k \in 1..Len(t) + 1 /\ k <= Len(t) /\ l <= Len(u) /\ k + 1 \in 1..Len(t) + 1 /\ k + 1 \in 2..Len(t) + 1
    BY <1>1
  <1>13. CASE t[k] \in Spaces
    <2>1. TokenAt(t, k) = Read(<<>>, k + 1) /\ TokenAt(u, l) = Read(<<>>, l + 1)
      BY <1>3, <1>13, TokenOf
    <2>2. b = <<>> /\ k + w = k + 1
      BY <1>7, <2>1 DEF Read
    <2>3. z = l + 1
      BY <1>a, <2>2
    <2> QED
      BY <2>1, <2>2, <2>3
  <1>14. CASE CommentAt(t, k)
    <2>1. TokenAt(t, k) = LineComment(t, k)
      BY <1>14, TokenOf
    <2>2. b = <<>> /\ LineComment(t, k).next = k + w
      BY <1>7, <1>14, <2>1, LineAdvances
    <2>3. k + w = Len(t) + 1 => l + w = Len(u) + 1
      BY <1>7, <2>2 DEF LastsAs, Closed
    <2>4. Byte(u, l + w) = Byte(t, k + w) \/ (k + w <= Len(t) => t[k + w] = Dollar)
      BY DEF Follows
    <2>5. w >= 2 /\ LineComment(u, l) = Read(<<>>, l + w)
      BY <1>14, <2>2, <2>3, <2>4, LineAgree
    <2>6. CommentAt(u, l)
      BY <1>3, <1>4, <1>14, <2>5 DEF CommentAt
    <2> QED
      BY <1>a, <2>2, <2>5, <2>6, TokenOf
  <1>d. CASE BlockAt(t, k)
    <2>1. TokenAt(t, k) = Comment(t, k)
      BY <1>d, TokenOf
    <2>2. b = Comment(t, k).piece /\ Comment(t, k).next = k + w
      BY <1>7, <2>1
    <2>3. k + w = Len(t) + 1 => l + w = Len(u) + 1 \/ Closed(Comment(t, k).piece)
      BY <2>1 DEF LastsAs
    <2>4. Comment(u, l) = Read(b, l + w)
      BY <2>2, <2>3, BlockAgree
    <2>5. w >= 2
      <3>1. k + 1 <= Len(t)
        BY <1>d DEF BlockAt, Byte, Star
      <3>2. CASE Comment(t, k) = Unread(t, k)
        BY <1>1, <2>2, <3>1, <3>2, UnreadIs
      <3>3. CASE Comment(t, k) # Unread(t, k)
        <4>1. PICK j \in k + 2..Len(t) : Comment(t, k) = Read(<<>>, j + 2)
          BY <3>3, BlockIs
        <4>2. Comment(t, k).next = j + 2
          BY <4>1 DEF Read
        <4> QED
          BY <1>1, <2>2, <4>2
      <3> QED
        BY <3>2, <3>3
    <2>6. BlockAt(u, l)
      BY <1>3, <1>4, <1>d, <2>5 DEF BlockAt
    <2> QED
      BY <1>a, <2>4, <2>6, TokenOf
  <1>e. CASE DollarAt(t, k)
    <2>1. TokenAt(t, k) = DollarQuoted(t, k)
      BY <1>e, TokenOf
    <2>2. b = DollarQuoted(t, k).piece /\ DollarQuoted(t, k).next = k + w
      BY <1>7, <2>1
    <2>3. k + w = Len(t) + 1 => l + w = Len(u) + 1 \/ Closed(DollarQuoted(t, k).piece)
      BY <2>1 DEF LastsAs
    <2>4. DollarQuoted(u, l) = Read(b, l + w) /\ (w = 1 => l = Len(u))
      BY <2>2, <2>3, DollarAgree
    <2>5. DollarAt(u, l)
      <3>1. CASE w = 1
        <4>1. Byte(u, l + 1) = 0
          BY <1>1, <2>4, <3>1 DEF Byte
        <4> QED
          BY <1>3, <1>e, <4>1, NoZero DEF DollarAt
      <3>2. CASE w >= 2
        BY <1>3, <1>4, <1>e, <3>2 DEF DollarAt
      <3> QED
        BY <1>6, <3>1, <3>2
    <2> QED
      BY <1>a, <2>4, <2>5, TokenOf
  <1>15. CASE t[k] = Quote
    <2>1. TokenAt(t, k) = Quoted(t, "str", k + 1, Quote, FALSE) /\ TokenAt(u, l) = Quoted(u, "str", l + 1, Quote, FALSE)
      BY <1>3, <1>15, TokenOf
    <2>2. 1 \in 1..2 /\ 1 <= w /\ FALSE \in BOOLEAN /\ Quote \in {Quote, DQuote}
      BY <1>2
    <2> QED
      BY <1>11, <2>1, <2>2
  <1>16. CASE EscapedAt(t, k)
    <2>1. TokenAt(t, k) = Quoted(t, "str", k + 2, Quote, TRUE)
      BY <1>16, TokenOf
    <2>2. k + 1 <= Len(t)
      BY <1>16 DEF EscapedAt, Byte, Quote
    <2>3. k + 2 \in 2..Len(t) + 1
      BY <1>1, <2>2
    <2>4. k + w \in k + 2..Len(t) + 1
      BY <2>1, <2>3, QuotedAdvances
    <2>5. w >= 2
      BY <1>1, <2>4
    <2>6. EscapedAt(u, l)
      BY <1>3, <1>4, <1>16, <2>5 DEF EscapedAt
    <2>7. TokenAt(u, l) = Quoted(u, "str", l + 2, Quote, TRUE)
      BY <2>6, TokenOf
    <2>8. 2 \in 1..2 /\ 2 <= w /\ TRUE \in BOOLEAN /\ Quote \in {Quote, DQuote}
      BY <2>5
    <2> QED
      BY <1>11, <2>1, <2>7, <2>8
  <1>17. CASE t[k] = DQuote
    <2>1. TokenAt(t, k) = Quoted(t, "ident", k + 1, DQuote, FALSE) /\ TokenAt(u, l) = Quoted(u, "ident", l + 1, DQuote, FALSE)
      BY <1>3, <1>17, TokenOf
    <2>2. 1 \in 1..2 /\ 1 <= w /\ FALSE \in BOOLEAN /\ DQuote \in {Quote, DQuote}
      BY <1>2
    <2> QED
      BY <1>11, <2>1, <2>2
  <1>18. CASE ParamAt(t, k)
    <2>1. TokenAt(t, k) = Word(t, "param", k + 1, Digits)
      BY <1>18, TokenOf
    <2>2. k + w \in (k + 1) + 1..Len(t) + 1
      BY <1>c, <1>18, <2>1, NoZero, WordAdvances DEF ParamAt
    <2>3. w >= 2 /\ 1 \in 0..1 /\ 1 < w
      BY <1>1, <2>2
    <2>4. ParamAt(u, l)
      BY <1>3, <1>4, <1>18, <2>3 DEF ParamAt
    <2>5. TokenAt(u, l) = Word(u, "param", l + 1, Digits)
      BY <2>4, TokenOf
    <2>6. Byte(t, k + w) \notin Digits /\ Byte(t, k + w - 1) \in Digits
      <3>1. PICK f \in 1..Len(t) + 1 : f = k + 1
        BY <1>c
      <3>2. Past(t, f, Digits) = k + w
        BY <2>1, <3>1 DEF Word, Read
      <3>3. k + w - 1 \in f..k + w - 1
        BY <2>3, <3>1
      <3> QED
        BY <3>2, <3>3, NoZero, PastIs
    <2>7. Byte(u, l + w) \notin Digits
      BY <1>9, <1>b, <2>6 DEF Apart
    <2> QED
      BY <1>12, <2>1, <2>3, <2>5, <2>7, NoZero
  <1>19. CASE t[k] \in Digits
    <2>1. TokenAt(t, k) = Word(t, "num", k, Digits) /\ TokenAt(u, l) = Word(u, "num", l, Digits)
      BY <1>3, <1>19, TokenOf
    <2>2. Byte(t, k + w) \notin Digits /\ Byte(t, k + w - 1) \in Digits
      <3>1. Past(t, k, Digits) = k + w
        BY <2>1 DEF Word, Read
      <3>2. k + w - 1 \in k..k + w - 1
        BY <1>2
      <3> QED
        BY <1>c, <3>1, <3>2, NoZero, PastIs
    <2>3. Byte(u, l + w) \notin Digits
      BY <1>9, <1>b, <2>2 DEF Apart
    <2>4. 0 \in 0..1 /\ 0 < w /\ k + 0 = k /\ l + 0 = l
      BY <1>2
    <2>5. TokenAt(t, k) = Word(t, "num", k + 0, Digits)
      BY <2>1, <2>4
    <2>6. Word(u, "num", l + 0, Digits) = Read(b, z)
      BY <1>12, <2>3, <2>4, <2>5, NoZero
    <2> QED
      BY <2>1, <2>4, <2>6
  <1>20. CASE NameAt(t, k)
    <2>1. TokenAt(t, k) = Word(t, "name", k, NameBytes)
      BY <1>20, TokenOf
    <2>2. Byte(t, k + w) \notin NameBytes /\ Byte(t, k + w - 1) \in NameBytes
      <3>1. PICK p : p = Past(t, k, NameBytes)
        OBVIOUS
      <3>2. p = k + w
        BY <2>1, <3>1 DEF Word, Read
      <3>3. k + w - 1 \in k..p - 1
        BY <1>2, <3>2
      <3>4. Byte(t, p) \notin NameBytes /\ \A f \in k..p - 1 : Byte(t, f) \in NameBytes
        <4>1. 0 \notin NameBytes /\ k \in 1..Len(t) + 1
          BY <1>c, NoZero
        <4>2. PICK names_ : names_ = NameBytes
          OBVIOUS
        <4>3. Byte(t, p) \notin names_ /\ \A f \in k..p - 1 : Byte(t, f) \in names_
          BY <3>1, <4>1, <4>2, PastIs, ZenonT(30)
        <4> QED
          BY <4>2, <4>3
      <3> QED
        BY <3>2, <3>3, <3>4
    <2>3. Byte(u, l + w) \notin NameBytes
      BY <1>9, <1>b, <2>2 DEF Apart
    <2>4. ~EscapedAt(u, l)
      <3>1. CASE Byte(u, l + 1) = Byte(t, k + 1)
        BY <1>3, <1>20, <3>1 DEF NameAt, EscapedAt
      <3>2. CASE w = 1 /\ Byte(u, l + 1) # Byte(t, k + 1)
        <4>1. t[k] \in NameBytes
          BY <1>20, Classes DEF NameAt
        <4>2. Byte(t, k + 1) \notin NameBytes
          BY <2>2, <3>2
        <4> QED
          BY <1>5, <3>2, <4>1, <4>2 DEF Apart, EscapedAt
      <3> QED
        BY <1>4, <1>6, <3>1, <3>2
    <2>5. TokenAt(u, l) = Word(u, "name", l, NameBytes)
      <3>1. NameAt(u, l)
        BY <1>3, <1>20, <2>4 DEF NameAt
      <3> QED
        BY <3>1, TokenOf
    <2>6. 0 \in 0..1 /\ 0 < w /\ k + 0 = k /\ l + 0 = l
      BY <1>2
    <2>7. TokenAt(t, k) = Word(t, "name", k + 0, NameBytes)
      BY <2>1, <2>6
    <2>8. Word(u, "name", l + 0, NameBytes) = Read(b, z)
      BY <1>12, <2>3, <2>6, <2>7, NoZero
    <2> QED
      BY <2>5, <2>6, <2>8
  <1>21. CASE OpAt(t, k)
    <2>1. TokenAt(t, k) = Read(<<Token("op", <<t[k]>>)>>, k + 1)
      BY <1>21, TokenOf
    <2>2. b = <<Token("op", <<t[k]>>)>> /\ k + w = k + 1
      BY <1>7, <2>1 DEF Read
    <2>3. w = 1 /\ z = l + 1
      BY <1>a, <2>2
    <2>4. OpAt(u, l)
      <3>1. CASE Byte(u, l + 1) = Byte(t, k + 1)
        BY <1>3, <1>21, <3>1 DEF OpAt, CommentAt, BlockAt
      <3>2. CASE Apart(t[k], Byte(t, k + 1), Byte(u, l + 1))
        BY <1>3, <1>21, <3>2 DEF OpAt, CommentAt, BlockAt, Apart
      <3> QED
        BY <1>5, <2>3, <3>1, <3>2
    <2>5. TokenAt(u, l) = Read(<<Token("op", <<u[l]>>)>>, l + 1)
      BY <2>4, TokenOf
    <2> QED
      BY <1>3, <2>2, <2>3, <2>5
  <1> QED
    BY <1>13, <1>14, <1>15, <1>16, <1>17, <1>18, <1>19, <1>20, <1>21, <1>d, <1>e, TokenKinds

-----------------------------------------------------------------------------
(* The tokens of a text, one after the other *)

Kinds  == {"param", "num", "str", "ident", "name", "op", "error", "rest"}
Tokens == [is : Kinds, of : Seq(Bytes)]

LEMMA PieceType ==
  ASSUME NEW is \in Kinds, NEW x \in Seq(Bytes)
  PROVE  Token(is, x) \in Tokens /\ <<Token(is, x)>> \in Seq(Tokens)
  <1>1. Token(is, x) \in Tokens
    BY DEF Token, Tokens
  <1>2. PICK token \in Tokens : token = Token(is, x)
    BY <1>1
  <1>3. <<token>> \in Seq(Tokens)
    OBVIOUS
  <1> QED
    BY <1>2, <1>3

LEMMA QuotedType ==
  ASSUME NEW s \in Seq(Bytes), NEW is \in Kinds, NEW k \in 1..Len(s) + 1,
         NEW quote \in Bytes, NEW escapes \in BOOLEAN
  PROVE  Quoted(s, is, k, quote, escapes).piece \in Seq(Tokens)
  <1>1. CASE Close(s, k, quote, escapes) = <<>>
    <2>1. Quoted(s, is, k, quote, escapes) = Read(<<Token("error", <<>>)>>, Len(s) + 1)
      BY <1>1, QuotedIs
    <2>2. Quoted(s, is, k, quote, escapes).piece = <<Token("error", <<>>)>>
      BY <2>1 DEF Read
    <2>3. "error" \in Kinds /\ <<>> \in Seq(Bytes)
      BY EmptySeq DEF Kinds
    <2> QED
      BY <2>2, <2>3, PieceType
  <1>2. CASE Close(s, k, quote, escapes) # <<>>
    <2>1. PICK j \in k..Len(s) : Close(s, k, quote, escapes) = <<j>>
      BY <1>2, CloseIs
    <2>2. PICK m \in Nat : m = j - 1
      BY LenProperties
    <2>3. k \in Nat /\ 1 <= k /\ k <= m + 1 /\ m <= Len(s) /\ j \in Nat
      BY <2>2, LenProperties
    <2>4. PICK x : x = SubSeq(s, k, m)
      OBVIOUS
    <2>5. x \in Seq(Bytes)
      BY <2>3, <2>4, SubSeqIs
    <2>6. PICK old, new : old = <<quote, quote>> /\ new = <<quote>>
      OBVIOUS
    <2>7. old \in Seq(Bytes) /\ Len(old) > 0 /\ new \in Seq(Bytes)
      BY <2>6
    <2>8. PICK body : body = Replace(x, old, new)
      OBVIOUS
    <2>9. body \in Seq(Bytes)
      BY <2>5, <2>7, <2>8, ReplaceType
    <2>10. PICK back, one : back = <<Backslash, Backslash>> /\ one = <<Backslash>>
      OBVIOUS
    <2>11. back \in Seq(Bytes) /\ Len(back) > 0 /\ one \in Seq(Bytes)
      <3>1. Backslash \in Bytes
        BY DEF Backslash, Bytes
      <3> QED
        BY <2>10, <3>1
    <2>12. PICK y : y = IF escapes THEN Replace(body, back, one) ELSE body
      OBVIOUS
    <2>13. y \in Seq(Bytes)
      <3>1. Replace(body, back, one) \in Seq(Bytes)
        BY <2>9, <2>11, ReplaceType
      <3> QED
        BY <2>9, <2>12, <3>1
    <2>14. Literal(is, x, quote, escapes) = Token(is, y)
      BY <2>6, <2>8, <2>10, <2>12 DEF Literal
    <2>15. Quoted(s, is, k, quote, escapes) = Read(<<Token(is, y)>>, j + 1)
      BY <2>1, <2>2, <2>3, <2>4, <2>14, QuotedIs
    <2>16. Quoted(s, is, k, quote, escapes).piece = <<Token(is, y)>>
      BY <2>15 DEF Read
    <2> QED
      BY <2>13, <2>16, PieceType
  <1> QED
    BY <1>1, <1>2

LEMMA WordIs ==
  ASSUME NEW s \in Seq(Bytes), NEW is, NEW k \in 1..Len(s) + 1, NEW S, 0 \notin S
  PROVE  /\ Word(s, is, k, S).piece = <<Token(is, SubSeq(s, k, Word(s, is, k, S).next - 1))>>
         /\ Word(s, is, k, S).next = Past(s, k, S)
         /\ SubSeq(s, k, Word(s, is, k, S).next - 1) \in Seq(Bytes)
  <1>1. PICK p : p = Past(s, k, S)
    OBVIOUS
  <1>2. p \in k..Len(s) + 1
    BY <1>1, PastIs
  <1>3. PICK m \in Nat : m = p - 1
    BY <1>2, LenProperties
  <1>4. k \in Nat /\ 1 <= k /\ k <= m + 1 /\ m <= Len(s)
    BY <1>2, <1>3, LenProperties
  <1>5. SubSeq(s, k, m) \in Seq(Bytes)
    BY <1>4, SubSeqIs
  <1>6. Word(s, is, k, S) = Read(<<Token(is, SubSeq(s, k, p - 1))>>, p)
    BY <1>1 DEF Word
  <1>7. Word(s, is, k, S).piece = <<Token(is, SubSeq(s, k, p - 1))>> /\ Word(s, is, k, S).next = p
    BY <1>6 DEF Read
  <1> QED
    BY <1>1, <1>3, <1>5, <1>7

LEMMA WordType ==
  ASSUME NEW s \in Seq(Bytes), NEW is \in Kinds, NEW k \in 1..Len(s) + 1, NEW S, 0 \notin S
  PROVE  Word(s, is, k, S).piece \in Seq(Tokens)
  <1>1. PICK x : x = SubSeq(s, k, Word(s, is, k, S).next - 1)
    OBVIOUS
  <1>2. x \in Seq(Bytes) /\ Word(s, is, k, S).piece = <<Token(is, x)>>
    BY <1>1, WordIs
  <1> QED
    BY <1>2, PieceType

LEMMA TokenType ==
  ASSUME NEW s \in Seq(Bytes), NEW k \in 1..Len(s)
  PROVE  TokenAt(s, k).piece \in Seq(Tokens)
  <1>1. PICK n \in Nat : n = Len(s)
    BY LenProperties
  <1>2. k \in 1..Len(s) + 1 /\ k + 1 \in 1..Len(s) + 1
    BY <1>1
  <1>3. /\ "param" \in Kinds /\ "num" \in Kinds /\ "str" \in Kinds /\ "ident" \in Kinds
        /\ "name" \in Kinds /\ "op" \in Kinds /\ "rest" \in Kinds
    BY DEF Kinds
  <1>4. Quote \in Bytes /\ DQuote \in Bytes /\ TRUE \in BOOLEAN /\ FALSE \in BOOLEAN
    BY DEF Quote, DQuote, Bytes
  <1>a. Unread(s, k).piece \in Seq(Tokens)
    <2>1. SubSeq(s, k, Len(s)) \in Seq(Bytes)
      <3>1. k \in Nat /\ Len(s) \in Nat /\ 1 <= k /\ k <= Len(s) + 1 /\ Len(s) <= Len(s)
        BY <1>1
      <3> QED
        BY <3>1, SubSeqIs
    <2>2. PICK rest : rest = SubSeq(s, k, Len(s))
      OBVIOUS
    <2>3. <<Token("rest", rest)>> \in Seq(Tokens)
      BY <1>3, <2>1, <2>2, PieceType
    <2> QED
      BY <2>2, <2>3, UnreadIs
  <1>5. CASE s[k] \in Spaces \/ CommentAt(s, k)
    <2>1. TokenAt(s, k).piece = <<>>
      <3>2. CASE CommentAt(s, k)
        <4>1. TokenAt(s, k) = LineComment(s, k)
          BY <3>2, TokenOf
        <4> QED
          BY <3>2, <4>1, LineAdvances
      <3>3. CASE s[k] \in Spaces
        <4>1. TokenAt(s, k) = Read(<<>>, k + 1)
          BY <3>3, TokenOf
        <4> QED
          BY <4>1 DEF Read
      <3> QED
        BY <1>5, <3>2, <3>3
    <2> QED
      BY <2>1, EmptySeq
  <1>b. CASE BlockAt(s, k)
    <2>1. TokenAt(s, k) = Comment(s, k)
      BY <1>b, TokenOf
    <2>2. CASE Comment(s, k) = Unread(s, k)
      BY <1>a, <2>1, <2>2
    <2>3. CASE Comment(s, k) # Unread(s, k)
      <3>1. PICK j \in k + 2..Len(s) : Comment(s, k) = Read(<<>>, j + 2)
        BY <2>3, BlockIs
      <3>2. TokenAt(s, k).piece = <<>>
        BY <2>1, <3>1 DEF Read
      <3> QED
        BY <3>2, EmptySeq
    <2> QED
      BY <2>2, <2>3
  <1>c. CASE DollarAt(s, k)
    <2>1. TokenAt(s, k) = DollarQuoted(s, k)
      BY <1>c, TokenOf
    <2>2. CASE DollarQuoted(s, k) = Unread(s, k)
      BY <1>a, <2>1, <2>2
    <2>3. CASE DollarQuoted(s, k) # Unread(s, k)
      <3>1. PICK o \in k + 1..Len(s) : \E j \in o + 1..Len(s) :
              DollarQuoted(s, k) = Read(<<Token("str", SubSeq(s, o + 1, j - 1))>>, j + (o - k + 1))
        BY <2>3, DollarIs
      <3>2. PICK j \in o + 1..Len(s) :
              DollarQuoted(s, k) = Read(<<Token("str", SubSeq(s, o + 1, j - 1))>>, j + (o - k + 1))
        BY <3>1
      <3>3. PICK a \in Nat, e \in Nat : a = o + 1 /\ e = j - 1 /\ 1 <= a /\ a <= e + 1 /\ e <= Len(s)
        BY <1>1
      <3>4. PICK body : body = SubSeq(s, a, e)
        OBVIOUS
      <3>5. body \in Seq(Bytes)
        BY <3>3, <3>4, SubSeqIs
      <3>6. TokenAt(s, k).piece = <<Token("str", body)>>
        BY <2>1, <3>2, <3>3, <3>4 DEF Read
      <3> QED
        BY <1>3, <3>5, <3>6, PieceType
    <2> QED
      BY <2>2, <2>3
  <1>6. CASE s[k] = Quote
    <2>1. TokenAt(s, k) = Quoted(s, "str", k + 1, Quote, FALSE)
      BY <1>6, TokenOf
    <2> QED
      BY <1>2, <1>3, <1>4, <2>1, QuotedType
  <1>7. CASE EscapedAt(s, k)
    <2>1. TokenAt(s, k) = Quoted(s, "str", k + 2, Quote, TRUE)
      BY <1>7, TokenOf
    <2>2. k + 2 \in 1..Len(s) + 1
      <3>1. k + 1 <= Len(s)
        BY <1>7 DEF EscapedAt, Byte, Quote
      <3> QED
        BY <1>1, <3>1
    <2> QED
      BY <1>3, <1>4, <2>1, <2>2, QuotedType
  <1>8. CASE s[k] = DQuote
    <2>1. TokenAt(s, k) = Quoted(s, "ident", k + 1, DQuote, FALSE)
      BY <1>8, TokenOf
    <2> QED
      BY <1>2, <1>3, <1>4, <2>1, QuotedType
  <1>9. CASE ParamAt(s, k)
    <2>1. TokenAt(s, k) = Word(s, "param", k + 1, Digits)
      BY <1>9, TokenOf
    <2> QED
      BY <1>2, <1>3, <2>1, NoZero, WordType
  <1>10. CASE s[k] \in Digits
    <2>1. TokenAt(s, k) = Word(s, "num", k, Digits)
      BY <1>10, TokenOf
    <2> QED
      BY <1>2, <1>3, <2>1, NoZero, WordType
  <1>11. CASE NameAt(s, k)
    <2>1. TokenAt(s, k) = Word(s, "name", k, NameBytes)
      BY <1>11, TokenOf
    <2> QED
      BY <1>2, <1>3, <2>1, NoZero, WordType
  <1>12. CASE OpAt(s, k)
    <2>1. TokenAt(s, k) = Read(<<Token("op", <<s[k]>>)>>, k + 1)
      BY <1>12, TokenOf
    <2>2. TokenAt(s, k).piece = <<Token("op", <<s[k]>>)>>
      BY <2>1 DEF Read
    <2>3. PICK c \in Bytes : c = s[k]
      BY ElementOfSeq
    <2>4. <<c>> \in Seq(Bytes)
      OBVIOUS
    <2> QED
      BY <1>3, <2>2, <2>3, <2>4, PieceType
  <1> QED
    BY <1>5, <1>6, <1>7, <1>8, <1>9, <1>10, <1>11, <1>12, <1>b, <1>c, TokenKinds

Tokened(s) == [k \in DOMAIN s |-> TokenAt(s, k)]

LEMMA TokenedType ==
  ASSUME NEW s \in Seq(Bytes), NEW k \in 1..Len(s) + 1
  PROVE  /\ Advances(Len(s), Tokened(s))
         /\ \A j \in 1..Len(s) : Tokened(s)[j] = TokenAt(s, j)
         /\ From(Len(s), Tokened(s))[k] \in Seq(Tokens) /\ Lex(s) \in Seq(Tokens)
  <1>1. PICK n \in Nat : n = Len(s)
    BY LenProperties
  <1>2. PICK read : read = Tokened(s)
    OBVIOUS
  <1>3. Advances(n, read)
    BY <1>1, <1>2, TokenAtAdvances DEF Tokened
  <1>4. \A j \in 1..n : read[j] = TokenAt(s, j)
    BY <1>1, <1>2, LenProperties DEF Tokened
  <1>5. \A j \in 1..n : read[j].piece \in Seq(Tokens)
    BY <1>1, <1>4, TokenType
  <1>6. \A j \in 1..n + 1 : From(n, read)[j] \in Seq(Tokens)
    BY <1>3, <1>5, FromType
  <1>7. Lex(s) = From(n, read)[1] /\ 1 \in 1..n + 1
    BY <1>1, <1>2 DEF Lex, Tokened
  <1> QED
    BY <1>1, <1>2, <1>3, <1>4, <1>6, <1>7

LEMMA LexType ==
  ASSUME NEW s \in Seq(Bytes)
  PROVE  Lex(s) \in Seq(Tokens) /\ (Len(s) = 0 => Lex(s) = <<>>)
  <1>1. PICK n \in Nat : n = Len(s)
    BY LenProperties
  <1>2. 1 \in 1..Len(s) + 1
    BY <1>1
  <1>3. ASSUME n = 0 PROVE Lex(s) = <<>>
    <2>1. Lex(s) = From(n, Tokened(s))[n + 1]
      BY <1>1, <1>3 DEF Lex, Tokened
    <2>2. Advances(n, Tokened(s))
      BY <1>1, <1>2, TokenedType
    <2> QED
      BY <2>1, <2>2, FromStep
  <1> QED
    BY <1>1, <1>2, <1>3, TokenedType

\* What follows a place is read as if the text began there.
LEMMA LexRest ==
  ASSUME NEW s \in Seq(Bytes), NEW d \in 0..Len(s)
  PROVE  From(Len(s), Tokened(s))[d + 1] = Lex(Rest(s, d))
  <1>1. Len(s) \in Nat /\ 1 \in 1..Len(s) + 1
    BY LenProperties
  <1>2. PICK r : r = Rest(s, d)
    OBVIOUS
  <1>3. r \in Seq(Bytes) /\ Len(r) = Len(s) - d /\ \A j \in 1..Len(s) - d : r[j] = s[j + d]
    BY <1>2, RestIs
  <1>4. PICK n \in Nat, m \in Nat : n = Len(r) /\ m = Len(s) /\ m = n + d
    BY <1>1, <1>3
  <1>5. PICK read, shifted : read = Tokened(r) /\ shifted = Tokened(s)
    OBVIOUS
  <1>6. /\ Advances(n, read) /\ Advances(m, shifted)
        /\ \A j \in 1..n : read[j] = TokenAt(r, j)
        /\ \A j \in 1..m : shifted[j] = TokenAt(s, j)
    <2>1. 1 \in 1..Len(r) + 1
      BY <1>4
    <2> QED
      BY <1>1, <1>3, <1>4, <1>5, <2>1, TokenedType
  <1>7. ASSUME NEW k \in 1..n
        PROVE  shifted[k + d].piece = read[k].piece /\ shifted[k + d].next = read[k].next + d
    <2>1. PICK l \in Nat, w \in Nat : l = k + d /\ w = TokenAt(r, k).next - k
      <3>1. TokenAt(r, k).next \in k + 1..n + 1
        BY <1>6 DEF Advances
      <3>2. k + d \in Nat /\ TokenAt(r, k).next - k \in Nat
        BY <1>1, <3>1
      <3> QED
        BY <3>2
    <2>2. TokenAt(r, k).next = k + w /\ k + w <= n + 1
      <3>1. TokenAt(r, k).next \in k + 1..n + 1
        BY <1>6 DEF Advances
      <3> QED
        BY <2>1, <3>1
    <2>3. k \in 1..Len(r) /\ l \in 1..Len(s) /\ l + w <= Len(s) + 1
      BY <1>4, <2>1, <2>2
    <2>4. Matching(r, k, s, l, w)
      <3> SUFFICES ASSUME NEW x \in 0..w - 1 PROVE r[k + x] = s[l + x]
        BY DEF Matching
      <3>1. k + x \in 1..Len(s) - d /\ (k + x) + d = l + x
        BY <1>4, <2>1, <2>2
      <3> QED
        BY <1>3, <3>1
    <2>5. Byte(s, l + w) = Byte(r, k + w)
      <3>1. CASE k + w <= n
        <4>1. k + w \in 1..Len(s) - d /\ (k + w) + d = l + w /\ l + w <= Len(s)
          BY <1>4, <2>1, <3>1
        <4>2. r[k + w] = s[(k + w) + d]
          BY <1>3, <4>1
        <4> QED
          BY <1>4, <3>1, <4>1, <4>2 DEF Byte
      <3>2. CASE ~(k + w <= n)
        <4>1. ~(l + w <= Len(s))
          BY <1>4, <2>1, <3>2
        <4> QED
          BY <1>4, <3>2, <4>1 DEF Byte
      <3> QED
        BY <3>1, <3>2
    <2>6. LastsAs(r, k, s, l, w)
      BY <1>4, <2>1 DEF LastsAs
    <2>7. Follows(r, k, s, l, w)
      BY <2>5 DEF Follows
    <2>8. TokenAt(s, l) = Read(TokenAt(r, k).piece, l + w)
      BY <1>3, <2>2, <2>3, <2>4, <2>6, <2>7, TokenAgree
    <2>9. TokenAt(s, l).piece = TokenAt(r, k).piece /\ TokenAt(s, l).next = l + w
      BY <2>8 DEF Read
    <2>10. l \in 1..m /\ l + w = (k + w) + d
      BY <1>4, <2>1
    <2> QED
      BY <1>6, <2>1, <2>2, <2>9, <2>10
  <1>8. Shifted(n, d, read, shifted)
    BY <1>7 DEF Shifted
  <1>9. d \in Nat /\ 1 \in 1..n + 1 /\ 1 + d = d + 1
    BY <1>1
  <1>10. From(m, shifted)[1 + d] = From(n, read)[1]
    BY <1>4, <1>6, <1>8, <1>9, FromShift
  <1>11. Lex(r) = From(n, read)[1]
    BY <1>4, <1>5 DEF Lex, Tokened
  <1> QED
    BY <1>2, <1>4, <1>5, <1>9, <1>10, <1>11

\* The first token, and what is read behind it.
LEMMA LexStep ==
  ASSUME NEW a \in Seq(Bytes), NEW y \in Seq(Bytes), Len(a) > 0, TokenAt(a \o y, 1).next = Len(a) + 1
  PROVE  Lex(a \o y) = TokenAt(a \o y, 1).piece \o Lex(y)
  <1>1. PICK s : s = a \o y
    OBVIOUS
  <1>2. s \in Seq(Bytes) /\ Len(s) = Len(a) + Len(y) /\ Len(a) \in Nat /\ Len(y) \in Nat
    BY <1>1, ConcatIs
  <1>3. PICK n \in Nat, d \in Nat : n = Len(s) /\ d = Len(a)
    BY <1>2
  <1>4. 1 \in 1..Len(s) + 1 /\ 1 \in 1..n /\ d \in 0..Len(s)
    BY <1>2, <1>3
  <1>5. PICK read : read = Tokened(s)
    OBVIOUS
  <1>6. Advances(n, read) /\ read[1] = TokenAt(s, 1)
    BY <1>2, <1>3, <1>4, <1>5, TokenedType
  <1>7. From(n, read)[1] = read[1].piece \o From(n, read)[read[1].next]
    BY <1>4, <1>6, FromStep
  <1>8. From(n, read)[d + 1] = Lex(Rest(s, d))
    BY <1>2, <1>3, <1>4, <1>5, LexRest
  <1>9. Rest(s, d) = y
    BY <1>1, <1>3, RestConcat
  <1>10. Lex(s) = From(n, read)[1]
    BY <1>3, <1>5 DEF Lex, Tokened
  <1>11. read[1].next = d + 1
    BY <1>1, <1>3, <1>6
  <1> QED
    BY <1>1, <1>6, <1>7, <1>8, <1>9, <1>10, <1>11

-----------------------------------------------------------------------------
(* The meaning of a statement *)

\* What a token of a statement stands for.
Means(token, list) ==
  IF \E n \in DOMAIN list : IsParam(token, n)
    THEN Denotes(list[CHOOSE n \in DOMAIN list : IsParam(token, n)])
  ELSE <<token>>

Told(tokens, list) == FlattenSeq([k \in DOMAIN tokens |-> Means(tokens[k], list)])

LEMMA MeaningIs == Meaning = Told(Lex(sql), params)
  BY DEF Meaning, Told, Means

Meant(list) == \A n \in DOMAIN list : Denotes(list[n]) \in Seq(Tokens)

LEMMA MeansType ==
  ASSUME NEW list, Meant(list), NEW token \in Tokens
  PROVE  Means(token, list) \in Seq(Tokens)
  <1>1. <<token>> \in Seq(Tokens)
    OBVIOUS
  <1> QED
    BY <1>1 DEF Means, Meant

LEMMA ToldIs ==
  ASSUME NEW list, Meant(list), NEW tokens \in Seq(Tokens)
  PROVE  /\ [k \in DOMAIN tokens |-> Means(tokens[k], list)] \in Seq(Seq(Tokens))
         /\ Told(tokens, list) \in Seq(Tokens)
  <1>1. PICK n \in Nat : n = Len(tokens)
    BY LenProperties
  <1>2. DOMAIN tokens = 1..n
    BY <1>1, LenProperties
  <1>3. PICK seqs : seqs = [k \in DOMAIN tokens |-> Means(tokens[k], list)]
    OBVIOUS
  <1>4. ASSUME NEW k \in 1..n PROVE Means(tokens[k], list) \in Seq(Tokens)
    <2>1. tokens[k] \in Tokens
      BY <1>1, ElementOfSeq
    <2> QED
      BY <2>1, MeansType
  <1>5. seqs \in [1..n -> Seq(Tokens)]
    BY <1>2, <1>3, <1>4
  <1>6. seqs \in Seq(Seq(Tokens))
    BY <1>5, SeqDef
  <1>7. Told(tokens, list) = FlattenSeq(seqs)
    BY <1>3 DEF Told
  <1> QED
    BY <1>3, <1>6, <1>7, FlattenType

LEMMA ToldStep ==
  ASSUME NEW list, Meant(list), NEW token \in Tokens, NEW tokens \in Seq(Tokens)
  PROVE  Told(<<token>> \o tokens, list) = Means(token, list) \o Told(tokens, list)
  <1>1. PICK n \in Nat : n = Len(tokens)
    BY LenProperties
  <1>2. PICK one : one = <<token>>
    OBVIOUS
  <1>3. one \in Seq(Tokens) /\ Len(one) = 1 /\ one[1] = token
    BY <1>2
  <1>4. PICK all : all = one \o tokens
    OBVIOUS
  <1>5. all \in Seq(Tokens) /\ Len(all) = n + 1 /\ all[1] = token /\ \A k \in 1..n : all[k + 1] = tokens[k]
    <2>1. one \in Seq(Tokens)
      BY <1>3
    <2>2. /\ all \in Seq(Tokens) /\ Len(all) = Len(one) + Len(tokens)
          /\ \A k \in 1..Len(one) : all[k] = one[k]
          /\ \A k \in 1..Len(tokens) : all[Len(one) + k] = tokens[k]
      BY <1>4, <2>1, ConcatIs
    <2>3. 1 \in 1..Len(one)
      BY <1>3
    <2>4. \A k \in 1..n : all[1 + k] = tokens[k] /\ 1 + k = k + 1
      BY <1>1, <1>3, <2>2
    <2> QED
      BY <1>1, <1>3, <2>2, <2>3, <2>4
  <1>6. PICK seqs, longer : /\ seqs = [k \in DOMAIN tokens |-> Means(tokens[k], list)]
                            /\ longer = [k \in DOMAIN all |-> Means(all[k], list)]
    OBVIOUS
  <1>7. DOMAIN tokens = 1..n /\ DOMAIN all = 1..n + 1
    BY <1>1, <1>5, LenProperties
  <1>8. seqs \in Seq(Seq(Tokens)) /\ longer \in Seq(Seq(Tokens)) /\ Told(all, list) = FlattenSeq(longer)
    BY <1>5, <1>6, ToldIs DEF Told
  <1>9. Told(tokens, list) = FlattenSeq(seqs)
    BY <1>6 DEF Told
  <1>10. PICK m, Y, first : m = Means(token, list) /\ Y = Seq(Tokens) /\ first = <<m>>
    OBVIOUS
  <1>11. m \in Seq(Tokens)
    BY <1>10, MeansType
  <1>12. first \in Seq(Y) /\ Len(first) = 1 /\ first[1] = m
    BY <1>10, <1>11
  <1>13. seqs \in Seq(Y) /\ longer \in Seq(Y) /\ Len(seqs) = n /\ Len(longer) = n + 1
    BY <1>6, <1>7, <1>8, <1>10
  <1>14. PICK x : x = first \o seqs
    OBVIOUS
  <1>15. /\ x \in Seq(Y) /\ Len(x) = n + 1 /\ x[1] = m /\ \A k \in 1..n : x[k + 1] = seqs[k]
    <2>1. first \in Seq(Y)
      BY <1>12
    <2>a. seqs \in Seq(Y)
      BY <1>13
    <2>2. /\ x \in Seq(Y) /\ Len(x) = Len(first) + Len(seqs)
          /\ \A k \in 1..Len(first) : x[k] = first[k]
          /\ \A k \in 1..Len(seqs) : x[Len(first) + k] = seqs[k]
      BY <1>14, <2>1, <2>a, ConcatIs
    <2>3. 1 \in 1..Len(first)
      BY <1>12
    <2>4. \A k \in 1..n : x[1 + k] = seqs[k] /\ 1 + k = k + 1
      BY <1>12, <1>13, <2>2
    <2> QED
      BY <1>12, <1>13, <2>2, <2>3, <2>4
  <1>16. ASSUME NEW k \in 1..n + 1 PROVE longer[k] = x[k]
    <2>1. longer[k] = Means(all[k], list)
      BY <1>6, <1>7
    <2>2. CASE k = 1
      BY <1>5, <1>10, <1>15, <2>1, <2>2
    <2>3. CASE k # 1
      <3>1. PICK j \in 1..n : k = j + 1
        <4>1. k - 1 \in 1..n /\ k = (k - 1) + 1
          BY <2>3
        <4> QED
          BY <4>1
      <3>2. seqs[j] = Means(tokens[j], list)
        BY <1>6, <1>7
      <3> QED
        BY <1>5, <1>15, <2>1, <3>1, <3>2
    <2> QED
      BY <2>2, <2>3
  <1>17. longer = x
    BY <1>13, <1>15, <1>16, SeqEqual
  <1>18. FlattenSeq(<<m>> \o seqs) = m \o FlattenSeq(seqs)
    BY <1>8, <1>11, FlattenFirst
  <1> QED
    BY <1>2, <1>4, <1>8, <1>9, <1>10, <1>14, <1>17, <1>18

LEMMA ToldNothing ==
  ASSUME NEW list, Meant(list)
  PROVE  Told(<<>>, list) = <<>>
  <1>1. <<>> \in Seq(Tokens)
    BY EmptySeq
  <1>2. PICK seqs : seqs = [k \in DOMAIN (<<>>) |-> Means((<<>>)[k], list)]
    OBVIOUS
  <1>3. seqs \in Seq(Seq(Tokens)) /\ Told(<<>>, list) = FlattenSeq(seqs)
    BY <1>1, <1>2, ToldIs DEF Told
  <1>4. DOMAIN seqs = {}
    BY <1>2
  <1>5. Len(seqs) = 0
    <2>1. Len(seqs) \in Nat /\ DOMAIN seqs = 1..Len(seqs)
      BY <1>3, LenProperties
    <2> QED
      BY <1>4, <2>1
  <1>6. \A k \in 1..Len(seqs) : seqs[k] = <<>>
    BY <1>5
  <1> QED
    BY <1>3, <1>6, FlattenNothing

-----------------------------------------------------------------------------
(* The tokens of a value *)

LEMMA ByteConcat ==
  ASSUME NEW a \in Seq(Bytes), NEW y \in Seq(Bytes)
  PROVE  /\ Byte(a \o y, Len(a) + 1) = Byte(y, 1)
         /\ \A k \in 1..Len(a) : Byte(a \o y, k) = a[k] /\ (a \o y)[k] = a[k]
  <1>1. PICK s : s = a \o y
    OBVIOUS
  <1>2. /\ s \in Seq(Bytes) /\ Len(a) \in Nat /\ Len(y) \in Nat /\ Len(s) = Len(a) + Len(y)
        /\ \A k \in 1..Len(a) : s[k] = a[k]
        /\ \A k \in 1..Len(y) : s[Len(a) + k] = y[k]
    BY <1>1, ConcatIs
  <1>3. Byte(s, Len(a) + 1) = Byte(y, 1)
    <2>1. CASE Len(y) >= 1
      <3>1. 1 \in 1..Len(y) /\ Len(a) + 1 <= Len(s)
        BY <1>2, <2>1
      <3> QED
        BY <1>2, <2>1, <3>1 DEF Byte
    <2>2. CASE ~(Len(y) >= 1)
      <3>1. ~(Len(a) + 1 <= Len(s)) /\ ~(1 <= Len(y))
        BY <1>2, <2>2
      <3> QED
        BY <3>1 DEF Byte
    <2> QED
      BY <2>1, <2>2
  <1>4. ASSUME NEW k \in 1..Len(a) PROVE Byte(s, k) = a[k] /\ s[k] = a[k]
    <2>1. k <= Len(s)
      BY <1>2
    <2> QED
      BY <1>2, <2>1 DEF Byte
  <1> QED
    BY <1>1, <1>3, <1>4

\* A literal in front of another text.
LEMMA LiteralLex ==
  ASSUME NEW t \in Seq(Bytes), NEW x \in Seq(Bytes), NEW y \in Seq(Bytes),
         Len(t) > 0, t[Len(t)] = Quote, Byte(y, 1) # Quote,
         TokenAt(t, 1) = Read(<<Token("str", x)>>, Len(t) + 1)
  PROVE  Lex(t \o y) = <<Token("str", x)>> \o Lex(y)
  <1>1. PICK u : u = t \o y
    OBVIOUS
  <1>2. /\ u \in Seq(Bytes) /\ Len(t) \in Nat /\ Len(y) \in Nat /\ Len(u) = Len(t) + Len(y)
    BY <1>1, ConcatIs
  <1>3. PICK w \in Nat : w = Len(t)
    BY <1>2
  <1>4. 1 \in 1..Len(t) /\ 1 \in 1..Len(u) /\ 1 + w <= Len(u) + 1
    BY <1>2, <1>3
  <1>5. PICK token : token = Token("str", x)
    OBVIOUS
  <1>6. TokenAt(t, 1).next = 1 + w /\ TokenAt(t, 1).piece = <<token>>
    <2>1. TokenAt(t, 1).next = w + 1 /\ TokenAt(t, 1).piece = <<token>>
      BY <1>3, <1>5 DEF Read
    <2> QED
      BY <1>3, <2>1
  <1>7. Matching(t, 1, u, 1, w)
    <2> SUFFICES ASSUME NEW j \in 0..w - 1 PROVE t[1 + j] = u[1 + j]
      BY DEF Matching
    <2>1. 1 + j \in 1..Len(t)
      BY <1>3
    <2> QED
      BY <1>1, <2>1, ByteConcat
  <1>8. Follows(t, 1, u, 1, w)
    <2>1. t[1 + w - 1] = Quote
      <3>1. 1 + w - 1 = w
        BY <1>3
      <3> QED
        BY <1>3, <3>1
    <2>2. Byte(u, 1 + w) # Quote
      <3>1. 1 + w = w + 1
        BY <1>3
      <3>2. Byte(u, w + 1) = Byte(y, 1)
        BY <1>1, <1>3, ByteConcat
      <3> QED
        BY <3>1, <3>2
    <2>3. /\ Quote # DQuote /\ Quote # Minus /\ Quote # Slash /\ Quote \notin Digits \cup {Dollar}
          /\ Quote \notin NameBytes
      BY Classes, Apartness DEF NameBytes
    <2>4. PICK b, c, d : b = t[1 + w - 1] /\ c = Byte(t, 1 + w) /\ d = Byte(u, 1 + w)
      OBVIOUS
    <2>5. Apart(b, c, d)
      BY <2>1, <2>2, <2>3, <2>4 DEF Apart
    <2>6. ~(1 + w <= Len(t))
      BY <1>3
    <2> QED
      BY <2>4, <2>5, <2>6 DEF Follows
  <1>9. LastsAs(t, 1, u, 1, w)
    <2>1. Closed(<<token>>)
      BY <1>5 DEF Closed, Token
    <2> QED
      BY <1>6, <2>1 DEF LastsAs
  <1>10. TokenAt(u, 1) = Read(TokenAt(t, 1).piece, 1 + w)
    BY <1>2, <1>4, <1>6, <1>7, <1>8, <1>9, TokenAgree
  <1>11. TokenAt(u, 1).piece = <<token>> /\ TokenAt(u, 1).next = Len(t) + 1
    <2>1. TokenAt(u, 1).piece = <<token>> /\ TokenAt(u, 1).next = 1 + w
      BY <1>6, <1>10 DEF Read
    <2> QED
      BY <1>3, <2>1
  <1>12. TokenAt(t \o y, 1).next = Len(t) + 1
    BY <1>1, <1>11
  <1>13. Lex(t \o y) = TokenAt(t \o y, 1).piece \o Lex(y)
    BY <1>12, LexStep
  <1> QED
    BY <1>1, <1>5, <1>11, <1>13

\* A number or a name in front of another text.
LEMMA WordLex ==
  ASSUME NEW a \in Seq(Bytes), NEW y \in Seq(Bytes), NEW is, NEW S,
         Len(a) > 0, 0 \notin S, \A k \in 1..Len(a) : a[k] \in S, Byte(y, 1) \notin S,
         TokenAt(a \o y, 1) = Word(a \o y, is, 1, S)
  PROVE  Lex(a \o y) = <<Token(is, a)>> \o Lex(y)
  <1>1. PICK u : u = a \o y
    OBVIOUS
  <1>2. /\ u \in Seq(Bytes) /\ Len(a) \in Nat /\ Len(y) \in Nat /\ Len(u) = Len(a) + Len(y)
        /\ \A k \in 1..Len(a) : u[k] = a[k]
    BY <1>1, ConcatIs
  <1>3. PICK w \in Nat, p \in Nat : w = Len(a) /\ p = w + 1
    BY <1>2
  <1>4. 1 \in 1..Len(u) + 1 /\ p \in 1..Len(u) + 1
    BY <1>2, <1>3
  <1>5. Byte(u, p) \notin S
    BY <1>1, <1>3, ByteConcat
  <1>6. \A m \in 1..p - 1 : Byte(u, m) \in S
    <2> SUFFICES ASSUME NEW m \in 1..p - 1 PROVE Byte(u, m) \in S
      OBVIOUS
    <2>1. m \in 1..Len(a)
      BY <1>3
    <2> QED
      BY <1>1, <2>1, ByteConcat
  <1>7. Past(u, 1, S) = p
    BY <1>2, <1>4, <1>5, <1>6, PastUnique
  <1>8. SubSeq(u, 1, p - 1) = a
    <2>1. PICK b : b = SubSeq(u, 1, w)
      OBVIOUS
    <2>2. 1 <= w + 1 /\ w <= Len(u)
      BY <1>2, <1>3
    <2>3. b \in Seq(Bytes) /\ Len(b) = w - 1 + 1 /\ \A k \in 1..w - 1 + 1 : b[k] = u[1 + k - 1]
      BY <1>2, <2>1, <2>2, SubSeqIs
    <2>4. Len(b) = w /\ \A k \in 1..w : b[k] = a[k]
      <3>1. w - 1 + 1 = w /\ \A k \in 1..w : 1 + k - 1 = k
        BY <1>3
      <3> QED
        BY <1>2, <1>3, <2>3, <3>1
    <2>5. b = a
      BY <1>3, <2>3, <2>4, SeqEqual
    <2>6. p - 1 = w
      BY <1>3
    <2> QED
      BY <2>1, <2>5, <2>6
  <1>9. TokenAt(u, 1) = Read(<<Token(is, a)>>, p)
    <2>1. PICK z : z = Past(u, 1, S)
      OBVIOUS
    <2>2. TokenAt(u, 1) = Read(<<Token(is, SubSeq(u, 1, z - 1))>>, z)
      BY <1>1, <2>1 DEF Word
    <2> QED
      BY <1>7, <1>8, <2>1, <2>2
  <1>10. TokenAt(u, 1).piece = <<Token(is, a)>> /\ TokenAt(u, 1).next = p
    BY <1>9 DEF Read
  <1>11. TokenAt(a \o y, 1).next = Len(a) + 1
    BY <1>1, <1>3, <1>10
  <1>12. Lex(a \o y) = TokenAt(a \o y, 1).piece \o Lex(y)
    BY <1>11, LexStep
  <1> QED
    BY <1>1, <1>10, <1>12

LEMMA NumLex ==
  ASSUME NEW a \in Seq(Bytes), NEW y \in Seq(Bytes),
         Len(a) > 0, \A k \in 1..Len(a) : a[k] \in Digits, Byte(y, 1) \notin Digits
  PROVE  Lex(a \o y) = <<Token("num", a)>> \o Lex(y)
  <1>1. PICK u : u = a \o y
    OBVIOUS
  <1>2. u \in Seq(Bytes) /\ Len(u) = Len(a) + Len(y) /\ Len(a) \in Nat /\ Len(y) \in Nat
    BY <1>1, ConcatIs
  <1>3. 1 \in 1..Len(a) /\ 1 \in 1..Len(u)
    BY <1>2
  <1>4. u[1] \in Digits
    BY <1>1, <1>3, ByteConcat
  <1>5. TokenAt(u, 1) = Word(u, "num", 1, Digits)
    BY <1>2, <1>3, <1>4, TokenOf
  <1> QED
    BY <1>1, <1>5, NoZero, WordLex

LEMMA NullLex ==
  ASSUME NEW y \in Seq(Bytes), Byte(y, 1) \notin NameBytes
  PROVE  Lex(Null \o y) = <<Token("name", Null)>> \o Lex(y)
  <1>1. PICK a, u : a = Null /\ u = a \o y
    OBVIOUS
  <1>2. 78 \in Bytes /\ 85 \in Bytes /\ 76 \in Bytes
    BY DEF Bytes
  <1>3. a \in Seq(Bytes) /\ Len(a) = 4 /\ a[1] = 78 /\ a[2] = 85 /\ a[3] = 76 /\ a[4] = 76
    BY <1>1, <1>2 DEF Null
  <1>4. 78 \in NameBytes /\ 85 \in NameBytes /\ 76 \in NameBytes /\ 78 \in Letters /\ 78 \notin {LetterE, SmallE}
    BY DEF NameBytes, Letters, LetterE, SmallE
  <1>5. \A k \in 1..Len(a) : a[k] \in NameBytes
    <2>1. \A k \in 1..4 : k = 1 \/ k = 2 \/ k = 3 \/ k = 4
      OBVIOUS
    <2> QED
      BY <1>3, <1>4, <2>1
  <1>a. a \in Seq(Bytes)
    BY <1>3
  <1>6. u \in Seq(Bytes) /\ Len(u) = Len(a) + Len(y) /\ Len(y) \in Nat
    BY <1>1, <1>a, ConcatIs
  <1>7. 1 \in 1..Len(a) /\ 1 \in 1..Len(u)
    BY <1>3, <1>6
  <1>8. u[1] = 78
    <2>1. u[1] = a[1]
      BY <1>1, <1>a, <1>7, ByteConcat
    <2> QED
      BY <1>3, <2>1
  <1>9. NameAt(u, 1)
    BY <1>4, <1>8 DEF NameAt, EscapedAt
  <1>10. TokenAt(u, 1) = Word(u, "name", 1, NameBytes)
    BY <1>6, <1>7, <1>9, TokenOf
  <1>11. Len(a) > 0
    BY <1>3
  <1>12. TokenAt(a \o y, 1) = Word(a \o y, "name", 1, NameBytes)
    BY <1>1, <1>10
  <1>13. 0 \notin NameBytes /\ a \in Seq(Bytes)
    BY <1>3, NoZero
  <1>14. PICK S : S = NameBytes
    OBVIOUS
  <1>15. Lex(a \o y) = <<Token("name", a)>> \o Lex(y)
    BY <1>5, <1>11, <1>12, <1>13, <1>14, WordLex
  <1> QED
    BY <1>1, <1>15

LEMMA MinusLex ==
  ASSUME NEW y \in Seq(Bytes), Byte(y, 1) # Minus
  PROVE  Lex(<<Minus>> \o y) = <<Token("op", <<Minus>>)>> \o Lex(y)
  <1>1. PICK a, u : a = <<Minus>> /\ u = a \o y
    OBVIOUS
  <1>2. Minus \in Bytes
    BY DEF Minus, Bytes
  <1>3. a \in Seq(Bytes) /\ Len(a) = 1 /\ a[1] = Minus
    BY <1>1, <1>2
  <1>4. u \in Seq(Bytes) /\ Len(u) = Len(a) + Len(y) /\ Len(y) \in Nat
    BY <1>1, <1>3, ConcatIs
  <1>5. 1 \in 1..Len(a) /\ 1 \in 1..Len(u)
    BY <1>3, <1>4
  <1>6. u[1] = Minus
    BY <1>1, <1>3, <1>5, ByteConcat
  <1>7. Byte(u, 1 + 1) = Byte(y, 1)
    BY <1>1, <1>3, ByteConcat
  <1>8. OpAt(u, 1)
    <2>1. Minus \notin Spaces \cup {Quote, DQuote, Dollar} \cup Digits \cup Letters /\ Minus # Slash
      BY Apartness
    <2> QED
      BY <1>6, <1>7, <2>1 DEF OpAt, CommentAt, BlockAt
  <1>9. TokenAt(u, 1) = Read(<<Token("op", <<u[1]>>)>>, 1 + 1)
    BY <1>4, <1>5, <1>8, TokenOf
  <1>10. TokenAt(u, 1).piece = <<Token("op", <<Minus>>)>> /\ TokenAt(u, 1).next = Len(a) + 1
    BY <1>3, <1>6, <1>9 DEF Read
  <1>11. Lex(a \o y) = TokenAt(a \o y, 1).piece \o Lex(y)
    <2>1. Len(a) > 0 /\ TokenAt(a \o y, 1).next = Len(a) + 1
      BY <1>1, <1>3, <1>10
    <2> QED
      BY <1>3, <2>1, LexStep
  <1> QED
    BY <1>1, <1>10, <1>11

\* The closing quote behind a text with neither quotes nor backslashes.
LEMMA CloseRun ==
  ASSUME NEW t \in Seq(Bytes), NEW q, NEW esc, NEW j \in 1..Len(t), NEW from \in 1..j,
         \A x \in from..j - 1 : t[x] # q /\ t[x] # Backslash, ClosesAt(t, j, q, esc)
  PROVE  Close(t, from, q, esc) = <<j>>
  <1>1. PICK n \in Nat : n = Len(t)
    BY LenProperties
  <1> DEFINE Goal(x) == x \in from..j => Close(t, x, q, esc) = <<j>>
  <1> DEFINE S == {x \in 1..j + 1 : Goal(x)}
  <1>2. j + 1 \in S
    BY <1>1
  <1>3. ASSUME NEW x \in 1..j, \A y \in x + 1..j + 1 : y \in S PROVE x \in S
    <2> SUFFICES ASSUME x \in from..j PROVE Close(t, x, q, esc) = <<j>>
      BY <1>1
    <2>1. x \in 1..Len(t)
      BY <1>1
    <2>2. CASE x = j
      BY <2>1, <2>2, CloseHere
    <2>3. CASE x # j
      <3>1. x \in from..j - 1 /\ x + 1 \in from..j /\ x + 1 \in x + 1..j + 1
        BY <1>1, <2>3
      <3>2. t[x] # q /\ t[x] # Backslash
        BY <3>1
      <3>3. ~ClosesAt(t, x, q, esc) /\ Further(t, x, q, esc) = x + 1
        BY <3>2 DEF ClosesAt, Further
      <3>4. Close(t, x, q, esc) = Close(t, x + 1, q, esc)
        BY <2>1, <3>3, CloseHere
      <3>5. x + 1 \in S
        BY <1>3, <3>1
      <3> QED
        BY <3>1, <3>4, <3>5
    <2> QED
      BY <2>2, <2>3
  <1>4. 1..j + 1 \subseteq S
    <2> HIDE DEF S
    <2>1. j \in Nat
      BY <1>1
    <2> QED
      BY <1>2, <1>3, <2>1, DownInduction
  <1>5. from \in S /\ from \in from..j
    BY <1>1, <1>4
  <1> QED
    BY <1>5

\* No occurrence of a text that begins with a byte the other text does not have.
LEMMA FreeWithout ==
  ASSUME NEW s \in Seq(Bytes), NEW old \in Seq(Bytes), Len(old) > 0,
         \A k \in 1..Len(s) : s[k] # old[1]
  PROVE  FreeOf(s, old, Len(s))
  <1> SUFFICES ASSUME NEW k \in 1..Len(s), StartsAt(s, old, k) PROVE FALSE
    BY DEF FreeOf
  <1>1. 1 \in 1..Len(old) /\ k + 1 - 1 = k
    BY LenProperties
  <1>2. \A j \in 1..Len(old) : s[k + j - 1] = old[j]
    BY StartsAtIs
  <1> QED
    BY <1>1, <1>2

\* The five bytes in front of the digits of a bytea.
HexFront == <<LetterE, Quote, Backslash, Backslash, 120>>

LEMMA HexFrontIs ==
  /\ HexFront \in Seq(Bytes) /\ Len(HexFront) = 5 /\ HexFront[1] = LetterE /\ HexFront[2] = Quote
  /\ HexFront[3] = Backslash /\ HexFront[4] = Backslash /\ HexFront[5] = 120
  /\ 120 # Quote /\ 120 # Backslash /\ Quote # Backslash /\ Quote \in Bytes /\ Backslash \in Bytes /\ 120 \in Bytes
  /\ Quote \notin HexDigits /\ Backslash \notin HexDigits /\ LetterE # Quote /\ HexDigits \subseteq Bytes
  <1>1. LetterE \in Bytes /\ Quote \in Bytes /\ Backslash \in Bytes /\ 120 \in Bytes
    BY DEF LetterE, Quote, Backslash, Bytes
  <1>2. 120 # Quote /\ 120 # Backslash /\ Quote # Backslash /\ LetterE # Quote
    BY DEF LetterE, Quote, Backslash
  <1>3. Quote \notin HexDigits /\ Backslash \notin HexDigits /\ HexDigits \subseteq Bytes
    BY DEF Quote, Backslash, HexDigits, Digits, Bytes
  <1> QED
    BY <1>1, <1>2, <1>3 DEF HexFront

LEMMA UnescapedHex ==
  ASSUME NEW h \in Seq(HexDigits), NEW c, c = <<Backslash, Backslash, 120>> \o h
  PROVE  Replace(Replace(c, <<Quote, Quote>>, <<Quote>>), <<Backslash, Backslash>>, <<Backslash>>)
           = <<Backslash, 120>> \o h
  <1>1. h \in Seq(Bytes)
    BY HexFrontIs, SeqMonotonic
  <1>2. PICK x, xh, back, one, double, single, front, two :
          /\ x = <<120>> /\ xh = x \o h /\ back = <<Backslash, Backslash>> /\ one = <<Backslash>>
          /\ double = <<Quote, Quote>> /\ single = <<Quote>>
          /\ front = <<Backslash, Backslash, 120>> /\ two = <<Backslash, 120>>
    OBVIOUS
  <1>3. x \in Seq(Bytes) /\ Len(x) = 1 /\ x[1] = 120
    BY <1>2, HexFrontIs
  <1>4. back \in Seq(Bytes) /\ Len(back) = 2 /\ back[1] = Backslash /\ back[2] = Backslash
    BY <1>2, HexFrontIs
  <1>5. one \in Seq(Bytes) /\ double \in Seq(Bytes) /\ Len(double) = 2 /\ double[1] = Quote /\ single \in Seq(Bytes)
    BY <1>2, HexFrontIs
  <1>6. /\ front \in Seq(Bytes) /\ Len(front) = 3 /\ front[1] = Backslash /\ front[2] = Backslash
        /\ front[3] = 120
    BY <1>2, HexFrontIs
  <1>7. PICK n \in Nat : n = Len(h)
    BY LenProperties
  <1>a. x \in Seq(Bytes)
    BY <1>3
  <1>b. back \in Seq(Bytes)
    BY <1>4
  <1>c. front \in Seq(Bytes)
    BY <1>6
  <1>d. one \in Seq(Bytes) /\ single \in Seq(Bytes)
    BY <1>5
  <1>e. double \in Seq(Bytes)
    BY <1>5
  <1>8. \A k \in 1..n : h[k] # Quote /\ h[k] # Backslash
    <2>1. \A k \in 1..n : h[k] \in HexDigits
      BY <1>7, ElementOfSeq
    <2> QED
      BY <2>1, HexFrontIs
  <1>9. /\ c \in Seq(Bytes) /\ Len(c) = 3 + n /\ \A k \in 1..3 : c[k] = front[k]
        /\ \A k \in 1..n : c[3 + k] = h[k]
    <2>1. /\ c \in Seq(Bytes) /\ Len(c) = Len(front) + Len(h) /\ \A k \in 1..Len(front) : c[k] = front[k]
          /\ \A k \in 1..Len(h) : c[Len(front) + k] = h[k]
      BY <1>1, <1>2, <1>c, ConcatIs
    <2> QED
      BY <1>6, <1>7, <2>1
  <1>10. /\ xh \in Seq(Bytes) /\ Len(xh) = 1 + n /\ xh[1] = 120 /\ \A k \in 1..n : xh[1 + k] = h[k]
    <2>1. /\ xh \in Seq(Bytes) /\ Len(xh) = Len(x) + Len(h) /\ \A k \in 1..Len(x) : xh[k] = x[k]
          /\ \A k \in 1..Len(h) : xh[Len(x) + k] = h[k]
      BY <1>1, <1>2, <1>a, ConcatIs
    <2> QED
      BY <1>3, <1>7, <2>1
  <1>11. Replace(c, double, single) = c
    <2>1. ASSUME NEW k \in 1..Len(c) PROVE c[k] # double[1]
      <3>1. CASE k \in 1..3
        BY <1>5, <1>6, <1>9, <3>1, HexFrontIs
      <3>2. CASE k \notin 1..3
        <4>1. PICK j \in 1..n : k = 3 + j
          <5>1. k - 3 \in 1..n /\ k = 3 + (k - 3)
            BY <1>9, <3>2
          <5> QED
            BY <5>1
        <4> QED
          BY <1>5, <1>8, <1>9, <4>1
      <3> QED
        BY <3>1, <3>2
    <2>2. FreeOf(c, double, Len(c)) /\ Len(double) > 0 /\ c \in Seq(Bytes)
      <3>1. c \in Seq(Bytes) /\ Len(double) > 0
        BY <1>5, <1>9
      <3> QED
        BY <1>e, <2>1, <3>1, FreeWithout
    <2> QED
      BY <1>d, <1>e, <2>2, ReplaceNone
  <1>12. Replace(xh, back, one) = xh
    <2>1. ASSUME NEW k \in 1..Len(xh) PROVE xh[k] # back[1]
      <3>1. CASE k = 1
        BY <1>4, <1>10, <3>1, HexFrontIs
      <3>2. CASE k # 1
        <4>1. PICK j \in 1..n : k = 1 + j
          <5>1. k - 1 \in 1..n /\ k = 1 + (k - 1)
            BY <1>10, <3>2
          <5> QED
            BY <5>1
        <4>2. xh[1 + j] = h[j]
          BY <1>10
        <4>3. h[j] # Backslash
          BY <1>8
        <4>4. back[1] = Backslash
          BY <1>4
        <4> QED
          BY <4>1, <4>2, <4>3, <4>4
      <3> QED
        BY <3>1, <3>2
    <2>2. FreeOf(xh, back, Len(xh)) /\ Len(back) > 0 /\ xh \in Seq(Bytes)
      <3>1. xh \in Seq(Bytes) /\ Len(back) > 0
        BY <1>4, <1>10
      <3> QED
        BY <1>b, <2>1, <3>1, FreeWithout
    <2> QED
      BY <1>b, <1>d, <2>2, ReplaceNone
  <1>13. StartsAt(c, back, 1)
    <2>1. c \in Seq(Bytes) /\ 1 \in 1..Len(c)
      BY <1>9
    <2>2. 1 + Len(back) <= Len(c) + 1
      BY <1>4, <1>9
    <2>3. ASSUME NEW j \in 1..Len(back) PROVE c[1 + j - 1] = back[j]
      <3>1. j = 1 \/ j = 2
        BY <1>4
      <3>2. c[1] = Backslash /\ c[2] = Backslash
        BY <1>6, <1>9
      <3>3. CASE j = 1
        BY <1>4, <3>2, <3>3
      <3>4. CASE j = 2
        BY <1>4, <3>2, <3>4
      <3> QED
        BY <3>1, <3>3, <3>4
    <2> QED
      BY <1>b, <2>1, <2>2, <2>3, StartsAtIs
  <1>14. Rest(c, 2) = xh
    <2>1. PICK r : r = Rest(c, 2)
      OBVIOUS
    <2>2. c \in Seq(Bytes)
      BY <1>9
    <2>a. 2 \in 0..Len(c)
      BY <1>9
    <2>b. PICK d \in 0..Len(c) : d = 2
      BY <2>a
    <2>d. r = Rest(c, d)
      BY <2>1, <2>b
    <2>e. /\ Rest(c, d) \in Seq(Bytes) /\ Len(Rest(c, d)) = Len(c) - d
          /\ \A k \in 1..Len(c) - d : Rest(c, d)[k] = c[k + d]
      BY <2>2, RestIs, ZenonT(30)
    <2>c. r \in Seq(Bytes) /\ Len(r) = Len(c) - d /\ \A k \in 1..Len(c) - d : r[k] = c[k + d]
      BY <2>d, <2>e
    <2>3. r \in Seq(Bytes) /\ Len(r) = Len(c) - 2 /\ \A k \in 1..Len(c) - 2 : r[k] = c[k + 2]
      BY <2>b, <2>c
    <2>4. ASSUME NEW k \in 1..Len(xh) PROVE r[k] = xh[k]
      <3>1. k \in 1..Len(c) - 2
        BY <1>9, <1>10
      <3>2. CASE k = 1
        <4>1. r[1] = c[3]
          <5>1. 1 + 2 = 3
            OBVIOUS
          <5> QED
            BY <2>3, <3>1, <3>2, <5>1
        <4> QED
          BY <1>6, <1>9, <1>10, <3>2, <4>1
      <3>3. CASE k # 1
        <4>1. PICK j \in 1..n : k = 1 + j
          <5>1. k - 1 \in 1..n /\ k = 1 + (k - 1)
            BY <1>10, <3>3
          <5> QED
            BY <5>1
        <4>2. k + 2 = 3 + j
          BY <4>1
        <4>3. r[k] = c[3 + j]
          BY <2>3, <3>1, <4>2
        <4>4. c[3 + j] = h[j] /\ xh[1 + j] = h[j]
          BY <1>9, <1>10
        <4> QED
          BY <4>1, <4>3, <4>4
      <3> QED
        BY <3>2, <3>3
    <2>5. Len(r) = Len(xh) /\ xh \in Seq(Bytes) /\ r \in Seq(Bytes)
      BY <1>9, <1>10, <2>3
    <2>6. r = xh
      BY <2>4, <2>5, SeqEqual
    <2> QED
      BY <2>1, <2>6
  <1>15. Replace(c, back, one) = one \o xh
    <2>1. c \in Seq(Bytes) /\ Len(c) > 0 /\ Len(back) > 0
      BY <1>4, <1>9
    <2>2. Replace(c, back, one) = one \o Replace(Rest(c, Len(back)), back, one)
      BY <1>b, <1>13, <2>1, ReplaceHead
    <2>3. Rest(c, Len(back)) = xh
      BY <1>4, <1>14
    <2> QED
      BY <1>12, <2>2, <2>3
  <1>16. one \o xh = two \o h
    <2>1. one \in Seq(Bytes)
      BY <1>5
    <2>2. Joins(one, x, h)
      BY <1>1, <1>a, <2>1, JoinsAlike
    <2>3. one \o x = two
      BY <1>2, HexFrontIs, PairConcat
    <2> QED
      BY <1>2, <2>2, <2>3 DEF Joins
  <1> QED
    BY <1>2, <1>11, <1>15, <1>16

\* The literal that a bytea is written as.
LEMMA ByteaToken ==
  ASSUME NEW h \in Seq(HexDigits)
  PROVE  \E t \in Seq(Bytes) :
           /\ t = HexFront \o h \o <<Quote>> /\ Len(t) > 0 /\ t[1] = LetterE /\ t[Len(t)] = Quote
           /\ TokenAt(t, 1) = Read(<<Token("str", <<Backslash, 120>> \o h)>>, Len(t) + 1)
           /\ <<Backslash, 120>> \o h \in Seq(Bytes)
  <1>1. h \in Seq(Bytes)
    BY HexFrontIs, SeqMonotonic
  <1>2. PICK m \in Nat : m = Len(h)
    BY LenProperties
  <1>3. PICK last, f, t, front, esc :
          /\ last = <<Quote>> /\ f = HexFront \o h /\ t = f \o last
          /\ front = <<Backslash, Backslash, 120>> /\ esc = TRUE
    OBVIOUS
  <1>4. last \in Seq(Bytes) /\ Len(last) = 1 /\ last[1] = Quote
    BY <1>3, HexFrontIs
  <1>5. /\ front \in Seq(Bytes) /\ Len(front) = 3 /\ front[1] = Backslash /\ front[2] = Backslash
        /\ front[3] = 120
    BY <1>3, HexFrontIs
  <1>6. f \in Seq(Bytes) /\ Len(f) = 5 + m /\ (\A k \in 1..5 : f[k] = HexFront[k]) /\ \A k \in 1..m : f[5 + k] = h[k]
    <2>1. PICK hf : hf = HexFront
      OBVIOUS
    <2>2. hf \in Seq(Bytes)
      BY <2>1, HexFrontIs
    <2>3. /\ f \in Seq(Bytes) /\ Len(f) = Len(hf) + Len(h) /\ \A k \in 1..Len(hf) : f[k] = hf[k]
          /\ \A k \in 1..Len(h) : f[Len(hf) + k] = h[k]
      BY <1>1, <1>3, <2>1, <2>2, ConcatIs
    <2>4. Len(hf) = 5
      BY <2>1, HexFrontIs
    <2> QED
      BY <1>2, <2>1, <2>3, <2>4
  <1>7. t \in Seq(Bytes) /\ Len(t) = m + 6 /\ (\A k \in 1..5 + m : t[k] = f[k]) /\ t[m + 6] = Quote
    <2>1. last \in Seq(Bytes)
      BY <1>4
    <2>2. f \in Seq(Bytes)
      BY <1>6
    <2>3. /\ t \in Seq(Bytes) /\ Len(t) = Len(f) + Len(last) /\ \A k \in 1..Len(f) : t[k] = f[k]
          /\ \A k \in 1..Len(last) : t[Len(f) + k] = last[k]
      BY <1>3, <2>1, <2>2, ConcatIs
    <2>4. 1 \in 1..Len(last) /\ Len(f) + 1 = m + 6 /\ Len(f) + Len(last) = m + 6
      BY <1>4, <1>6
    <2>5. t[m + 6] = Quote
      BY <1>4, <2>3, <2>4
    <2> QED
      BY <1>6, <2>3, <2>4, <2>5
  <1>8. /\ t[1] = LetterE /\ t[2] = Quote /\ t[3] = Backslash /\ t[4] = Backslash /\ t[5] = 120
    <2>1. \A k \in 1..5 : t[k] = HexFront[k]
      <3>1. \A k \in 1..5 : k \in 1..5 + m
        OBVIOUS
      <3> QED
        BY <1>6, <1>7, <3>1
    <2>2. t[1] = HexFront[1] /\ t[2] = HexFront[2] /\ t[3] = HexFront[3] /\ t[4] = HexFront[4] /\ t[5] = HexFront[5]
      BY <2>1
    <2> QED
      BY <2>2, HexFrontIs
  <1>9. \A k \in 1..m : t[5 + k] = h[k] /\ h[k] # Quote /\ h[k] # Backslash
    <2> SUFFICES ASSUME NEW k \in 1..m PROVE t[5 + k] = h[k] /\ h[k] # Quote /\ h[k] # Backslash
      OBVIOUS
    <2>1. 5 + k \in 1..5 + m
      OBVIOUS
    <2>2. h[k] \in HexDigits
      BY <1>2, ElementOfSeq
    <2> QED
      BY <1>6, <1>7, <2>1, <2>2, HexFrontIs
  <1>10. Close(t, 3, Quote, esc) = <<m + 6>>
    <2>1. PICK three \in Nat, five \in Nat, j \in Nat : three = 3 /\ five = 5 /\ j = m + 6
      OBVIOUS
    <2>2. three \in 1..Len(t) /\ j \in 1..Len(t) /\ five \in 1..j
      BY <1>7, <2>1
    <2>3. t \in Seq(Bytes)
      BY <1>7
    <2>4. ~ClosesAt(t, three, Quote, esc)
      BY <1>8, <2>1, HexFrontIs DEF ClosesAt
    <2>5. Further(t, three, Quote, esc) = five
      <3>1. t[three] = Backslash /\ three < Len(t) /\ three + 2 = five
        BY <1>7, <1>8, <2>1
      <3> QED
        BY <1>3, <3>1 DEF Further
    <2>6. Close(t, three, Quote, esc) = Close(t, five, Quote, esc)
      BY <2>2, <2>3, <2>4, <2>5, CloseHere
    <2>7. ASSUME NEW x \in five..j - 1 PROVE t[x] # Quote /\ t[x] # Backslash
      <3>1. CASE x = 5
        BY <1>8, <3>1, HexFrontIs
      <3>2. CASE x # 5
        <4>1. PICK k \in 1..m : x = 5 + k
          <5>1. x - 5 \in 1..m /\ x = 5 + (x - 5)
            BY <2>1, <3>2
          <5> QED
            BY <5>1
        <4> QED
          BY <1>9, <4>1
      <3> QED
        BY <3>1, <3>2
    <2>8. ClosesAt(t, j, Quote, esc)
      <3>1. ~(j + 1 <= Len(t)) /\ t[j] = Quote
        BY <1>7, <2>1
      <3> QED
        BY <3>1, NoZero, HexFrontIs DEF ClosesAt, Byte
    <2>9. Close(t, five, Quote, esc) = <<j>>
      BY <2>2, <2>3, <2>7, <2>8, CloseRun
    <2> QED
      BY <2>1, <2>6, <2>9
  <1>11. SubSeq(t, 3, (m + 6) - 1) = front \o h
    <2>1. PICK e \in Nat, three \in Nat : e = (m + 6) - 1 /\ three = 3
      OBVIOUS
    <2>2. t \in Seq(Bytes) /\ 1 <= three /\ three <= e + 1 /\ e <= Len(t)
      BY <1>7, <2>1
    <2>3. PICK b, c : b = SubSeq(t, three, e) /\ c = front \o h
      OBVIOUS
    <2>4. b \in Seq(Bytes) /\ Len(b) = e - three + 1 /\ \A k \in 1..e - three + 1 : b[k] = t[three + k - 1]
      <3>1. t \in Seq(Bytes)
        BY <2>2
      <3> QED
        BY <2>2, <2>3, <3>1, SubSeqIs
    <2>5. Len(b) = m + 3 /\ \A k \in 1..m + 3 : b[k] = t[k + 2]
      <3>1. e - three + 1 = m + 3 /\ \A k \in 1..m + 3 : three + k - 1 = k + 2
        BY <2>1
      <3> QED
        BY <2>4, <3>1
    <2>6. /\ c \in Seq(Bytes) /\ Len(c) = 3 + m /\ (\A k \in 1..3 : c[k] = front[k])
          /\ \A k \in 1..m : c[3 + k] = h[k]
      <3>1. front \in Seq(Bytes)
        BY <1>5
      <3>2. /\ c \in Seq(Bytes) /\ Len(c) = Len(front) + Len(h) /\ \A k \in 1..Len(front) : c[k] = front[k]
            /\ \A k \in 1..Len(h) : c[Len(front) + k] = h[k]
        BY <1>1, <2>3, <3>1, ConcatIs
      <3> QED
        BY <1>2, <1>5, <3>2
    <2>7. ASSUME NEW k \in 1..m + 3 PROVE b[k] = c[k]
      <3>1. b[k] = t[k + 2]
        BY <2>5
      <3>2. CASE k \in 1..3
        <4>1. k = 1 \/ k = 2 \/ k = 3
          BY <3>2
        <4>2. c[1] = Backslash /\ c[2] = Backslash /\ c[3] = 120
          <5>1. c[1] = front[1] /\ c[2] = front[2] /\ c[3] = front[3]
            BY <2>6
          <5> QED
            BY <1>5, <5>1
        <4>3. (k = 1 => k + 2 = 3) /\ (k = 2 => k + 2 = 4) /\ (k = 3 => k + 2 = 5)
          OBVIOUS
        <4> QED
          BY <1>8, <3>1, <4>1, <4>2, <4>3
      <3>3. CASE k \notin 1..3
        <4>1. PICK x \in 1..m : k = 3 + x
          <5>1. k - 3 \in 1..m /\ k = 3 + (k - 3)
            BY <3>3
          <5> QED
            BY <5>1
        <4>2. k + 2 = 5 + x
          BY <4>1
        <4>3. t[5 + x] = h[x] /\ c[3 + x] = h[x]
          BY <1>9, <2>6
        <4> QED
          BY <3>1, <4>1, <4>2, <4>3
      <3> QED
        BY <3>2, <3>3
    <2>8. b \in Seq(Bytes) /\ c \in Seq(Bytes) /\ Len(b) = Len(c) /\ \A k \in 1..Len(b) : b[k] = c[k]
      BY <2>4, <2>5, <2>6, <2>7
    <2>9. b = c
      BY <2>8, SeqEqual
    <2> QED
      BY <2>1, <2>3, <2>9
  <1>12. PICK a : a = <<Backslash, 120>> \o h
    OBVIOUS
  <1>13. Literal("str", front \o h, Quote, esc) = Token("str", a)
    <2>1. Replace(Replace(front \o h, <<Quote, Quote>>, <<Quote>>), <<Backslash, Backslash>>, <<Backslash>>) = a
      BY <1>3, <1>12, UnescapedHex
    <2>2. PICK body : body = Replace(front \o h, <<Quote, Quote>>, <<Quote>>)
      OBVIOUS
    <2>3. Literal("str", front \o h, Quote, esc)
            = Token("str", IF esc THEN Replace(body, <<Backslash, Backslash>>, <<Backslash>>) ELSE body)
      BY <2>2 DEF Literal
    <2> QED
      BY <1>3, <2>1, <2>2, <2>3
  <1>14. Quoted(t, "str", 3, Quote, esc) = Read(<<Token("str", a)>>, Len(t) + 1)
    <2>1. PICK j \in Nat : j = m + 6
      OBVIOUS
    <2>2. Close(t, 3, Quote, esc) = <<j>>
      BY <1>10, <2>1
    <2>3. Quoted(t, "str", 3, Quote, esc) = Read(<<Literal("str", SubSeq(t, 3, j - 1), Quote, esc)>>, j + 1)
      BY <2>2, QuotedIs
    <2>4. SubSeq(t, 3, j - 1) = front \o h
      BY <1>11, <2>1
    <2>5. j = Len(t)
      BY <1>7, <2>1
    <2> QED
      BY <1>13, <2>3, <2>4, <2>5
  <1>15. TokenAt(t, 1) = Quoted(t, "str", 3, Quote, TRUE)
    <2>1. EscapedAt(t, 1)
      <3>1. 1 + 1 = 2 /\ 2 <= Len(t)
        BY <1>7
      <3> QED
        BY <1>8, <3>1 DEF EscapedAt, Byte
    <2>2. t \in Seq(Bytes)
      BY <1>7
    <2>3. 1 \in 1..Len(t) /\ 1 + 2 = 3
      BY <1>7
    <2> QED
      BY <2>1, <2>2, <2>3, TokenOf
  <1>16. TokenAt(t, 1) = Read(<<Token("str", a)>>, Len(t) + 1)
    <2>1. Quoted(t, "str", 3, Quote, esc) = Quoted(t, "str", 3, Quote, TRUE)
      BY <1>3
    <2> QED
      BY <1>14, <1>15, <2>1
  <1>17. a \in Seq(Bytes)
    <2>1. PICK two : two = <<Backslash, 120>>
      OBVIOUS
    <2>2. two \in Seq(Bytes)
      BY <2>1, HexFrontIs
    <2> QED
      BY <1>1, <1>12, <2>1, <2>2, ConcatIs
  <1>18. t = HexFront \o h \o <<Quote>>
    BY <1>3
  <1>19. t \in Seq(Bytes) /\ Len(t) > 0 /\ t[1] = LetterE /\ t[Len(t)] = Quote
    BY <1>7, <1>8
  <1> QED
    BY <1>12, <1>16, <1>17, <1>18, <1>19

\* A value that is no exception on its own: either quoted or a number.
Plain(v) ==
  /\ v.ty \notin {"bool", "uuid", "json"}
  /\ v.ty = "f64" => Range(v.of) \subseteq Digits

IsNumber(t) == t \in Seq(Bytes) /\ Len(t) > 0 /\ \A k \in 1..Len(t) : t[k] \in Digits

\* What is written for a value, and what it stands for.
AsNull(v)     == Escaped(v) = Null /\ Denotes(v) = <<Token("name", Null)>>
AsString(v)   == /\ v.of \in Seq(Bytes) /\ Escaped(v) = <<Quote>> \o Doubled(v.of, Quote) \o <<Quote>>
                 /\ Denotes(v) = <<Token("str", v.of)>>
AsBytea(v)    == /\ v.of \in Seq(Bytes) /\ Escaped(v) = HexFront \o Hex(v.of) \o <<Quote>>
                 /\ Denotes(v) = <<Token("str", <<Backslash, 120>> \o Hex(v.of))>>
AsNumber(v)   == IsNumber(Escaped(v)) /\ Denotes(v) = <<Token("num", Escaped(v))>>
AsNegative(v) == /\ v.ty \in IntTypes /\ v.of[1] < 0
                 /\ \E d \in Seq(Bytes) : /\ IsNumber(d) /\ Escaped(v) = <<Minus>> \o d
                                          /\ Denotes(v) = <<Token("op", <<Minus>>), Token("num", d)>>

LEMMA DecimalNumber ==
  ASSUME NEW n \in Nat
  PROVE  IsNumber(Decimal(n))
  <1>1. PICK d : d = Decimal(n)
    OBVIOUS
  <1>2. d \in Seq(Digits) /\ Len(d) > 0 /\ d \in Seq(Bytes)
    BY <1>1, DecimalIs, DecimalBytes
  <1>3. \A k \in 1..Len(d) : d[k] \in Digits
    BY <1>2, ElementOfSeq
  <1> QED
    BY <1>1, <1>2, <1>3 DEF IsNumber

LEMMA EscapedForms ==
  ASSUME NEW v, IsValue(v), Plain(v)
  PROVE  AsNull(v) \/ AsString(v) \/ AsBytea(v) \/ AsNumber(v) \/ AsNegative(v)
  <1>1. CASE v.ty = "none"
    <2>1. v.of = <<>> /\ to_sql(v) = <<>> /\ oid(v) = 0
      BY <1>1 DEF IsValue, to_sql, oid, IntTypes
    <2>2. Escaped(v) = Null
      BY <2>1 DEF Escaped
    <2>3. Denotes(v) = <<Token("name", Null)>>
      BY <1>1 DEF Denotes, IntTypes
    <2> QED
      BY <2>2, <2>3 DEF AsNull
  <1>2. CASE v.ty = "text"
    <2>1. v.of \in Seq(Bytes)
      BY <1>2 DEF IsValue, TextTypes
    <2>2. to_sql(v) = v.of /\ oid(v) = 25
      BY <1>2 DEF to_sql, oid, IntTypes
    <2>3. Escaped(v) = quote_string(v.of)
      BY <2>2 DEF Escaped
    <2>4. Denotes(v) = <<Token("str", v.of)>>
      BY <1>2, <2>2 DEF Denotes, IntTypes
    <2> QED
      BY <2>1, <2>3, <2>4, QuoteStringIs DEF AsString
  <1>3. CASE v.ty = "bytea"
    <2>1. v.of \in Seq(Bytes)
      BY <1>3 DEF IsValue
    <2>2. to_sql(v) = v.of /\ oid(v) = 17
      BY <1>3 DEF to_sql, oid, IntTypes
    <2>3. PICK h : h = Hex(v.of)
      OBVIOUS
    <2>4. Escaped(v) = HexFront \o h \o <<Quote>>
      BY <2>2, <2>3 DEF Escaped, HexFront
    <2>5. Denotes(v) = <<Token("str", <<Backslash, 120>> \o h)>>
      BY <1>3, <2>3 DEF Denotes, IntTypes
    <2> QED
      BY <2>1, <2>3, <2>4, <2>5 DEF AsBytea
  <1>4. CASE v.ty = "f64"
    <2>1. v.of \in Seq(Bytes) /\ v.of # <<>>
      BY <1>4 DEF IsValue, TextTypes
    <2>2. to_sql(v) = v.of /\ oid(v) = 701
      BY <1>4 DEF to_sql, oid, IntTypes
    <2>3. Escaped(v) = v.of
      BY <2>2 DEF Escaped
    <2>4. Range(v.of) \subseteq Digits
      BY <1>4 DEF Plain
    <2>5. Denotes(v) = <<Token("num", v.of)>>
      BY <1>4, <2>4 DEF Denotes, IntTypes
    <2>6. IsNumber(v.of)
      <3>1. PICK t : t = v.of
        OBVIOUS
      <3>2. t \in Seq(Bytes) /\ t # <<>> /\ Range(t) \subseteq Digits
        BY <2>1, <2>4, <3>1
      <3>3. Len(t) > 0
        <4>1. Len(t) \in Nat /\ (Len(t) = 0 => t = <<>>)
          BY <3>2, EmptySeq, LenProperties
        <4> QED
          BY <3>2, <4>1
      <3>4. ASSUME NEW k \in 1..Len(t) PROVE t[k] \in Digits
        <4>1. k \in DOMAIN t
          BY <3>2, LenProperties
        <4>2. t[k] \in Range(t)
          BY <4>1 DEF Range
        <4> QED
          BY <3>2, <4>2
      <3> QED
        BY <3>1, <3>2, <3>3, <3>4 DEF IsNumber
    <2> QED
      BY <2>3, <2>5, <2>6 DEF AsNumber
  <1>5. CASE v.ty \in IntTypes
    <2>1. PICK x \in Int : x = v.of[1]
      BY <1>5, IntValue
    <2>2. oid(v) \in {21, 23}
      BY <1>5 DEF oid, IntTypes
    <2>3. Escaped(v) = to_sql(v)
      BY <2>2 DEF Escaped
    <2>4. CASE x < 0
      <3>1. PICK d : d = Decimal(-x)
        OBVIOUS
      <3>2. -x \in Nat
        BY <2>4
      <3>3. IsNumber(d)
        BY <3>1, <3>2, DecimalNumber
      <3>4. d \in Seq(Bytes)
        BY <3>3 DEF IsNumber
      <3>5. to_sql(v) = <<Minus>> \o d
        BY <1>5, <2>1, <2>4, <3>1 DEF to_sql, IntTypes
      <3>6. Denotes(v) = <<Token("op", <<Minus>>), Token("num", d)>>
        BY <1>5, <2>1, <2>4, <3>1 DEF Denotes, IntTypes
      <3> QED
        BY <1>5, <2>1, <2>3, <2>4, <3>3, <3>4, <3>5, <3>6 DEF AsNegative
    <2>5. CASE ~(x < 0)
      <3>1. PICK d : d = Decimal(x)
        OBVIOUS
      <3>2. x \in Nat
        BY <2>5
      <3>3. IsNumber(d)
        BY <3>1, <3>2, DecimalNumber
      <3>5. to_sql(v) = d
        BY <1>5, <2>1, <2>5, <3>1 DEF to_sql, IntTypes
      <3>6. Denotes(v) = <<Token("num", d)>>
        BY <1>5, <2>1, <2>5, <3>1 DEF Denotes, IntTypes
      <3> QED
        BY <2>3, <3>3, <3>5, <3>6 DEF AsNumber
    <2> QED
      BY <2>4, <2>5
  <1> QED
    BY <1>1, <1>2, <1>3, <1>4, <1>5, ValueKinds DEF Plain, IntTypes

LEMMA DenotesType ==
  ASSUME NEW v, IsValue(v)
  PROVE  Denotes(v) \in Seq(Tokens)
  <1>1. "str" \in Kinds /\ "num" \in Kinds /\ "op" \in Kinds /\ "name" \in Kinds
    BY DEF Kinds
  <1>2. CASE v.ty \in {"bool", "uuid", "json"}
    <2>1. Denotes(v) = <<Token("str", to_sql(v))>>
      BY <1>2 DEF Denotes, IntTypes
    <2> QED
      BY <1>1, <2>1, ToSqlType, PieceType
  <1>3. CASE v.ty = "f64" /\ ~(Range(v.of) \subseteq Digits)
    <2>1. Denotes(v) = <<Token("str", to_sql(v))>>
      BY <1>3 DEF Denotes, IntTypes
    <2> QED
      BY <1>1, <2>1, ToSqlType, PieceType
  <1>4. CASE Plain(v)
    <2>1. CASE AsNull(v)
      <3>1. 78 \in Bytes /\ 85 \in Bytes /\ 76 \in Bytes
        BY DEF Bytes
      <3>2. Null \in Seq(Bytes)
        BY <3>1 DEF Null
      <3> QED
        BY <1>1, <2>1, <3>2, PieceType DEF AsNull
    <2>2. CASE AsString(v)
      BY <1>1, <2>2, PieceType DEF AsString
    <2>3. CASE AsBytea(v)
      <3>1. PICK h : h = Hex(v.of)
        OBVIOUS
      <3>2. h \in Seq(HexDigits)
        BY <2>3, <3>1, HexType DEF AsBytea
      <3>3. PICK t \in Seq(Bytes) : <<Backslash, 120>> \o h \in Seq(Bytes)
        BY <3>2, ByteaToken
      <3> QED
        BY <1>1, <2>3, <3>1, <3>3, PieceType DEF AsBytea
    <2>4. CASE AsNumber(v)
      BY <1>1, <2>4, PieceType DEF AsNumber, IsNumber
    <2>5. CASE AsNegative(v)
      <3>1. PICK d \in Seq(Bytes) : Denotes(v) = <<Token("op", <<Minus>>), Token("num", d)>>
        BY <2>5 DEF AsNegative
      <3>2. <<Minus>> \in Seq(Bytes)
        BY DEF Minus, Bytes
      <3>3. PICK a \in Tokens, b \in Tokens : a = Token("op", <<Minus>>) /\ b = Token("num", d)
        BY <1>1, <3>2, PieceType
      <3>4. <<a, b>> \in Seq(Tokens)
        OBVIOUS
      <3> QED
        BY <3>1, <3>3, <3>4
    <2> QED
      BY <1>4, <2>1, <2>2, <2>3, <2>4, <2>5, EscapedForms
  <1> QED
    BY <1>2, <1>3, <1>4 DEF Plain

LEMMA EscapedLex ==
  ASSUME NEW v, NEW y \in Seq(Bytes), IsValue(v), Plain(v), Byte(y, 1) \notin NameBytes \cup {Quote}
  PROVE  Lex(Escaped(v) \o y) = Denotes(v) \o Lex(y)
  <1>1. Byte(y, 1) # Quote /\ Byte(y, 1) \notin NameBytes /\ Byte(y, 1) \notin Digits
    BY Classes
  <1>2. CASE AsNull(v)
    BY <1>1, <1>2, NullLex DEF AsNull
  <1>3. CASE AsString(v)
    <2>1. PICK x : x = v.of
      OBVIOUS
    <2>2. x \in Seq(Bytes)
      BY <1>3, <2>1 DEF AsString
    <2>3. PICK t \in Seq(Bytes) :
            /\ t = <<Quote>> \o Doubled(x, Quote) \o <<Quote>> /\ Len(t) >= 2 /\ t[1] = Quote /\ t[Len(t)] = Quote
            /\ TokenAt(t, 1) = Read(<<Token("str", x)>>, Len(t) + 1)
      <3>1. Quote \in {Quote, DQuote}
        OBVIOUS
      <3> QED
        BY <2>2, <3>1, QuotedToken
    <2>4. Len(t) > 0
      BY <2>3, LenProperties
    <2>5. Lex(t \o y) = <<Token("str", x)>> \o Lex(y)
      BY <1>1, <2>2, <2>3, <2>4, LiteralLex
    <2> QED
      BY <1>3, <2>1, <2>3, <2>5 DEF AsString
  <1>4. CASE AsBytea(v)
    <2>1. PICK h, a : h = Hex(v.of) /\ a = <<Backslash, 120>> \o h
      OBVIOUS
    <2>2. h \in Seq(HexDigits)
      BY <1>4, <2>1, HexType DEF AsBytea
    <2>3. PICK t \in Seq(Bytes) :
           /\ t = HexFront \o h \o <<Quote>> /\ Len(t) > 0 /\ t[1] = LetterE /\ t[Len(t)] = Quote
           /\ TokenAt(t, 1) = Read(<<Token("str", a)>>, Len(t) + 1)
           /\ a \in Seq(Bytes)
      BY <2>1, <2>2, ByteaToken
    <2>a. a \in Seq(Bytes)
      BY <2>3
    <2>5. Lex(t \o y) = <<Token("str", a)>> \o Lex(y)
      BY <1>1, <2>3, <2>a, LiteralLex
    <2> QED
      BY <1>4, <2>1, <2>3, <2>5 DEF AsBytea
  <1>5. CASE AsNumber(v)
    BY <1>1, <1>5, NumLex DEF AsNumber, IsNumber
  <1>6. CASE AsNegative(v)
    <2>1. PICK d \in Seq(Bytes) : /\ IsNumber(d) /\ Escaped(v) = <<Minus>> \o d
                                  /\ Denotes(v) = <<Token("op", <<Minus>>), Token("num", d)>>
      BY <1>6 DEF AsNegative
    <2>2. PICK u, one : u = d \o y /\ one = <<Minus>>
      OBVIOUS
    <2>3. one \in Seq(Bytes)
      BY <2>2 DEF Minus, Bytes
    <2>4. u \in Seq(Bytes)
      BY <2>2, ConcatIs
    <2>5. Byte(u, 1) # Minus
      <3>1. 1 \in 1..Len(d) /\ d[1] \in Digits
        <4>1. 1 \in 1..Len(d)
          BY <2>1, LenProperties DEF IsNumber
        <4> QED
          BY <2>1, <4>1 DEF IsNumber
      <3>2. Byte(u, 1) = d[1]
        BY <2>2, <3>1, ByteConcat
      <3> QED
        BY <3>1, <3>2, Classes
    <2>6. Lex(<<Minus>> \o u) = <<Token("op", <<Minus>>)>> \o Lex(u)
      BY <2>4, <2>5, MinusLex
    <2>7. Lex(u) = <<Token("num", d)>> \o Lex(y)
      BY <1>1, <2>1, <2>2, NumLex DEF IsNumber
    <2>8. Escaped(v) \o y = <<Minus>> \o u
      <3>1. Joins(one, d, y)
        BY <2>3, JoinsAlike
      <3> QED
        BY <2>1, <2>2, <3>1 DEF Joins
    <2>9. PICK a, b, l : a = Token("op", <<Minus>>) /\ b = Token("num", d) /\ l = Lex(y)
      OBVIOUS
    <2>10. a \in Tokens /\ b \in Tokens /\ l \in Seq(Tokens)
      <3>1. "num" \in Kinds /\ "op" \in Kinds
        BY DEF Kinds
      <3> QED
        BY <2>2, <2>3, <2>9, <3>1, PieceType, LexType
    <2>11. <<a>> \o (<<b>> \o l) = <<a, b>> \o l
      <3>1. PICK x, z : x = <<a>> /\ z = <<b>>
        OBVIOUS
      <3>2. x \in Seq(Tokens)
        BY <2>10, <3>1
      <3>3. z \in Seq(Tokens)
        BY <2>10, <3>1
      <3>4. l \in Seq(Tokens)
        BY <2>10
      <3>5. Joins(x, z, l)
        BY <3>2, <3>3, <3>4, JoinsAlike
      <3>6. x \o z = <<a, b>>
        BY <2>10, <3>1, PairConcat
      <3> QED
        BY <3>1, <3>5, <3>6 DEF Joins
    <2> QED
      BY <2>1, <2>6, <2>7, <2>8, <2>9, <2>11
  <1> QED
    BY <1>2, <1>3, <1>4, <1>5, <1>6, EscapedForms

-----------------------------------------------------------------------------
(* The text after some of the replacements *)

\* A place of the statement where one of the parameters after the n-th is put in.
Replaced(s, list, n, k) == k \in Marked(s) /\ \E m \in n + 1..Len(list) : NumberAt(s, k) = Decimal(m)

\* The parameters from the last to the one after the n-th put in, all at once.
Substituting(s, list, n) ==
  [k \in DOMAIN s |-> IF Replaced(s, list, n, k)
                        THEN Read(Escaped(list[NumberOf(NumberAt(s, k))]), MarkEnd(s, k))
                      ELSE Read(<<s[k]>>, k + 1)]

Substituted(s, list, n) == From(Len(s), Substituting(s, list, n))

LEMMA MarkedIs ==
  ASSUME NEW s \in Seq(Bytes), NEW k \in Marked(s)
  PROVE  /\ k \in 1..Len(s) /\ s[k] = Dollar /\ k + 1 <= Len(s) /\ Byte(s, k + 1) \in Digits
         /\ MarkEnd(s, k) \in k + 2..Len(s) + 1 /\ Byte(s, MarkEnd(s, k)) \notin Digits
         /\ \A m \in k + 1..MarkEnd(s, k) - 1 : s[m] \in Digits
  <1>1. PICK n \in Nat : n = Len(s)
    BY LenProperties
  <1>2. k \in 1..n /\ s[k] = Dollar /\ Byte(s, k + 1) \in Digits
    BY <1>1, LenProperties DEF Marked
  <1>3. k + 1 <= n
    <2> SUFFICES ASSUME ~(k + 1 <= n) PROVE FALSE
      BY <1>1, <1>2
    <2>1. Byte(s, k + 1) = 0
      BY <1>1 DEF Byte
    <2> QED
      BY <1>2, <2>1, NoZero
  <1>4. PICK f, p : f \in 1..Len(s) + 1 /\ f = k + 1 /\ p = MarkEnd(s, k)
    <2>1. k + 1 \in 1..Len(s) + 1
      BY <1>1, <1>2
    <2> QED
      BY <2>1
  <1>a. f \in 1..Len(s) + 1
    BY <1>4
  <1>5. p = Past(s, f, Digits)
    BY <1>4 DEF MarkEnd
  <1>6. p \in f..Len(s) + 1 /\ Byte(s, p) \notin Digits /\ \A m \in f..p - 1 : Byte(s, m) \in Digits
    BY <1>5, <1>a, NoZero, PastIs
  <1>7. p # f
    BY <1>2, <1>4, <1>6
  <1>8. p \in k + 2..Len(s) + 1
    BY <1>1, <1>2, <1>4, <1>6, <1>7
  <1>9. ASSUME NEW m \in k + 1..p - 1 PROVE s[m] \in Digits
    <2>1. m \in f..p - 1 /\ m <= Len(s)
      BY <1>1, <1>2, <1>4, <1>8
    <2> QED
      BY <1>6, <2>1 DEF Byte
  <1> QED
    BY <1>1, <1>2, <1>3, <1>4, <1>6, <1>8, <1>9

\* Which parameter it is.
LEMMA ReplacedIs ==
  ASSUME NEW s \in Seq(Bytes), NEW list, IsList(list), NEW n \in Nat, NEW k, Replaced(s, list, n, k)
  PROVE  \E m \in n + 1..Len(list) : /\ NumberAt(s, k) = Decimal(m) /\ m \in 1..Len(list)
                                     /\ Substituting(s, list, n)[k] = Read(Escaped(list[m]), MarkEnd(s, k))
                                     /\ IsValue(list[m]) /\ k \in 1..Len(s) /\ k \in Marked(s)
  <1>1. PICK z \in Nat : z = Len(list)
    BY ListLength
  <1>2. PICK m \in n + 1..z : NumberAt(s, k) = Decimal(m)
    BY <1>1 DEF Replaced
  <1>3. m \in Nat /\ m \in 1..z
    BY <1>1
  <1>4. NumberOf(NumberAt(s, k)) = m
    BY <1>2, <1>3, DecimalIs
  <1>5. k \in Marked(s)
    BY DEF Replaced
  <1>6. k \in 1..Len(s) /\ k \in DOMAIN s
    BY <1>5, MarkedIs, LenProperties
  <1>7. Substituting(s, list, n)[k] = Read(Escaped(list[m]), MarkEnd(s, k))
    BY <1>4, <1>6 DEF Substituting
  <1>8. IsValue(list[m])
    BY <1>1, <1>3, ListLength DEF IsList
  <1> QED
    BY <1>1, <1>2, <1>3, <1>5, <1>6, <1>7, <1>8

LEMMA Unreplaced ==
  ASSUME NEW s \in Seq(Bytes), NEW list, NEW n, NEW k \in 1..Len(s), ~Replaced(s, list, n, k)
  PROVE  Substituting(s, list, n)[k] = Read(<<s[k]>>, k + 1)
  <1>1. k \in DOMAIN s
    BY LenProperties
  <1> QED
    BY <1>1 DEF Substituting

LEMMA SubstitutedType ==
  ASSUME NEW s \in Seq(Bytes), NEW list, IsList(list), NEW n \in Nat
  PROVE  /\ Advances(Len(s), Substituting(s, list, n))
         /\ \A k \in 1..Len(s) + 1 : Substituted(s, list, n)[k] \in Seq(Bytes)
         /\ Substituted(s, list, n)[Len(s) + 1] = <<>>
         /\ \A k \in 1..Len(s) :
              Substituted(s, list, n)[k]
                = Substituting(s, list, n)[k].piece \o Substituted(s, list, n)[Substituting(s, list, n)[k].next]
  <1>1. PICK l, read : l \in Nat /\ l = Len(s) /\ read = Substituting(s, list, n)
    BY LenProperties
  <1>2. ASSUME NEW k \in 1..l PROVE read[k].next \in k + 1..l + 1 /\ read[k].piece \in Seq(Bytes)
    <2>1. CASE Replaced(s, list, n, k)
      <3>1. PICK m \in n + 1..Len(list) : /\ read[k] = Read(Escaped(list[m]), MarkEnd(s, k))
                                          /\ IsValue(list[m]) /\ k \in Marked(s)
        BY <1>1, <2>1, ReplacedIs
      <3>2. read[k].piece = Escaped(list[m]) /\ read[k].next = MarkEnd(s, k)
        BY <3>1 DEF Read
      <3>3. MarkEnd(s, k) \in k + 2..l + 1
        BY <1>1, <3>1, MarkedIs
      <3>4. MarkEnd(s, k) \in k + 1..l + 1
        BY <3>3
      <3> QED
        BY <3>1, <3>2, <3>4, EscapedType
    <2>2. CASE ~Replaced(s, list, n, k)
      <3>1. read[k] = Read(<<s[k]>>, k + 1)
        BY <1>1, <2>2, Unreplaced
      <3>2. PICK c \in Bytes : c = s[k]
        BY <1>1, ElementOfSeq
      <3>3. <<c>> \in Seq(Bytes)
        OBVIOUS
      <3>4. read[k].piece = <<c>> /\ read[k].next = k + 1
        BY <3>1, <3>2 DEF Read
      <3>5. k + 1 \in k + 1..l + 1
        BY <1>1
      <3> QED
        BY <3>3, <3>4, <3>5
    <2> QED
      BY <2>1, <2>2
  <1>a. l \in Nat
    BY <1>1
  <1>3. Advances(l, read)
    BY <1>2 DEF Advances
  <1>4. \A k \in 1..l + 1 : From(l, read)[k] \in Seq(Bytes)
    BY <1>2, <1>3, <1>a, FromType
  <1>5. /\ From(l, read)[l + 1] = <<>>
        /\ \A k \in 1..l : From(l, read)[k] = read[k].piece \o From(l, read)[read[k].next]
    BY <1>3, <1>a, FromStep
  <1> QED
    BY <1>1, <1>3, <1>4, <1>5 DEF Substituted

\* The two kinds of places.
LEMMA SubstitutedStep ==
  ASSUME NEW s \in Seq(Bytes), NEW list, IsList(list), NEW n \in Nat, NEW k \in 1..Len(s)
  PROVE  /\ \A m \in n + 1..Len(list) :
              (k \in Marked(s) /\ NumberAt(s, k) = Decimal(m)) =>
                Substituted(s, list, n)[k] = Escaped(list[m]) \o Substituted(s, list, n)[MarkEnd(s, k)]
         /\ ~Replaced(s, list, n, k) =>
              Substituted(s, list, n)[k] = <<s[k]>> \o Substituted(s, list, n)[k + 1]
  <1>1. PICK z \in Nat : z = Len(list)
    BY ListLength
  <1>2. PICK f, r : f = Substituted(s, list, n) /\ r = Substituting(s, list, n)[k]
    OBVIOUS
  <1>3. f[k] = r.piece \o f[r.next]
    BY <1>2, SubstitutedType
  <1>4. ASSUME NEW m \in n + 1..z, k \in Marked(s), NumberAt(s, k) = Decimal(m)
        PROVE  f[k] = Escaped(list[m]) \o f[MarkEnd(s, k)]
    <2>1. Replaced(s, list, n, k)
      BY <1>1, <1>4 DEF Replaced
    <2>2. PICK j \in n + 1..z : /\ NumberAt(s, k) = Decimal(j)
                                /\ r = Read(Escaped(list[j]), MarkEnd(s, k))
      BY <1>1, <1>2, <2>1, ReplacedIs
    <2>3. j \in Nat /\ m \in Nat
      BY <1>1
    <2>4. j = m
      BY <1>4, <2>2, <2>3, DecimalIs
    <2>5. r.piece = Escaped(list[m]) /\ r.next = MarkEnd(s, k)
      BY <2>2, <2>4 DEF Read
    <2> QED
      BY <1>3, <2>5
  <1>5. ASSUME ~Replaced(s, list, n, k) PROVE f[k] = <<s[k]>> \o f[k + 1]
    <2>1. r = Read(<<s[k]>>, k + 1)
      BY <1>2, <1>5, Unreplaced
    <2>2. r.piece = <<s[k]>> /\ r.next = k + 1
      BY <2>1 DEF Read
    <2> QED
      BY <1>3, <2>2
  <1> QED
    BY <1>1, <1>2, <1>4, <1>5

LEMMA SubstitutedAt ==
  ASSUME NEW s \in Seq(Bytes), NEW list, IsList(list), NEW n \in Nat, NEW k \in Marked(s),
         NEW m \in n + 1..Len(list), NumberAt(s, k) = Decimal(m)
  PROVE  Substituted(s, list, n)[k] = Escaped(list[m]) \o Substituted(s, list, n)[MarkEnd(s, k)]
  <1>1. k \in 1..Len(s)
    BY MarkedIs
  <1>2. \A j \in n + 1..Len(list) :
          (k \in Marked(s) /\ NumberAt(s, k) = Decimal(j)) =>
            Substituted(s, list, n)[k] = Escaped(list[j]) \o Substituted(s, list, n)[MarkEnd(s, k)]
    BY <1>1, SubstitutedStep
  <1> QED
    BY <1>2

\* Where nothing is replaced, the statement itself stands.
Untouched(s, list, n, k, e) == \A j \in k..e - 1 : ~Replaced(s, list, n, j)

LEMMA Stretch ==
  ASSUME NEW s \in Seq(Bytes), NEW list, IsList(list), NEW n \in Nat, NEW e \in 1..Len(s) + 1,
         NEW from \in 1..e, Untouched(s, list, n, from, e)
  PROVE  Substituted(s, list, n)[from] = SubSeq(s, from, e - 1) \o Substituted(s, list, n)[e]
  <1>1. PICK l, f : l \in Nat /\ l = Len(s) /\ f = Substituted(s, list, n)
    BY LenProperties
  <1>2. PICK d \in Nat : d = e - 1
    BY <1>1
  <1> DEFINE Goal(k) == k >= from => f[k] = SubSeq(s, k, d) \o f[e]
  <1> DEFINE S == {k \in 1..d + 1 : Goal(k)}
  <1>3. d + 1 \in S
    <2>1. SubSeq(s, d + 1, d) = <<>>
      <3>1. PICK b : b = SubSeq(s, d + 1, d)
        OBVIOUS
      <3>2. d + 1 \in Nat /\ 1 <= d + 1 /\ d + 1 <= d + 1 /\ d <= Len(s)
        BY <1>1, <1>2
      <3>3. b \in Seq(Bytes) /\ Len(b) = d - (d + 1) + 1
        BY <3>1, <3>2, SubSeqIs
      <3>4. b \in Seq(Bytes) /\ Len(b) = 0
        BY <3>3
      <3> QED
        BY <3>1, <3>4, EmptySeq
    <2>2. f[e] \in Seq(Bytes)
      BY <1>1, SubstitutedType
    <2>3. <<>> \o f[e] = f[e]
      BY <2>2, ConcatEmptySeq
    <2>4. d + 1 = e /\ d + 1 \in 1..d + 1
      BY <1>1, <1>2
    <2>5. f[d + 1] = f[e]
      BY <2>4
    <2> QED
      BY <2>1, <2>3, <2>4, <2>5, Zenon
  <1>4. ASSUME NEW k \in 1..d, \A j \in k + 1..d + 1 : j \in S PROVE k \in S
    <2> SUFFICES ASSUME k >= from PROVE f[k] = SubSeq(s, k, d) \o f[e]
      BY <1>1, <1>2
    <2>1. k \in from..e - 1 /\ k \in 1..Len(s) /\ k \in 1..l
      BY <1>1, <1>2
    <2>2. ~Replaced(s, list, n, k)
      BY <2>1 DEF Untouched
    <2>3. f[k] = <<s[k]>> \o f[k + 1]
      BY <1>1, <2>1, <2>2, SubstitutedStep
    <2>4. f[k + 1] = SubSeq(s, k + 1, d) \o f[e]
      <3>1. k + 1 \in k + 1..d + 1 /\ k + 1 >= from
        BY <1>1, <2>1
      <3>2. k + 1 \in S
        BY <1>4, <3>1
      <3> QED
        BY <3>1, <3>2
    <2>5. PICK one, a, b, y : one = <<s[k]>> /\ a = SubSeq(s, k + 1, d) /\ b = SubSeq(s, k, d) /\ y = f[e]
      OBVIOUS
    <2>6. PICK c \in Bytes : c = s[k]
      BY <2>1, ElementOfSeq
    <2>7. one \in Seq(Bytes) /\ Len(one) = 1 /\ one[1] = c
      BY <2>5, <2>6
    <2>8. PICK j \in Nat : j = k + 1
      OBVIOUS
    <2>9. a \in Seq(Bytes) /\ Len(a) = d - j + 1 /\ \A x \in 1..d - j + 1 : a[x] = s[j + x - 1]
      <3>1. 1 <= j /\ j <= d + 1 /\ d <= Len(s)
        BY <1>1, <1>2, <2>8
      <3> QED
        BY <2>5, <2>8, <3>1, SubSeqIs
    <2>10. b \in Seq(Bytes) /\ Len(b) = d - k + 1 /\ \A x \in 1..d - k + 1 : b[x] = s[k + x - 1]
      <3>1. k \in Nat /\ 1 <= k /\ k <= d + 1 /\ d <= Len(s)
        BY <1>1, <1>2
      <3> QED
        BY <2>5, <3>1, SubSeqIs
    <2>11. y \in Seq(Bytes)
      BY <1>1, <2>5, SubstitutedType
    <2>12. one \o a = b
      <3>1. PICK t : t = one \o a
        OBVIOUS
      <3>2. one \in Seq(Bytes)
        BY <2>7
      <3>3. a \in Seq(Bytes)
        BY <2>9
      <3>4. /\ t \in Seq(Bytes) /\ Len(t) = Len(one) + Len(a) /\ \A x \in 1..Len(one) : t[x] = one[x]
            /\ \A x \in 1..Len(a) : t[Len(one) + x] = a[x]
        BY <3>1, <3>2, <3>3, ConcatIs
      <3>5. Len(t) = d - k + 1 /\ t[1] = s[k]
        <4>1. 1 \in 1..Len(one) /\ 1 + (d - j + 1) = d - k + 1
          BY <1>2, <2>7, <2>8
        <4> QED
          BY <2>6, <2>7, <2>9, <3>4, <4>1
      <3>6. ASSUME NEW x \in 1..d - k + 1 PROVE t[x] = b[x]
        <4>1. b[x] = s[k + x - 1]
          BY <2>10
        <4>2. CASE x = 1
          <5>1. k + x - 1 = k
            BY <4>2
          <5> QED
            BY <3>5, <4>1, <4>2, <5>1
        <4>3. CASE x # 1
          <5>1. PICK z \in 1..d - j + 1 : x = 1 + z
            <6>1. x - 1 \in 1..d - j + 1 /\ x = 1 + (x - 1)
              BY <2>8, <4>3
            <6> QED
              BY <6>1
          <5>2. j + z - 1 = k + x - 1
            BY <2>8, <5>1
          <5>3. t[1 + z] = a[z] /\ a[z] = s[j + z - 1]
            BY <2>7, <2>9, <3>4
          <5> QED
            BY <4>1, <5>1, <5>2, <5>3
        <4> QED
          BY <4>2, <4>3
      <3>7. t \in Seq(Bytes) /\ b \in Seq(Bytes) /\ Len(t) = Len(b) /\ \A x \in 1..Len(t) : t[x] = b[x]
        BY <2>10, <3>4, <3>5, <3>6
      <3>8. t = b
        BY <3>7, SeqEqual
      <3> QED
        BY <3>1, <3>8
    <2>13. one \o (a \o y) = (one \o a) \o y
      <3>1. one \in Seq(Bytes)
        BY <2>7
      <3>2. a \in Seq(Bytes)
        BY <2>9
      <3>3. Joins(one, a, y)
        BY <2>11, <3>1, <3>2, JoinsAlike
      <3> QED
        BY <3>3 DEF Joins
    <2> QED
      BY <2>3, <2>4, <2>5, <2>12, <2>13
  <1>5. 1..d + 1 \subseteq S
    <2> HIDE DEF S
    <2> QED
      BY <1>3, <1>4, DownInduction
  <1>6. from \in S
    <2>1. from \in 1..d + 1
      BY <1>1, <1>2
    <2> QED
      BY <1>5, <2>1
  <1>7. from >= from
    BY <1>1
  <1>8. f[from] = SubSeq(s, from, d) \o f[e]
    BY <1>6, <1>7
  <1> QED
    BY <1>1, <1>2, <1>8

\* The first byte of what follows a place.
LEMMA FirstIs ==
  ASSUME NEW s \in Seq(Bytes), NEW list, IsList(list), NEW n \in Nat, NEW k \in 1..Len(s) + 1,
         ~Replaced(s, list, n, k)
  PROVE  Byte(Substituted(s, list, n)[k], 1) = Byte(s, k)
  <1>1. PICK l, f : l \in Nat /\ l = Len(s) /\ f = Substituted(s, list, n)
    BY LenProperties
  <1>2. CASE k = l + 1
    <2>1. f[k] = <<>>
      BY <1>1, <1>2, SubstitutedType
    <2>2. Len(f[k]) = 0
      BY <2>1
    <2>3. ~(1 <= Len(f[k])) /\ ~(k <= Len(s))
      BY <1>1, <1>2, <2>2
    <2> QED
      BY <1>1, <2>3 DEF Byte
  <1>3. CASE k # l + 1
    <2>1. k \in 1..Len(s) /\ k \in 1..l
      BY <1>1, <1>3
    <2>2. f[k] = <<s[k]>> \o f[k + 1]
      BY <1>1, <2>1, SubstitutedStep
    <2>3. PICK one, y, c : one = <<s[k]>> /\ y = f[k + 1] /\ c = s[k]
      OBVIOUS
    <2>4. c \in Bytes
      BY <2>1, <2>3, ElementOfSeq
    <2>5. one \in Seq(Bytes) /\ Len(one) = 1 /\ one[1] = c
      BY <2>3, <2>4
    <2>6. y \in Seq(Bytes)
      <3>1. k + 1 \in 1..Len(s) + 1
        BY <1>1, <2>1
      <3> QED
        BY <1>1, <2>3, <3>1, SubstitutedType
    <2>7. Byte(one \o y, 1) = c
      <3>1. one \in Seq(Bytes)
        BY <2>5
      <3>2. 1 \in 1..Len(one)
        BY <2>5
      <3>3. Byte(one \o y, 1) = one[1]
        BY <2>6, <3>1, <3>2, ByteConcat
      <3> QED
        BY <2>5, <3>3
    <2>8. Byte(s, k) = c
      BY <1>1, <2>1, <2>3 DEF Byte
    <2> QED
      BY <1>1, <2>2, <2>3, <2>7, <2>8
  <1> QED
    BY <1>2, <1>3

\* A number is not less than one that its digits begin with.
LEMMA PrefixNumber ==
  ASSUME NEW t \in Seq(Digits), NEW d \in Seq(Digits), Len(d) <= Len(t), Same(Len(d), d, t)
  PROVE  NumberOf(d) <= NumberOf(t)
  <1>1. Digits \subseteq Int
    BY DEF Digits
  <1>2. PICK a \in Seq(Int), b \in Seq(Int) : a = t /\ b = d
    <2>1. t \in Seq(Int) /\ d \in Seq(Int)
      BY <1>1, SeqMonotonic
    <2> QED
      BY <2>1
  <1>3. PICK n \in Nat, m \in Nat : n = Len(t) /\ m = Len(d)
    BY LenProperties
  <1>4. PICK f : Counted(a, f, Len(a)) /\ NumberOf(a) = f[Len(a)] /\ NumberOf(a) \in Int
    BY NumberCounted
  <1>5. PICK g : Counted(b, g, Len(b)) /\ NumberOf(b) = g[Len(b)] /\ NumberOf(b) \in Int
    BY NumberCounted
  <1>6. Counted(t, f, n) /\ NumberOf(t) = f[n] /\ Counted(d, g, m) /\ NumberOf(d) = g[m]
    BY <1>2, <1>3, <1>4, <1>5
  <1>7. f[m] = g[m]
    <2>1. Counted(t, f, m)
      <3>1. \A k \in 1..m : k \in 1..n
        BY <1>3
      <3> QED
        BY <1>6, <3>1 DEF Counted
    <2>2. Same(m, t, d)
      BY <1>3 DEF Same
    <2>3. Counted(d, g, m)
      BY <1>6
    <2> QED
      BY <2>1, <2>2, <2>3, CountedAgree
  <1>8. \A k \in 1..n : t[k] \in 48..57
    <2>1. \A k \in 1..n : t[k] \in Digits
      BY <1>3, ElementOfSeq
    <2> QED
      BY <2>1 DEF Digits
  <1> DEFINE S == {x \in Nat : x <= n => f[x] \in Nat /\ (x >= m => f[x] >= f[m])}
  <1>9. f[0] = 0 /\ \A k \in 1..n : f[k] = 10 * f[k - 1] + t[k] - 48
    BY <1>6 DEF Counted
  <1>10. 0 \in S
    <2>1. 0 >= m => f[0] >= f[m]
      <3> SUFFICES ASSUME 0 >= m PROVE f[0] >= f[m]
        OBVIOUS
      <3>1. m = 0
        BY <1>3
      <3> QED
        BY <1>9, <3>1
    <2> QED
      BY <1>9, <2>1
  <1>11. ASSUME NEW x \in Nat, x \in S PROVE x + 1 \in S
    <2> SUFFICES ASSUME x + 1 <= n PROVE f[x + 1] \in Nat /\ (x + 1 >= m => f[x + 1] >= f[m])
      <3>1. x + 1 \in Nat
        OBVIOUS
      <3> QED
        BY <3>1, Zenon
    <2>1. x <= n
      BY <1>3
    <2>2. f[x] \in Nat /\ (x >= m => f[x] >= f[m])
      BY <1>11, <2>1, Zenon
    <2>3. PICK k : k = x + 1
      OBVIOUS
    <2>4. k \in 1..n /\ k - 1 = x
      BY <2>3
    <2>5. f[k] = 10 * f[x] + t[k] - 48 /\ t[k] \in 48..57
      BY <1>8, <1>9, <2>4
    <2>6. PICK v, c, z : v \in Nat /\ c \in 48..57 /\ v = f[x] /\ c = t[k] /\ z = f[k]
      BY <2>2, <2>5
    <2>7. z = 10 * v + c - 48
      BY <2>5, <2>6
    <2>10. v \in Nat /\ c \in 48..57
      BY <2>6
    <2>8. z \in Nat /\ z >= v /\ v \in Nat
      BY <2>7, <2>10
    <2>9. k >= m => f[k] >= f[m]
      <3>1. CASE k = m
        <4>1. f[k] = f[m] /\ f[k] \in Nat
          BY <2>6, <2>8, <3>1
        <4> QED
          BY <4>1
      <3>2. CASE k # m
        <4> SUFFICES ASSUME k >= m PROVE f[k] >= f[m]
          OBVIOUS
        <4>1. x >= m
          BY <1>3, <2>3, <3>2
        <4>2. v >= f[m]
          BY <2>2, <2>6, <4>1
        <4>3. f[m] \in Int
          <5>1. NumberOf(b) \in Int /\ g[m] = NumberOf(b)
            BY <1>2, <1>3, <1>5
          <5> QED
            BY <1>7, <5>1
        <4> QED
          BY <2>6, <2>8, <4>2, <4>3
      <3> QED
        BY <3>1, <3>2
    <2> QED
      BY <2>3, <2>6, <2>8, <2>9
  <1> HIDE DEF S
  <1>12. Nat \subseteq S
    BY <1>10, <1>11, SetInduction
  <1>13. n \in S
    BY <1>12
  <1>14. n <= n /\ n >= m
    BY <1>3
  <1>15. f[n] >= f[m]
    BY <1>13, <1>14 DEF S
  <1>16. f[n] \in Int /\ f[m] \in Int
    BY <1>2, <1>3, <1>4, <1>5, <1>7
  <1> QED
    BY <1>6, <1>7, <1>15, <1>16

LEMMA PlaceholderIs ==
  ASSUME NEW n \in Nat
  PROVE  /\ Placeholder(n) \in Seq(Bytes) /\ Len(Decimal(n)) \in Nat \ {0}
         /\ Len(Placeholder(n)) = Len(Decimal(n)) + 1 /\ Placeholder(n)[1] = Dollar
         /\ \A k \in 1..Len(Decimal(n)) : /\ Placeholder(n)[k + 1] = Decimal(n)[k]
                                          /\ Decimal(n)[k] \in Digits
         /\ \A k \in 1..Len(Placeholder(n)) : Placeholder(n)[k] \in Digits \cup {Dollar}
  <1>1. PICK d, one, t : d = Decimal(n) /\ one = <<Dollar>> /\ t = one \o d
    OBVIOUS
  <1>2. IsNumber(d)
    BY <1>1, DecimalNumber
  <1>3. d \in Seq(Bytes)
    BY <1>2 DEF IsNumber
  <1>4. one \in Seq(Bytes)
    BY <1>1 DEF Dollar, Bytes
  <1>5. /\ t \in Seq(Bytes) /\ Len(d) \in Nat /\ Len(t) = Len(one) + Len(d)
        /\ \A k \in 1..Len(one) : t[k] = one[k]
        /\ \A k \in 1..Len(d) : t[Len(one) + k] = d[k]
    BY <1>1, <1>3, <1>4, ConcatIs
  <1>6. Len(one) = 1 /\ one[1] = Dollar /\ 1 \in 1..1
    BY <1>1
  <1>7. t = Placeholder(n)
    BY <1>1 DEF Placeholder
  <1>8. Len(t) = Len(d) + 1 /\ t[1] = Dollar /\ \A k \in 1..Len(d) : t[k + 1] = d[k] /\ d[k] \in Digits
    <2>1. \A k \in 1..Len(d) : d[k] \in Digits
      BY <1>2 DEF IsNumber
    <2>2. \A k \in 1..Len(d) : 1 + k = k + 1
      OBVIOUS
    <2> QED
      BY <1>5, <1>6, <2>1, <2>2
  <1>9. ASSUME NEW k \in 1..Len(t) PROVE t[k] \in Digits \cup {Dollar}
    <2>1. CASE k = 1
      BY <1>8, <2>1
    <2>2. CASE k # 1
      <3>1. PICK j \in 1..Len(d) : k = j + 1
        <4>1. k - 1 \in 1..Len(d) /\ k = (k - 1) + 1
          BY <1>5, <1>8, <2>2
        <4> QED
          BY <4>1
      <3> QED
        BY <1>8, <3>1
    <2> QED
      BY <2>1, <2>2
  <1>10. Len(d) > 0
    BY <1>2 DEF IsNumber
  <1>11. Len(d) \in Nat \ {0} /\ t \in Seq(Bytes)
    BY <1>5, <1>10
  <1> QED
    BY <1>1, <1>7, <1>8, <1>9, <1>11

\* How the text of a value begins and ends.
LEMMA EscapedEnds ==
  ASSUME NEW v, IsValue(v), Plain(v)
  PROVE  /\ Escaped(v) \in Seq(Bytes) /\ Len(Escaped(v)) > 0 /\ Escaped(v)[1] \notin {DQuote, Star}
         /\ Escaped(v)[1] = Minus => v.ty \in IntTypes /\ v.of[1] < 0
         /\ \A k \in 1..Len(Escaped(v)) : Escaped(v)[k] = Dollar => Escaped(v)[Len(Escaped(v))] = Quote
  <1>0. Escaped(v) \in Seq(Bytes)
    BY EscapedType
  <1>1. PICK t \in Seq(Bytes) : t = Escaped(v)
    BY <1>0
  <1>a. /\ Quote # DQuote /\ Quote # Minus /\ LetterE # DQuote /\ LetterE # Minus /\ Minus # DQuote
        /\ Dollar \notin Digits /\ DQuote \notin Digits /\ Minus \notin Digits /\ Minus # Dollar
    BY Classes DEF LetterE, DQuote
  <1>b. Quote # Star /\ LetterE # Star /\ Minus # Star /\ Star \notin Digits
    BY DEF Quote, LetterE, Minus, Star, Digits
  <1>2. CASE AsNull(v)
    <2>1. t = <<78, 85, 76, 76>>
      BY <1>1, <1>2 DEF AsNull, Null
    <2>2. Len(t) = 4 /\ t[1] = 78 /\ t[2] = 85 /\ t[3] = 76 /\ t[4] = 76
      BY <2>1
    <2>3. \A k \in 1..4 : k = 1 \/ k = 2 \/ k = 3 \/ k = 4
      OBVIOUS
    <2>4. 78 \notin {DQuote, Star} /\ 78 # Minus /\ 78 # Dollar /\ 85 # Dollar /\ 76 # Dollar
      BY DEF DQuote, Minus, Dollar, Star
    <2>5. \A k \in 1..Len(t) : t[k] # Dollar
      BY <2>2, <2>3, <2>4
    <2> QED
      BY <1>1, <2>2, <2>4, <2>5
  <1>3. CASE AsString(v)
    <2>1. v.of \in Seq(Bytes) /\ Quote \in {Quote, DQuote} /\ t = <<Quote>> \o Doubled(v.of, Quote) \o <<Quote>>
      BY <1>1, <1>3 DEF AsString
    <2>2. Len(t) >= 2 /\ t[1] = Quote /\ t[Len(t)] = Quote
      BY <2>1, QuotedToken
    <2> QED
      BY <1>1, <1>a, <1>b, <2>2, LenProperties
  <1>4. CASE AsBytea(v)
    <2>1. PICK h : h = Hex(v.of)
      OBVIOUS
    <2>2. h \in Seq(HexDigits) /\ t = HexFront \o h \o <<Quote>>
      BY <1>1, <1>4, <2>1, HexType DEF AsBytea
    <2>3. Len(t) > 0 /\ t[1] = LetterE /\ t[Len(t)] = Quote
      BY <2>2, ByteaToken
    <2> QED
      BY <1>1, <1>a, <1>b, <2>3
  <1>5. CASE AsNumber(v)
    <2>1. Len(t) > 0 /\ \A k \in 1..Len(t) : t[k] \in Digits
      BY <1>1, <1>5 DEF AsNumber, IsNumber
    <2>2. 1 \in 1..Len(t)
      BY <2>1, LenProperties
    <2> QED
      BY <1>1, <1>a, <1>b, <2>1, <2>2
  <1>6. CASE AsNegative(v)
    <2>1. PICK d \in Seq(Bytes) : IsNumber(d) /\ t = <<Minus>> \o d
      BY <1>1, <1>6 DEF AsNegative
    <2>2. PICK one : one = <<Minus>>
      OBVIOUS
    <2>3. one \in Seq(Bytes)
      BY <2>2 DEF Minus, Bytes
    <2>4. /\ Len(d) \in Nat /\ Len(t) = Len(one) + Len(d)
          /\ \A k \in 1..Len(one) : t[k] = one[k]
          /\ \A k \in 1..Len(d) : t[Len(one) + k] = d[k]
      BY <2>1, <2>2, <2>3, ConcatIs
    <2>5. Len(one) = 1 /\ one[1] = Minus /\ 1 \in 1..1
      BY <2>2
    <2>6. Len(t) > 0 /\ t[1] = Minus
      BY <2>4, <2>5
    <2>7. ASSUME NEW k \in 1..Len(t) PROVE t[k] # Dollar
      <3>1. CASE k = 1
        BY <1>a, <2>6, <3>1
      <3>2. CASE k # 1
        <4>1. PICK j \in 1..Len(d) : k = 1 + j
          <5>1. k - 1 \in 1..Len(d) /\ k = 1 + (k - 1)
            BY <2>4, <2>5, <3>2
          <5> QED
            BY <5>1
        <4>2. t[k] = d[j]
          BY <2>4, <2>5, <4>1
        <4>3. d[j] \in Digits
          BY <2>1 DEF IsNumber
        <4> QED
          BY <1>a, <4>2, <4>3
      <3> QED
        BY <3>1, <3>2
    <2>8. v.ty \in IntTypes /\ v.of[1] < 0
      BY <1>6 DEF AsNegative
    <2> QED
      BY <1>1, <1>a, <1>b, <2>6, <2>7, <2>8
  <1> QED
    BY <1>2, <1>3, <1>4, <1>5, <1>6, EscapedForms

-----------------------------------------------------------------------------
(* A statement that is none of the exceptions *)

Distinct(s, list) ==
  \A k \in Marked(s) :
    (\E n \in 1..Len(list) : StartsAt(s, Placeholder(n), k)) =>
      \E n \in 1..Len(list) : NumberAt(s, k) = Decimal(n)

Spaced(s) ==
  \A k \in Marked(s) :
    /\ k > 1 => s[k - 1] \notin Digits \cup {Quote, Dollar}
    /\ Byte(s, MarkEnd(s, k)) \notin Letters \cup {Quote, Dollar}

\* No placeholder of a parameter before the n-th stands in the text of a value.
WithoutPlaceholders(t, n) ==
  \A m \in 1..n - 1 : \A k \in 1..Len(t) : ~StartsAt(t, Placeholder(m), k)

Safe(s, list) ==
  \A n \in 1..Len(list) : \A k \in Marked(s) :
    NumberAt(s, k) = Decimal(n) => Plain(list[n]) /\ WithoutPlaceholders(Escaped(list[n]), n)

Undashed(s, list) ==
  \A n \in 1..Len(list) :
    (list[n].ty \in IntTypes /\ list[n].of[1] < 0) =>
      \A k \in 1..Len(s) : ~StartsAt(s, <<Minus>> \o Placeholder(n), k)

Clear(s, list) ==
  /\ IsList(list) /\ Marked(s) \subseteq Starts(s)
  /\ Distinct(s, list) /\ Spaced(s) /\ Safe(s, list) /\ Undashed(s, list)

\* The place behind a placeholder is not the place of another one.
LEMMA SpacedEnd ==
  ASSUME NEW s \in Seq(Bytes), NEW list, NEW n, NEW k \in Marked(s), Spaced(s)
  PROVE  /\ Byte(s, MarkEnd(s, k)) \notin NameBytes \cup {Quote} /\ MarkEnd(s, k) \notin Marked(s)
         /\ ~Replaced(s, list, n, MarkEnd(s, k))
  <1>1. PICK e : e = MarkEnd(s, k)
    OBVIOUS
  <1>2. Byte(s, e) \notin Letters \cup {Quote, Dollar} /\ Byte(s, e) \notin Digits
    BY <1>1, MarkedIs DEF Spaced
  <1>3. e \notin Marked(s)
    <2> SUFFICES ASSUME e \in Marked(s) PROVE FALSE
      OBVIOUS
    <2>1. e \in 1..Len(s) /\ s[e] = Dollar
      BY MarkedIs
    <2>2. Byte(s, e) = Dollar
      BY <2>1, LenProperties DEF Byte
    <2> QED
      BY <1>2, <2>2
  <1> QED
    BY <1>1, <1>2, <1>3 DEF NameBytes, Replaced

\* A value that was put in is passed over by the replacements of the parameters before it.
LEMMA FreeValue ==
  ASSUME NEW v, NEW m, NEW n \in Nat, NEW y \in Seq(Bytes), n \in 1..m - 1,
         IsValue(v), Plain(v), WithoutPlaceholders(Escaped(v), m)
  PROVE  FreeOf(Escaped(v) \o y, Placeholder(n), Len(Escaped(v)))
  <1>1. PICK t, u, ph : t = Escaped(v) /\ u = t \o y /\ ph = Placeholder(n)
    OBVIOUS
  <1>a. t \in Seq(Bytes)
    BY <1>1, EscapedEnds
  <1>2. /\ t \in Seq(Bytes) /\ Len(t) > 0 /\ Len(t) \in Nat
        /\ \A k \in 1..Len(t) : t[k] = Dollar => t[Len(t)] = Quote
    <2>1. Len(t) > 0 /\ \A k \in 1..Len(t) : t[k] = Dollar => t[Len(t)] = Quote
      BY <1>1, EscapedEnds
    <2> QED
      BY <1>a, <2>1, LenProperties
  <1>b. ph \in Seq(Bytes)
    BY <1>1, PlaceholderIs
  <1>3. /\ ph \in Seq(Bytes) /\ Len(ph) \in Nat /\ Len(ph) >= 2 /\ ph[1] = Dollar
        /\ \A k \in 1..Len(ph) : ph[k] \in Digits \cup {Dollar}
    <2>1. /\ Len(Decimal(n)) \in Nat \ {0} /\ Len(ph) = Len(Decimal(n)) + 1 /\ ph[1] = Dollar
          /\ \A k \in 1..Len(ph) : ph[k] \in Digits \cup {Dollar}
      BY <1>1, PlaceholderIs
    <2> QED
      BY <1>b, <2>1
  <1>4. /\ u \in Seq(Bytes) /\ Len(u) = Len(t) + Len(y) /\ Len(y) \in Nat
        /\ \A k \in 1..Len(t) : u[k] = t[k]
    BY <1>1, <1>a, ConcatIs
  <1>c. u \in Seq(Bytes)
    BY <1>4
  <1>5. SUFFICES ASSUME NEW k \in 1..Len(t), StartsAt(u, ph, k) PROVE FALSE
    BY <1>1 DEF FreeOf
  <1>6. k + Len(ph) <= Len(u) + 1 /\ \A j \in 1..Len(ph) : u[k + j - 1] = ph[j]
    <2>1. k \in 1..Len(u)
      BY <1>2, <1>4
    <2> QED
      BY <1>b, <1>c, <1>5, <2>1, StartsAtIs
  <1>7. t[Len(t)] = Quote
    <2>1. 1 \in 1..Len(ph) /\ k + 1 - 1 = k
      BY <1>3
    <2>2. u[k] = Dollar
      BY <1>3, <1>6, <2>1
    <2> QED
      BY <1>2, <1>4, <2>2
  <1>8. k + Len(ph) <= Len(t)
    <2> SUFFICES ASSUME ~(k + Len(ph) <= Len(t)) PROVE FALSE
      OBVIOUS
    <2>1. PICK j \in 1..Len(ph) : k + j - 1 = Len(t)
      <3>1. Len(t) - k + 1 \in 1..Len(ph) /\ k + (Len(t) - k + 1) - 1 = Len(t)
        BY <1>2, <1>3
      <3> QED
        BY <3>1
    <2>2. Len(t) \in 1..Len(t)
      BY <1>2
    <2>3. u[Len(t)] = Quote
      BY <1>4, <1>7, <2>2
    <2>4. ph[j] = Quote
      BY <1>6, <2>1, <2>3
    <2>5. Quote \notin Digits \cup {Dollar}
      BY Classes DEF NameBytes
    <2> QED
      BY <1>3, <2>4, <2>5
  <1>9. StartsAt(t, ph, k)
    <2>1. ASSUME NEW j \in 1..Len(ph) PROVE t[k + j - 1] = ph[j]
      <3>1. k + j - 1 \in 1..Len(t)
        BY <1>2, <1>3, <1>8
      <3> QED
        BY <1>4, <1>6, <3>1
    <2>2. k + Len(ph) <= Len(t) + 1
      BY <1>2, <1>3, <1>8
    <2> QED
      BY <1>a, <1>b, <2>1, <2>2, StartsAtIs
  <1> QED
    BY <1>1, <1>5, <1>9 DEF WithoutPlaceholders

\* A placeholder that is not replaced stands as it is, to its end.
LEMMA MarkedUntouched ==
  ASSUME NEW s \in Seq(Bytes), NEW list, NEW n, NEW k \in Marked(s), ~Replaced(s, list, n, k)
  PROVE  Untouched(s, list, n, k, MarkEnd(s, k))
  <1>1. PICK e : e = MarkEnd(s, k)
    OBVIOUS
  <1>2. k \in 1..Len(s) /\ \A j \in k + 1..e - 1 : s[j] \in Digits
    BY <1>1, MarkedIs
  <1>3. k \in Nat
    BY <1>2
  <1>4. ASSUME NEW j \in k..e - 1, Replaced(s, list, n, j) PROVE FALSE
    <2>1. j \in Marked(s)
      BY <1>4 DEF Replaced
    <2>2. s[j] = Dollar
      BY <2>1, MarkedIs
    <2>3. CASE j = k
      BY <1>4, <2>3
    <2>4. CASE j # k
      <3>1. j \in k + 1..e - 1
        BY <1>3, <2>4
      <3>2. s[j] \in Digits
        BY <1>2, <3>1
      <3> QED
        BY <2>2, <3>2, Classes
    <2> QED
      BY <2>3, <2>4
  <1> QED
    BY <1>1, <1>4 DEF Untouched

\* At a placeholder with another number, or at no placeholder, no occurrence begins.
LEMMA NoOccurrence ==
  ASSUME NEW s \in Seq(Bytes), NEW list, Clear(s, list), NEW n \in Nat, NEW p \in 1..Len(list),
         p = n + 1, NEW k \in 1..Len(s), ~Replaced(s, list, n, k)
  PROVE  ~StartsAt(Substituted(s, list, p)[k], Placeholder(p), 1)
  <1>1. PICK l, z, f, ph, u : /\ l \in Nat /\ z \in Nat /\ l = Len(s) /\ z = Len(list)
                              /\ f = Substituted(s, list, p) /\ ph = Placeholder(p) /\ u = f[k]
    BY ListLength, LenProperties DEF Clear
  <1>2. IsList(list) /\ Distinct(s, list) /\ Spaced(s)
    BY DEF Clear
  <1>3. p \in Nat
    BY <1>1
  <1>4. \A j : Replaced(s, list, p, j) => Replaced(s, list, n, j)
    <2>1. p + 1..z \subseteq n + 1..z
      BY <1>1, <1>3
    <2> QED
      BY <1>1, <2>1 DEF Replaced
  <1>5. PICK d : d = Decimal(p)
    OBVIOUS
  <1>b. ph \in Seq(Bytes)
    BY <1>1, <1>3, PlaceholderIs
  <1>6. /\ Len(d) \in Nat \ {0} /\ Len(ph) = Len(d) + 1 /\ ph[1] = Dollar
        /\ \A j \in 1..Len(d) : ph[j + 1] = d[j] /\ d[j] \in Digits
    BY <1>1, <1>3, <1>5, PlaceholderIs
  <1>d. IsList(list)
    BY <1>2
  <1>7. u \in Seq(Bytes) /\ (\A j \in 1..l + 1 : f[j] \in Seq(Bytes)) /\ f[l + 1] = <<>>
    <2>1. /\ \A j \in 1..Len(s) + 1 : Substituted(s, list, p)[j] \in Seq(Bytes)
          /\ Substituted(s, list, p)[Len(s) + 1] = <<>>
      BY <1>d, <1>3, SubstitutedType
    <2>2. k \in 1..l + 1
      BY <1>1
    <2> QED
      BY <1>1, <2>1, <2>2
  <1>c. u \in Seq(Bytes)
    BY <1>7
  <1>8. SUFFICES ASSUME StartsAt(u, ph, 1) PROVE FALSE
    BY <1>1
  <1>9. 1 + Len(ph) <= Len(u) + 1 /\ \A j \in 1..Len(ph) : u[j] = ph[j]
    <2>1. 1 \in 1..Len(u)
      <3>1. 1 + Len(ph) <= Len(u) + 1
        BY <1>8 DEF StartsAt
      <3>2. Len(u) \in Nat
        BY <1>c, LenProperties
      <3> QED
        BY <1>6, <3>1, <3>2
    <2>2. 1 + Len(ph) <= Len(u) + 1 /\ \A j \in 1..Len(ph) : u[1 + j - 1] = ph[j]
      BY <1>b, <1>c, <1>8, <2>1, StartsAtIs
    <2>3. \A j \in 1..Len(ph) : 1 + j - 1 = j
      OBVIOUS
    <2> QED
      BY <2>2, <2>3
  <1>10. ~Replaced(s, list, p, k)
    BY <1>4
  <1>11. CASE k \notin Marked(s)
    <2>1. u = <<s[k]>> \o f[k + 1]
      <3>1. Substituted(s, list, p)[k] = <<s[k]>> \o Substituted(s, list, p)[k + 1]
        BY <1>d, <1>3, <1>10, SubstitutedStep
      <3> QED
        BY <1>1, <3>1
    <2>2. PICK one, y, c : one = <<s[k]>> /\ y = f[k + 1] /\ c = s[k]
      OBVIOUS
    <2>3. c \in Bytes
      BY <2>2, ElementOfSeq
    <2>4. one \in Seq(Bytes) /\ Len(one) = 1 /\ one[1] = c
      BY <2>2, <2>3
    <2>a. one \in Seq(Bytes)
      BY <2>4
    <2>5. k + 1 \in 1..l + 1 /\ k + 1 \in 1..Len(s) + 1
      BY <1>1
    <2>6. y \in Seq(Bytes)
      BY <1>7, <2>2, <2>5
    <2>7. /\ Len(y) \in Nat /\ Len(u) = Len(one) + Len(y) /\ \A j \in 1..Len(one) : u[j] = one[j]
          /\ \A j \in 1..Len(y) : u[Len(one) + j] = y[j]
      BY <2>1, <2>2, <2>6, <2>a, ConcatIs
    <2>8. s[k] = Dollar
      <3>1. 1 \in 1..Len(one) /\ 1 \in 1..Len(ph)
        BY <1>6, <2>4
      <3>2. u[1] = c /\ u[1] = Dollar
        BY <1>6, <1>9, <2>4, <2>7, <3>1
      <3> QED
        BY <2>2, <3>2
    <2>9. Byte(y, 1) \in Digits
      <3>1. Len(y) >= 1
        BY <1>6, <1>9, <2>4, <2>7
      <3>2. 1 \in 1..Len(y) /\ 2 \in 1..Len(ph) /\ 1 \in 1..Len(d) /\ Len(one) + 1 = 2 /\ 1 + 1 = 2
        BY <1>6, <2>4, <2>7, <3>1
      <3>3. y[1] = u[2] /\ u[2] = ph[2] /\ ph[2] = d[1] /\ d[1] \in Digits
        BY <1>6, <1>9, <2>7, <3>2
      <3> QED
        BY <3>1, <3>3 DEF Byte
    <2>10. ~Replaced(s, list, p, k + 1)
      <3> SUFFICES ASSUME Replaced(s, list, p, k + 1) PROVE FALSE
        OBVIOUS
      <3>1. PICK m : m = k + 1
        OBVIOUS
      <3>2. m \in Marked(s)
        BY <3>1 DEF Replaced
      <3>3. m > 1 /\ m - 1 = k
        BY <3>1
      <3>4. s[m - 1] # Dollar
        BY <1>2, <3>2, <3>3 DEF Spaced
      <3> QED
        BY <2>8, <3>3, <3>4
    <2>11. Byte(y, 1) = Byte(s, k + 1)
      <3>1. PICK m \in 1..Len(s) + 1 : m = k + 1
        BY <2>5
      <3>2. Byte(f[m], 1) = Byte(s, m)
        <4>1. ~Replaced(s, list, p, m)
          BY <2>10, <3>1
        <4>2. Byte(Substituted(s, list, p)[m], 1) = Byte(s, m)
          BY <1>d, <1>3, <4>1, FirstIs
        <4> QED
          BY <1>1, <4>2
      <3> QED
        BY <2>2, <3>1, <3>2
    <2>12. k \in DOMAIN s
      BY LenProperties
    <2> QED
      BY <1>11, <2>8, <2>9, <2>11, <2>12 DEF Marked
  <1>12. CASE k \in Marked(s)
    <2>1. PICK e \in 1..Len(s) + 1 : e = MarkEnd(s, k)
      <3>1. MarkEnd(s, k) \in k + 2..Len(s) + 1
        BY <1>12, MarkedIs
      <3>2. MarkEnd(s, k) \in 1..Len(s) + 1
        BY <1>1, <3>1
      <3> QED
        BY <3>2
    <2>2. /\ e \in k + 2..l + 1 /\ s[k] = Dollar /\ Byte(s, e) \notin Digits
          /\ \A j \in k + 1..e - 1 : s[j] \in Digits
      BY <1>1, <1>12, <2>1, MarkedIs
    <2>3. Untouched(s, list, p, k, e)
      BY <1>10, <1>12, <2>1, MarkedUntouched
    <2>b. e - k \in Nat
      BY <1>1, <2>2
    <2>4. PICK a, y, w : a = SubSeq(s, k, e - 1) /\ y = f[e] /\ w = e - k /\ w \in Nat
      BY <2>b
    <2>5. u = a \o y
      <3>1. k \in 1..e
        BY <1>1, <2>2
      <3>2. Substituted(s, list, p)[k] = SubSeq(s, k, e - 1) \o Substituted(s, list, p)[e]
        BY <1>d, <1>3, <2>3, <3>1, Stretch
      <3> QED
        BY <1>1, <2>4, <3>2
    <2>6. a \in Seq(Bytes) /\ Len(a) = w /\ \A j \in 1..w : a[j] = s[k + j - 1]
      <3>1. PICK g \in Nat : g = e - 1
        BY <2>1
      <3>2. k \in Nat /\ 1 <= k /\ k <= g + 1 /\ g <= Len(s)
        BY <1>1, <2>2, <3>1
      <3>3. a \in Seq(Bytes) /\ Len(a) = g - k + 1 /\ \A j \in 1..g - k + 1 : a[j] = s[k + j - 1]
        BY <2>4, <3>1, <3>2, SubSeqIs
      <3>4. g - k + 1 = w
        BY <1>1, <2>4, <3>1
      <3> QED
        BY <3>3, <3>4
    <2>a. a \in Seq(Bytes)
      BY <2>6
    <2>7. y \in Seq(Bytes)
      BY <1>1, <1>7, <2>1, <2>4
    <2>8. Byte(y, 1) \notin Digits
      <3>0. Spaced(s)
        BY <1>2
      <3>1. ~Replaced(s, list, p, e)
        BY <3>0, <1>12, <2>1, SpacedEnd
      <3>3. Byte(Substituted(s, list, p)[e], 1) = Byte(s, e)
        BY <1>d, <1>3, <3>1, FirstIs
      <3>2. Byte(y, 1) = Byte(s, e)
        BY <1>1, <2>4, <3>3
      <3> QED
        BY <2>2, <3>2
    <2>9. /\ Len(y) \in Nat /\ Len(u) = Len(a) + Len(y) /\ \A j \in 1..Len(a) : u[j] = a[j]
          /\ \A j \in 1..Len(y) : u[Len(a) + j] = y[j]
      <3>1. /\ Len(y) \in Nat /\ Len(a \o y) = Len(a) + Len(y) /\ \A j \in 1..Len(a) : (a \o y)[j] = a[j]
            /\ \A j \in 1..Len(y) : (a \o y)[Len(a) + j] = y[j]
        BY <2>7, <2>a, ConcatIs
      <3> QED
        BY <2>5, <3>1
    <2>10. Len(ph) <= w
      <3> SUFFICES ASSUME ~(Len(ph) <= w) PROVE FALSE
        OBVIOUS
      <3>0. Len(u) = w + Len(y)
        BY <2>6, <2>9
      <3>4. Len(ph) \in Nat /\ Len(ph) <= Len(u)
        BY <1>6, <1>9, <2>6, <2>9, <3>0
      <3>5. w >= 2
        BY <1>1, <2>2, <2>4
      <3>1. w + 1 \in 1..Len(ph) /\ w \in 1..Len(d) /\ 1 \in 1..Len(y)
        <4>1. Len(ph) > w /\ w \in Nat
          BY <2>4, <3>4
        <4>2. Len(y) \in Nat /\ Len(d) \in Nat /\ Len(ph) = Len(d) + 1
          BY <1>6, <2>9
        <4>3. Len(y) >= 1 /\ Len(d) >= w
          BY <3>0, <3>4, <4>1, <4>2
        <4> QED
          BY <3>5, <4>1, <4>2, <4>3
      <3>2. u[w + 1] = y[1] /\ u[w + 1] = ph[w + 1] /\ ph[w + 1] = d[w] /\ d[w] \in Digits
        BY <1>6, <1>9, <2>6, <2>9, <3>1
      <3>3. Byte(y, 1) = y[1]
        BY <3>1 DEF Byte
      <3> QED
        BY <2>8, <3>2, <3>3
    <2>11. \A j \in 1..Len(ph) : s[k + j - 1] = ph[j]
      <3> SUFFICES ASSUME NEW j \in 1..Len(ph) PROVE s[k + j - 1] = ph[j]
        OBVIOUS
      <3>1. j \in 1..w /\ j \in 1..Len(a)
        BY <1>6, <2>4, <2>6, <2>10
      <3>2. u[j] = ph[j]
        BY <1>9
      <3>3. u[j] = a[j]
        BY <2>9, <3>1
      <3>4. a[j] = s[k + j - 1]
        BY <2>6, <3>1
      <3> QED
        BY <3>2, <3>3, <3>4
    <2>12. StartsAt(s, ph, k)
      <3>1. k + Len(ph) <= Len(s) + 1
        BY <1>1, <1>6, <2>2, <2>4, <2>10
      <3> QED
        BY <1>b, <2>11, <3>1, StartsAtIs
    <2>13. PICK q \in 1..z : NumberAt(s, k) = Decimal(q)
      BY <1>1, <1>2, <1>12, <2>12 DEF Distinct
    <2>14. q < p /\ q \in Nat
      <3>1. q \notin n + 1..z
        BY <1>1, <1>12, <2>13 DEF Replaced
      <3> QED
        BY <1>1, <3>1
    <2>15. PICK t : t = NumberAt(s, k)
      OBVIOUS
    <2>16. Len(t) = w - 1 /\ \A j \in 1..w - 1 : t[j] = s[k + j]
      <3>1. PICK g \in Nat, b \in Nat : g = e - 1 /\ b = k + 1
        BY <2>1
      <3>2. 1 <= b /\ b <= g + 1 /\ g <= Len(s)
        BY <1>1, <2>2, <3>1
      <3>3. t = SubSeq(s, b, g)
        BY <2>1, <2>15, <3>1 DEF NumberAt
      <3>4. Len(t) = g - b + 1 /\ \A j \in 1..g - b + 1 : t[j] = s[b + j - 1]
        BY <3>2, <3>3, SubSeqIs
      <3>5. g - b + 1 = w - 1 /\ \A j \in 1..w - 1 : b + j - 1 = k + j
        BY <1>1, <2>4, <3>1
      <3> QED
        BY <3>4, <3>5
    <2>17. t \in Seq(Digits) /\ d \in Seq(Digits)
      BY <1>3, <1>5, <2>13, <2>14, <2>15, DecimalIs
    <2>18. Len(d) <= Len(t)
      BY <1>6, <2>4, <2>10, <2>16
    <2>19. Same(Len(d), d, t)
      <3> SUFFICES ASSUME NEW j \in 1..Len(d) PROVE d[j] = t[j]
        BY DEF Same
      <3>1. j + 1 \in 1..Len(ph) /\ k + (j + 1) - 1 = k + j /\ j \in 1..w - 1
        <4>1. k \in Nat /\ Len(d) \in Nat /\ Len(ph) = Len(d) + 1 /\ w \in Nat /\ Len(d) <= w - 1
          BY <1>6, <2>4, <2>16, <2>18
        <4> QED
          BY <4>1
      <3>2. s[k + j] = ph[j + 1]
        BY <2>11, <3>1
      <3> QED
        BY <1>6, <2>16, <3>1, <3>2
    <2>20. NumberOf(d) <= NumberOf(t)
      BY <2>17, <2>18, <2>19, PrefixNumber
    <2>21. NumberOf(d) = p /\ NumberOf(t) = q
      BY <1>3, <1>5, <2>13, <2>14, <2>15, DecimalIs
    <2> QED
      BY <1>3, <2>14, <2>20, <2>21
  <1> QED
    BY <1>11, <1>12

-----------------------------------------------------------------------------
(* One replacement after the other *)

\* The text of a placeholder.
LEMMA MarkedText ==
  ASSUME NEW s \in Seq(Bytes), NEW k \in Marked(s), NEW n \in Nat, NumberAt(s, k) = Decimal(n)
  PROVE  SubSeq(s, k, MarkEnd(s, k) - 1) = Placeholder(n)
  <1>1. PICK e, l : e = MarkEnd(s, k) /\ l = Len(s)
    OBVIOUS
  <1>2. l \in Nat /\ k \in 1..l /\ e \in k + 2..l + 1 /\ s[k] = Dollar
    BY <1>1, MarkedIs, LenProperties
  <1>3. PICK g \in Nat, b \in Nat : g = e - 1 /\ b = k + 1
    BY <1>2
  <1>4. PICK a, d, ph : a = SubSeq(s, k, g) /\ d = SubSeq(s, b, g) /\ ph = Placeholder(n)
    OBVIOUS
  <1>5. d = Decimal(n)
    BY <1>1, <1>3, <1>4 DEF NumberAt
  <1>6. k \in Nat /\ 1 <= k /\ k <= g + 1 /\ 1 <= b /\ b <= g + 1 /\ g <= Len(s)
    BY <1>1, <1>2, <1>3
  <1>7. a \in Seq(Bytes) /\ Len(a) = g - k + 1 /\ \A j \in 1..g - k + 1 : a[j] = s[k + j - 1]
    BY <1>4, <1>6, SubSeqIs
  <1>8. Len(d) = g - b + 1 /\ \A j \in 1..g - b + 1 : d[j] = s[b + j - 1]
    BY <1>4, <1>6, SubSeqIs
  <1>9. /\ ph \in Seq(Bytes) /\ Len(ph) = Len(d) + 1 /\ ph[1] = Dollar
        /\ \A j \in 1..Len(d) : ph[j + 1] = d[j]
    <2>1. /\ Placeholder(n) \in Seq(Bytes) /\ Len(Placeholder(n)) = Len(Decimal(n)) + 1
          /\ Placeholder(n)[1] = Dollar
          /\ \A j \in 1..Len(Decimal(n)) : Placeholder(n)[j + 1] = Decimal(n)[j]
      BY PlaceholderIs
    <2> QED
      BY <1>4, <1>5, <2>1
  <1>10. Len(a) = Len(ph)
    BY <1>3, <1>6, <1>7, <1>8, <1>9
  <1>11. ASSUME NEW j \in 1..Len(a) PROVE a[j] = ph[j]
    <2>1. j \in 1..g - k + 1 /\ a[j] = s[k + j - 1]
      BY <1>7
    <2>2. CASE j = 1
      <3>1. k + j - 1 = k
        BY <1>6, <2>2
      <3> QED
        BY <1>2, <1>9, <2>1, <2>2, <3>1
    <2>3. CASE j # 1
      <3>1. PICK x \in 1..g - b + 1 : j = x + 1
        <4>1. j - 1 \in 1..g - b + 1 /\ j = (j - 1) + 1
          BY <1>3, <1>6, <2>1, <2>3
        <4> QED
          BY <4>1
      <3>2. k + j - 1 = b + x - 1
        BY <1>3, <1>6, <3>1
      <3> QED
        BY <1>8, <1>9, <2>1, <3>1, <3>2
    <2> QED
      BY <2>2, <2>3
  <1>12. a \in Seq(Bytes) /\ ph \in Seq(Bytes) /\ Len(a) = Len(ph) /\ \A j \in 1..Len(a) : a[j] = ph[j]
    BY <1>7, <1>9, <1>10, <1>11
  <1>13. a = ph
    BY <1>12, SeqEqual
  <1> QED
    BY <1>1, <1>3, <1>4, <1>13

\* Before the first replacement the text is the statement.
LEMMA SubstitutedAll ==
  ASSUME NEW s \in Seq(Bytes), NEW list, IsList(list)
  PROVE  Substituted(s, list, Len(list))[1] = s
  <1>1. PICK l \in Nat, z \in Nat, e \in Nat : l = Len(s) /\ z = Len(list) /\ e = l + 1
    <2>1. Len(s) \in Nat /\ Len(s) + 1 \in Nat
      BY LenProperties
    <2> QED
      BY <2>1, ListLength
  <1>2. Untouched(s, list, z, 1, e)
    <2>1. z + 1..z = {}
      BY <1>1
    <2> QED
      BY <1>1, <2>1 DEF Untouched, Replaced
  <1>3. Substituted(s, list, z)[1] = SubSeq(s, 1, e - 1) \o Substituted(s, list, z)[e]
    <2>1. e \in 1..Len(s) + 1 /\ 1 \in 1..e
      BY <1>1
    <2> QED
      BY <1>2, <2>1, Stretch
  <1>4. Substituted(s, list, z)[Len(s) + 1] = <<>>
    BY SubstitutedType
  <1>5. SubSeq(s, 1, l) = s
    <2>1. PICK a : a = SubSeq(s, 1, l)
      OBVIOUS
    <2>2. 1 \in Nat /\ 1 <= 1 /\ 1 <= l + 1 /\ l <= Len(s)
      BY <1>1
    <2>3. a \in Seq(Bytes) /\ Len(a) = l - 1 + 1 /\ \A j \in 1..l - 1 + 1 : a[j] = s[1 + j - 1]
      BY <2>1, <2>2, SubSeqIs
    <2>4. l - 1 + 1 = l /\ \A j \in 1..l : 1 + j - 1 = j
      BY <1>1
    <2>5. a \in Seq(Bytes) /\ Len(a) = Len(s) /\ \A j \in 1..Len(a) : a[j] = s[j]
      BY <1>1, <2>3, <2>4
    <2>6. a = s
      BY <2>5, SeqEqual
    <2> QED
      BY <2>1, <2>6
  <1>6. e - 1 = l
    BY <1>1
  <1>7. s \o <<>> = s
    BY ConcatEmptySeq
  <1> QED
    BY <1>1, <1>3, <1>4, <1>5, <1>6, <1>7

\* A replacement puts in the value of one more parameter.
LEMMA ReplaceEach ==
  ASSUME NEW s \in Seq(Bytes), NEW list, NEW n \in Nat, NEW p \in 1..Len(list), p = n + 1,
         NEW at \in 1..Len(s) + 1, Clear(s, list)
  PROVE  Replace(Substituted(s, list, p)[at], Placeholder(p), Escaped(list[p])) = Substituted(s, list, n)[at]
  <1>1. IsList(list)
    BY DEF Clear
  <1>2. PICK l \in Nat, z \in Nat : l = Len(s) /\ z = Len(list)
    BY <1>1, ListLength, LenProperties
  <1>3. p \in Nat /\ p \in 1..z
    BY <1>2
  <1>4. PICK f, g, ph, new : /\ f = Substituted(s, list, p) /\ g = Substituted(s, list, n)
                             /\ ph = Placeholder(p) /\ new = Escaped(list[p])
    OBVIOUS
  <1>5. \A j \in DOMAIN list : IsValue(list[j])
    BY <1>1 DEF IsList
  <1>6. DOMAIN list = 1..z
    BY <1>1, <1>2, ListLength
  <1>7. new \in Seq(Bytes)
    <2>1. IsValue(list[p])
      BY <1>3, <1>5, <1>6
    <2> QED
      BY <1>4, <2>1, EscapedType
  <1>8. ph \in Seq(Bytes) /\ Len(ph) > 0
    <2>1. /\ Placeholder(p) \in Seq(Bytes) /\ Len(Decimal(p)) \in Nat \ {0}
          /\ Len(Placeholder(p)) = Len(Decimal(p)) + 1
      BY <1>3, PlaceholderIs
    <2>2. Len(ph) > 0
      BY <1>4, <2>1
    <2> QED
      BY <1>4, <2>1, <2>2
  <1>a. ph \in Seq(Bytes)
    BY <1>8
  <1>b. Len(ph) > 0
    BY <1>8
  <1>9. /\ \A j \in 1..l + 1 : f[j] \in Seq(Bytes)
        /\ f[l + 1] = <<>> /\ g[l + 1] = <<>>
    <2>1. /\ \A j \in 1..Len(s) + 1 : Substituted(s, list, p)[j] \in Seq(Bytes)
          /\ Substituted(s, list, p)[Len(s) + 1] = <<>>
      BY <1>1, <1>3, SubstitutedType
    <2>2. Substituted(s, list, n)[Len(s) + 1] = <<>>
      BY <1>1, SubstitutedType
    <2> QED
      BY <1>2, <1>4, <2>1, <2>2
  <1> DEFINE Goal(k) == Replace(f[k], ph, new) = g[k]
  <1> DEFINE S == {k \in 1..l + 1 : Goal(k)}
  <1>10. l + 1 \in S
    <2>1. Len(f[l + 1]) = 0
      BY <1>9
    <2>2. Replace(f[l + 1], ph, new) = <<>>
      BY <2>1, ReplaceNothing
    <2>3. l + 1 \in 1..l + 1
      OBVIOUS
    <2> QED
      BY <1>9, <2>2, <2>3, Zenon
  <1>11. ASSUME NEW k \in 1..l, \A j \in k + 1..l + 1 : j \in S PROVE k \in S
    <2> SUFFICES Replace(f[k], ph, new) = g[k]
      <3>1. k \in 1..l + 1
        OBVIOUS
      <3> QED
        BY <3>1
    <2>1. k \in 1..Len(s)
      BY <1>2
    <2>2. \A j \in k + 1..l + 1 : Replace(f[j], ph, new) = g[j]
      BY <1>11
    <2> HIDE DEF S
    <2>3. CASE Replaced(s, list, p, k)
      <3>1. PICK m \in p + 1..z : NumberAt(s, k) = Decimal(m) /\ k \in Marked(s)
        BY <1>2, <2>3 DEF Replaced
      <3>2. m \in n + 1..z /\ m \in 1..z /\ p \in 1..m - 1
        BY <1>3
      <3>3. PICK e \in k + 1..l + 1 : e = MarkEnd(s, k)
        <4>1. k \in Marked(s)
          BY <3>1
        <4>2. MarkEnd(s, k) \in k + 2..Len(s) + 1
          BY <4>1, MarkedIs
        <4>3. MarkEnd(s, k) \in k + 1..l + 1
          BY <1>2, <4>2
        <4> QED
          BY <4>3
      <3>4. PICK t, y : t = Escaped(list[m]) /\ y = f[e]
        OBVIOUS
      <3>5. f[k] = t \o y
        <4>1. Substituted(s, list, p)[k] = Escaped(list[m]) \o Substituted(s, list, p)[MarkEnd(s, k)]
          <5>1. m \in p + 1..Len(list)
            BY <1>2
          <5>2. k \in Marked(s) /\ NumberAt(s, k) = Decimal(m)
            BY <3>1
          <5>3. k \in Marked(s)
            BY <5>2
          <5>4. NumberAt(s, k) = Decimal(m)
            BY <5>2
          <5> QED
            BY <1>1, <1>3, <5>1, <5>3, <5>4, SubstitutedAt
        <4> QED
          BY <1>4, <3>3, <3>4, <4>1
      <3>6. g[k] = t \o g[e]
        <4>1. Substituted(s, list, n)[k] = Escaped(list[m]) \o Substituted(s, list, n)[MarkEnd(s, k)]
          <5>1. m \in n + 1..Len(list)
            BY <1>2, <3>2
          <5>2. k \in Marked(s) /\ NumberAt(s, k) = Decimal(m)
            BY <3>1
          <5>3. k \in Marked(s)
            BY <5>2
          <5>4. NumberAt(s, k) = Decimal(m)
            BY <5>2
          <5> QED
            BY <1>1, <5>1, <5>3, <5>4, SubstitutedAt
        <4> QED
          BY <1>4, <3>3, <3>4, <4>1
      <3>7. y \in Seq(Bytes)
        <4>1. e \in 1..l + 1
          OBVIOUS
        <4> QED
          BY <1>9, <3>4, <4>1
      <3>8. IsValue(list[m])
        BY <1>5, <1>6, <3>2
      <3>9. t \in Seq(Bytes)
        BY <3>4, <3>8, EscapedType
      <3>10. Plain(list[m]) /\ WithoutPlaceholders(Escaped(list[m]), m)
        BY <1>2, <3>1, <3>2 DEF Clear, Safe
      <3>11. FreeOf(t \o y, ph, Len(t))
        <4>1. Plain(list[m])
          BY <3>10
        <4>2. WithoutPlaceholders(Escaped(list[m]), m)
          BY <3>10
        <4>3. FreeOf(Escaped(list[m]) \o y, Placeholder(p), Len(Escaped(list[m])))
          BY <1>3, <3>2, <3>7, <3>8, <4>1, <4>2, FreeValue
        <4> QED
          BY <1>4, <3>4, <4>3
      <3>12. Replace(t \o y, ph, new) = t \o Replace(y, ph, new)
        <4> HIDE DEF Goal
        <4> QED
          BY <1>7, <1>a, <1>b, <3>7, <3>9, <3>11, ReplacePast, SMTT(30)
      <3>13. Replace(y, ph, new) = g[e]
        BY <2>2, <3>4
      <3> QED
        BY <3>5, <3>6, <3>12, <3>13
    <2>4. CASE ~Replaced(s, list, p, k) /\ Replaced(s, list, n, k)
      <3>1. k \in Marked(s)
        BY <2>4 DEF Replaced
      <3>2. NumberAt(s, k) = Decimal(p)
        <4>1. PICK m \in n + 1..z : NumberAt(s, k) = Decimal(m)
          BY <1>2, <2>4 DEF Replaced
        <4>2. m \notin p + 1..z
          BY <1>2, <2>4, <3>1, <4>1 DEF Replaced
        <4>3. m = p
          BY <1>3, <4>2
        <4> QED
          BY <4>1, <4>3
      <3>3. PICK e \in k + 1..l + 1 : e = MarkEnd(s, k)
        <4>1. MarkEnd(s, k) \in k + 2..Len(s) + 1
          BY <3>1, MarkedIs
        <4>2. MarkEnd(s, k) \in k + 1..l + 1
          BY <1>2, <4>1
        <4> QED
          BY <4>2
      <3>4. PICK y : y = f[e]
        OBVIOUS
      <3>5. y \in Seq(Bytes)
        <4>1. e \in 1..l + 1
          OBVIOUS
        <4> QED
          BY <1>9, <3>4, <4>1
      <3>6. f[k] = ph \o y
        <4>1. Untouched(s, list, p, k, e)
          BY <2>4, <3>1, <3>3, MarkedUntouched
        <4>2. e \in 1..Len(s) + 1
          BY <1>2
        <4>5. k \in 1..e
          BY <1>2
        <4>3. Substituted(s, list, p)[k] = SubSeq(s, k, e - 1) \o Substituted(s, list, p)[e]
          BY <1>1, <1>3, <4>1, <4>2, <4>5, Stretch, ZenonT(30)
        <4>4. SubSeq(s, k, e - 1) = Placeholder(p)
          BY <1>3, <3>1, <3>2, <3>3, MarkedText
        <4> QED
          BY <1>4, <3>4, <4>3, <4>4
      <3>7. g[k] = new \o g[e]
        <4>1. p \in n + 1..Len(list)
          BY <1>2, <1>3
        <4>2. Substituted(s, list, n)[k] = Escaped(list[p]) \o Substituted(s, list, n)[MarkEnd(s, k)]
          BY <1>1, <3>1, <3>2, <4>1, SubstitutedAt
        <4> QED
          BY <1>4, <3>3, <4>2
      <3>8. PICK u : u = ph \o y
        OBVIOUS
      <3>9. /\ u \in Seq(Bytes) /\ Len(u) = Len(ph) + Len(y) /\ Len(ph) \in Nat /\ Len(y) \in Nat
            /\ \A j \in 1..Len(ph) : u[j] = ph[j]
        BY <1>a, <3>5, <3>8, ConcatIs
      <3>10. u \in Seq(Bytes)
        BY <3>9
      <3>11. Len(u) > 0 /\ 1 \in 1..Len(u)
        BY <1>b, <3>9
      <3>12. StartsAt(u, ph, 1)
        <4>1. 1 + Len(ph) <= Len(u) + 1
          BY <3>9
        <4>2. \A j \in 1..Len(ph) : u[1 + j - 1] = ph[j]
          <5>1. \A j \in 1..Len(ph) : 1 + j - 1 = j
            BY <3>9
          <5> QED
            BY <3>9, <5>1
        <4> QED
          BY <1>a, <3>10, <3>11, <4>1, <4>2, StartsAtIs
      <3>13. Replace(u, ph, new) = new \o Replace(Rest(u, Len(ph)), ph, new)
        <4>1. Len(u) > 0
          BY <3>11
        <4> QED
          BY <1>a, <1>b, <3>10, <3>12, <4>1, ReplaceHead
      <3>14. Rest(u, Len(ph)) = y
        BY <1>a, <3>5, <3>8, RestConcat
      <3>15. Replace(y, ph, new) = g[e]
        BY <2>2, <3>4
      <3> QED
        BY <3>6, <3>7, <3>8, <3>13, <3>14, <3>15
    <2>5. CASE ~Replaced(s, list, n, k)
      <3>1. ~StartsAt(f[k], ph, 1)
        <4>1. ~StartsAt(Substituted(s, list, p)[k], Placeholder(p), 1)
          BY <2>1, <2>5, NoOccurrence
        <4> QED
          BY <1>4, <4>1
      <3>2. ~Replaced(s, list, p, k)
        <4>1. p + 1..z \subseteq n + 1..z
          BY <1>3
        <4> QED
          BY <1>2, <2>5, <4>1 DEF Replaced
      <3>3. PICK one, y, c, u : one = <<s[k]>> /\ y = f[k + 1] /\ c = s[k] /\ u = f[k]
        OBVIOUS
      <3>4. u = one \o y
        <4>1. Substituted(s, list, p)[k] = <<s[k]>> \o Substituted(s, list, p)[k + 1]
          BY <1>1, <1>3, <2>1, <3>2, SubstitutedStep
        <4> QED
          BY <1>4, <3>3, <4>1
      <3>5. g[k] = one \o g[k + 1]
        <4>1. Substituted(s, list, n)[k] = <<s[k]>> \o Substituted(s, list, n)[k + 1]
          BY <1>1, <2>1, <2>5, SubstitutedStep
        <4> QED
          BY <1>4, <3>3, <4>1
      <3>6. k + 1 \in k + 1..l + 1 /\ k + 1 \in 1..l + 1
        OBVIOUS
      <3>7. y \in Seq(Bytes)
        BY <1>9, <3>3, <3>6
      <3>8. c \in Bytes
        BY <2>1, <3>3, ElementOfSeq
      <3>9. one \in Seq(Bytes) /\ Len(one) = 1 /\ one[1] = c /\ one = <<c>>
        BY <3>3, <3>8
      <3>10. one \in Seq(Bytes)
        BY <3>9
      <3>11. /\ u \in Seq(Bytes) /\ Len(u) = Len(one) + Len(y) /\ Len(y) \in Nat
             /\ \A j \in 1..Len(one) : u[j] = one[j]
        BY <3>4, <3>7, <3>10, ConcatIs
      <3>12. u \in Seq(Bytes)
        BY <3>11
      <3>13. Len(u) > 0
        BY <3>9, <3>11
      <3>14. u[1] = c
        <4>1. 1 \in 1..Len(one)
          BY <3>9
        <4> QED
          BY <3>9, <3>11, <4>1
      <3>15. ~StartsAt(u, ph, 1)
        BY <3>1, <3>3
      <3>16. Replace(u, ph, new) = <<u[1]>> \o Replace(Rest(u, 1), ph, new)
        BY <1>a, <1>b, <3>12, <3>13, <3>15, ReplaceHead
      <3>17. Rest(u, 1) = y
        <4>1. Rest(one \o y, Len(one)) = y
          BY <3>7, <3>10, RestConcat
        <4> QED
          BY <3>4, <3>9, <4>1
      <3>18. Replace(y, ph, new) = g[k + 1]
        BY <2>2, <3>3, <3>6
      <3>19. <<u[1]>> = one
        BY <3>9, <3>14
      <3> QED
        BY <3>3, <3>5, <3>16, <3>17, <3>18, <3>19
    <2> QED
      BY <2>3, <2>4, <2>5
  <1>12. 1..l + 1 \subseteq S
    <2> HIDE DEF S
    <2> QED
      BY <1>10, <1>11, DownInduction
  <1>13. at \in S
    <2>1. at \in 1..l + 1
      BY <1>2
    <2> QED
      BY <1>12, <2>1
  <1>14. Replace(f[at], ph, new) = g[at]
    BY <1>13
  <1> QED
    BY <1>4, <1>14

-----------------------------------------------------------------------------
(* The places where tokens begin *)

Placing(s) == [k \in DOMAIN s |-> Read(<<k>>, TokenAt(s, k).next)]

\* Reading from k on, a token begins at j.
Begins(s, k, j) == Has(From(Len(s), Placing(s))[k], j)

\* From k on, every placeholder is a token of its own.
Begun(s, k) == \A j \in Marked(s) : j >= k => Begins(s, k, j)

LEMMA PlacingIs ==
  ASSUME NEW s \in Seq(Bytes), NEW k \in 1..Len(s)
  PROVE  /\ TokenAt(s, k).next \in k + 1..Len(s) + 1
         /\ \A j : Begins(s, k, j) => j = k \/ Begins(s, TokenAt(s, k).next, j)
  <1>1. PICK n \in Nat : n = Len(s)
    BY LenProperties
  <1>2. PICK read : read = Placing(s)
    OBVIOUS
  <1>3. \A j \in 1..n : read[j].piece = <<j>> /\ read[j].next = TokenAt(s, j).next
    BY <1>1, <1>2, LenProperties DEF Placing, Read
  <1>4. \A j \in 1..n : TokenAt(s, j).next \in j + 1..n + 1
    <2>1. 1 \in 1..Len(s) + 1
      BY <1>1
    <2>2. Advances(n, Tokened(s)) /\ \A j \in 1..n : Tokened(s)[j] = TokenAt(s, j)
      BY <1>1, <2>1, TokenedType
    <2> QED
      BY <2>2 DEF Advances
  <1>5. Advances(n, read)
    BY <1>3, <1>4 DEF Advances
  <1>6. \A j \in 1..n + 1 : From(n, read)[j] \in Seq(Nat)
    <2>1. \A j \in 1..n : read[j].piece \in Seq(Nat)
      <3> SUFFICES ASSUME NEW j \in 1..n PROVE read[j].piece \in Seq(Nat)
        OBVIOUS
      <3>1. PICK x \in Nat : x = j
        OBVIOUS
      <3>2. <<x>> \in Seq(Nat)
        OBVIOUS
      <3> QED
        BY <1>3, <3>1, <3>2
    <2> QED
      BY <1>5, <2>1, FromType
  <1>7. k \in 1..n /\ k \in Nat
    BY <1>1
  <1>8. PICK g \in 1..n + 1 : g = TokenAt(s, k).next
    <2>1. TokenAt(s, k).next \in 1..n + 1
      BY <1>4, <1>7
    <2> QED
      BY <2>1
  <1>9. PICK one, y, u : one = <<k>> /\ y = From(n, read)[g] /\ u = From(n, read)[k]
    OBVIOUS
  <1>10. u = one \o y
    <2>1. From(n, read)[k] = read[k].piece \o From(n, read)[read[k].next]
      BY <1>5, <1>7, FromStep
    <2> QED
      BY <1>3, <1>7, <1>8, <1>9, <2>1
  <1>11. one \in Seq(Nat) /\ Len(one) = 1 /\ one[1] = k
    <2>1. PICK x \in Nat : x = k
      BY <1>7
    <2>2. <<x>> \in Seq(Nat) /\ Len(<<x>>) = 1 /\ <<x>>[1] = x
      OBVIOUS
    <2> QED
      BY <1>9, <2>1, <2>2
  <1>a. one \in Seq(Nat)
    BY <1>11
  <1>12. y \in Seq(Nat)
    BY <1>6, <1>9
  <1>13. /\ u \in Seq(Nat) /\ Len(u) = Len(one) + Len(y) /\ Len(y) \in Nat
         /\ \A x \in 1..Len(one) : u[x] = one[x]
         /\ \A x \in 1..Len(y) : u[Len(one) + x] = y[x]
    BY <1>a, <1>10, <1>12, ConcatIs
  <1>b. u \in Seq(Nat)
    BY <1>13
  <1>14. ASSUME NEW j, Begins(s, k, j), j # k PROVE Begins(s, g, j)
    <2>1. PICK x \in DOMAIN u : u[x] = j
      BY <1>1, <1>2, <1>9, <1>14 DEF Begins, Has
    <2>2. x \in 1..1 + Len(y)
      <3>1. DOMAIN u = 1..Len(u)
        BY <1>b, LenProperties
      <3> QED
        BY <1>11, <1>13, <2>1, <3>1
    <2>3. x # 1
      <3>1. 1 \in 1..Len(one)
        BY <1>11
      <3>2. u[1] = k
        BY <1>11, <1>13, <3>1
      <3> QED
        BY <1>14, <2>1, <3>2
    <2>4. PICK z \in 1..Len(y) : x = 1 + z
      <3>1. Len(y) \in Nat
        BY <1>13
      <3>2. x - 1 \in 1..Len(y) /\ x = 1 + (x - 1)
        BY <2>2, <2>3, <3>1
      <3> QED
        BY <3>2
    <2>5. y[z] = j
      BY <1>11, <1>13, <2>1, <2>4
    <2>6. z \in DOMAIN y
      BY <1>12, LenProperties
    <2> QED
      BY <1>1, <1>2, <1>9, <2>5, <2>6 DEF Begins, Has
  <1> QED
    BY <1>1, <1>4, <1>7, <1>8, <1>14

\* No token begins before the place where reading begins.
LEMMA BeginsLater ==
  ASSUME NEW s \in Seq(Bytes), NEW at \in 1..Len(s) + 1, NEW j, Begins(s, at, j)
  PROVE  j >= at
  <1>1. PICK n \in Nat : n = Len(s)
    BY LenProperties
  <1> DEFINE Goal(k) == \A x : Begins(s, k, x) => x \in Nat /\ x >= k
  <1> DEFINE S == {k \in 1..n + 1 : Goal(k)}
  <1>2. n + 1 \in S
    <2>1. Advances(n, Placing(s))
      <3>1. \A k \in 1..n : Placing(s)[k].next = TokenAt(s, k).next
        BY <1>1, LenProperties DEF Placing, Read
      <3>2. \A k \in 1..n : TokenAt(s, k).next \in k + 1..n + 1
        BY <1>1, PlacingIs
      <3> QED
        BY <3>1, <3>2 DEF Advances
    <2>2. From(n, Placing(s))[n + 1] = <<>>
      BY <2>1, FromStep
    <2>3. Goal(n + 1)
      BY <1>1, <2>2 DEF Begins, Has
    <2>4. n + 1 \in 1..n + 1
      OBVIOUS
    <2> QED
      BY <2>3, <2>4
  <1>3. ASSUME NEW k \in 1..n, \A x \in k + 1..n + 1 : x \in S PROVE k \in S
    <2>1. PICK g \in k + 1..n + 1 : g = TokenAt(s, k).next
      <3>1. TokenAt(s, k).next \in k + 1..n + 1
        BY <1>1, PlacingIs
      <3> QED
        BY <3>1
    <2>2. Goal(g)
      BY <1>3
    <2>3. ASSUME NEW x, Begins(s, k, x) PROVE x \in Nat /\ x >= k
      <3>1. x = k \/ Begins(s, g, x)
        BY <1>1, <2>1, <2>3, PlacingIs
      <3>2. CASE x = k
        BY <3>2
      <3>3. CASE Begins(s, g, x)
        <4>1. x \in Nat /\ x >= g
          BY <2>2, <3>3
        <4> QED
          BY <4>1
      <3> QED
        BY <3>1, <3>2, <3>3
    <2>4. k \in 1..n + 1
      OBVIOUS
    <2> QED
      BY <2>3, <2>4
  <1>4. 1..n + 1 \subseteq S
    <2> HIDE DEF S
    <2> QED
      BY <1>2, <1>3, DownInduction
  <1>5. at \in S
    <2>1. at \in 1..n + 1
      BY <1>1
    <2> QED
      BY <1>4, <2>1
  <1> QED
    BY <1>5

\* Behind a token, and within one.
LEMMA BegunNext ==
  ASSUME NEW s \in Seq(Bytes), NEW k \in 1..Len(s), Begun(s, k)
  PROVE  /\ Begun(s, TokenAt(s, k).next)
         /\ \A j \in Marked(s) : j > k => j >= TokenAt(s, k).next
  <1>1. PICK n \in Nat : n = Len(s)
    BY LenProperties
  <1>2. PICK g : g = TokenAt(s, k).next
    OBVIOUS
  <1>3. g \in k + 1..n + 1
    BY <1>1, <1>2, PlacingIs
  <1>4. k \in Nat /\ g \in Nat /\ g > k /\ g \in 1..Len(s) + 1
    BY <1>1, <1>3
  <1>5. ASSUME NEW j \in Marked(s), j > k PROVE Begins(s, g, j) /\ j >= g
    <2>1. j \in Nat
      <3>1. j \in 1..Len(s)
        BY MarkedIs
      <3> QED
        BY <1>1, <3>1
    <2>2. j >= k /\ j # k
      BY <1>4, <1>5, <2>1
    <2>3. Begins(s, k, j)
      BY <2>2 DEF Begun
    <2>4. Begins(s, g, j)
      BY <1>2, <2>2, <2>3, PlacingIs
    <2>5. g \in 1..Len(s) + 1
      BY <1>4
    <2> QED
      BY <2>4, <2>5, BeginsLater
  <1>6. ASSUME NEW j \in Marked(s), j >= g PROVE j > k
    <2>1. j \in 1..Len(s)
      BY MarkedIs
    <2> QED
      BY <1>1, <1>4, <1>6, <2>1
  <1> QED
    BY <1>2, <1>5, <1>6 DEF Begun

LEMMA BegunFirst ==
  ASSUME NEW s \in Seq(Bytes), Marked(s) \subseteq Starts(s)
  PROVE  Begun(s, 1)
  <1>1. Starts(s) = {From(Len(s), Placing(s))[1][j] : j \in DOMAIN From(Len(s), Placing(s))[1]}
    BY DEF Starts, Placing
  <1> QED
    BY <1>1 DEF Begun, Begins, Has

-----------------------------------------------------------------------------
(* What a token is *)

LEMMA ParamToken ==
  ASSUME NEW s \in Seq(Bytes), NEW k \in Marked(s)
  PROVE  TokenAt(s, k) = Read(<<Token("param", NumberAt(s, k))>>, MarkEnd(s, k))
  <1>1. k \in 1..Len(s) /\ s[k] = Dollar /\ Byte(s, k + 1) \in Digits
    BY MarkedIs
  <1>2. TokenAt(s, k) = Word(s, "param", k + 1, Digits)
    <2>1. k \in 1..Len(s)
      BY <1>1
    <2>2. ParamAt(s, k)
      BY <1>1 DEF ParamAt
    <2> QED
      BY <2>1, <2>2, TokenOf
  <1> QED
    BY <1>2 DEF Word, NumberAt, MarkEnd

\* No piece, or one token that is not a placeholder.
NoParam(piece) == piece = <<>> \/ \E is, x : is # "param" /\ piece = <<Token(is, x)>>

LEMMA QuotedNoParam ==
  ASSUME NEW s, NEW is, is # "param", NEW k, NEW quote, NEW escapes
  PROVE  NoParam(Quoted(s, is, k, quote, escapes).piece)
  <1>1. \/ Quoted(s, is, k, quote, escapes).piece = <<Token("error", <<>>)>>
        \/ \E x : Quoted(s, is, k, quote, escapes).piece = <<Token(is, x)>>
    BY DEF Quoted, Read
  <1>2. "error" # "param"
    OBVIOUS
  <1> QED
    BY <1>1, <1>2 DEF NoParam

LEMMA OtherToken ==
  ASSUME NEW s \in Seq(Bytes), NEW k \in 1..Len(s), k \notin Marked(s)
  PROVE  NoParam(TokenAt(s, k).piece)
  <1>1. ~ParamAt(s, k)
    <2>1. k \in DOMAIN s
      BY LenProperties
    <2> QED
      BY <2>1 DEF ParamAt, Marked
  <1>2. /\ "num" # "param" /\ "str" # "param" /\ "ident" # "param" /\ "name" # "param" /\ "op" # "param"
        /\ "rest" # "param"
    OBVIOUS
  <1>3. CASE s[k] \in Spaces
    <2>1. TokenAt(s, k) = Read(<<>>, k + 1)
      BY <1>3, TokenOf
    <2> QED
      BY <2>1 DEF Read, NoParam
  <1>a. CASE CommentAt(s, k)
    <2>1. TokenAt(s, k) = LineComment(s, k)
      BY <1>a, TokenOf
    <2>2. LineComment(s, k).piece = <<>>
      BY <1>a, LineAdvances
    <2> QED
      BY <2>1, <2>2 DEF NoParam
  <1>u. NoParam(Unread(s, k).piece)
    <2>1. Unread(s, k).piece = <<Token("rest", SubSeq(s, k, Len(s)))>>
      BY UnreadIs
    <2> QED
      BY <1>2, <2>1 DEF NoParam
  <1>b. CASE BlockAt(s, k)
    <2>1. TokenAt(s, k) = Comment(s, k)
      BY <1>b, TokenOf
    <2>2. CASE Comment(s, k) = Unread(s, k)
      BY <1>u, <2>1, <2>2
    <2>3. CASE Comment(s, k) # Unread(s, k)
      <3>1. \E j \in k + 2..Len(s) : Comment(s, k) = Read(<<>>, j + 2) /\ ClosedBlock(s, k, j)
        BY <2>3, BlockIs
      <3>2. Comment(s, k).piece = <<>>
        BY <3>1 DEF Read
      <3> QED
        BY <2>1, <3>2 DEF NoParam
    <2> QED
      BY <2>2, <2>3
  <1>d. CASE DollarAt(s, k)
    <2>1. TokenAt(s, k) = DollarQuoted(s, k)
      BY <1>d, TokenOf
    <2>2. CASE DollarQuoted(s, k) = Unread(s, k)
      BY <1>u, <2>1, <2>2
    <2>3. CASE DollarQuoted(s, k) # Unread(s, k)
      <3>1. \E o \in k + 1..Len(s) : \E j \in o + 1..Len(s) :
               /\ DollarQuoted(s, k) = Read(<<Token("str", SubSeq(s, o + 1, j - 1))>>, j + (o - k + 1))
               /\ ClosedDollar(s, k, o, j)
        BY <2>3, DollarIs
      <3>2. PICK x, e : DollarQuoted(s, k) = Read(<<Token("str", x)>>, e)
        BY <3>1
      <3>3. DollarQuoted(s, k).piece = <<Token("str", x)>>
        BY <3>2 DEF Read
      <3> QED
        BY <1>2, <2>1, <3>3 DEF NoParam
    <2> QED
      BY <2>2, <2>3
  <1>4. CASE s[k] = Quote
    <2>1. TokenAt(s, k) = Quoted(s, "str", k + 1, Quote, FALSE)
      BY <1>4, TokenOf
    <2> QED
      BY <1>2, <2>1, QuotedNoParam
  <1>5. CASE EscapedAt(s, k)
    <2>1. TokenAt(s, k) = Quoted(s, "str", k + 2, Quote, TRUE)
      BY <1>5, TokenOf
    <2> QED
      BY <1>2, <2>1, QuotedNoParam
  <1>6. CASE s[k] = DQuote
    <2>1. TokenAt(s, k) = Quoted(s, "ident", k + 1, DQuote, FALSE)
      BY <1>6, TokenOf
    <2> QED
      BY <1>2, <2>1, QuotedNoParam
  <1>7. CASE s[k] \in Digits \/ NameAt(s, k) \/ OpAt(s, k)
    <2>1. \/ TokenAt(s, k) = Word(s, "num", k, Digits) \/ TokenAt(s, k) = Word(s, "name", k, NameBytes)
          \/ TokenAt(s, k) = Read(<<Token("op", <<s[k]>>)>>, k + 1)
      BY <1>7, TokenOf
    <2> QED
      BY <1>2, <2>1 DEF Word, Read, NoParam
  <1> QED
    BY <1>1, <1>3, <1>a, <1>b, <1>d, <1>4, <1>5, <1>6, <1>7, TokenKinds

-----------------------------------------------------------------------------
(* What it means *)

LEMMA MeansValue ==
  ASSUME NEW list, IsList(list), NEW m \in 1..Len(list)
  PROVE  Means(Token("param", Decimal(m)), list) = Denotes(list[m])
  <1>1. PICK z \in Nat : z = Len(list) /\ DOMAIN list = 1..z
    BY ListLength
  <1>2. PICK token : token = Token("param", Decimal(m))
    OBVIOUS
  <1>3. token.is = "param" /\ token.of = Decimal(m)
    BY <1>2 DEF Token
  <1>4. \A n \in DOMAIN list : IsParam(token, n) <=> n = m
    <2> SUFFICES ASSUME NEW n \in DOMAIN list, Decimal(m) = Decimal(n) PROVE n = m
      BY <1>3 DEF IsParam
    <2>1. n \in Nat /\ m \in Nat
      BY <1>1
    <2>2. NumberOf(Decimal(n)) = n /\ NumberOf(Decimal(m)) = m
      BY <2>1, DecimalIs
    <2> QED
      BY <2>2
  <1>5. m \in DOMAIN list
    BY <1>1
  <1>6. (CHOOSE n \in DOMAIN list : IsParam(token, n)) = m
    BY <1>4, <1>5
  <1>7. \E n \in DOMAIN list : IsParam(token, n)
    BY <1>4, <1>5
  <1> QED
    BY <1>2, <1>6, <1>7 DEF Means

LEMMA ToldPlain ==
  ASSUME NEW list, Meant(list), NEW piece \in Seq(Tokens), NEW tokens \in Seq(Tokens),
         \/ piece = <<>>
         \/ \E token : piece = <<token>> /\ \A n \in DOMAIN list : ~IsParam(token, n)
  PROVE  Told(piece \o tokens, list) = piece \o Told(tokens, list)
  <1>1. Told(tokens, list) \in Seq(Tokens)
    BY ToldIs
  <1>2. CASE piece = <<>>
    <2>1. piece \o tokens = tokens
      BY <1>2, ConcatEmptySeq
    <2>2. piece \o Told(tokens, list) = Told(tokens, list)
      BY <1>1, <1>2, ConcatEmptySeq
    <2> QED
      BY <2>1, <2>2
  <1>3. CASE \E token : piece = <<token>> /\ \A n \in DOMAIN list : ~IsParam(token, n)
    <2>1. PICK token : piece = <<token>> /\ \A n \in DOMAIN list : ~IsParam(token, n)
      BY <1>3
    <2>2. token \in Tokens
      <3>1. 1 \in 1..Len(piece) /\ piece[1] = token
        BY <2>1
      <3> QED
        BY <3>1, ElementOfSeq
    <2>3. Means(token, list) = <<token>>
      BY <2>1 DEF Means
    <2>4. Told(<<token>> \o tokens, list) = Means(token, list) \o Told(tokens, list)
      BY <2>2, ToldStep
    <2> QED
      BY <2>1, <2>3, <2>4
  <1> QED
    BY <1>2, <1>3

-----------------------------------------------------------------------------
(* All values put in, read as the server reads it *)

\* A token that a value follows instead of its placeholder ends where it ended.
LEMMA FollowsValue ==
  ASSUME NEW s \in Seq(Bytes), NEW list, Clear(s, list), NEW k \in 1..Len(s) + 1, k > 1,
         Replaced(s, list, 0, k)
  PROVE  Apart(s[k - 1], Byte(s, k), Byte(Substituted(s, list, 0)[k], 1))
  <1>1. IsList(list) /\ Spaced(s) /\ Safe(s, list) /\ Undashed(s, list)
    BY DEF Clear
  <1>2. IsList(list)
    BY <1>1
  <1>3. PICK z \in Nat : z = Len(list)
    BY <1>2, ListLength
  <1>4. PICK m \in 0 + 1..Len(list) : /\ NumberAt(s, k) = Decimal(m) /\ m \in 1..Len(list)
                                      /\ IsValue(list[m]) /\ k \in 1..Len(s) /\ k \in Marked(s)
    <2>1. 0 \in Nat
      OBVIOUS
    <2> QED
      BY <1>2, <2>1, ReplacedIs
  <1>5. m \in Nat /\ k \in 1..Len(s)
    BY <1>3, <1>4
  <1>6. k \in Marked(s)
    BY <1>4
  <1>7. PICK v, t, y, c : /\ v = list[m] /\ t = Escaped(v) /\ c = s[k - 1]
                          /\ y = Substituted(s, list, 0)[MarkEnd(s, k)]
    OBVIOUS
  <1>8. Substituted(s, list, 0)[k] = t \o y
    <2>1. 0 \in Nat
      OBVIOUS
    <2>3. NumberAt(s, k) = Decimal(m)
      BY <1>4
    <2>2. Substituted(s, list, 0)[k] = Escaped(list[m]) \o Substituted(s, list, 0)[MarkEnd(s, k)]
      BY <1>2, <1>6, <2>1, <2>3, SubstitutedAt
    <2> QED
      BY <1>7, <2>2
  <1>9. IsValue(v)
    BY <1>4, <1>7
  <1>10. Plain(v)
    BY <1>1, <1>4, <1>7 DEF Safe
  <1>11. /\ t \in Seq(Bytes) /\ Len(t) > 0 /\ t[1] \notin {DQuote, Star}
         /\ t[1] = Minus => v.ty \in IntTypes /\ v.of[1] < 0
    BY <1>7, <1>9, <1>10, EscapedEnds
  <1>12. Byte(t \o y, 1) = t[1]
    <2>1. MarkEnd(s, k) \in 1..Len(s) + 1
      <3>1. MarkEnd(s, k) \in k + 2..Len(s) + 1
        BY <1>6, MarkedIs
      <3>2. k \in Nat /\ 1 <= k /\ Len(s) \in Nat
        BY <1>5, LenProperties
      <3> QED
        BY <3>1, <3>2
    <2>2. y \in Seq(Bytes)
      <3>1. 0 \in Nat
        OBVIOUS
      <3> QED
        BY <1>2, <1>7, <2>1, <3>1, SubstitutedType
    <2>3. t \in Seq(Bytes)
      BY <1>11
    <2>4. 1 \in 1..Len(t)
      <3>1. Len(t) \in Nat
        BY <2>3, LenProperties
      <3> QED
        BY <1>11, <3>1
    <2> QED
      BY <2>2, <2>3, <2>4, ByteConcat
  <1>13. s[k] = Dollar /\ Byte(s, k) = Dollar
    <2>1. s[k] = Dollar
      BY <1>6, MarkedIs
    <2>2. k <= Len(s)
      BY <1>5
    <2> QED
      BY <2>1, <2>2 DEF Byte
  <1>14. c \notin Digits \cup {Quote, Dollar}
    BY <1>1, <1>6, <1>7 DEF Spaced
  <1>15. c = Minus => t[1] # Minus
    <2> SUFFICES ASSUME c = Minus, t[1] = Minus PROVE FALSE
      OBVIOUS
    <2>1. PICK ph, d, dash, whole : /\ ph = Placeholder(m) /\ d = Decimal(m) /\ dash = <<Minus>>
                                    /\ whole = dash \o ph
      OBVIOUS
    <2>2. PICK j, l : j = k - 1 /\ l = Len(s)
      OBVIOUS
    <2>3. j \in Nat /\ l \in Nat /\ j >= 1 /\ k = j + 1 /\ k <= l
      <3>1. Len(s) \in Nat
        BY LenProperties
      <3> QED
        BY <1>5, <2>2, <3>1
    <2>4. ~StartsAt(s, whole, j)
      <3>1. v.ty \in IntTypes /\ v.of[1] < 0
        BY <1>11
      <3>2. j \in 1..Len(s)
        BY <2>2, <2>3
      <3>3. \A x \in 1..Len(s) : ~StartsAt(s, <<Minus>> \o Placeholder(m), x)
        BY <1>1, <1>4, <1>7, <3>1 DEF Undashed
      <3> QED
        BY <2>1, <3>2, <3>3
    <2>5. PICK e \in k + 2..l + 1 : e = MarkEnd(s, k)
      <3>1. MarkEnd(s, k) \in k + 2..l + 1
        BY <1>6, <2>2, MarkedIs
      <3> QED
        BY <3>1
    <2>6. PICK g \in Nat : g = e - 1
      BY <2>3
    <2>7. ph = SubSeq(s, k, g)
      BY <1>4, <1>5, <1>6, <2>1, <2>5, <2>6, MarkedText
    <2>8. k \in Nat /\ 1 <= k /\ k <= g + 1 /\ g <= Len(s)
      BY <1>5, <2>2, <2>3, <2>6
    <2>9. ph \in Seq(Bytes) /\ Len(ph) = g - k + 1 /\ \A x \in 1..g - k + 1 : ph[x] = s[k + x - 1]
      BY <2>7, <2>8, SubSeqIs
    <2>10. dash \in Seq(Bytes) /\ Len(dash) = 1 /\ dash[1] = Minus
      <3>1. PICK b \in Bytes : b = Minus
        BY DEF Minus, Bytes
      <3>2. <<b>> \in Seq(Bytes) /\ Len(<<b>>) = 1 /\ <<b>>[1] = b
        OBVIOUS
      <3> QED
        BY <2>1, <3>1, <3>2
    <2>11. dash \in Seq(Bytes)
      BY <2>10
    <2>12. ph \in Seq(Bytes)
      BY <2>9
    <2>13. /\ whole \in Seq(Bytes) /\ Len(whole) = Len(dash) + Len(ph)
           /\ \A x \in 1..Len(dash) : whole[x] = dash[x]
           /\ \A x \in 1..Len(ph) : whole[Len(dash) + x] = ph[x]
      BY <2>1, <2>11, <2>12, ConcatIs
    <2>14. whole \in Seq(Bytes)
      BY <2>13
    <2>15. PICK w \in Nat : w = Len(ph) /\ w = g - k + 1
      BY <2>8, <2>9
    <2>16. Len(whole) = w + 1
      BY <2>10, <2>13, <2>15
    <2>17. ASSUME NEW x \in 1..Len(whole) PROVE s[j + x - 1] = whole[x]
      <3>1. CASE x = 1
        <4>1. 1 \in 1..Len(dash) /\ j + x - 1 = j
          BY <2>3, <2>10, <3>1
        <4> QED
          BY <1>7, <2>2, <2>10, <2>13, <3>1, <4>1
      <3>2. CASE x # 1
        <4>1. PICK b \in 1..w : x = 1 + b
          <5>1. x - 1 \in 1..w /\ x = 1 + (x - 1)
            BY <2>16, <3>2
          <5> QED
            BY <5>1
        <4>2. whole[1 + b] = ph[b]
          BY <2>10, <2>13, <2>15, <4>1
        <4>3. ph[b] = s[k + b - 1]
          BY <2>9, <2>15, <4>1
        <4>4. k + b - 1 = j + x - 1
          BY <2>3, <4>1
        <4> QED
          BY <4>1, <4>2, <4>3, <4>4
      <3> QED
        BY <3>1, <3>2
    <2>18. j + Len(whole) <= Len(s) + 1
      <3>1. g <= l /\ j + (w + 1) = g + 1
        BY <2>2, <2>3, <2>8, <2>15
      <3> QED
        BY <2>2, <2>3, <2>16, <3>1
    <2>19. j \in 1..Len(s)
      BY <2>2, <2>3
    <2> QED
      BY <2>4, <2>14, <2>17, <2>18, <2>19, StartsAtIs
  <1>16. Dollar \in NameBytes
    BY DEF NameBytes
  <1> QED
    BY <1>7, <1>8, <1>11, <1>12, <1>13, <1>14, <1>15, <1>16 DEF Apart

\* The statement with the values in the places of the placeholders reads as the statement
\* whose placeholders stand for them.
LEMMA LexSubstituted ==
  ASSUME NEW s \in Seq(Bytes), NEW list, Clear(s, list)
  PROVE  Lex(Substituted(s, list, 0)[1]) = Told(Lex(s), list)
  <1>1. IsList(list) /\ Spaced(s) /\ Safe(s, list)
    BY DEF Clear
  <1>2. IsList(list)
    BY <1>1
  <1>3. PICK l \in Nat, z \in Nat, none \in Nat : l = Len(s) /\ z = Len(list) /\ none = 0
    BY <1>2, ListLength, LenProperties
  <1>4. DOMAIN list = 1..z /\ \A j \in DOMAIN list : IsValue(list[j])
    BY <1>2, <1>3, ListLength DEF IsList
  <1>5. Meant(list)
    BY <1>4, DenotesType DEF Meant
  <1>6. PICK f, tokens : f = Substituted(s, list, none) /\ tokens = From(Len(s), Tokened(s))
    OBVIOUS
  <1>7. (\A j \in 1..l + 1 : f[j] \in Seq(Bytes)) /\ f[l + 1] = <<>>
    BY <1>2, <1>3, <1>6, SubstitutedType
  <1>8. /\ tokens[l + 1] = <<>> /\ \A j \in 1..l + 1 : tokens[j] \in Seq(Tokens)
        /\ \A j \in 1..l : tokens[j] = TokenAt(s, j).piece \o tokens[TokenAt(s, j).next]
    <2>1. ASSUME NEW j \in 1..l + 1 PROVE tokens[j] \in Seq(Tokens)
      BY <1>3, <1>6, <2>1, TokenedType
    <2>2. 1 \in 1..Len(s) + 1
      BY <1>3
    <2>3. Advances(l, Tokened(s)) /\ \A j \in 1..l : Tokened(s)[j] = TokenAt(s, j)
      BY <1>3, <2>2, TokenedType
    <2>4. /\ From(l, Tokened(s))[l + 1] = <<>>
          /\ \A j \in 1..l : From(l, Tokened(s))[j]
                               = Tokened(s)[j].piece \o From(l, Tokened(s))[Tokened(s)[j].next]
      BY <2>3, FromStep
    <2> QED
      BY <1>3, <1>6, <2>1, <2>3, <2>4
  <1> DEFINE Goal(k) == Begun(s, k) => Lex(f[k]) = Told(tokens[k], list)
  <1> DEFINE S == {k \in 1..l + 1 : Goal(k)}
  <1>9. l + 1 \in S
    <2>1. PICK y : y = f[l + 1]
      OBVIOUS
    <2>2. y \in Seq(Bytes) /\ Len(y) = 0
      BY <1>7, <2>1
    <2>3. y \in Seq(Bytes)
      BY <2>2
    <2>4. Lex(y) = <<>>
      BY <2>2, <2>3, LexType
    <2>5. Told(tokens[l + 1], list) = <<>>
      BY <1>5, <1>8, ToldNothing
    <2>6. l + 1 \in 1..l + 1
      OBVIOUS
    <2> QED
      BY <2>1, <2>4, <2>5, <2>6, Zenon
  <1>10. ASSUME NEW k \in 1..l, \A j \in k + 1..l + 1 : j \in S PROVE k \in S
    <2> SUFFICES ASSUME Begun(s, k) PROVE Lex(f[k]) = Told(tokens[k], list)
      <3>1. k \in 1..l + 1
        OBVIOUS
      <3> QED
        BY <3>1
    <2>1. \A j \in k + 1..l + 1 : Begun(s, j) => Lex(f[j]) = Told(tokens[j], list)
      BY <1>10
    <2> HIDE DEF S
    <2>2. k \in 1..Len(s)
      BY <1>3
    <2>3. PICK e \in k + 1..l + 1 : e = TokenAt(s, k).next
      <3>1. TokenAt(s, k).next \in k + 1..Len(s) + 1
        BY <2>2, PlacingIs
      <3> QED
        BY <1>3, <3>1
    <2>4. Begun(s, e) /\ \A j \in Marked(s) : j > k => j >= e
      BY <2>2, <2>3, BegunNext
    <2>5. Lex(f[e]) = Told(tokens[e], list)
      BY <2>1, <2>4
    <2>6. e \in 1..l + 1 /\ e \in 1..Len(s) + 1 /\ k \in 1..e /\ k \in Nat /\ e \in Nat
      BY <1>3
    <2>7. PICK y, rest : y = f[e] /\ rest = tokens[e]
      OBVIOUS
    <2>8. y \in Seq(Bytes)
      BY <1>7, <2>6, <2>7
    <2>9. rest \in Seq(Tokens)
      BY <1>8, <2>6, <2>7
    <2>10. tokens[k] = TokenAt(s, k).piece \o rest
      BY <1>8, <2>3, <2>7
    <2>11. CASE Replaced(s, list, none, k)
      <3>1. PICK m \in none + 1..Len(list) : /\ NumberAt(s, k) = Decimal(m) /\ m \in 1..Len(list)
                                             /\ IsValue(list[m]) /\ k \in Marked(s)
        BY <1>2, <2>11, ReplacedIs
      <3>2. k \in Marked(s) /\ m \in 1..Len(list)
        BY <3>1
      <3>3. TokenAt(s, k) = Read(<<Token("param", Decimal(m))>>, MarkEnd(s, k))
        BY <3>1, <3>2, ParamToken
      <3>4. PICK token : token = Token("param", Decimal(m))
        OBVIOUS
      <3>5. TokenAt(s, k).piece = <<token>> /\ e = MarkEnd(s, k)
        BY <2>3, <3>3, <3>4 DEF Read
      <3>6. f[k] = Escaped(list[m]) \o y
        <4>1. Substituted(s, list, none)[k] = Escaped(list[m]) \o Substituted(s, list, none)[MarkEnd(s, k)]
          <5>1. k \in Marked(s)
            BY <3>2
          <5>2. NumberAt(s, k) = Decimal(m)
            BY <3>1
          <5> QED
            BY <1>2, <5>1, <5>2, SubstitutedAt
        <4> QED
          BY <1>6, <2>7, <3>5, <4>1
      <3>7. Byte(y, 1) \notin NameBytes \cup {Quote}
        <4>1. Spaced(s) /\ k \in Marked(s)
          BY <1>1, <3>2
        <4>2. Spaced(s)
          BY <4>1
        <4>3. Byte(s, e) \notin NameBytes \cup {Quote} /\ ~Replaced(s, list, none, e)
          BY <3>2, <3>5, <4>2, SpacedEnd
        <4>4. Byte(Substituted(s, list, none)[e], 1) = Byte(s, e)
          BY <1>2, <2>6, <4>3, FirstIs
        <4> QED
          BY <1>6, <2>7, <4>3, <4>4
      <3>8. Lex(Escaped(list[m]) \o y) = Denotes(list[m]) \o Lex(y)
        <4>1. IsValue(list[m])
          BY <3>1
        <4>2. Plain(list[m])
          BY <1>1, <3>1, <3>2 DEF Safe
        <4> QED
          BY <2>8, <3>7, <4>1, <4>2, EscapedLex
      <3>9. Means(token, list) = Denotes(list[m])
        BY <1>2, <3>2, <3>4, MeansValue
      <3>10. token \in Tokens
        <4>1. TokenAt(s, k).piece \in Seq(Tokens)
          BY <2>2, TokenType
        <4>2. PICK piece \in Seq(Tokens) : piece = <<token>>
          BY <3>5, <4>1
        <4>3. 1 \in 1..Len(piece) /\ piece[1] = token
          BY <4>2
        <4> QED
          BY <4>3, ElementOfSeq
      <3>11. Told(<<token>> \o rest, list) = Means(token, list) \o Told(rest, list)
        BY <1>5, <2>9, <3>10, ToldStep
      <3> QED
        BY <2>5, <2>7, <2>10, <3>5, <3>6, <3>8, <3>9, <3>11
    <2>12. CASE ~Replaced(s, list, none, k)
      <3>1. Untouched(s, list, none, k, e)
        <4> SUFFICES ASSUME NEW j \in k..e - 1, Replaced(s, list, none, j) PROVE FALSE
          BY DEF Untouched
        <4>1. j \in Marked(s)
          BY DEF Replaced
        <4>2. j # k
          BY <2>12
        <4>3. j > k /\ j < e
          BY <2>6, <4>2
        <4> QED
          BY <2>4, <4>1, <4>3
      <3>2. PICK a, u : a = SubSeq(s, k, e - 1) /\ u = f[k]
        OBVIOUS
      <3>3. u = a \o y
        <4>1. Substituted(s, list, none)[k] = SubSeq(s, k, e - 1) \o Substituted(s, list, none)[e]
          BY <1>2, <2>6, <3>1, Stretch
        <4> QED
          BY <1>6, <2>7, <3>2, <4>1
      <3>4. PICK w, g : w = e - k /\ g = e - 1
        OBVIOUS
      <3>5. w \in Nat /\ w >= 1 /\ k + w = e /\ g \in Nat /\ g - k + 1 = w
        BY <2>6, <3>4
      <3>6. w \in Nat
        BY <3>5
      <3>7. a \in Seq(Bytes) /\ Len(a) = w /\ \A j \in 1..w : a[j] = s[k + j - 1]
        <4>1. k \in Nat /\ g \in Nat /\ 1 <= k /\ k <= g + 1 /\ g <= Len(s)
          BY <1>3, <2>6, <3>4
        <4>2. a \in Seq(Bytes) /\ Len(a) = g - k + 1 /\ \A j \in 1..g - k + 1 : a[j] = s[k + j - 1]
          BY <3>2, <3>4, <4>1, SubSeqIs
        <4> QED
          BY <3>5, <4>2
      <3>8. a \in Seq(Bytes)
        BY <3>7
      <3>9. /\ u \in Seq(Bytes) /\ Len(u) = Len(a) + Len(y) /\ Len(y) \in Nat
            /\ \A j \in 1..Len(a) : u[j] = a[j]
        BY <2>8, <3>3, <3>8, ConcatIs
      <3>10. u \in Seq(Bytes)
        BY <3>9
      <3>11. 1 \in 1..Len(u) /\ 1 + w <= Len(u) + 1
        BY <3>5, <3>7, <3>9
      <3>12. Matching(s, k, u, 1, w)
        <4> SUFFICES ASSUME NEW x \in 0..w - 1 PROVE s[k + x] = u[1 + x]
          BY DEF Matching
        <4>1. PICK b \in 1..w : b = 1 + x
          <5>1. 1 + x \in 1..w
            BY <3>6
          <5> QED
            BY <5>1
        <4>2. k + b - 1 = k + x
          BY <2>6, <4>1
        <4>3. u[b] = a[b] /\ a[b] = s[k + b - 1]
          BY <3>7, <3>9
        <4> QED
          BY <4>1, <4>2, <4>3
      <3>13. Byte(u, 1 + w) = Byte(y, 1)
        <4>1. Byte(a \o y, Len(a) + 1) = Byte(y, 1)
          BY <2>8, <3>8, ByteConcat
        <4>2. Len(a) + 1 = 1 + w
          BY <3>6, <3>7
        <4> QED
          BY <3>3, <4>1, <4>2
      <3>14. Follows(s, k, u, 1, w)
        <4>1. CASE ~Replaced(s, list, none, e)
          <5>1. Byte(Substituted(s, list, none)[e], 1) = Byte(s, e)
            BY <1>2, <2>6, <4>1, FirstIs
          <5>2. Byte(u, 1 + w) = Byte(s, k + w)
            BY <1>6, <2>7, <3>5, <3>13, <5>1
          <5> QED
            BY <5>2 DEF Follows
        <4>2. CASE Replaced(s, list, none, e)
          <5>1. e > 1
            BY <2>6, <3>5
          <5>2. Replaced(s, list, 0, e)
            BY <1>3, <4>2
          <5>3. Apart(s[e - 1], Byte(s, e), Byte(Substituted(s, list, 0)[e], 1))
            BY <2>6, <5>1, <5>2, FollowsValue
          <5>4. Apart(s[k + w - 1], Byte(s, k + w), Byte(u, 1 + w))
            BY <1>3, <1>6, <2>7, <3>5, <3>13, <5>3
          <5>5. s[e] = Dollar
            <6>1. e \in Marked(s)
              BY <5>2 DEF Replaced
            <6> QED
              BY <6>1, MarkedIs
          <5>6. s[k + w] = Dollar
            BY <3>5, <5>5
          <5> QED
            BY <5>4, <5>6 DEF Follows
        <4> QED
          BY <4>1, <4>2
      <3>15. LastsAs(s, k, u, 1, w)
        <4> SUFFICES ASSUME k + w = Len(s) + 1 PROVE 1 + w = Len(u) + 1
          BY DEF LastsAs
        <4>1. e = l + 1
          BY <1>3, <3>5
        <4>2. Len(y) = 0
          BY <1>7, <2>7, <4>1
        <4> QED
          BY <3>6, <3>7, <3>9, <4>2
      <3>16. TokenAt(u, 1) = Read(TokenAt(s, k).piece, 1 + w)
        <4>1. TokenAt(s, k).next = k + w
          BY <2>3, <3>5
        <4>2. 1 \in 1..Len(u)
          BY <3>11
        <4>3. 1 + w <= Len(u) + 1
          BY <3>11
        <4> QED
          BY <2>2, <3>6, <3>10, <3>12, <3>14, <3>15, <4>1, <4>2, <4>3, TokenAgree
      <3>17. PICK piece : piece = TokenAt(s, k).piece
        OBVIOUS
      <3>18. piece \in Seq(Tokens)
        BY <2>2, <3>17, TokenType
      <3>19. Lex(a \o y) = piece \o Lex(y)
        <4>1. TokenAt(a \o y, 1).piece = piece /\ TokenAt(a \o y, 1).next = 1 + w
          BY <3>3, <3>16, <3>17 DEF Read
        <4>2. TokenAt(a \o y, 1).next = Len(a) + 1
          BY <3>6, <3>7, <4>1
        <4>3. Len(a) > 0
          BY <3>5, <3>7
        <4>4. Lex(a \o y) = TokenAt(a \o y, 1).piece \o Lex(y)
          BY <2>8, <3>8, <4>2, <4>3, LexStep
        <4> QED
          BY <4>1, <4>4
      <3>20. \/ piece = <<>>
             \/ \E token : piece = <<token>> /\ \A n \in DOMAIN list : ~IsParam(token, n)
        <4>1. CASE k \in Marked(s)
          <5>1. TokenAt(s, k) = Read(<<Token("param", NumberAt(s, k))>>, MarkEnd(s, k))
            BY <4>1, ParamToken
          <5>2. PICK token : token = Token("param", NumberAt(s, k))
            OBVIOUS
          <5>3. piece = <<token>> /\ token.of = NumberAt(s, k)
            BY <3>17, <5>1, <5>2 DEF Read, Token
          <5>4. ASSUME NEW n \in DOMAIN list, IsParam(token, n) PROVE FALSE
            <6>1. NumberAt(s, k) = Decimal(n)
              BY <5>3, <5>4 DEF IsParam
            <6>2. n \in none + 1..Len(list)
              BY <1>3, <1>4
            <6> QED
              BY <2>12, <4>1, <6>1, <6>2 DEF Replaced
          <5> QED
            BY <5>3, <5>4
        <4>2. CASE k \notin Marked(s)
          <5>1. NoParam(piece)
            BY <2>2, <3>17, <4>2, OtherToken
          <5>2. CASE piece = <<>>
            BY <5>2
          <5>3. CASE \E is, x : is # "param" /\ piece = <<Token(is, x)>>
            <6>1. PICK is, x : is # "param" /\ piece = <<Token(is, x)>>
              BY <5>3
            <6>2. PICK token : token = Token(is, x)
              OBVIOUS
            <6>3. token.is # "param"
              BY <6>1, <6>2 DEF Token
            <6>4. \A n \in DOMAIN list : ~IsParam(token, n)
              BY <6>3 DEF IsParam
            <6> QED
              BY <6>1, <6>2, <6>4
          <5> QED
            BY <5>1, <5>2, <5>3 DEF NoParam
        <4> QED
          BY <4>1, <4>2
      <3>21. Told(piece \o rest, list) = piece \o Told(rest, list)
        BY <1>5, <2>9, <3>18, <3>20, ToldPlain
      <3> QED
        BY <2>5, <2>7, <2>10, <3>2, <3>3, <3>17, <3>19, <3>21
    <2> QED
      BY <2>11, <2>12
  <1>11. 1..l + 1 \subseteq S
    <2> HIDE DEF S
    <2> QED
      BY <1>9, <1>10, DownInduction
  <1>12. 1 \in S
    <2>1. 1 \in 1..l + 1
      OBVIOUS
    <2> QED
      BY <1>11, <2>1
  <1>13. Lex(f[1]) = Told(tokens[1], list)
    <2>1. Marked(s) \subseteq Starts(s)
      BY DEF Clear
    <2>2. Begun(s, 1)
      BY <2>1, BegunFirst
    <2> QED
      BY <1>12, <2>2
  <1>14. tokens[1] = Lex(s)
    BY <1>6 DEF Lex, Tokened
  <1> QED
    BY <1>3, <1>6, <1>13, <1>14

-----------------------------------------------------------------------------
(* The statement that is sent *)

\* A statement that is none of the exceptions of StatementKeepsMeaning.
LEMMA ClearOrNot ==
  ASSUME ParamsInv
  PROVE  InsideLiteral \/ LongerNumber \/ Touching \/ InsideValue \/ Unquoted \/ MinusSwallowed
           \/ Clear(sql, params)
  <1> SUFFICES ASSUME ~InsideLiteral, ~LongerNumber, ~Touching, ~InsideValue, ~Unquoted, ~MinusSwallowed
               PROVE  Clear(sql, params)
    OBVIOUS
  <1>1. IsList(params)
    BY DEF ParamsInv, Typed
  <1>2. DOMAIN params = 1..Len(params)
    BY <1>1, ListLength
  <1>3. Marked(sql) \subseteq Starts(sql)
    BY DEF InsideLiteral
  <1>4. Distinct(sql, params)
    BY <1>2 DEF LongerNumber, StandsFor, Distinct
  <1>5. Spaced(sql)
    BY DEF Touching, Spaced
  <1>6. Safe(sql, params)
    <2> SUFFICES ASSUME NEW n \in 1..Len(params), NEW k \in Marked(sql), NumberAt(sql, k) = Decimal(n)
                 PROVE  Plain(params[n]) /\ WithoutPlaceholders(Escaped(params[n]), n)
      BY DEF Safe
    <2>1. Used(n) /\ n \in DOMAIN params
      BY <1>2 DEF Used, StandsFor
    <2>2. Plain(params[n])
      BY <2>1 DEF Unquoted, Plain
    <2>3. \A m \in 1..n - 1 : ~Occurs(Placeholder(m), Escaped(params[n]))
      BY <2>1 DEF InsideValue
    <2>4. Escaped(params[n]) \in Seq(Bytes)
      <3>1. IsValue(params[n])
        BY <1>1, <2>1 DEF IsList
      <3> QED
        BY <3>1, EscapedType
    <2>5. DOMAIN Escaped(params[n]) = 1..Len(Escaped(params[n]))
      BY <2>4, LenProperties
    <2> QED
      BY <2>2, <2>3, <2>5 DEF WithoutPlaceholders, Occurs
  <1>7. Undashed(sql, params)
    <2> SUFFICES ASSUME NEW n \in 1..Len(params), params[n].ty \in IntTypes, params[n].of[1] < 0
                 PROVE  \A k \in 1..Len(sql) : ~StartsAt(sql, <<Minus>> \o Placeholder(n), k)
      BY DEF Undashed
    <2>1. ~Occurs(<<Minus>> \o Placeholder(n), sql)
      BY <1>2 DEF MinusSwallowed
    <2>2. sql \in Seq(Bytes)
      BY DEF ParamsInv, Typed
    <2>3. DOMAIN sql = 1..Len(sql)
      BY <2>2, LenProperties
    <2> QED
      BY <2>1, <2>3 DEF Occurs
  <1> QED
    BY <1>1, <1>3, <1>4, <1>5, <1>6, <1>7 DEF Clear

\* During the loop, the text is the statement with the last parameters put in; when it is
\* sent, with all of them.
PutIn ==
  (stage = "replace" \/ (stage = "sent" /\ path \in {"params", "strings"})) =>
    (Clear(sql, params) => text = Substituted(sql, params, i)[1])

LEMMA PutInNext == ParamsInv /\ PutIn /\ [Next]_vars => PutIn'
  <1> SUFFICES ASSUME ParamsInv, PutIn, [Next]_vars PROVE PutIn'
    OBVIOUS
  <1>1. ASSUME NEW p \in {"params", "strings"}, NEW s \in Texts, NEW list \in ParamLists,
               CallSubstituted(p, s, list)
        PROVE  PutIn'
    <2>1. s \in Seq(Bytes)
      BY ParamsAssumption
    <2>2. IsList(list)
      BY ValuesAssumption DEF IsList
    <2>3. Substituted(s, list, Len(list))[1] = s
      BY <2>1, <2>2, SubstitutedAll
    <2>4. text' = s /\ sql' = s /\ params' = list /\ i' = Len(list)
      BY <1>1 DEF CallSubstituted
    <2>5. text' = Substituted(sql', params', i')[1]
      BY <2>3, <2>4
    <2> QED
      BY <2>5 DEF PutIn
  <1>2. ASSUME NEW p \in {"quote", "schema"}, NEW s \in Names, QuoteName(p, s) PROVE PutIn'
    BY <1>2 DEF QuoteName, PutIn
  <1>3. ASSUME NEW list \in BindLists, CallExtended(<<>>, list) PROVE PutIn'
    BY <1>3 DEF CallExtended, PutIn
  <1>4. CASE Call
    BY <1>1, <1>2, <1>3, <1>4 DEF Call
  <1>5. CASE ReplaceParam
    <2> SUFFICES ASSUME Clear(sql, params)' PROVE text' = Substituted(sql', params', i')[1]
      BY DEF PutIn
    <2>1. /\ stage = "replace" /\ i > 0 /\ i' = i - 1 /\ sql' = sql /\ params' = params
          /\ text' = Replace(text, Placeholder(i), Escaped(params[i]))
      BY <1>5 DEF ReplaceParam
    <2>2. Clear(sql, params)
      BY <2>1 DEF Clear, Distinct, Spaced, Safe, Undashed
    <2>3. text = Substituted(sql, params, i)[1]
      BY <2>1, <2>2 DEF PutIn
    <2>4. IsList(params) /\ i \in 0..Len(params) /\ sql \in Seq(Bytes)
      BY DEF ParamsInv, Typed
    <2>5. sql \in Seq(Bytes)
      BY <2>4
    <2>6. Len(params) \in Nat
      <3>1. IsList(params)
        BY <2>4
      <3> QED
        BY <3>1, ListLength
    <2>7. i \in 1..Len(params)
      BY <2>1, <2>4, <2>6
    <2>8. PICK n \in Nat : n = i - 1 /\ i = n + 1
      <3>1. i - 1 \in Nat /\ i = (i - 1) + 1
        BY <2>6, <2>7
      <3> QED
        BY <3>1
    <2>9. 1 \in 1..Len(sql) + 1
      <3>1. Len(sql) \in Nat
        BY <2>5, LenProperties
      <3> QED
        BY <3>1
    <2>10. i = n + 1
      BY <2>8
    <2>11. Replace(Substituted(sql, params, i)[1], Placeholder(i), Escaped(params[i])) = Substituted(sql, params, n)[1]
      BY <2>2, <2>5, <2>7, <2>9, <2>10, ReplaceEach
    <2> QED
      BY <2>1, <2>3, <2>8, <2>11
  <1>6. CASE SendText
    BY <1>6 DEF SendText, PutIn, Clear, Distinct, Spaced, Safe, Undashed
  <1>7. CASE Answer
    <2>1. stage' \in {"refused", "row"}
      BY <1>7 DEF Answer, ServerRefuses, ServerEchoes
    <2> QED
      BY <2>1 DEF PutIn
  <1>8. CASE UNCHANGED vars
    BY <1>8 DEF vars, PutIn, Clear, Distinct, Spaced, Safe, Undashed
  <1> QED
    BY <1>4, <1>5, <1>6, <1>7, <1>8 DEF Next

LEMMA PutInAlways == Spec => []PutIn
  <1>1. Init => PutIn
    BY DEF Init, PutIn
  <1>2. ParamsInv /\ PutIn /\ [Next]_vars => PutIn'
    BY PutInNext
  <1> QED
    BY <1>1, <1>2, ParamsAlways, PTL DEF Spec

LEMMA MeaningKept == ParamsInv /\ PutIn => StatementKeepsMeaning
  <1> SUFFICES ASSUME ParamsInv, PutIn, stage = "sent", path \in {"params", "strings"}, Clear(sql, params)
               PROVE  Lex(text) = Meaning
    BY ClearOrNot DEF StatementKeepsMeaning
  <1>1. i = 0
    BY DEF ParamsInv, Routed
  <1>2. text = Substituted(sql, params, 0)[1]
    BY <1>1 DEF PutIn
  <1>3. sql \in Seq(Bytes)
    BY DEF ParamsInv, Typed
  <1>4. Lex(text) = Told(Lex(sql), params)
    BY <1>2, <1>3, LexSubstituted
  <1> QED
    BY <1>4, MeaningIs

\* A statement with substituted parameters reads as if each placeholder stood for its value
\* (src/client.rs:265), for every statement and every list of values outside the six cases.
THEOREM StatementKeeps == Spec => []StatementKeepsMeaning
  BY ParamsAlways, PutInAlways, MeaningKept, PTL
=============================================================================
