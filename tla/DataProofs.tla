----------------------------- MODULE DataProofs ------------------------------
(***************************************************************************)
(* Induction over data, for the recursive functions of this project. The   *)
(* library's induction theorems take an operator as a parameter; here the  *)
(* numbers for which something holds are a set, and a set that is not all  *)
(* of Nat misses a least number.                                           *)
(***************************************************************************)
EXTENDS Text, SequencesExt, Integers, SequenceTheorems, WellFoundedInduction, TLAPS

\* Induction over the natural numbers. For the functions that are recursive over a length.
LEMMA SetInduction ==
  ASSUME NEW S, 0 \in S, \A n \in Nat : n \in S => n + 1 \in S
  PROVE  Nat \subseteq S
  <1> DEFINE missing == Nat \ S
  <1> DEFINE less == OpToRel(<, Nat)
  <1>1. IsWellFoundedOn(less, Nat)
    BY NatLessThanWellFounded
  <1>2. SUFFICES ASSUME missing # {} PROVE FALSE
    OBVIOUS
  <1>3. missing \subseteq Nat
    OBVIOUS
  <1> HIDE DEF missing, less
  <1>4. \E n \in missing : \A m \in missing : ~ (<<m, n>> \in less)
    BY <1>1, <1>2, <1>3, WFMin
  <1>5. PICK n \in missing : \A m \in missing : ~ (<<m, n>> \in less)
    BY <1>4
  <1>6. n \in Nat /\ n \notin S /\ n # 0
    BY DEF missing
  <1>7. n - 1 \in missing
    BY <1>6 DEF missing
  <1>8. <<n - 1, n>> \in less
    BY <1>6 DEF less, OpToRel
  <1> QED
    BY <1>5, <1>7, <1>8

\* The same, from all smaller numbers.
LEMMA StrongSetInduction ==
  ASSUME NEW S, \A n \in Nat : (\A m \in 0..n - 1 : m \in S) => n \in S
  PROVE  Nat \subseteq S
  <1> DEFINE T == {n \in Nat : \A m \in 0..n : m \in S}
  <1>1. 0 \in T
    OBVIOUS
  <1>2. ASSUME NEW n \in Nat, n \in T PROVE n + 1 \in T
    <2>1. \A m \in 0..(n + 1) - 1 : m \in S
      BY <1>2
    <2>2. n + 1 \in S
      BY <2>1
    <2> QED
      BY <2>1, <2>2
  <1> HIDE DEF T
  <1>3. Nat \subseteq T
    BY <1>1, <1>2, SetInduction
  <1> QED
    BY <1>3 DEF T

LEMMA Least ==
  ASSUME NEW M, M \subseteq Nat, M # {}
  PROVE  \E j \in M : \A m \in M : j <= m
  <1> SUFFICES ASSUME ~ \E j \in M : \A m \in M : j <= m PROVE FALSE
    OBVIOUS
  <1> DEFINE S == Nat \ M
  <1>1. ASSUME NEW n \in Nat, \A m \in 0..n - 1 : m \in S PROVE n \in S
    <2>1. \A m \in M : n <= m
      BY <1>1
    <2> QED
      BY <2>1
  <1> HIDE DEF S
  <1>2. Nat \subseteq S
    BY <1>1, StrongSetInduction
  <1> QED
    BY <1>2 DEF S

-----------------------------------------------------------------------------
(* Reading a text: From *)

\* A reading makes progress: behind each place it goes on at a later one.
Advances(n, read) == \A k \in 1..n : read[k].next \in k + 1..n + 1

\* What is read at k and from where it goes on.
Continued(n, read, f, k) == IF k > n THEN <<>> ELSE read[k].piece \o f[read[k].next]

\* The recursive function of From exists, so that From conforms to its equation. For the
\* loops over texts: str::replace, the server's lexer, percent_decode.
LEMMA FromDef ==
  ASSUME NEW n \in Nat, NEW read, Advances(n, read)
  PROVE  From(n, read) = [k \in 1..n + 1 |-> Continued(n, read, From(n, read), k)]
  <1> DEFINE S == {m \in Nat : m <= n => \E f : f = [k \in n + 1 - m..n + 1 |-> Continued(n, read, f, k)]}
  <1>1. 0 \in S
    <2> DEFINE f == [k \in n + 1..n + 1 |-> <<>>]
    <2>1. \A k \in n + 1..n + 1 : f[k] = Continued(n, read, f, k)
      <3>1. \A k \in n + 1..n + 1 : f[k] = <<>> /\ k > n
        OBVIOUS
      <3> HIDE DEF f
      <3> QED
        BY <3>1 DEF Continued
    <2>2. f = [k \in n + 1..n + 1 |-> f[k]]
      OBVIOUS
    <2> HIDE DEF f
    <2>3. f = [k \in n + 1..n + 1 |-> Continued(n, read, f, k)]
      BY <2>1, <2>2
    <2>4. n + 1 - 0 = n + 1
      OBVIOUS
    <2> QED
      BY <2>3, <2>4
  <1>2. ASSUME NEW m \in Nat, m \in S PROVE m + 1 \in S
    <2> SUFFICES ASSUME m + 1 <= n
                 PROVE  \E f : f = [k \in n + 1 - (m + 1)..n + 1 |-> Continued(n, read, f, k)]
      OBVIOUS
    <2>1. PICK f : f = [k \in n + 1 - m..n + 1 |-> Continued(n, read, f, k)]
      BY <1>2
    <2>2. PICK p : p = n - m
      OBVIOUS
    <2>3. p \in 1..n /\ n + 1 - (m + 1) = p /\ n + 1 - m = p + 1
      BY <2>2
    <2> DEFINE g == [k \in p..n + 1 |-> IF k = p THEN Continued(n, read, f, p) ELSE f[k]]
    <2>4. \A k \in p + 1..n + 1 : g[k] = f[k]
      BY <2>3
    <2>5. g[p] = Continued(n, read, f, p)
      BY <2>3
    <2>6. g = [k \in p..n + 1 |-> g[k]]
      OBVIOUS
    <2>7. \A k \in p + 1..n + 1 : f[k] = Continued(n, read, f, k)
      BY <2>1, <2>3
    <2> HIDE DEF g
    <2>8. ASSUME NEW k \in p..n + 1 PROVE Continued(n, read, f, k) = Continued(n, read, g, k)
      <3>1. CASE k > n
        BY <3>1 DEF Continued
      <3>2. CASE k <= n
        <4>1. k \in 1..n /\ read[k].next \in p + 1..n + 1
          BY <2>3, <3>2 DEF Advances
        <4>2. g[read[k].next] = f[read[k].next]
          BY <2>4, <4>1
        <4> QED
          BY <4>2 DEF Continued
      <3> QED
        BY <2>3, <3>1, <3>2
    <2>9. \A k \in p..n + 1 : g[k] = Continued(n, read, g, k)
      <3> SUFFICES ASSUME NEW k \in p..n + 1 PROVE g[k] = Continued(n, read, g, k)
        OBVIOUS
      <3>1. CASE k = p
        BY <2>5, <2>8, <3>1
      <3>2. CASE k # p
        <4>1. k \in p + 1..n + 1
          BY <2>3, <3>2
        <4> QED
          BY <2>4, <2>7, <2>8, <4>1
      <3> QED
        BY <3>1, <3>2
    <2>10. g = [k \in p..n + 1 |-> Continued(n, read, g, k)]
      BY <2>6, <2>9
    <2> QED
      BY <2>3, <2>10
  <1>3. n \in S
    <2> HIDE DEF S
    <2>1. Nat \subseteq S
      BY <1>1, <1>2, SetInduction
    <2> QED
      BY <2>1
  <1>4. PICK f : f = [k \in 1..n + 1 |-> Continued(n, read, f, k)]
    BY <1>3
  <1> QED
    BY <1>4 DEF From, Continued

LEMMA FromStep ==
  ASSUME NEW n \in Nat, NEW read, Advances(n, read)
  PROVE  /\ From(n, read)[n + 1] = <<>>
         /\ \A k \in 1..n : From(n, read)[k] = read[k].piece \o From(n, read)[read[k].next]
  <1>1. PICK f : f = From(n, read)
    OBVIOUS
  <1>2. f = [k \in 1..n + 1 |-> Continued(n, read, f, k)]
    BY <1>1, FromDef
  <1>3. n + 1 \in 1..n + 1 /\ n + 1 > n
    OBVIOUS
  <1>4. \A k \in 1..n : k \in 1..n + 1 /\ ~ (k > n)
    OBVIOUS
  <1>5. f[n + 1] = <<>>
    BY <1>2, <1>3 DEF Continued
  <1>6. \A k \in 1..n : f[k] = read[k].piece \o f[read[k].next]
    BY <1>2, <1>4 DEF Continued
  <1> QED
    BY <1>1, <1>5, <1>6

\* A property of what is left at each place, from the end to the beginning.
LEMMA DownInduction ==
  ASSUME NEW n \in Nat, NEW S, n + 1 \in S,
         \A k \in 1..n : (\A j \in k + 1..n + 1 : j \in S) => k \in S
  PROVE  1..n + 1 \subseteq S
  <1> DEFINE T == {m \in Nat : m <= n => n + 1 - m \in S}
  <1>1. ASSUME NEW m \in Nat, \A i \in 0..m - 1 : i \in T PROVE m \in T
    <2> SUFFICES ASSUME m <= n PROVE n + 1 - m \in S
      OBVIOUS
    <2>1. CASE m = 0
      BY <2>1
    <2>2. CASE m # 0
      <3>1. n + 1 - m \in 1..n
        BY <2>2
      <3>2. ASSUME NEW j \in n + 1 - m + 1..n + 1 PROVE j \in S
        <4>1. n + 1 - j \in 0..m - 1 /\ n + 1 - (n + 1 - j) = j
          OBVIOUS
        <4>2. n + 1 - j \in T
          BY <1>1, <4>1
        <4> QED
          BY <4>1, <4>2
      <3> QED
        BY <3>1, <3>2
    <2> QED
      BY <2>1, <2>2
  <1> HIDE DEF T
  <1>2. Nat \subseteq T
    BY <1>1, StrongSetInduction
  <1>3. ASSUME NEW k \in 1..n + 1 PROVE k \in S
    <2>1. n + 1 - k \in Nat /\ n + 1 - k <= n /\ n + 1 - (n + 1 - k) = k
      OBVIOUS
    <2> QED
      BY <1>2, <2>1 DEF T
  <1> QED
    BY <1>3

LEMMA FromType ==
  ASSUME NEW X, NEW n \in Nat, NEW read, Advances(n, read),
         \A k \in 1..n : read[k].piece \in Seq(X), NEW k \in 1..n + 1
  PROVE  From(n, read)[k] \in Seq(X)
  <1> DEFINE S == {i \in 1..n + 1 : From(n, read)[i] \in Seq(X)}
  <1>1. n + 1 \in S
    <2>1. From(n, read)[n + 1] = <<>>
      BY FromStep
    <2>2. <<>> \in Seq(X)
      BY EmptySeq
    <2>3. n + 1 \in 1..n + 1
      OBVIOUS
    <2> QED
      BY <2>1, <2>2, <2>3, Zenon
  <1>2. ASSUME NEW i \in 1..n, \A j \in i + 1..n + 1 : j \in S PROVE i \in S
    <2>1. read[i].next \in i + 1..n + 1
      BY DEF Advances
    <2>2. From(n, read)[read[i].next] \in Seq(X) /\ read[i].piece \in Seq(X)
      BY <1>2, <2>1
    <2>3. From(n, read)[i] = read[i].piece \o From(n, read)[read[i].next]
      BY FromStep
    <2>4. read[i].piece \o From(n, read)[read[i].next] \in Seq(X)
      BY <2>2, ConcatProperties
    <2>5. i \in 1..n + 1
      OBVIOUS
    <2> QED
      BY <2>3, <2>4, <2>5, Zenon
  <1> HIDE DEF S
  <1>3. 1..n + 1 \subseteq S
    BY <1>1, <1>2, DownInduction
  <1> QED
    BY <1>3 DEF S

\* One reading is another one, d places further on.
Shifted(n, d, read, shifted) ==
  \A k \in 1..n : shifted[k + d].piece = read[k].piece /\ shifted[k + d].next = read[k].next + d

\* Reading the end of a text, d places shifted, gives the same.
LEMMA FromShift ==
  ASSUME NEW n \in Nat, NEW d \in Nat, NEW m \in Nat, m = n + d, NEW read, NEW shifted,
         Advances(n, read), Advances(m, shifted), Shifted(n, d, read, shifted)
  PROVE  \A k \in 1..n + 1 : From(m, shifted)[k + d] = From(n, read)[k]
  <1> DEFINE S == {i \in 1..n + 1 : From(m, shifted)[i + d] = From(n, read)[i]}
  <1>1. n + 1 \in S
    <2>1. (n + 1) + d = m + 1
      OBVIOUS
    <2>2. From(m, shifted)[m + 1] = <<>> /\ From(n, read)[n + 1] = <<>>
      BY <2>1, FromStep
    <2> QED
      BY <2>1, <2>2
  <1>2. ASSUME NEW i \in 1..n, \A j \in i + 1..n + 1 : j \in S PROVE i \in S
    <2>1. read[i].next \in i + 1..n + 1
      BY DEF Advances
    <2>2. From(m, shifted)[read[i].next + d] = From(n, read)[read[i].next]
      BY <1>2, <2>1
    <2>3. i + d \in 1..m
      OBVIOUS
    <2>4. From(m, shifted)[i + d] = shifted[i + d].piece \o From(m, shifted)[shifted[i + d].next]
      BY <2>3, FromStep
    <2>5. From(n, read)[i] = read[i].piece \o From(n, read)[read[i].next]
      BY FromStep
    <2>6. shifted[i + d].piece = read[i].piece /\ shifted[i + d].next = read[i].next + d
      BY DEF Shifted
    <2>7. From(m, shifted)[i + d] = From(n, read)[i]
      BY <2>2, <2>4, <2>5, <2>6, Zenon
    <2>8. i \in 1..n + 1
      OBVIOUS
    <2> QED
      BY <2>7, <2>8, Zenon
  <1> HIDE DEF S
  <1>3. 1..n + 1 \subseteq S
    BY <1>1, <1>2, DownInduction
  <1> QED
    BY <1>3 DEF S

-----------------------------------------------------------------------------
(* Ends of texts, and str::replace *)

\* What is left of a text behind its first d symbols.
Rest(s, d) == SubSeq(s, d + 1, Len(s))

LEMMA RestIs ==
  ASSUME NEW X, NEW s \in Seq(X), NEW d \in 0..Len(s)
  PROVE  /\ Rest(s, d) \in Seq(X)
         /\ Len(Rest(s, d)) = Len(s) - d
         /\ \A k \in 1..Len(s) - d : Rest(s, d)[k] = s[k + d]
  <1>1. Len(s) \in Nat /\ d + 1 \in Int /\ Len(s) \in Int
    BY LenProperties
  <1>2. \A k \in d + 1..Len(s) : s[k] \in X
    BY <1>1, ElementOfSeq
  <1>3. /\ SubSeq(s, d + 1, Len(s)) \in Seq(X)
        /\ Len(SubSeq(s, d + 1, Len(s))) = IF d + 1 <= Len(s) THEN Len(s) - (d + 1) + 1 ELSE 0
        /\ \A k \in 1..Len(s) - (d + 1) + 1 : SubSeq(s, d + 1, Len(s))[k] = s[d + 1 + k - 1]
    BY <1>1, <1>2, SubSeqProperties
  <1>4. Len(s) - (d + 1) + 1 = Len(s) - d /\ (d + 1 <= Len(s) \/ Len(s) - d = 0)
    BY <1>1
  <1>5. \A k \in 1..Len(s) - d : d + 1 + k - 1 = k + d
    BY <1>1
  <1>6. Len(Rest(s, d)) = Len(s) - d
    BY <1>1, <1>3, <1>4 DEF Rest
  <1>7. \A k \in 1..Len(s) - d : Rest(s, d)[k] = s[k + d]
    BY <1>3, <1>4, <1>5 DEF Rest
  <1> QED
    BY <1>3, <1>6, <1>7 DEF Rest

LEMMA RestRest ==
  ASSUME NEW X, NEW s \in Seq(X), NEW d \in 0..Len(s), NEW e \in 0..Len(s) - d
  PROVE  Rest(Rest(s, d), e) = Rest(s, d + e)
  <1>1. Len(s) \in Nat
    BY LenProperties
  <1>2. PICK r : r = Rest(s, d)
    OBVIOUS
  <1>3. r \in Seq(X) /\ Len(r) = Len(s) - d /\ \A k \in 1..Len(s) - d : r[k] = s[k + d]
    BY <1>2, RestIs
  <1>4. PICK a, b : a = Rest(r, e) /\ b = Rest(s, d + e)
    OBVIOUS
  <1>5. e \in 0..Len(r) /\ d + e \in 0..Len(s) /\ d \in Nat /\ e \in Nat
    BY <1>1, <1>3
  <1>6. a \in Seq(X) /\ Len(a) = Len(r) - e /\ \A k \in 1..Len(r) - e : a[k] = r[k + e]
    BY <1>3, <1>4, <1>5, RestIs
  <1>7. b \in Seq(X) /\ Len(b) = Len(s) - (d + e) /\ \A k \in 1..Len(s) - (d + e) : b[k] = s[k + (d + e)]
    BY <1>4, <1>5, RestIs
  <1>8. PICK n \in Nat : n = Len(b) /\ n = Len(s) - (d + e) /\ n = Len(a) /\ n = Len(r) - e
    <2>1. Len(s) - (d + e) \in Nat /\ Len(r) - e = Len(s) - (d + e)
      BY <1>1, <1>3, <1>5
    <2> QED
      BY <1>6, <1>7, <2>1
  <1>9. ASSUME NEW k \in 1..n PROVE a[k] = b[k]
    <2>1. k + e \in 1..Len(s) - d /\ (k + e) + d = k + (d + e)
      BY <1>1, <1>5, <1>8
    <2>2. a[k] = r[k + e] /\ r[k + e] = s[(k + e) + d] /\ b[k] = s[k + (d + e)]
      BY <1>3, <1>6, <1>7, <1>8, <2>1
    <2> QED
      BY <2>1, <2>2
  <1>10. a = b
    BY <1>6, <1>7, <1>8, <1>9, SeqEqual
  <1> QED
    BY <1>2, <1>4, <1>10

LEMMA RestConcat ==
  ASSUME NEW X, NEW s \in Seq(X), NEW t \in Seq(X)
  PROVE  Rest(s \o t, Len(s)) = t
  <1>1. PICK m \in Nat, n \in Nat : m = Len(s) /\ n = Len(t)
    BY LenProperties
  <1>2. PICK a : a = s \o t
    OBVIOUS
  <1>3. /\ a \in Seq(X) /\ Len(a) = m + n
        /\ \A k \in 1..m + n : a[k] = IF k <= m THEN s[k] ELSE t[k - m]
    BY <1>1, <1>2, ConcatProperties
  <1>4. PICK b : b = Rest(a, m)
    OBVIOUS
  <1>5. m \in 0..Len(a) /\ Len(a) - m = n
    BY <1>3
  <1>6. b \in Seq(X) /\ Len(b) = n /\ \A k \in 1..n : b[k] = a[k + m]
    BY <1>3, <1>4, <1>5, RestIs
  <1>7. ASSUME NEW k \in 1..n PROVE b[k] = t[k]
    <2>1. k + m \in 1..m + n /\ ~(k + m <= m) /\ (k + m) - m = k
      OBVIOUS
    <2>2. a[k + m] = t[(k + m) - m]
      BY <1>3, <2>1
    <2> QED
      BY <1>6, <2>1, <2>2
  <1>8. b = t
    BY <1>1, <1>6, <1>7, SeqEqual
  <1> QED
    BY <1>1, <1>2, <1>4, <1>8

LEMMA HeadRest ==
  ASSUME NEW X, NEW s \in Seq(X), Len(s) > 0
  PROVE  <<s[1]>> \o Rest(s, 1) = s
  <1>1. Len(s) \in Nat /\ 1 \in 1..Len(s) /\ s # <<>>
    BY LenProperties, EmptySeq
  <1>2. SubSeq(s, 1, Len(s)) = <<s[1]>> \o SubSeq(s, 1 + 1, Len(s))
    <2>1. Len(s) \in 1..Len(s)
      BY <1>1
    <2> QED
      BY <1>1, <2>1, SubSeqRecursiveFirst
  <1>3. SubSeq(s, 1, Len(s)) = s
    BY SubSeqFull
  <1> QED
    BY <1>2, <1>3 DEF Rest

\* A part is found where the text has its symbols.
LEMMA StartsAtIs ==
  ASSUME NEW X, NEW s \in Seq(X), NEW Y, NEW part \in Seq(Y), NEW k \in 1..Len(s)
  PROVE  StartsAt(s, part, k) <=>
           /\ k + Len(part) <= Len(s) + 1
           /\ \A j \in 1..Len(part) : s[k + j - 1] = part[j]
  <1>1. Len(s) \in Nat /\ Len(part) \in Nat
    BY LenProperties
  <1>2. ASSUME k + Len(part) <= Len(s) + 1
        PROVE  SubSeq(s, k, k + Len(part) - 1) = part <=> \A j \in 1..Len(part) : s[k + j - 1] = part[j]
    <2>1. PICK z : z = k + Len(part) - 1
      OBVIOUS
    <2>2. z \in Int /\ k \in Int /\ z - k + 1 = Len(part) /\ z <= Len(s)
      BY <1>1, <1>2, <2>1
    <2>3. \A j \in k..z : s[j] \in X
      BY <1>1, <2>2, ElementOfSeq
    <2>4. PICK sub : sub = SubSeq(s, k, z)
      OBVIOUS
    <2>5. /\ sub \in Seq(X)
          /\ Len(sub) = IF k <= z THEN z - k + 1 ELSE 0
          /\ \A j \in 1..z - k + 1 : sub[j] = s[k + j - 1]
      BY <2>2, <2>3, <2>4, SubSeqProperties
    <2>6. Len(sub) = Len(part)
      BY <1>1, <2>2, <2>5
    <2>7. \A j \in 1..Len(part) : sub[j] = s[k + j - 1]
      BY <2>2, <2>5
    <2>8. sub = [j \in 1..Len(sub) |-> sub[j]] /\ part = [j \in 1..Len(part) |-> part[j]]
      BY <2>5, LenProperties
    <2> QED
      BY <2>1, <2>4, <2>6, <2>7, <2>8
  <1> QED
    BY <1>2 DEF StartsAt

LEMMA StartsAtRest ==
  ASSUME NEW X, NEW s \in Seq(X), NEW Y, NEW part \in Seq(Y),
         NEW d \in 0..Len(s), NEW k \in 1..Len(s) - d
  PROVE  StartsAt(Rest(s, d), part, k) <=> StartsAt(s, part, k + d)
  <1>1. Len(s) \in Nat /\ Len(part) \in Nat
    BY LenProperties
  <1>2. PICK r : r = Rest(s, d)
    OBVIOUS
  <1>3. r \in Seq(X) /\ Len(r) = Len(s) - d /\ \A j \in 1..Len(s) - d : r[j] = s[j + d]
    BY <1>2, RestIs
  <1>4. k \in 1..Len(r) /\ k + d \in 1..Len(s)
    BY <1>1, <1>3
  <1>5. StartsAt(r, part, k) <=>
           /\ k + Len(part) <= Len(r) + 1
           /\ \A j \in 1..Len(part) : r[k + j - 1] = part[j]
    BY <1>3, <1>4, StartsAtIs
  <1>6. StartsAt(s, part, k + d) <=>
           /\ k + d + Len(part) <= Len(s) + 1
           /\ \A j \in 1..Len(part) : s[k + d + j - 1] = part[j]
    BY <1>4, StartsAtIs
  <1>7. k + Len(part) <= Len(r) + 1 <=> k + d + Len(part) <= Len(s) + 1
    BY <1>1, <1>3
  <1>8. ASSUME k + Len(part) <= Len(r) + 1, NEW j \in 1..Len(part)
        PROVE  r[k + j - 1] = s[k + d + j - 1]
    <2>1. k + j - 1 \in 1..Len(s) - d /\ k + j - 1 + d = k + d + j - 1
      BY <1>1, <1>3, <1>8
    <2>2. r[k + j - 1] = s[k + j - 1 + d]
      BY <1>3, <2>1
    <2> QED
      BY <2>1, <2>2
  <1> QED
    BY <1>2, <1>5, <1>6, <1>7, <1>8

\* How replace reads a text.
Replacing(text, old, new) ==
  [k \in DOMAIN text |-> IF StartsAt(text, old, k) THEN Read(new, k + Len(old))
                                                 ELSE Read(<<text[k]>>, k + 1)]

LEMMA ReplacingAdvances ==
  ASSUME NEW X, NEW s \in Seq(X), NEW Y, NEW old \in Seq(Y), Len(old) > 0, NEW new
  PROVE  Advances(Len(s), Replacing(s, old, new))
  <1>1. Len(s) \in Nat /\ Len(old) \in Nat /\ DOMAIN s = 1..Len(s)
    BY LenProperties
  <1>2. ASSUME NEW k \in 1..Len(s)
        PROVE  Replacing(s, old, new)[k].next \in k + 1..Len(s) + 1
    <2>1. CASE StartsAt(s, old, k)
      <3>1. Replacing(s, old, new)[k].next = k + Len(old)
        BY <1>1, <2>1 DEF Replacing, Read
      <3>2. k + Len(old) <= Len(s) + 1
        BY <2>1 DEF StartsAt
      <3> QED
        BY <1>1, <3>1, <3>2
    <2>2. CASE ~StartsAt(s, old, k)
      <3>1. Replacing(s, old, new)[k].next = k + 1
        BY <1>1, <2>2 DEF Replacing, Read
      <3> QED
        BY <1>1, <3>1
    <2> QED
      BY <2>1, <2>2
  <1> QED
    BY <1>2 DEF Advances

\* Replacing goes on in what is left behind a place as if the text began there.
LEMMA ReplaceRest ==
  ASSUME NEW X, NEW s \in Seq(X), NEW Y, NEW old \in Seq(Y), Len(old) > 0, NEW new,
         NEW d \in 0..Len(s)
  PROVE  From(Len(s), Replacing(s, old, new))[d + 1] = Replace(Rest(s, d), old, new)
  <1>1. Len(s) \in Nat /\ Len(old) \in Nat /\ DOMAIN s = 1..Len(s)
    BY LenProperties
  <1>2. PICK r : r = Rest(s, d)
    OBVIOUS
  <1>3. r \in Seq(X) /\ Len(r) = Len(s) - d /\ \A j \in 1..Len(s) - d : r[j] = s[j + d]
    BY <1>2, RestIs
  <1>4. PICK n \in Nat : n = Len(s) - d
    <2>1. Len(s) - d \in Nat
      BY <1>1
    <2> QED
      BY <2>1
  <1>5. DOMAIN r = 1..n /\ n + d = Len(s)
    BY <1>1, <1>3, <1>4, LenProperties
  <1> DEFINE read == Replacing(r, old, new)
  <1> DEFINE shifted == Replacing(s, old, new)
  <1>6. Advances(n, read) /\ Advances(n + d, shifted)
    BY <1>3, <1>4, <1>5, ReplacingAdvances
  <1>7. ASSUME NEW k \in 1..n
        PROVE  shifted[k + d].piece = read[k].piece /\ shifted[k + d].next = read[k].next + d
    <2>1. StartsAt(r, old, k) <=> StartsAt(s, old, k + d)
      BY <1>2, <1>4, StartsAtRest
    <2>2. k + d \in DOMAIN s /\ k \in DOMAIN r /\ r[k] = s[k + d]
      BY <1>1, <1>3, <1>4, <1>5
    <2>3. CASE StartsAt(r, old, k)
      <3>1. shifted[k + d] = Read(new, k + d + Len(old)) /\ read[k] = Read(new, k + Len(old))
        BY <2>1, <2>2, <2>3 DEF Replacing
      <3>2. k + d + Len(old) = k + Len(old) + d
        BY <1>1
      <3> QED
        BY <3>1, <3>2 DEF Read
    <2>4. CASE ~StartsAt(r, old, k)
      <3>1. shifted[k + d] = Read(<<s[k + d]>>, k + d + 1) /\ read[k] = Read(<<r[k]>>, k + 1)
        BY <2>1, <2>2, <2>4 DEF Replacing
      <3>2. k + d + 1 = k + 1 + d
        BY <1>1
      <3> QED
        BY <2>2, <3>1, <3>2 DEF Read
    <2> QED
      BY <2>3, <2>4
  <1> HIDE DEF read, shifted
  <1>8. 1 \in 1..n + 1 /\ d \in Nat
    BY <1>1, <1>4
  <1>9. From(n + d, shifted)[1 + d] = From(n, read)[1]
    <2>1. Shifted(n, d, read, shifted)
      BY <1>7 DEF Shifted
    <2>2. PICK m \in Nat : m = n + d
      BY <1>8
    <2>3. Advances(m, shifted)
      BY <1>6, <2>2
    <2>4. \A k \in 1..n + 1 : From(m, shifted)[k + d] = From(n, read)[k]
      BY <1>6, <1>8, <2>1, <2>2, <2>3, FromShift
    <2> QED
      BY <1>8, <2>2, <2>4
  <1>10. Replace(r, old, new) = From(n, read)[1]
    BY <1>3, <1>4 DEF Replace, read, Replacing
  <1>11. 1 + d = d + 1
    BY <1>1
  <1> QED
    BY <1>2, <1>5, <1>9, <1>10, <1>11 DEF shifted

\* Replacing, one occurrence or one symbol at a time.
LEMMA ReplaceHead ==
  ASSUME NEW X, NEW s \in Seq(X), Len(s) > 0, NEW Y, NEW old \in Seq(Y), Len(old) > 0, NEW new
  PROVE  Replace(s, old, new) = IF StartsAt(s, old, 1) THEN new \o Replace(Rest(s, Len(old)), old, new)
                                                     ELSE <<s[1]>> \o Replace(Rest(s, 1), old, new)
  <1>1. Len(s) \in Nat /\ Len(old) \in Nat /\ DOMAIN s = 1..Len(s) /\ 1 \in 1..Len(s)
    BY LenProperties
  <1> DEFINE read == Replacing(s, old, new)
  <1>2. Advances(Len(s), read)
    BY ReplacingAdvances
  <1>3. Replace(s, old, new) = From(Len(s), read)[1]
    BY DEF Replace, Replacing
  <1>4. From(Len(s), read)[1] = read[1].piece \o From(Len(s), read)[read[1].next]
    <2> HIDE DEF read
    <2> QED
      BY <1>1, <1>2, FromStep
  <1>5. CASE StartsAt(s, old, 1)
    <2>1. read[1] = Read(new, 1 + Len(old))
      BY <1>1, <1>5 DEF Replacing
    <2>2. Len(old) \in 0..Len(s) /\ 1 + Len(old) = Len(old) + 1
      BY <1>1, <1>5 DEF StartsAt
    <2>3. From(Len(s), read)[Len(old) + 1] = Replace(Rest(s, Len(old)), old, new)
      BY <2>2, ReplaceRest
    <2>4. read[1].piece = new /\ read[1].next = Len(old) + 1
      BY <2>1, <2>2 DEF Read
    <2> HIDE DEF read
    <2> QED
      BY <1>3, <1>4, <1>5, <2>3, <2>4
  <1>6. CASE ~StartsAt(s, old, 1)
    <2>1. read[1] = Read(<<s[1]>>, 1 + 1)
      BY <1>1, <1>6 DEF Replacing
    <2>2. 1 \in 0..Len(s)
      BY <1>1
    <2>3. From(Len(s), read)[1 + 1] = Replace(Rest(s, 1), old, new)
      BY <2>2, ReplaceRest
    <2> HIDE DEF read
    <2> QED
      BY <1>3, <1>4, <1>6, <2>1, <2>3 DEF Read
  <1> QED
    BY <1>5, <1>6

LEMMA ReplaceNothing ==
  ASSUME NEW s, Len(s) = 0, NEW old, NEW new
  PROVE  Replace(s, old, new) = <<>>
  <1> DEFINE read == Replacing(s, old, new)
  <1>1. Advances(0, read)
    BY DEF Advances
  <1>2. Replace(s, old, new) = From(0, read)[1]
    BY DEF Replace, Replacing
  <1> HIDE DEF read
  <1>3. PICK n \in Nat : n = 0
    OBVIOUS
  <1>4. Advances(n, read)
    BY <1>1, <1>3
  <1>5. From(n, read)[n + 1] = <<>>
    BY <1>4, FromStep
  <1>6. n + 1 = 1
    BY <1>3
  <1> QED
    BY <1>2, <1>3, <1>5, <1>6

LEMMA ReplaceType ==
  ASSUME NEW X, NEW s \in Seq(X), NEW Y, NEW old \in Seq(Y), Len(old) > 0, NEW new \in Seq(X)
  PROVE  Replace(s, old, new) \in Seq(X)
  <1>1. Len(s) \in Nat /\ DOMAIN s = 1..Len(s)
    BY LenProperties
  <1> DEFINE read == Replacing(s, old, new)
  <1>2. Advances(Len(s), read)
    BY ReplacingAdvances
  <1>3. Replace(s, old, new) = From(Len(s), read)[1]
    BY DEF Replace, Replacing
  <1>4. ASSUME NEW k \in 1..Len(s) PROVE read[k].piece \in Seq(X)
    <2>1. s[k] \in X
      BY ElementOfSeq
    <2>2. <<s[k]>> \in Seq(X)
      BY <2>1
    <2> QED
      BY <1>1, <2>2 DEF Replacing, Read
  <1> HIDE DEF read
  <1>5. 1 \in 1..Len(s) + 1
    BY <1>1
  <1>6. From(Len(s), read)[1] \in Seq(X)
    BY <1>1, <1>2, <1>4, <1>5, FromType
  <1> QED
    BY <1>3, <1>6

-----------------------------------------------------------------------------
(* Functions that are recursive over a prefix, and sequences put together *)

\* Step h[k] makes the value at k of the value before it.
Steps(n, V, h) == \A k \in 1..n : h[k] \in [V -> V]

LEMMA StepsExist ==
  ASSUME NEW n \in Nat, NEW V, NEW v \in V, NEW h, Steps(n, V, h)
  PROVE  \E f \in [0..n -> V] : f[0] = v /\ \A k \in 1..n : f[k] = h[k][f[k - 1]]
  <1> DEFINE S == {m \in Nat : m <= n =>
                     \E f \in [0..m -> V] : f[0] = v /\ \A k \in 1..m : f[k] = h[k][f[k - 1]]}
  <1>1. 0 \in S
    <2> DEFINE f == [k \in 0..0 |-> v]
    <2>1. f \in [0..0 -> V] /\ f[0] = v /\ \A k \in 1..0 : f[k] = h[k][f[k - 1]]
      OBVIOUS
    <2> QED
      BY <2>1
  <1>2. ASSUME NEW m \in Nat, m \in S PROVE m + 1 \in S
    <2> SUFFICES ASSUME m + 1 <= n
                 PROVE  \E f \in [0..m + 1 -> V] : f[0] = v /\ \A k \in 1..m + 1 : f[k] = h[k][f[k - 1]]
      OBVIOUS
    <2>1. PICK f \in [0..m -> V] : f[0] = v /\ \A k \in 1..m : f[k] = h[k][f[k - 1]]
      BY <1>2
    <2>2. h[m + 1] \in [V -> V] /\ f[m] \in V
      BY DEF Steps
    <2>3. PICK last \in V : last = h[m + 1][f[m]]
      BY <2>2
    <2> DEFINE g == [k \in 0..m + 1 |-> IF k = m + 1 THEN last ELSE f[k]]
    <2>4. g \in [0..m + 1 -> V]
      OBVIOUS
    <2>5. g[m + 1] = last /\ \A k \in 0..m : g[k] = f[k]
      OBVIOUS
    <2> HIDE DEF g
    <2>6. ASSUME NEW k \in 1..m + 1 PROVE g[k] = h[k][g[k - 1]]
      <3>1. CASE k = m + 1
        <4>1. k - 1 = m /\ m \in 0..m
          BY <3>1
        <4> QED
          BY <2>3, <2>5, <3>1, <4>1
      <3>2. CASE k # m + 1
        <4>1. k \in 1..m /\ k - 1 \in 0..m /\ k \in 0..m
          BY <3>2
        <4> QED
          BY <2>1, <2>5, <4>1
      <3> QED
        BY <3>1, <3>2
    <2>7. g[0] = v
      BY <2>1, <2>5
    <2> QED
      BY <2>4, <2>6, <2>7
  <1> HIDE DEF S
  <1>3. Nat \subseteq S
    BY <1>1, <1>2, SetInduction
  <1> QED
    BY <1>3 DEF S

\* The sequences put together one after the other.
LEMMA FlattenSteps ==
  ASSUME NEW X, NEW seqs \in Seq(Seq(X))
  PROVE  \E f \in [0..Len(seqs) -> Seq(X)] :
           /\ f[0] = <<>>
           /\ \A k \in 1..Len(seqs) : f[k] = f[k - 1] \o seqs[k]
           /\ FlattenSeq(seqs) = f[Len(seqs)]
  <1>1. PICK n \in Nat : n = Len(seqs)
    BY LenProperties
  <1>2. \A k \in 1..n : seqs[k] \in Seq(X)
    BY <1>1, ElementOfSeq
  <1>3. <<>> \in Seq(X)
    OBVIOUS
  <1> DEFINE h == [k \in 1..n |-> [x \in Seq(X) |-> x \o seqs[k]]]
  <1>4. \A k \in 1..n : h[k] \in [Seq(X) -> Seq(X)]
    BY <1>2, ConcatProperties
  <1>5. \A k \in 1..n : \A x \in Seq(X) : h[k][x] = x \o seqs[k]
    OBVIOUS
  <1> HIDE DEF h
  <1>6. PICK f \in [0..n -> Seq(X)] : f[0] = <<>> /\ \A k \in 1..n : f[k] = h[k][f[k - 1]]
    <2>1. PICK V, v, g : V = Seq(X) /\ v = <<>> /\ g = h
      OBVIOUS
    <2>2. v \in V /\ Steps(n, V, g)
      BY <1>3, <1>4, <2>1 DEF Steps
    <2>3. \E f \in [0..n -> V] : f[0] = v /\ \A k \in 1..n : f[k] = g[k][f[k - 1]]
      BY <2>2, StepsExist
    <2> QED
      BY <2>1, <2>3
  <1>7. \A k \in 1..n : f[k] = f[k - 1] \o seqs[k]
    <2>1. \A k \in 1..n : k - 1 \in 0..n
      OBVIOUS
    <2>2. \A k \in 1..n : f[k - 1] \in Seq(X)
      BY <1>6, <2>1
    <2> QED
      BY <1>5, <1>6, <2>2
  <1>8. FlattenSeq(seqs) = f[n]
    <2>1. CASE n = 0
      <3>1. seqs = <<>>
        BY <1>1, <2>1, EmptySeq
      <3> QED
        BY <1>1, <1>6, <2>1, <3>1 DEF FlattenSeq
    <2>2. CASE n # 0
      <3> DEFINE All(g) == [i \in 1..n |-> IF i = 1 THEN seqs[i] ELSE g[i - 1] \o seqs[i]]
      <3>1. \E g : g = All(g)
        <4> DEFINE g == [i \in 1..n |-> f[i]]
        <4>1. ASSUME NEW i \in 1..n PROVE g[i] = IF i = 1 THEN seqs[i] ELSE g[i - 1] \o seqs[i]
          <5>1. CASE i = 1
            <6>1. f[1] = <<>> \o seqs[1]
              <7>1. f[i] = f[i - 1] \o seqs[i]
                BY <1>7
              <7>2. i - 1 = 0
                BY <5>1
              <7> QED
                BY <1>6, <5>1, <7>1, <7>2
            <6>2. seqs[1] \in Seq(X)
              BY <1>2, <5>1
            <6> QED
              BY <5>1, <6>1, <6>2, ConcatEmptySeq
          <5>2. CASE i # 1
            <6>1. i - 1 \in 1..n
              BY <5>2
            <6>2. g[i - 1] = f[i - 1] /\ g[i] = f[i]
              BY <6>1
            <6> QED
              BY <1>7, <5>2, <6>2
          <5> QED
            BY <5>1, <5>2
        <4>2. g = [i \in 1..n |-> g[i]]
          OBVIOUS
        <4> HIDE DEF g
        <4>3. g = All(g)
          BY <4>1, <4>2
        <4> QED
          BY <4>3
      <3>2. PICK g : g = CHOOSE x : x = All(x)
        OBVIOUS
      <3>3. g = All(g)
        BY <3>1, <3>2
      <3>4. FlattenSeq(seqs) = g[n]
        BY <1>1, <2>2, <3>2 DEF FlattenSeq
      <3>5. g[1] = seqs[1] /\ \A i \in 2..n : g[i] = g[i - 1] \o seqs[i]
        <4>1. 1 \in 1..n /\ \A i \in 2..n : i \in 1..n /\ i # 1
          BY <2>2
        <4> QED
          BY <3>3, <4>1
      <3> HIDE DEF All
      <3> DEFINE S == {m \in Nat : m + 1 <= n => g[m + 1] = f[m + 1]}
      <3>6. 0 \in S
        <4>1. PICK i \in 1..n : i = 1
          BY <2>2
        <4>2. f[i] = f[i - 1] \o seqs[i] /\ seqs[i] \in Seq(X)
          BY <1>2, <1>7
        <4>3. i - 1 = 0
          BY <4>1
        <4>4. f[i] = <<>> \o seqs[i]
          BY <1>6, <4>2, <4>3
        <4>5. f[i] = seqs[i]
          BY <4>2, <4>4, ConcatEmptySeq
        <4>6. 0 + 1 = 1
          OBVIOUS
        <4> QED
          BY <3>5, <4>1, <4>5, <4>6
      <3>7. ASSUME NEW m \in Nat, m \in S PROVE m + 1 \in S
        <4> SUFFICES ASSUME (m + 1) + 1 <= n PROVE g[(m + 1) + 1] = f[(m + 1) + 1]
          OBVIOUS
        <4>1. PICK i : i = (m + 1) + 1
          OBVIOUS
        <4>2. i \in 2..n /\ i \in 1..n /\ i - 1 = m + 1 /\ m + 1 <= n
          BY <4>1
        <4>3. g[i] = g[m + 1] \o seqs[i] /\ f[i] = f[m + 1] \o seqs[i]
          BY <1>7, <3>5, <4>2
        <4> QED
          BY <3>7, <4>1, <4>2, <4>3
      <3> HIDE DEF S
      <3>8. Nat \subseteq S
        BY <3>6, <3>7, SetInduction
      <3>9. n - 1 \in Nat /\ (n - 1) + 1 = n
        BY <2>2
      <3>10. PICK m \in S : m = n - 1
        BY <3>8, <3>9
      <3>11. m + 1 = n
        BY <3>9, <3>10
      <3>12. g[m + 1] = f[m + 1]
        BY <3>10, <3>11 DEF S
      <3> QED
        BY <3>4, <3>11, <3>12
    <2> QED
      BY <2>1, <2>2
  <1> QED
    BY <1>1, <1>6, <1>7, <1>8

LEMMA FlattenType ==
  ASSUME NEW X, NEW seqs \in Seq(Seq(X))
  PROVE  FlattenSeq(seqs) \in Seq(X)
  <1>1. Len(seqs) \in 0..Len(seqs)
    BY LenProperties
  <1> QED
    <2>1. PICK f \in [0..Len(seqs) -> Seq(X)] : FlattenSeq(seqs) = f[Len(seqs)]
      BY FlattenSteps
    <2> QED
      BY <1>1, <2>1

\* Where the symbols of each sequence are.
Offsets(seqs, all, off) ==
  /\ off[0] = 0 /\ Len(all) = off[Len(seqs)]
  /\ \A k \in 1..Len(seqs) : off[k] = off[k - 1] + Len(seqs[k])
  /\ \A k \in 1..Len(seqs) : off[k - 1] + Len(seqs[k]) <= Len(all)
  /\ \A k \in 1..Len(seqs) : \A j \in 1..Len(seqs[k]) : all[off[k - 1] + j] = seqs[k][j]

LEMMA FlattenPlaces ==
  ASSUME NEW X, NEW seqs \in Seq(Seq(X))
  PROVE  \E off \in [0..Len(seqs) -> Nat] : Offsets(seqs, FlattenSeq(seqs), off)
  <1>1. PICK n \in Nat : n = Len(seqs)
    BY LenProperties
  <1>2. \A k \in 1..n : seqs[k] \in Seq(X)
    BY <1>1, ElementOfSeq
  <1>3. PICK f \in [0..n -> Seq(X)] :
          /\ f[0] = <<>>
          /\ \A k \in 1..n : f[k] = f[k - 1] \o seqs[k]
          /\ FlattenSeq(seqs) = f[n]
    BY <1>1, FlattenSteps
  <1> DEFINE off == [k \in 0..n |-> Len(f[k])]
  <1>4. off \in [0..n -> Nat]
    BY LenProperties
  <1>5. \A k \in 0..n : off[k] = Len(f[k])
    OBVIOUS
  <1> HIDE DEF off
  <1>6. ASSUME NEW k \in 1..n
        PROVE  /\ off[k] = off[k - 1] + Len(seqs[k])
               /\ \A i \in 1..off[k - 1] : f[k][i] = f[k - 1][i]
               /\ \A j \in 1..Len(seqs[k]) : f[k][off[k - 1] + j] = seqs[k][j]
    <2>1. PICK a \in Seq(X), b \in Seq(X) : a = f[k - 1] /\ b = seqs[k]
      BY <1>2
    <2>2. Len(a) \in Nat /\ Len(b) \in Nat /\ off[k - 1] = Len(a) /\ off[k] = Len(f[k]) /\ f[k] = a \o b
      <3>1. k - 1 \in 0..n /\ k \in 0..n
        OBVIOUS
      <3>2. Len(a) \in Nat /\ Len(b) \in Nat
        BY LenProperties
      <3> QED
        BY <1>3, <1>5, <2>1, <3>1, <3>2
    <2>3. /\ Len(a \o b) = Len(a) + Len(b)
          /\ \A i \in 1..Len(a) + Len(b) : (a \o b)[i] = IF i <= Len(a) THEN a[i] ELSE b[i - Len(a)]
      BY ConcatProperties
    <2>4. \A i \in 1..Len(a) : (a \o b)[i] = a[i]
      BY <2>2, <2>3
    <2>5. ASSUME NEW j \in 1..Len(b) PROVE (a \o b)[Len(a) + j] = b[j]
      <3>1. Len(a) + j \in 1..Len(a) + Len(b) /\ ~(Len(a) + j <= Len(a)) /\ Len(a) + j - Len(a) = j
        BY <2>2
      <3> QED
        BY <2>3, <3>1
    <2> QED
      BY <2>1, <2>2, <2>3, <2>4, <2>5
  <1> DEFINE Up(m) == \A k \in 1..m : /\ off[k] <= off[m]
                                      /\ \A j \in 1..Len(seqs[k]) : f[m][off[k - 1] + j] = seqs[k][j]
  <1> DEFINE S == {m \in Nat : m <= n => Up(m)}
  <1>7. 0 \in S
    OBVIOUS
  <1>8. ASSUME NEW m \in Nat, m \in S PROVE m + 1 \in S
    <2> SUFFICES ASSUME m + 1 <= n, NEW k \in 1..m + 1
                 PROVE  /\ off[k] <= off[m + 1]
                        /\ \A j \in 1..Len(seqs[k]) : f[m + 1][off[k - 1] + j] = seqs[k][j]
      OBVIOUS
    <2>1. m + 1 \in 1..n /\ (m + 1) - 1 = m
      OBVIOUS
    <2>2. /\ off[m + 1] = off[m] + Len(seqs[m + 1])
          /\ \A i \in 1..off[m] : f[m + 1][i] = f[m][i]
          /\ \A j \in 1..Len(seqs[m + 1]) : f[m + 1][off[m] + j] = seqs[m + 1][j]
      BY <1>6, <2>1
    <2>3. Len(seqs[m + 1]) \in Nat
      BY <1>2, <2>1, LenProperties
    <2>4. CASE k = m + 1
      <3>1. off[m + 1] \in Nat
        BY <1>4
      <3>2. off[k] <= off[m + 1]
        BY <2>4, <3>1
      <3>3. k - 1 = m
        BY <2>4
      <3> QED
        BY <2>2, <2>4, <3>2, <3>3
    <2>5. CASE k # m + 1
      <3>1. k \in 1..m /\ k \in 1..n /\ k - 1 \in 0..n /\ k \in 0..n /\ m \in 0..n /\ m + 1 \in 0..n
        BY <2>5
      <3>2. Up(m)
        BY <1>8
      <3>3. off[k] <= off[m] /\ \A j \in 1..Len(seqs[k]) : f[m][off[k - 1] + j] = seqs[k][j]
        BY <3>2, <3>1
      <3>4. off[k] = off[k - 1] + Len(seqs[k]) /\ Len(seqs[k]) \in Nat
        BY <1>2, <1>6, <3>1, LenProperties
      <3>5. off[k] \in Nat /\ off[k - 1] \in Nat /\ off[m] \in Nat /\ off[m + 1] \in Nat
        BY <1>4, <3>1
      <3>6. ASSUME NEW j \in 1..Len(seqs[k]) PROVE off[k - 1] + j \in 1..off[m]
        <4>1. PICK l \in Nat, a \in Nat, b \in Nat, c \in Nat :
                l = Len(seqs[k]) /\ a = off[k - 1] /\ b = off[k] /\ c = off[m]
          BY <3>4, <3>5
        <4>2. b = a + l /\ b <= c /\ j \in 1..l
          BY <3>3, <3>4, <4>1
        <4>3. a + j \in 1..c
          BY <4>2
        <4> QED
          BY <4>1, <4>3
      <3>7. off[k] <= off[m + 1]
        <4>1. PICK l \in Nat, b \in Nat, c \in Nat, e \in Nat :
                l = Len(seqs[m + 1]) /\ b = off[k] /\ c = off[m] /\ e = off[m + 1]
          BY <2>3, <3>5
        <4>2. e = c + l /\ b <= c
          BY <2>2, <3>3, <4>1
        <4>3. b <= e
          BY <4>2
        <4> QED
          BY <4>1, <4>3
      <3>8. \A j \in 1..Len(seqs[k]) : f[m + 1][off[k - 1] + j] = f[m][off[k - 1] + j]
        BY <2>2, <3>6
      <3> QED
        BY <3>3, <3>7, <3>8
    <2> QED
      BY <2>4, <2>5
  <1>9. Up(n)
    <2> HIDE DEF S
    <2>1. Nat \subseteq S
      BY <1>7, <1>8, SetInduction
    <2>2. n \in S
      BY <2>1
    <2> HIDE DEF Up
    <2>3. n <= n => Up(n)
      BY <2>2 DEF S
    <2> QED
      BY <2>3
  <1>10. off[0] = 0
    BY <1>3, <1>5
  <1>11. Len(FlattenSeq(seqs)) = off[n]
    BY <1>3, <1>5
  <1> HIDE DEF S
  <1>12. Offsets(seqs, FlattenSeq(seqs), off)
    BY <1>1, <1>3, <1>6, <1>9, <1>10, <1>11 DEF Offsets
  <1> QED
    BY <1>1, <1>4, <1>12

-----------------------------------------------------------------------------
(* Texts cut at a symbol: str::split_once and str::split *)

Joins(a, b, c) == (a \o b) \o c = a \o (b \o c)

LEMMA JoinsAlike ==
  ASSUME NEW X, NEW a \in Seq(X), NEW b \in Seq(X), NEW c \in Seq(X)
  PROVE  Joins(a, b, c)
  BY ConcatAssociative DEF Joins

\* A piece of a text.
LEMMA SubSeqIs ==
  ASSUME NEW X, NEW s \in Seq(X), NEW i \in Nat, NEW j \in Nat, 1 <= i, i <= j + 1, j <= Len(s)
  PROVE  /\ SubSeq(s, i, j) \in Seq(X) /\ Len(SubSeq(s, i, j)) = j - i + 1
         /\ \A k \in 1..j - i + 1 : SubSeq(s, i, j)[k] = s[i + k - 1]
  <1>1. PICK n \in Nat : n = Len(s)
    BY LenProperties
  <1>2. \A k \in i..j : s[k] \in X
    <2> SUFFICES ASSUME NEW k \in i..j PROVE s[k] \in X
      OBVIOUS
    <2>1. k \in 1..Len(s)
      BY <1>1
    <2> QED
      BY <2>1, ElementOfSeq
  <1>3. /\ SubSeq(s, i, j) \in Seq(X)
        /\ Len(SubSeq(s, i, j)) = IF i <= j THEN j - i + 1 ELSE 0
        /\ \A k \in 1..j - i + 1 : SubSeq(s, i, j)[k] = s[i + k - 1]
    BY <1>2, SubSeqProperties
  <1>4. (IF i <= j THEN j - i + 1 ELSE 0) = j - i + 1
    OBVIOUS
  <1> QED
    BY <1>3, <1>4

\* Two texts one after the other.
LEMMA ConcatIs ==
  ASSUME NEW X, NEW a \in Seq(X), NEW b \in Seq(X)
  PROVE  /\ a \o b \in Seq(X) /\ Len(a) \in Nat /\ Len(b) \in Nat /\ Len(a \o b) = Len(a) + Len(b)
         /\ \A k \in 1..Len(a) : (a \o b)[k] = a[k]
         /\ \A k \in 1..Len(b) : (a \o b)[Len(a) + k] = b[k]
  <1>1. PICK m \in Nat, n \in Nat : m = Len(a) /\ n = Len(b)
    BY LenProperties
  <1>2. PICK s : s = a \o b
    OBVIOUS
  <1>3. s \in Seq(X) /\ Len(s) = m + n /\ \A k \in 1..m + n : s[k] = IF k <= m THEN a[k] ELSE b[k - m]
    BY <1>1, <1>2, ConcatProperties
  <1>4. \A k \in 1..m : s[k] = a[k]
    BY <1>3
  <1>5. ASSUME NEW k \in 1..n PROVE s[m + k] = b[k]
    <2>1. m + k \in 1..m + n /\ ~(m + k <= m) /\ m + k - m = k
      OBVIOUS
    <2> QED
      BY <1>3, <2>1
  <1> QED
    BY <1>1, <1>2, <1>3, <1>4, <1>5

LEMMA HasConcat ==
  ASSUME NEW X, NEW a \in Seq(X), NEW b \in Seq(X), NEW c
  PROVE  Has(a \o b, c) <=> Has(a, c) \/ Has(b, c)
  <1>1. PICK m \in Nat, n \in Nat : m = Len(a) /\ n = Len(b)
    BY LenProperties
  <1>2. PICK s : s = a \o b
    OBVIOUS
  <1>3. /\ s \in Seq(X) /\ Len(s) = m + n
        /\ \A k \in 1..m : s[k] = a[k]
        /\ \A k \in 1..n : s[m + k] = b[k]
    BY <1>1, <1>2, ConcatIs
  <1>4. DOMAIN a = 1..m /\ DOMAIN b = 1..n /\ DOMAIN s = 1..m + n
    BY <1>1, <1>3, LenProperties
  <1>5. ASSUME NEW k \in 1..m, a[k] = c PROVE Has(s, c)
    <2>1. k \in DOMAIN s
      BY <1>4
    <2> QED
      BY <1>3, <1>5, <2>1 DEF Has
  <1>6. ASSUME NEW k \in 1..n, b[k] = c PROVE Has(s, c)
    <2>1. m + k \in DOMAIN s
      BY <1>4
    <2> QED
      BY <1>3, <1>6, <2>1 DEF Has
  <1>7. ASSUME NEW k \in 1..m + n, s[k] = c PROVE Has(a, c) \/ Has(b, c)
    <2>1. CASE k <= m
      <3>1. k \in 1..m
        BY <2>1
      <3> QED
        BY <1>3, <1>4, <1>7, <3>1 DEF Has
    <2>2. CASE ~(k <= m)
      <3>1. k - m \in 1..n /\ m + (k - m) = k
        BY <2>2
      <3>2. b[k - m] = c
        BY <1>3, <1>7, <3>1
      <3> QED
        BY <1>4, <3>1, <3>2 DEF Has
    <2> QED
      BY <2>1, <2>2
  <1>8. Has(a, c) => \E k \in 1..m : a[k] = c
    BY <1>4 DEF Has
  <1>9. Has(b, c) => \E k \in 1..n : b[k] = c
    BY <1>4 DEF Has
  <1>10. Has(s, c) => \E k \in 1..m + n : s[k] = c
    BY <1>4 DEF Has
  <1> QED
    BY <1>2, <1>5, <1>6, <1>7, <1>8, <1>9, <1>10

LEMMA HasOne ==
  ASSUME NEW d, NEW c
  PROVE  Has(<<d>>, c) <=> d = c
  BY DEF Has

\* Two parts of a text with a c between them.
Joined(s, a, c, b) == s = (a \o <<c>>) \o b

\* str::split_once at a symbol that the text before it does not have.
LEMMA SplitOnce ==
  ASSUME NEW X, NEW a \in Seq(X), NEW c \in X, NEW b \in Seq(X), ~Has(a, c),
         NEW s, Joined(s, a, c, b)
  PROVE  s \in Seq(X) /\ Has(s, c) /\ Before(s, c) = a /\ After(s, c) = b
  <1>1. PICK m \in Nat, n \in Nat : m = Len(a) /\ n = Len(b)
    BY LenProperties
  <1>2. PICK one : one = <<c>>
    OBVIOUS
  <1>3. one \in Seq(X) /\ Len(one) = 1 /\ one[1] = c
    BY <1>2
  <1>4. PICK left : left = a \o one
    OBVIOUS
  <1>5. /\ left \in Seq(X) /\ Len(left) = m + 1
        /\ \A k \in 1..m : left[k] = a[k]
        /\ left[m + 1] = c
    <2>1. one \in Seq(X)
      BY <1>3
    <2>2. /\ left \in Seq(X) /\ Len(left) = Len(a) + Len(one)
          /\ \A k \in 1..Len(a) : left[k] = a[k]
          /\ \A k \in 1..Len(one) : left[Len(a) + k] = one[k]
      BY <1>4, <2>1, ConcatIs
    <2>3. 1 \in 1..Len(one)
      BY <1>3
    <2>4. left[m + 1] = c
      BY <1>1, <1>3, <2>2, <2>3
    <2> QED
      BY <1>1, <1>3, <2>2, <2>4
  <1>6. s = left \o b
    BY <1>2, <1>4 DEF Joined
  <1>7. /\ s \in Seq(X) /\ Len(s) = m + 1 + n
        /\ \A k \in 1..m + 1 : s[k] = left[k]
    <2>1. left \in Seq(X)
      BY <1>5
    <2>2. /\ left \o b \in Seq(X) /\ Len(left \o b) = Len(left) + Len(b)
          /\ \A k \in 1..Len(left) : (left \o b)[k] = left[k]
          /\ \A k \in 1..Len(b) : (left \o b)[Len(left) + k] = b[k]
      BY <2>1, ConcatIs
    <2> QED
      BY <1>1, <1>5, <1>6, <2>2
  <1>8. m + 1 \in 1..m + 1 /\ m + 1 \in 1..m + 1 + n
    OBVIOUS
  <1>9. s[m + 1] = c /\ \A k \in 1..m : s[k] = a[k]
    <2>1. \A k \in 1..m : k \in 1..m + 1
      OBVIOUS
    <2> QED
      BY <1>5, <1>7, <1>8, <2>1
  <1>10. DOMAIN s = 1..m + 1 + n /\ DOMAIN a = 1..m
    BY <1>1, <1>7, LenProperties
  <1>11. Has(s, c)
    BY <1>8, <1>9, <1>10 DEF Has
  <1>12. Find(s, c) = m + 1
    <2> DEFINE First(k) == s[k] = c /\ \A j \in 1..k - 1 : s[j] # c
    <2>1. \A j \in 1..m : s[j] # c
      BY <1>9, <1>10 DEF Has
    <2>2. m + 1 \in DOMAIN s /\ First(m + 1)
      <3>1. m + 1 - 1 = m
        OBVIOUS
      <3> QED
        BY <1>8, <1>9, <1>10, <2>1, <3>1
    <2>3. ASSUME NEW k \in DOMAIN s, First(k) PROVE k = m + 1
      <3>1. k \notin 1..m
        BY <2>1, <2>3
      <3>2. ~(m + 1 \in 1..k - 1)
        BY <1>9, <2>3
      <3> QED
        BY <1>10, <3>1, <3>2
    <2>4. Find(s, c) = CHOOSE k \in DOMAIN s : First(k)
      BY DEF Find
    <2> HIDE DEF First
    <2> QED
      BY <2>2, <2>3, <2>4
  <1>13. Before(s, c) = a
    <2>1. PICK u : u = SubSeq(s, 1, m)
      OBVIOUS
    <2>2. u \in Seq(X) /\ Len(u) = m - 1 + 1 /\ \A k \in 1..m - 1 + 1 : u[k] = s[1 + k - 1]
      BY <1>7, <2>1, SubSeqIs
    <2>3. Len(u) = m /\ \A k \in 1..m : u[k] = a[k]
      <3>1. m - 1 + 1 = m /\ \A k \in 1..m : 1 + k - 1 = k
        OBVIOUS
      <3> QED
        BY <1>9, <2>2, <3>1
    <2>4. u = a
      BY <1>1, <2>2, <2>3, SeqEqual
    <2>5. PICK f : f = Find(s, c)
      OBVIOUS
    <2>6. Before(s, c) = SubSeq(s, 1, f - 1)
      BY <1>11, <2>5 DEF Before
    <2>7. f - 1 = m
      BY <1>12, <2>5
    <2> QED
      BY <2>1, <2>4, <2>6, <2>7
  <1>14. After(s, c) = b
    <2>1. After(s, c) = Rest(s, m + 1)
      BY <1>11, <1>12 DEF After, Rest
    <2>2. Rest(left \o b, Len(left)) = b
      BY <1>5, RestConcat
    <2> QED
      BY <1>5, <1>6, <2>1, <2>2
  <1> QED
    BY <1>7, <1>11, <1>13, <1>14

LEMMA SplitNever ==
  ASSUME NEW a, NEW c, ~Has(a, c)
  PROVE  Before(a, c) = a /\ After(a, c) = <<>>
  BY DEF Before, After

\* Where the part that begins at k ends, and how str::split reads the parts.
EndsAt(text, c, k, j) ==
  /\ j <= Len(text) => text[j] = c
  /\ \A n \in k..j - 1 : text[n] # c

Stop(text, c, k) == CHOOSE j \in k..Len(text) + 1 : EndsAt(text, c, k, j)

Splitting(text, c) ==
  [k \in 1..Len(text) + 1 |-> Read(<<SubSeq(text, k, Stop(text, c, k) - 1)>>, Stop(text, c, k) + 1)]

LEMMA SplitIs ==
  ASSUME NEW text, NEW c
  PROVE  Split(text, c) = From(Len(text) + 1, Splitting(text, c))[1]
  BY DEF Split, Splitting, Stop, EndsAt

LEMMA StopIs ==
  ASSUME NEW X, NEW s \in Seq(X), NEW c, NEW k \in 1..Len(s) + 1
  PROVE  /\ Stop(s, c, k) \in k..Len(s) + 1 /\ EndsAt(s, c, k, Stop(s, c, k))
         /\ \A j \in k..Len(s) + 1 : EndsAt(s, c, k, j) => j = Stop(s, c, k)
  <1>1. PICK n \in Nat : n = Len(s)
    BY LenProperties
  <1>2. PICK M : M = {j \in k..n + 1 : j <= n => s[j] = c}
    OBVIOUS
  <1>3. M \subseteq Nat /\ n + 1 \in M
    BY <1>1, <1>2
  <1>4. PICK e \in M : \A j \in M : e <= j
    BY <1>3, Least
  <1>5. e \in k..n + 1 /\ (e <= n => s[e] = c)
    BY <1>2, <1>4
  <1>6. \A j \in k..e - 1 : s[j] # c
    <2> SUFFICES ASSUME NEW j \in k..e - 1, s[j] = c PROVE FALSE
      OBVIOUS
    <2>1. j \in M /\ ~(e <= j)
      BY <1>2, <1>5
    <2> QED
      BY <1>4, <2>1
  <1>7. EndsAt(s, c, k, e)
    BY <1>1, <1>5, <1>6 DEF EndsAt
  <1>8. ASSUME NEW i \in k..n + 1, NEW j \in k..n + 1, EndsAt(s, c, k, i), EndsAt(s, c, k, j) PROVE ~(i < j)
    <2> SUFFICES ASSUME i < j PROVE FALSE
      OBVIOUS
    <2>1. i <= n /\ i \in k..j - 1
      OBVIOUS
    <2> QED
      BY <1>1, <1>8, <2>1 DEF EndsAt
  <1>9. PICK f : f = Stop(s, c, k)
    OBVIOUS
  <1>10. f \in k..n + 1 /\ EndsAt(s, c, k, f)
    BY <1>1, <1>5, <1>7, <1>9 DEF Stop
  <1>11. ASSUME NEW j \in k..n + 1, EndsAt(s, c, k, j) PROVE j = f
    <2>1. ~(j < f) /\ ~(f < j)
      BY <1>8, <1>10, <1>11
    <2> QED
      BY <1>10, <2>1
  <1> QED
    BY <1>1, <1>9, <1>10, <1>11

LEMMA SplittingAdvances ==
  ASSUME NEW X, NEW s \in Seq(X), NEW c
  PROVE  /\ Len(s) + 1 \in Nat /\ Advances(Len(s) + 1, Splitting(s, c))
         /\ \A k \in 1..Len(s) + 1 : Splitting(s, c)[k].piece \in Seq(Seq(X))
  <1>1. PICK n \in Nat : n = Len(s)
    BY LenProperties
  <1>2. PICK read : read = Splitting(s, c)
    OBVIOUS
  <1>3. ASSUME NEW k \in 1..n + 1
        PROVE  read[k].next \in k + 1..n + 1 + 1 /\ read[k].piece \in Seq(Seq(X))
    <2>1. PICK e : e = Stop(s, c, k)
      OBVIOUS
    <2>2. e \in k..n + 1
      BY <1>1, <2>1, StopIs
    <2>3. read[k] = Read(<<SubSeq(s, k, e - 1)>>, e + 1)
      BY <1>1, <1>2, <2>1 DEF Splitting
    <2>4. PICK p : p = SubSeq(s, k, e - 1)
      OBVIOUS
    <2>5. p \in Seq(X)
      <3>1. k \in Nat /\ e - 1 \in Nat /\ 1 <= k /\ k <= (e - 1) + 1 /\ e - 1 <= Len(s)
        BY <1>1, <2>2
      <3> QED
        BY <2>4, <3>1, SubSeqIs
    <2>6. read[k].piece = <<p>> /\ read[k].next = e + 1
      BY <2>3, <2>4 DEF Read
    <2> QED
      BY <2>2, <2>5, <2>6
  <1> QED
    BY <1>1, <1>2, <1>3 DEF Advances

LEMMA SplitType ==
  ASSUME NEW X, NEW s \in Seq(X), NEW c
  PROVE  Split(s, c) \in Seq(Seq(X))
  <1>1. PICK n \in Nat : n = Len(s) + 1
    BY SplittingAdvances
  <1>2. PICK read, Y : read = Splitting(s, c) /\ Y = Seq(X)
    OBVIOUS
  <1>3. Advances(n, read) /\ \A k \in 1..n : read[k].piece \in Seq(Y)
    BY <1>1, <1>2, SplittingAdvances
  <1>4. 1 \in 1..n + 1
    OBVIOUS
  <1>5. From(n, read)[1] \in Seq(Y)
    BY <1>3, <1>4, FromType
  <1>6. Split(s, c) = From(n, read)[1]
    BY <1>1, <1>2, SplitIs
  <1> QED
    BY <1>2, <1>5, <1>6

\* A last part: it begins at place d + 1 and there is no c behind.
LEMMA SplitLast ==
  ASSUME NEW X, NEW s \in Seq(X), NEW c, NEW d \in 0..Len(s), ~Has(Rest(s, d), c)
  PROVE  From(Len(s) + 1, Splitting(s, c))[d + 1] = <<Rest(s, d)>>
  <1>1. PICK n \in Nat : n = Len(s)
    BY LenProperties
  <1>2. PICK b : b = Rest(s, d)
    OBVIOUS
  <1>3. b \in Seq(X) /\ Len(b) = n - d /\ \A k \in 1..n - d : b[k] = s[k + d]
    BY <1>1, <1>2, RestIs
  <1>4. DOMAIN b = 1..n - d
    BY <1>3, LenProperties
  <1>5. \A j \in d + 1..n : s[j] # c
    <2> SUFFICES ASSUME NEW j \in d + 1..n PROVE s[j] # c
      OBVIOUS
    <2>1. j - d \in 1..n - d /\ (j - d) + d = j
      BY <1>1
    <2>2. b[j - d] # c
      BY <1>2, <1>4, <2>1 DEF Has
    <2> QED
      BY <1>3, <2>1, <2>2
  <1>6. Stop(s, c, d + 1) = n + 1
    <2>1. EndsAt(s, c, d + 1, n + 1)
      <3>1. n + 1 - 1 = n /\ ~(n + 1 <= n)
        OBVIOUS
      <3> QED
        BY <1>1, <1>5, <3>1 DEF EndsAt
    <2>2. d + 1 \in 1..Len(s) + 1 /\ n + 1 \in d + 1..Len(s) + 1
      BY <1>1
    <2> QED
      BY <2>1, <2>2, StopIs
  <1>7. PICK read : read = Splitting(s, c)
    OBVIOUS
  <1>8. read[d + 1].piece = <<b>> /\ read[d + 1].next = n + 1 + 1
    <2>1. d + 1 \in 1..Len(s) + 1
      BY <1>1
    <2>2. PICK e : e = Stop(s, c, d + 1)
      OBVIOUS
    <2>3. read[d + 1] = Read(<<SubSeq(s, d + 1, e - 1)>>, e + 1)
      BY <1>7, <2>1, <2>2 DEF Splitting
    <2>4. e = n + 1 /\ e - 1 = n
      BY <1>6, <2>2
    <2>5. PICK p : p = SubSeq(s, d + 1, e - 1)
      OBVIOUS
    <2>6. p = b
      BY <1>1, <1>2, <2>4, <2>5 DEF Rest
    <2>7. read[d + 1].piece = <<p>> /\ read[d + 1].next = e + 1
      BY <2>3, <2>5 DEF Read
    <2> QED
      BY <2>4, <2>6, <2>7
  <1>9. Advances(n + 1, read) /\ n + 1 \in Nat
    BY <1>1, <1>7, SplittingAdvances
  <1>10. d + 1 \in 1..n + 1
    BY <1>1
  <1>11. From(n + 1, read)[n + 1 + 1] = <<>>
    BY <1>9, FromStep
  <1>12. From(n + 1, read)[d + 1] = read[d + 1].piece \o From(n + 1, read)[read[d + 1].next]
    BY <1>9, <1>10, FromStep
  <1>13. From(n + 1, read)[d + 1] = <<b>> \o <<>>
    BY <1>8, <1>11, <1>12
  <1>14. <<b>> \o <<>> = <<b>>
    <2>1. PICK one : one = <<b>>
      OBVIOUS
    <2>2. one \in Seq(Seq(X))
      BY <1>3, <2>1
    <2> QED
      BY <2>1, <2>2, ConcatEmptySeq
  <1> QED
    BY <1>1, <1>2, <1>7, <1>13, <1>14

LEMMA RestAll ==
  ASSUME NEW X, NEW s \in Seq(X)
  PROVE  Rest(s, 0) = s
  <1>1. PICK n \in Nat : n = Len(s)
    BY LenProperties
  <1>2. PICK r : r = Rest(s, 0)
    OBVIOUS
  <1>3. 0 \in 0..Len(s) /\ n - 0 = n
    BY <1>1
  <1>4. r \in Seq(X) /\ Len(r) = n /\ \A k \in 1..n : r[k] = s[k + 0]
    BY <1>1, <1>2, <1>3, RestIs
  <1>5. \A k \in 1..n : k + 0 = k
    OBVIOUS
  <1>6. r = s
    BY <1>1, <1>4, <1>5, SeqEqual
  <1> QED
    BY <1>2, <1>6

LEMMA SplitNone ==
  ASSUME NEW X, NEW s \in Seq(X), NEW c, ~Has(s, c)
  PROVE  Split(s, c) = <<s>>
  <1>1. Rest(s, 0) = s
    BY RestAll
  <1>2. ~Has(Rest(s, 0), c)
    BY <1>1
  <1>3. 0 \in 0..Len(s)
    BY LenProperties
  <1>4. PICK d \in 0..Len(s) : d = 0
    BY <1>3
  <1>5. From(Len(s) + 1, Splitting(s, c))[d + 1] = <<Rest(s, d)>>
    BY <1>2, <1>4, SplitLast
  <1>6. d + 1 = 1
    BY <1>4
  <1> QED
    BY <1>1, <1>4, <1>5, <1>6, SplitIs

\* One more part behind a c.
SplitsMore(s, a, c, b) == Split(s, c) = Split(a, c) \o <<b>>

LEMMA SplitMore ==
  ASSUME NEW X, NEW a \in Seq(X), NEW c \in X, NEW b \in Seq(X), ~Has(b, c),
         NEW s, Joined(s, a, c, b)
  PROVE  SplitsMore(s, a, c, b)
  <1>1. PICK n \in Nat, m \in Nat : n = Len(a) /\ m = Len(b)
    BY LenProperties
  <1>2. PICK one : one = <<c>>
    OBVIOUS
  <1>3. one \in Seq(X) /\ Len(one) = 1 /\ one[1] = c
    BY <1>2
  <1>4. PICK left : left = a \o one
    OBVIOUS
  <1>5. /\ left \in Seq(X) /\ Len(left) = n + 1
        /\ \A k \in 1..n : left[k] = a[k]
        /\ left[n + 1] = c
    <2>1. one \in Seq(X)
      BY <1>3
    <2>2. /\ left \in Seq(X) /\ Len(left) = Len(a) + Len(one)
          /\ \A k \in 1..Len(a) : left[k] = a[k]
          /\ \A k \in 1..Len(one) : left[Len(a) + k] = one[k]
      BY <1>4, <2>1, ConcatIs
    <2>3. 1 \in 1..Len(one)
      BY <1>3
    <2>4. left[n + 1] = c
      BY <1>1, <1>3, <2>2, <2>3
    <2> QED
      BY <1>1, <1>3, <2>2, <2>4
  <1>6. s = left \o b
    BY <1>2, <1>4 DEF Joined
  <1>7. /\ s \in Seq(X) /\ Len(s) = n + 1 + m
        /\ \A k \in 1..n + 1 : s[k] = left[k]
    <2>1. left \in Seq(X)
      BY <1>5
    <2>2. /\ left \o b \in Seq(X) /\ Len(left \o b) = Len(left) + Len(b)
          /\ \A k \in 1..Len(left) : (left \o b)[k] = left[k]
          /\ \A k \in 1..Len(b) : (left \o b)[Len(left) + k] = b[k]
      BY <2>1, ConcatIs
    <2> QED
      BY <1>1, <1>5, <1>6, <2>2
  <1>8. s[n + 1] = c /\ \A k \in 1..n : s[k] = a[k]
    <2>1. n + 1 \in 1..n + 1 /\ \A k \in 1..n : k \in 1..n + 1
      OBVIOUS
    <2> QED
      BY <1>5, <1>7, <2>1
  <1>9. Rest(s, n + 1) = b
    <2>1. Rest(left \o b, Len(left)) = b
      BY <1>5, RestConcat
    <2> QED
      BY <1>5, <1>6, <2>1
  <1>10. PICK ra, rs : ra = Splitting(a, c) /\ rs = Splitting(s, c)
    OBVIOUS
  <1>11. PICK N \in Nat : N = n + 1 + m
    OBVIOUS
  <1>12. Advances(n + 1, ra) /\ Advances(N + 1, rs) /\ n + 1 \in Nat /\ N + 1 \in Nat
    BY <1>1, <1>7, <1>10, <1>11, SplittingAdvances
  <1>13. ASSUME NEW k \in 1..n + 1
         PROVE  /\ rs[k].piece = ra[k].piece /\ rs[k].next = ra[k].next
                /\ ra[k].piece \in Seq(Seq(X)) /\ ra[k].next \in k + 1..n + 2
    <2>1. PICK e : e = Stop(a, c, k)
      OBVIOUS
    <2>2. e \in k..n + 1 /\ EndsAt(a, c, k, e)
      BY <1>1, <2>1, StopIs
    <2>3. EndsAt(s, c, k, e)
      <3>1. s[e] = c
        <4>1. CASE e <= n
          <5>1. e \in 1..n
            BY <2>2, <4>1
          <5>2. a[e] = c
            BY <1>1, <2>2, <4>1 DEF EndsAt
          <5> QED
            BY <1>8, <5>1, <5>2
        <4>2. CASE ~(e <= n)
          <5>1. e = n + 1
            BY <2>2, <4>2
          <5> QED
            BY <1>8, <5>1
        <4> QED
          BY <4>1, <4>2
      <3>2. \A j \in k..e - 1 : s[j] # c
        <4> SUFFICES ASSUME NEW j \in k..e - 1 PROVE s[j] # c
          OBVIOUS
        <4>1. j \in 1..n
          BY <2>2
        <4>2. a[j] # c
          BY <2>2 DEF EndsAt
        <4> QED
          BY <1>8, <4>1, <4>2
      <3> QED
        BY <3>1, <3>2 DEF EndsAt
    <2>4. Stop(s, c, k) = e
      <3>1. k \in 1..Len(s) + 1 /\ e \in k..Len(s) + 1
        BY <1>7, <2>2
      <3> QED
        BY <1>7, <2>3, <3>1, StopIs
    <2>5. PICK p, q : p = SubSeq(a, k, e - 1) /\ q = SubSeq(s, k, e - 1)
      OBVIOUS
    <2>6. k \in Nat /\ e - 1 \in Nat /\ 1 <= k /\ k <= (e - 1) + 1 /\ e - 1 <= Len(a) /\ e - 1 <= Len(s)
      BY <1>1, <1>7, <2>2
    <2>7. p \in Seq(X) /\ Len(p) = e - 1 - k + 1 /\ \A j \in 1..e - 1 - k + 1 : p[j] = a[k + j - 1]
      BY <2>5, <2>6, SubSeqIs
    <2>8. q \in Seq(X) /\ Len(q) = e - 1 - k + 1 /\ \A j \in 1..e - 1 - k + 1 : q[j] = s[k + j - 1]
      BY <1>7, <2>5, <2>6, SubSeqIs
    <2>9. ASSUME NEW j \in 1..e - 1 - k + 1 PROVE p[j] = q[j]
      <3>1. k + j - 1 \in 1..n
        BY <2>2
      <3> QED
        BY <1>8, <2>7, <2>8, <3>1
    <2>10. p = q
      BY <2>7, <2>8, <2>9, SeqEqual
    <2>11. ra[k] = Read(<<SubSeq(a, k, e - 1)>>, e + 1)
      BY <1>1, <1>10, <2>1 DEF Splitting
    <2>12. rs[k] = Read(<<SubSeq(s, k, e - 1)>>, e + 1)
      <3>1. k \in 1..Len(s) + 1
        BY <1>7
      <3>2. PICK f : f = Stop(s, c, k)
        OBVIOUS
      <3>3. rs[k] = Read(<<SubSeq(s, k, f - 1)>>, f + 1)
        BY <1>10, <3>1, <3>2 DEF Splitting
      <3> QED
        BY <2>4, <3>2, <3>3
    <2>13. ra[k].piece = <<p>> /\ ra[k].next = e + 1 /\ rs[k].piece = <<q>> /\ rs[k].next = e + 1
      <3>1. ra[k] = Read(<<p>>, e + 1) /\ rs[k] = Read(<<q>>, e + 1)
        BY <2>5, <2>11, <2>12
      <3> QED
        BY <3>1 DEF Read
    <2> QED
      BY <2>2, <2>7, <2>10, <2>13
  <1>14. PICK Y, last : Y = Seq(X) /\ last = <<b>>
    OBVIOUS
  <1>15. last \in Seq(Y)
    BY <1>14
  <1>16. From(N + 1, rs)[n + 2] = last
    <2>1. PICK d \in 0..Len(s) : d = n + 1
      BY <1>7
    <2>2. ~Has(Rest(s, d), c)
      BY <1>9, <2>1
    <2>3. From(Len(s) + 1, Splitting(s, c))[d + 1] = <<Rest(s, d)>>
      BY <1>7, <2>2, SplitLast
    <2>4. d + 1 = n + 2 /\ Len(s) = N
      BY <1>7, <1>11, <2>1
    <2> QED
      BY <1>9, <1>10, <1>14, <2>1, <2>3, <2>4
  <1> DEFINE S == {k \in 1..n + 2 : From(N + 1, rs)[k] = From(n + 1, ra)[k] \o last}
  <1>17. (n + 1) + 1 \in S
    <2>1. PICK i \in Nat : i = n + 1
      OBVIOUS
    <2>2. From(i, ra)[i + 1] = <<>>
      <3>1. Advances(i, ra)
        BY <1>12, <2>1
      <3> QED
        BY <3>1, FromStep
    <2>3. i + 1 = n + 2 /\ (n + 1) + 1 = n + 2 /\ n + 2 \in 1..n + 2
      BY <2>1
    <2>4. <<>> \o last = last
      BY <1>15, ConcatEmptySeq
    <2>5. From(n + 1, ra)[n + 2] = <<>>
      BY <2>1, <2>2, <2>3
    <2> QED
      BY <1>16, <2>3, <2>4, <2>5
  <1>18. ASSUME NEW k \in 1..n + 1, \A j \in k + 1..n + 1 + 1 : j \in S PROVE k \in S
    <2>1. PICK piece \in Seq(Y), next \in k + 1..n + 2 : piece = ra[k].piece /\ next = ra[k].next
      BY <1>13, <1>14
    <2>2. rs[k].piece = piece /\ rs[k].next = next
      BY <1>13, <2>1
    <2>3. k \in 1..N + 1
      BY <1>11
    <2>4. From(N + 1, rs)[k] = piece \o From(N + 1, rs)[next]
      BY <1>12, <2>2, <2>3, FromStep
    <2>5. From(n + 1, ra)[k] = piece \o From(n + 1, ra)[next]
      BY <1>12, <2>1, FromStep
    <2>6. From(N + 1, rs)[next] = From(n + 1, ra)[next] \o last
      BY <1>18
    <2>7. From(n + 1, ra)[next] \in Seq(Y)
      <3>1. next \in 1..n + 1 + 1
        OBVIOUS
      <3>2. \A i \in 1..n + 1 : ra[i].piece \in Seq(Y)
        BY <1>13, <1>14
      <3> QED
        BY <1>12, <3>1, <3>2, FromType
    <2>8. PICK u \in Seq(Y) : u = From(n + 1, ra)[next]
      BY <2>7
    <2>9. piece \o (u \o last) = (piece \o u) \o last
      <3>1. Joins(piece, u, last)
        BY <1>15, JoinsAlike
      <3> QED
        BY <3>1 DEF Joins
    <2>10. From(N + 1, rs)[k] = From(n + 1, ra)[k] \o last
      BY <2>4, <2>5, <2>6, <2>8, <2>9, Zenon
    <2>11. k \in 1..n + 2
      OBVIOUS
    <2> QED
      BY <2>10, <2>11, Zenon
  <1> HIDE DEF S
  <1>19. 1..(n + 1) + 1 \subseteq S
    BY <1>12, <1>17, <1>18, DownInduction
  <1>20. 1 \in S
    BY <1>19
  <1>21. From(N + 1, rs)[1] = From(n + 1, ra)[1] \o last
    BY <1>20 DEF S
  <1>22. Split(s, c) = From(N + 1, rs)[1] /\ Split(a, c) = From(n + 1, ra)[1]
    BY <1>1, <1>7, <1>10, <1>11, SplitIs
  <1> QED
    BY <1>14, <1>21, <1>22 DEF SplitsMore

-----------------------------------------------------------------------------
(* Sequences put together *)

LEMMA FlattenMore ==
  ASSUME NEW X, NEW seqs \in Seq(Seq(X)), NEW x \in Seq(X)
  PROVE  FlattenSeq(seqs \o <<x>>) = FlattenSeq(seqs) \o x
  <1>1. PICK n \in Nat : n = Len(seqs)
    BY LenProperties
  <1>2. PICK Y, one : Y = Seq(X) /\ one = <<x>>
    OBVIOUS
  <1>3. one \in Seq(Y) /\ Len(one) = 1 /\ one[1] = x
    BY <1>2
  <1>4. PICK all : all = seqs \o one
    OBVIOUS
  <1>5. seqs \in Seq(Y)
    BY <1>2
  <1>6. all \in Seq(Y) /\ Len(all) = n + 1 /\ (\A k \in 1..n : all[k] = seqs[k]) /\ all[n + 1] = x
    <2>1. one \in Seq(Y)
      BY <1>3
    <2>2. /\ all \in Seq(Y) /\ Len(all) = Len(seqs) + Len(one)
          /\ \A k \in 1..Len(seqs) : all[k] = seqs[k]
          /\ \A k \in 1..Len(one) : all[Len(seqs) + k] = one[k]
      BY <1>4, <1>5, <2>1, ConcatIs
    <2>3. 1 \in 1..Len(one)
      BY <1>3
    <2>4. all[n + 1] = x
      BY <1>1, <1>3, <2>2, <2>3
    <2> QED
      BY <1>1, <1>3, <2>2, <2>4
  <1>7. PICK f \in [0..n -> Seq(X)] :
          /\ f[0] = <<>>
          /\ \A k \in 1..n : f[k] = f[k - 1] \o seqs[k]
          /\ FlattenSeq(seqs) = f[n]
    BY <1>1, FlattenSteps
  <1>8. PICK g \in [0..n + 1 -> Seq(X)] :
          /\ g[0] = <<>>
          /\ \A k \in 1..n + 1 : g[k] = g[k - 1] \o all[k]
          /\ FlattenSeq(all) = g[n + 1]
    <2>1. all \in Seq(Seq(X))
      BY <1>2, <1>6
    <2>2. PICK g \in [0..Len(all) -> Seq(X)] :
            /\ g[0] = <<>>
            /\ \A k \in 1..Len(all) : g[k] = g[k - 1] \o all[k]
            /\ FlattenSeq(all) = g[Len(all)]
      BY <2>1, FlattenSteps
    <2>3. Len(all) = n + 1
      BY <1>6
    <2> QED
      BY <2>2, <2>3
  <1> DEFINE S == {m \in Nat : m <= n => g[m] = f[m]}
  <1>9. 0 \in S
    BY <1>7, <1>8
  <1>10. ASSUME NEW m \in Nat, m \in S PROVE m + 1 \in S
    <2> SUFFICES ASSUME m + 1 <= n PROVE g[m + 1] = f[m + 1]
      OBVIOUS
    <2>1. PICK i : i = m + 1
      OBVIOUS
    <2>2. i \in 1..n /\ i \in 1..n + 1 /\ i - 1 = m
      BY <2>1
    <2>3. f[i] = f[m] \o seqs[i] /\ g[i] = g[m] \o all[i]
      BY <1>7, <1>8, <2>2
    <2>4. g[m] = f[m] /\ all[i] = seqs[i]
      BY <1>6, <1>10, <2>2
    <2> QED
      BY <2>1, <2>3, <2>4
  <1> HIDE DEF S
  <1>11. Nat \subseteq S
    BY <1>9, <1>10, SetInduction
  <1>12. g[n] = f[n]
    BY <1>11 DEF S
  <1>13. g[n + 1] = g[n] \o x
    <2>1. PICK i \in 1..n + 1 : i = n + 1 /\ i - 1 = n
      OBVIOUS
    <2>2. g[i] = g[n] \o all[i]
      BY <1>8, <2>1
    <2> QED
      BY <1>6, <2>1, <2>2
  <1> QED
    BY <1>2, <1>4, <1>7, <1>8, <1>12, <1>13

LEMMA FlattenNothing ==
  ASSUME NEW X, NEW seqs \in Seq(Seq(X)), \A k \in 1..Len(seqs) : seqs[k] = <<>>
  PROVE  FlattenSeq(seqs) = <<>>
  <1>1. PICK n \in Nat : n = Len(seqs)
    BY LenProperties
  <1>2. PICK f \in [0..n -> Seq(X)] :
          /\ f[0] = <<>>
          /\ \A k \in 1..n : f[k] = f[k - 1] \o seqs[k]
          /\ FlattenSeq(seqs) = f[n]
    BY <1>1, FlattenSteps
  <1> DEFINE S == {m \in Nat : m <= n => f[m] = <<>>}
  <1>3. 0 \in S
    BY <1>2
  <1>4. ASSUME NEW m \in Nat, m \in S PROVE m + 1 \in S
    <2> SUFFICES ASSUME m + 1 <= n PROVE f[m + 1] = <<>>
      OBVIOUS
    <2>1. PICK i \in 1..n : i = m + 1 /\ i - 1 = m
      OBVIOUS
    <2>2. f[i] = f[m] \o seqs[i]
      BY <1>2, <2>1
    <2>3. f[m] = <<>> /\ seqs[i] = <<>>
      BY <1>1, <1>4, <2>1
    <2> QED
      BY <2>1, <2>2, <2>3
  <1> HIDE DEF S
  <1>5. Nat \subseteq S
    BY <1>3, <1>4, SetInduction
  <1> QED
    BY <1>2, <1>5 DEF S

\* Only one of the sequences is not empty.
LEMMA FlattenOnly ==
  ASSUME NEW X, NEW seqs \in Seq(Seq(X)), NEW p \in 1..Len(seqs),
         \A k \in 1..Len(seqs) : k # p => seqs[k] = <<>>
  PROVE  FlattenSeq(seqs) = seqs[p]
  <1>1. PICK n \in Nat : n = Len(seqs)
    BY LenProperties
  <1>2. PICK f \in [0..n -> Seq(X)] :
          /\ f[0] = <<>>
          /\ \A k \in 1..n : f[k] = f[k - 1] \o seqs[k]
          /\ FlattenSeq(seqs) = f[n]
    BY <1>1, FlattenSteps
  <1>3. seqs[p] \in Seq(X)
    BY ElementOfSeq
  <1>4. PICK x \in Seq(X) : x = seqs[p]
    BY <1>3
  <1> DEFINE S == {m \in Nat : m <= n => f[m] = IF m < p THEN <<>> ELSE x}
  <1>5. 0 \in S
    BY <1>2
  <1>6. ASSUME NEW m \in Nat, m \in S PROVE m + 1 \in S
    <2> SUFFICES ASSUME m + 1 <= n PROVE f[m + 1] = IF m + 1 < p THEN <<>> ELSE x
      OBVIOUS
    <2>1. PICK i \in 1..n : i = m + 1 /\ i - 1 = m
      OBVIOUS
    <2>2. f[i] = f[m] \o seqs[i]
      BY <1>2, <2>1
    <2>3. f[m] = IF m < p THEN <<>> ELSE x
      BY <1>6, <2>1
    <2>4. CASE i = p
      <3>1. f[m] = <<>> /\ seqs[i] = x
        BY <1>4, <2>1, <2>3, <2>4
      <3>2. f[i] = x
        BY <2>2, <3>1, ConcatEmptySeq
      <3> QED
        BY <2>1, <2>4, <3>2
    <2>5. CASE i < p
      <3>1. f[i] = <<>> \o <<>>
        BY <1>1, <2>1, <2>2, <2>3, <2>5
      <3> QED
        BY <2>1, <2>5, <3>1
    <2>6. CASE i > p
      <3>1. f[m] = x
        BY <1>1, <2>1, <2>3, <2>6
      <3>2. seqs[i] = <<>>
        BY <1>1, <2>6
      <3>3. f[i] = x
        BY <2>2, <3>1, <3>2, ConcatEmptySeq
      <3> QED
        BY <2>1, <2>6, <3>3
    <2> QED
      BY <1>1, <2>4, <2>5, <2>6
  <1> HIDE DEF S
  <1>7. Nat \subseteq S
    BY <1>5, <1>6, SetInduction
  <1>8. n \in S /\ ~(n < p) /\ n <= n
    BY <1>1, <1>7
  <1>9. f[n] = x
    BY <1>8 DEF S
  <1> QED
    BY <1>2, <1>4, <1>9

-----------------------------------------------------------------------------
(* Where nothing is replaced *)

\* No occurrence begins at the first n places.
FreeOf(t, old, n) == \A k \in 1..n : ~StartsAt(t, old, k)

\* The head of a text that is not empty.
LEMMA HeadTail ==
  ASSUME NEW X, NEW u \in Seq(X), Len(u) > 0
  PROVE  \E c \in X : \E r \in Seq(X) : u = <<c>> \o r /\ c = u[1] /\ Len(u) = Len(r) + 1
  <1>1. Len(u) > 0 /\ 1 \in 0..Len(u) /\ 1 \in 1..Len(u)
    <2>1. PICK n \in Nat : n = Len(u)
      BY LenProperties
    <2> QED
      BY <2>1
  <1>2. PICK c \in X : c = u[1]
    BY <1>1, ElementOfSeq
  <1>3. PICK r : r = Rest(u, 1)
    OBVIOUS
  <1>4. r \in Seq(X) /\ Len(r) = Len(u) - 1
    BY <1>1, <1>3, RestIs
  <1>5. Len(u) = Len(r) + 1
    BY <1>1, <1>4
  <1>6. <<c>> \o r = u
    BY <1>1, <1>2, <1>3, HeadRest
  <1> QED
    BY <1>2, <1>3, <1>4, <1>5, <1>6

LEMMA PairConcat ==
  ASSUME NEW X, NEW a \in X, NEW b \in X
  PROVE  <<a>> \o <<b>> = <<a, b>>
  <1>1. PICK x, y, t, pair : x = <<a>> /\ y = <<b>> /\ t = x \o y /\ pair = <<a, b>>
    OBVIOUS
  <1>2. x \in Seq(X) /\ Len(x) = 1 /\ x[1] = a
    BY <1>1
  <1>3. y \in Seq(X) /\ Len(y) = 1 /\ y[1] = b
    BY <1>1
  <1>4. pair \in Seq(X) /\ Len(pair) = 2 /\ pair[1] = a /\ pair[2] = b
    BY <1>1
  <1>5. /\ t \in Seq(X) /\ Len(t) = Len(x) + Len(y) /\ \A k \in 1..Len(x) : t[k] = x[k]
        /\ \A k \in 1..Len(y) : t[Len(x) + k] = y[k]
    <2>1. x \in Seq(X)
      BY <1>2
    <2>2. y \in Seq(X)
      BY <1>3
    <2> QED
      BY <1>1, <2>1, <2>2, ConcatIs
  <1>6. Len(t) = 2 /\ t[1] = a /\ t[2] = b
    <2>1. 1 \in 1..1 /\ 1 + 1 = 2
      OBVIOUS
    <2> QED
      BY <1>2, <1>3, <1>5, <2>1
  <1>7. \A k \in 1..2 : t[k] = pair[k]
    <2>1. \A k \in 1..2 : k = 1 \/ k = 2
      OBVIOUS
    <2> QED
      BY <1>4, <1>6, <2>1
  <1>8. t \in Seq(X) /\ pair \in Seq(X) /\ Len(t) = Len(pair) /\ \A k \in 1..Len(t) : t[k] = pair[k]
    BY <1>4, <1>5, <1>6, <1>7
  <1>9. t = pair
    BY <1>8, SeqEqual
  <1> QED
    BY <1>1, <1>9

LEMMA ReplacePast ==
  ASSUME NEW X, NEW u \in Seq(X), NEW v \in Seq(X), NEW Y, NEW old \in Seq(Y), NEW new \in Seq(X),
         Len(old) > 0, FreeOf(u \o v, old, Len(u))
  PROVE  Replace(u \o v, old, new) = u \o Replace(v, old, new)
  <1>1. PICK w : w = Replace(v, old, new)
    OBVIOUS
  <1>2. w \in Seq(X)
    BY <1>1, ReplaceType
  <1> DEFINE Goal(x) == FreeOf(x \o v, old, Len(x)) => Replace(x \o v, old, new) = x \o w
  <1> DEFINE S == {m \in Nat : \A x \in Seq(X) : Len(x) = m => Goal(x)}
  <1>3. 0 \in S
    <2> SUFFICES ASSUME NEW x \in Seq(X), Len(x) = 0 PROVE Goal(x)
      OBVIOUS
    <2>1. x = <<>>
      BY EmptySeq
    <2>2. <<>> \o v = v /\ <<>> \o w = w
      BY <1>2, ConcatEmptySeq
    <2> QED
      BY <1>1, <2>1, <2>2
  <1>4. ASSUME NEW m \in Nat, m \in S PROVE m + 1 \in S
    <2> SUFFICES ASSUME NEW x \in Seq(X), Len(x) = m + 1, FreeOf(x \o v, old, Len(x))
                 PROVE  Replace(x \o v, old, new) = x \o w
      OBVIOUS
    <2>a. Len(x) > 0
      OBVIOUS
    <2>b. PICK c \in X, r \in Seq(X) : x = <<c>> \o r /\ c = x[1] /\ Len(x) = Len(r) + 1
      BY <2>a, HeadTail
    <2>1. x = <<c>> \o r /\ c = x[1] /\ Len(r) = m
      BY <2>b, LenProperties
    <2>2. PICK a : a = <<c>>
      OBVIOUS
    <2>3. a \in Seq(X) /\ Len(a) = 1 /\ a[1] = c /\ x = a \o r
      BY <2>1, <2>2
    <2>4. PICK y : y = r \o v
      OBVIOUS
    <2>5. y \in Seq(X) /\ Len(y) = m + Len(v) /\ Len(v) \in Nat
      BY <2>1, <2>4, ConcatIs
    <2>6. PICK t : t = a \o y
      OBVIOUS
    <2>7. t = x \o v
      <3>1. a \in Seq(X)
        BY <2>3
      <3>3. Joins(a, r, v)
        BY <3>1, JoinsAlike
      <3>2. (a \o r) \o v = a \o (r \o v)
        BY <3>3 DEF Joins
      <3> QED
        BY <2>3, <2>4, <2>6, <3>2
    <2>8. t \in Seq(X) /\ Len(t) = 1 + Len(y) /\ t[1] = c /\ Rest(t, 1) = y
      <3>1. a \in Seq(X)
        BY <2>3
      <3>a. y \in Seq(X)
        BY <2>5
      <3>2. /\ t \in Seq(X) /\ Len(t) = Len(a) + Len(y) /\ \A k \in 1..Len(a) : t[k] = a[k]
        BY <2>6, <3>1, <3>a, ConcatIs
      <3>3. 1 \in 1..Len(a)
        BY <2>3
      <3>4. Rest(t, Len(a)) = y
        BY <2>5, <2>6, <3>1, RestConcat
      <3> QED
        BY <2>3, <3>2, <3>3, <3>4
    <2>9. ~StartsAt(t, old, 1)
      <3>1. 1 \in 1..Len(x)
        OBVIOUS
      <3> QED
        BY <2>7, <3>1 DEF FreeOf
    <2>10. Replace(t, old, new) = a \o Replace(y, old, new)
      <3>1. Len(t) > 0
        BY <2>5, <2>8
      <3> QED
        BY <2>2, <2>8, <2>9, <3>1, ReplaceHead
    <2>11. FreeOf(y, old, m)
      <3> SUFFICES ASSUME NEW k \in 1..m PROVE ~StartsAt(y, old, k)
        BY DEF FreeOf
      <3>1. k + 1 \in 1..Len(x) /\ 1 \in 0..Len(t) /\ k \in 1..Len(t) - 1
        BY <2>5, <2>8
      <3>2. StartsAt(Rest(t, 1), old, k) <=> StartsAt(t, old, k + 1)
        BY <2>8, <3>1, StartsAtRest
      <3> QED
        BY <2>7, <2>8, <3>1, <3>2 DEF FreeOf
    <2>12. Replace(y, old, new) = r \o w
      BY <1>4, <2>1, <2>4, <2>11
    <2>13. a \o (r \o w) = (a \o r) \o w
      <3>1. a \in Seq(X)
        BY <2>3
      <3>2. Joins(a, r, w)
        BY <1>2, <3>1, JoinsAlike
      <3> QED
        BY <3>2 DEF Joins
    <2> QED
      BY <2>3, <2>7, <2>10, <2>12, <2>13
  <1> HIDE DEF S
  <1>5. Nat \subseteq S
    BY <1>3, <1>4, SetInduction
  <1>6. Len(u) \in S
    BY <1>5, LenProperties
  <1> QED
    BY <1>1, <1>6 DEF S

LEMMA ReplaceNone ==
  ASSUME NEW X, NEW u \in Seq(X), NEW Y, NEW old \in Seq(Y), NEW new \in Seq(X),
         Len(old) > 0, FreeOf(u, old, Len(u))
  PROVE  Replace(u, old, new) = u
  <1>1. PICK v : v = <<>>
    OBVIOUS
  <1>2. v \in Seq(X) /\ Len(v) = 0
    BY <1>1
  <1>3. u \o v = u
    BY <1>1, ConcatEmptySeq
  <1>4. Replace(v, old, new) = v
    BY <1>1, <1>2, ReplaceNothing
  <1>5. FreeOf(u \o v, old, Len(u))
    BY <1>3
  <1>6. Replace(u \o v, old, new) = u \o Replace(v, old, new)
    <2>1. v \in Seq(X)
      BY <1>2
    <2> QED
      BY <1>5, <2>1, ReplacePast
  <1> QED
    BY <1>1, <1>3, <1>4, <1>6

-----------------------------------------------------------------------------
(* What tokens mean *)

LEMMA FlattenFirst ==
  ASSUME NEW X, NEW seqs \in Seq(Seq(X)), NEW x \in Seq(X)
  PROVE  FlattenSeq(<<x>> \o seqs) = x \o FlattenSeq(seqs)
  <1>1. PICK n \in Nat : n = Len(seqs)
    BY LenProperties
  <1>2. PICK Y, one : Y = Seq(X) /\ one = <<x>>
    OBVIOUS
  <1>3. one \in Seq(Y) /\ Len(one) = 1 /\ one[1] = x
    BY <1>2
  <1>4. PICK all : all = one \o seqs
    OBVIOUS
  <1>5. seqs \in Seq(Y)
    BY <1>2
  <1>6. all \in Seq(Y) /\ Len(all) = n + 1 /\ all[1] = x /\ \A k \in 1..n : all[k + 1] = seqs[k]
    <2>1. one \in Seq(Y)
      BY <1>3
    <2>2. /\ all \in Seq(Y) /\ Len(all) = Len(one) + Len(seqs)
          /\ \A k \in 1..Len(one) : all[k] = one[k]
          /\ \A k \in 1..Len(seqs) : all[Len(one) + k] = seqs[k]
      BY <1>4, <1>5, <2>1, ConcatIs
    <2>3. 1 \in 1..Len(one)
      BY <1>3
    <2>4. \A k \in 1..n : all[1 + k] = seqs[k] /\ 1 + k = k + 1
      BY <1>1, <1>3, <2>2
    <2> QED
      BY <1>1, <1>3, <2>2, <2>3, <2>4
  <1>7. PICK f \in [0..n -> Seq(X)] :
          /\ f[0] = <<>>
          /\ \A k \in 1..n : f[k] = f[k - 1] \o seqs[k]
          /\ FlattenSeq(seqs) = f[n]
    BY <1>1, FlattenSteps
  <1>8. PICK g \in [0..n + 1 -> Seq(X)] :
          /\ g[0] = <<>>
          /\ \A k \in 1..n + 1 : g[k] = g[k - 1] \o all[k]
          /\ FlattenSeq(all) = g[n + 1]
    <2>1. all \in Seq(Seq(X))
      BY <1>2, <1>6
    <2>2. PICK g \in [0..Len(all) -> Seq(X)] :
            /\ g[0] = <<>>
            /\ \A k \in 1..Len(all) : g[k] = g[k - 1] \o all[k]
            /\ FlattenSeq(all) = g[Len(all)]
      BY <2>1, FlattenSteps
    <2>3. Len(all) = n + 1
      BY <1>6
    <2> QED
      BY <2>2, <2>3
  <1> DEFINE S == {m \in Nat : m <= n => g[m + 1] = x \o f[m]}
  <1>9. 0 \in S
    <2>5. 1 \in 1..n + 1
      OBVIOUS
    <2>1. PICK k \in 1..n + 1 : k = 1
      BY <2>5
    <2>2. k - 1 = 0 /\ 0 + 1 = k
      BY <2>1
    <2>3. g[k] = <<>> \o x
      BY <1>6, <1>8, <2>1, <2>2
    <2>4. <<>> \o x = x /\ x \o <<>> = x
      BY ConcatEmptySeq
    <2> QED
      BY <1>7, <2>2, <2>3, <2>4
  <1>10. ASSUME NEW m \in Nat, m \in S PROVE m + 1 \in S
    <2>a. m + 1 \in Nat
      OBVIOUS
    <2> SUFFICES ASSUME m + 1 <= n PROVE g[(m + 1) + 1] = x \o f[m + 1]
      BY <2>a, Zenon
    <2>1. PICK k, j : k = m + 1 /\ j = k + 1
      OBVIOUS
    <2>2. k \in 1..n /\ j \in 1..n + 1 /\ k - 1 = m /\ j - 1 = k /\ m \in 0..n
      BY <2>1
    <2>3. f[k] = f[m] \o seqs[k] /\ g[j] = g[k] \o all[j]
      BY <1>7, <1>8, <2>2
    <2>b. m <= n
      OBVIOUS
    <2>c. g[m + 1] = x \o f[m]
      BY <1>10, <2>b, Zenon
    <2>4. g[k] = x \o f[m] /\ all[j] = seqs[k]
      BY <1>6, <2>1, <2>2, <2>c
    <2>5. f[m] \in Seq(X) /\ seqs[k] \in Seq(X)
      <3>1. seqs[k] \in Y
        BY <1>1, <1>5, <2>2, ElementOfSeq
      <3> QED
        BY <1>2, <1>7, <2>2, <3>1
    <2>7. PICK b, c : b = f[m] /\ c = seqs[k]
      OBVIOUS
    <2>8. b \in Seq(X) /\ c \in Seq(X)
      BY <2>5, <2>7
    <2>9. Joins(x, b, c)
      BY <2>8, JoinsAlike
    <2>6. (x \o f[m]) \o seqs[k] = x \o (f[m] \o seqs[k])
      BY <2>7, <2>9 DEF Joins
    <2> QED
      BY <2>1, <2>3, <2>4, <2>6
  <1> HIDE DEF S
  <1>11. Nat \subseteq S
    BY <1>9, <1>10, SetInduction
  <1>12. g[n + 1] = x \o f[n]
    BY <1>11 DEF S
  <1> QED
    BY <1>2, <1>4, <1>7, <1>8, <1>12
=============================================================================
