----------------------------- MODULE WireProofs ------------------------------
(***************************************************************************)
(* The byte stream implements the stream of whole frames, for frames of    *)
(* any sizes, pieces of any lengths and a cut behind any byte.             *)
(***************************************************************************)
EXTENDS Wire, DataProofs, FiniteSetTheorems

Frame == [kind : Kinds, size : Sizes]

-----------------------------------------------------------------------------
(* The ends of the frames *)

\* The recursive function of Ends exists, so that Ends conforms to its equation. For the
\* length fields that decode reads one after the other (src/codec.rs:77-92).
LEMMA EndsDef ==
  ASSUME NEW fs \in Seq(Frame)
  PROVE  Ends(fs) = [k \in 0..Len(fs) |-> IF k = 0 THEN 0 ELSE Ends(fs)[k - 1] + fs[k].size]
  <1> DEFINE S == {n \in Nat : \E f : f = [k \in 0..n |-> IF k = 0 THEN 0 ELSE f[k - 1] + fs[k].size]}
  <1>1. 0 \in S
    <2> DEFINE f == [k \in 0..0 |-> 0]
    <2>1. f = [k \in 0..0 |-> IF k = 0 THEN 0 ELSE f[k - 1] + fs[k].size]
      OBVIOUS
    <2> QED
      BY <2>1
  <1>2. ASSUME NEW n \in Nat, n \in S PROVE n + 1 \in S
    <2>1. PICK f : f = [k \in 0..n |-> IF k = 0 THEN 0 ELSE f[k - 1] + fs[k].size]
      BY <1>2
    <2> DEFINE g == [k \in 0..n + 1 |-> IF k = n + 1 THEN f[n] + fs[n + 1].size ELSE f[k]]
    <2>2. \A k \in 0..n : g[k] = f[k]
      OBVIOUS
    <2>3. g[n + 1] = g[n] + fs[n + 1].size
      BY <2>2
    <2>4. \A k \in 0..n : g[k] = IF k = 0 THEN 0 ELSE g[k - 1] + fs[k].size
      BY <2>1, <2>2
    <2> HIDE DEF g
    <2>5. \A k \in 0..n + 1 : g[k] = IF k = 0 THEN 0 ELSE g[k - 1] + fs[k].size
      BY <2>3, <2>4
    <2>6. g = [k \in 0..n + 1 |-> g[k]]
      BY DEF g
    <2>7. g = [k \in 0..n + 1 |-> IF k = 0 THEN 0 ELSE g[k - 1] + fs[k].size]
      BY <2>5, <2>6
    <2> QED
      BY <2>7, SMTT(30)
  <1>3. Len(fs) \in S
    <2> HIDE DEF S
    <2>1. Nat \subseteq S
      BY <1>1, <1>2, SetInduction
    <2> QED
      BY <2>1
  <1> QED
    BY <1>3 DEF Ends

\* Each frame ends behind the one before it, by its size.
LEMMA EndsNext ==
  ASSUME NEW fs \in Seq(Frame)
  PROVE  /\ Ends(fs)[0] = 0
         /\ \A k \in 1..Len(fs) : Ends(fs)[k] = Ends(fs)[k - 1] + fs[k].size
  BY EndsDef

LEMMA EndsType ==
  ASSUME NEW fs \in Seq(Frame), NEW k \in 0..Len(fs)
  PROVE  Ends(fs)[k] \in Nat
  <1> DEFINE S == {n \in Nat : n <= Len(fs) => Ends(fs)[n] \in Nat}
  <1>1. 0 \in S
    BY EndsNext
  <1>2. ASSUME NEW n \in Nat, n \in S PROVE n + 1 \in S
    <2> SUFFICES ASSUME n + 1 <= Len(fs) PROVE Ends(fs)[n + 1] \in Nat
      OBVIOUS
    <2>1. fs[n + 1] \in Frame
      BY ElementOfSeq
    <2>2. fs[n + 1].size \in Nat
      BY <2>1, WireAssumption DEF Frame
    <2> QED
      BY <1>2, <2>2, EndsNext
  <1> HIDE DEF S
  <1>3. Nat \subseteq S
    BY <1>1, <1>2, SetInduction
  <1> QED
    BY <1>3 DEF S

\* A frame has a type byte and a length field.
LEMMA EndsGrow ==
  ASSUME NEW fs \in Seq(Frame), NEW j \in 0..Len(fs), NEW k \in 0..Len(fs), j < k
  PROVE  Ends(fs)[j] + 5 <= Ends(fs)[k]
  <1> DEFINE S == {n \in Nat : j + 1 + n <= Len(fs) => Ends(fs)[j] + 5 <= Ends(fs)[j + 1 + n]}
  <1>0. ASSUME NEW n \in 1..Len(fs) PROVE Ends(fs)[n - 1] + 5 <= Ends(fs)[n]
    <2>1. fs[n] \in Frame
      BY ElementOfSeq
    <2>2. fs[n].size \in Nat /\ fs[n].size >= 5
      BY <2>1, WireAssumption DEF Frame
    <2>3. Ends(fs)[n - 1] \in Nat
      BY EndsType
    <2> QED
      BY <2>2, <2>3, EndsNext
  <1>1. 0 \in S
    <2> SUFFICES ASSUME j + 1 <= Len(fs) PROVE Ends(fs)[j] + 5 <= Ends(fs)[j + 1]
      OBVIOUS
    <2>1. Ends(fs)[(j + 1) - 1] + 5 <= Ends(fs)[j + 1]
      BY <1>0
    <2> QED
      BY <2>1
  <1>2. ASSUME NEW n \in Nat, n \in S PROVE n + 1 \in S
    <2> SUFFICES ASSUME j + 2 + n <= Len(fs) PROVE Ends(fs)[j] + 5 <= Ends(fs)[j + 1 + (n + 1)]
      OBVIOUS
    <2>1. Ends(fs)[(j + 2 + n) - 1] + 5 <= Ends(fs)[j + 2 + n]
      BY <1>0
    <2>2. (j + 2 + n) - 1 = j + 1 + n /\ j + 1 + (n + 1) = j + 2 + n
      OBVIOUS
    <2>3. Ends(fs)[j] \in Nat /\ Ends(fs)[j + 1 + n] \in Nat /\ Ends(fs)[j + 2 + n] \in Nat
      BY EndsType
    <2>4. Ends(fs)[j] + 5 <= Ends(fs)[j + 1 + n]
      BY <1>2
    <2> HIDE DEF S
    <2>5. Ends(fs)[j] + 5 <= Ends(fs)[j + 2 + n]
      BY <2>1, <2>2, <2>3, <2>4
    <2> QED
      BY <2>2, <2>5
  <1> HIDE DEF S
  <1>3. Nat \subseteq S
    BY <1>1, <1>2, SetInduction
  <1>4. k - j - 1 \in S
    BY <1>3
  <1>5. j + 1 + (k - j - 1) = k
    OBVIOUS
  <1> QED
    BY <1>4, <1>5 DEF S

\* What the server appends does not move the ends of what is there.
LEMMA EndsAppend ==
  ASSUME NEW fs \in Seq(Frame), NEW f \in Frame
  PROVE  /\ \A k \in 0..Len(fs) : Ends(Append(fs, f))[k] = Ends(fs)[k]
         /\ Ends(Append(fs, f))[Len(fs) + 1] = Ends(fs)[Len(fs)] + f.size
  <1> DEFINE gs == Append(fs, f)
  <1> DEFINE S == {n \in Nat : n <= Len(fs) => Ends(gs)[n] = Ends(fs)[n]}
  <1>0. /\ gs \in Seq(Frame) /\ Len(gs) = Len(fs) + 1
        /\ gs[Len(fs) + 1] = f /\ \A k \in 1..Len(fs) : gs[k] = fs[k]
    BY AppendProperties
  <1> HIDE DEF gs
  <1>1. 0 \in S
    BY <1>0, EndsNext
  <1>2. ASSUME NEW n \in Nat, n \in S PROVE n + 1 \in S
    <2> SUFFICES ASSUME n + 1 <= Len(fs) PROVE Ends(gs)[n + 1] = Ends(fs)[n + 1]
      OBVIOUS
    <2>1. n + 1 \in 1..Len(fs) /\ n + 1 \in 1..Len(gs) /\ (n + 1) - 1 = n
      BY <1>0
    <2>2. Ends(gs)[n + 1] = Ends(gs)[n] + gs[n + 1].size
      BY <1>0, <2>1, EndsNext
    <2>3. Ends(fs)[n + 1] = Ends(fs)[n] + fs[n + 1].size
      BY <2>1, EndsNext
    <2> QED
      BY <1>0, <1>2, <2>1, <2>2, <2>3
  <1>3. Nat \subseteq S
    <2> HIDE DEF S
    <2> QED
      BY <1>1, <1>2, SetInduction
  <1>4. \A k \in 0..Len(fs) : Ends(gs)[k] = Ends(fs)[k]
    BY <1>3
  <1>5. Ends(gs)[Len(fs) + 1] = Ends(gs)[Len(fs)] + f.size
    <2>1. Len(fs) + 1 \in 1..Len(gs) /\ (Len(fs) + 1) - 1 = Len(fs)
      BY <1>0
    <2> QED
      BY <1>0, <2>1, EndsNext
  <1> QED
    BY <1>4, <1>5 DEF gs

\* Decoding the first frame moves the ends of the others by its size.
LEMMA EndsTail ==
  ASSUME NEW fs \in Seq(Frame), fs # <<>>, NEW k \in 0..Len(fs) - 1
  PROVE  Ends(Tail(fs))[k] = Ends(fs)[k + 1] - fs[1].size
  <1> DEFINE gs == Tail(fs)
  <1> DEFINE S == {n \in Nat : n <= Len(fs) - 1 => Ends(gs)[n] = Ends(fs)[n + 1] - fs[1].size}
  <1>0. /\ gs \in Seq(Frame) /\ Len(gs) = Len(fs) - 1 /\ Len(fs) \in Nat \ {0}
        /\ \A n \in 1..Len(gs) : gs[n] = fs[n + 1]
    BY HeadTailProperties, EmptySeq
  <1>1. \A n \in 1..Len(fs) : fs[n].size \in Nat
    <2> SUFFICES ASSUME NEW n \in 1..Len(fs) PROVE fs[n].size \in Nat
      OBVIOUS
    <2>1. fs[n] \in Frame
      BY ElementOfSeq
    <2> QED
      BY <2>1, WireAssumption DEF Frame
  <1> HIDE DEF gs
  <1>2. 0 \in S
    <2>1. Ends(gs)[0] = 0 /\ Ends(fs)[0] = 0
      BY <1>0, EndsNext
    <2>2. 1 \in 1..Len(fs)
      BY <1>0
    <2>3. Ends(fs)[1] = Ends(fs)[1 - 1] + fs[1].size
      BY <2>2, EndsNext
    <2> QED
      BY <1>1, <2>1, <2>2, <2>3
  <1>3. ASSUME NEW n \in Nat, n \in S PROVE n + 1 \in S
    <2> SUFFICES ASSUME n + 1 <= Len(fs) - 1
                 PROVE  Ends(gs)[n + 1] = Ends(fs)[n + 2] - fs[1].size
      OBVIOUS
    <2>1. n + 1 \in 1..Len(gs) /\ (n + 1) - 1 = n /\ n + 2 \in 1..Len(fs) /\ (n + 2) - 1 = n + 1
      BY <1>0
    <2>2. Ends(gs)[n + 1] = Ends(gs)[n] + fs[n + 2].size
      BY <1>0, <2>1, EndsNext
    <2>3. Ends(fs)[n + 2] = Ends(fs)[n + 1] + fs[n + 2].size
      BY <2>1, EndsNext
    <2>4. Ends(fs)[n + 1] \in Nat /\ fs[n + 2].size \in Nat /\ fs[1].size \in Nat
      BY <1>0, <1>1, <2>1, EndsType
    <2>5. Ends(gs)[n] = Ends(fs)[n + 1] - fs[1].size
      BY <1>3, <2>1
    <2> HIDE DEF S
    <2> QED
      BY <2>2, <2>3, <2>4, <2>5
  <1>4. Nat \subseteq S
    <2> HIDE DEF S
    <2> QED
      BY <1>2, <1>3, SetInduction
  <1> QED
    BY <1>0, <1>4 DEF gs

-----------------------------------------------------------------------------
(* Counting whole frames *)

\* w whole frames lie within b bytes, and the next one does not.
IsWhole(fs, b, w) ==
  w \in 0..Len(fs) /\ Ends(fs)[w] <= b /\ (w < Len(fs) => b < Ends(fs)[w + 1])

LEMMA WholeIs ==
  ASSUME NEW fs \in Seq(Frame), NEW b \in Nat, NEW w, IsWhole(fs, b, w)
  PROVE  Whole(fs, b) = w
  <1>0. w \in 0..Len(fs) /\ Len(fs) \in Nat
    BY DEF IsWhole
  <1>1. ASSUME NEW n \in 1..Len(fs) PROVE Ends(fs)[n] <= b <=> n <= w
    <2>0. n \in 0..Len(fs) /\ Ends(fs)[n] \in Nat /\ Ends(fs)[w] \in Nat
      BY <1>0, EndsType
    <2>1. CASE n < w
      BY <1>0, <2>0, <2>1, EndsGrow DEF IsWhole
    <2>2. CASE n = w
      BY <1>0, <2>0, <2>2 DEF IsWhole
    <2>3. CASE n = w + 1
      BY <1>0, <2>0, <2>3 DEF IsWhole
    <2>4. CASE n > w + 1
      <3>1. w + 1 \in 0..Len(fs) /\ Ends(fs)[w + 1] \in Nat
        BY <1>0, <2>4, EndsType
      <3>2. Ends(fs)[w + 1] + 5 <= Ends(fs)[n]
        BY <2>0, <2>4, <3>1, EndsGrow
      <3> QED
        BY <1>0, <2>0, <2>4, <3>1, <3>2 DEF IsWhole
    <2> QED
      BY <1>0, <2>1, <2>2, <2>3, <2>4
  <1>2. {n \in 1..Len(fs) : Ends(fs)[n] <= b} = 1..w
    BY <1>0, <1>1
  <1>3. Cardinality(1..w) = w
    BY <1>0, FS_Interval
  <1> QED
    BY <1>2, <1>3 DEF Whole

\* There is such a number.
LEMMA WholeDef ==
  ASSUME NEW fs \in Seq(Frame), NEW b \in Nat
  PROVE  IsWhole(fs, b, Whole(fs, b))
  <1> DEFINE S == {n \in Nat : n <= Len(fs) =>
                     \/ Ends(fs)[n] <= b
                     \/ \E w \in 0..n - 1 : Ends(fs)[w] <= b /\ b < Ends(fs)[w + 1]}
  <1>1. 0 \in S
    BY EndsNext
  <1>2. ASSUME NEW n \in Nat, n \in S PROVE n + 1 \in S
    <2> SUFFICES ASSUME n + 1 <= Len(fs), ~ (Ends(fs)[n + 1] <= b)
                 PROVE  \E w \in 0..n : Ends(fs)[w] <= b /\ b < Ends(fs)[w + 1]
      OBVIOUS
    <2>1. Ends(fs)[n + 1] \in Nat
      BY EndsType
    <2>2. CASE Ends(fs)[n] <= b
      BY <2>1, <2>2
    <2>3. CASE \E w \in 0..n - 1 : Ends(fs)[w] <= b /\ b < Ends(fs)[w + 1]
      BY <2>3
    <2> QED
      BY <1>2, <2>2, <2>3
  <1>3. Len(fs) \in S
    <2> HIDE DEF S
    <2> QED
      BY <1>1, <1>2, SetInduction
  <1>4. \E w : IsWhole(fs, b, w)
    <2>1. CASE Ends(fs)[Len(fs)] <= b
      BY <2>1 DEF IsWhole
    <2>2. CASE \E w \in 0..Len(fs) - 1 : Ends(fs)[w] <= b /\ b < Ends(fs)[w + 1]
      BY <2>2 DEF IsWhole
    <2> QED
      BY <1>3, <2>1, <2>2
  <1> QED
    BY <1>4, WholeIs

LEMMA WholeMonotone ==
  ASSUME NEW fs \in Seq(Frame), NEW b \in Nat, NEW c \in Nat, b <= c
  PROVE  Whole(fs, b) <= Whole(fs, c)
  <1> DEFINE v == Whole(fs, b)
  <1> DEFINE w == Whole(fs, c)
  <1>1. IsWhole(fs, b, v) /\ IsWhole(fs, c, w)
    BY WholeDef
  <1> HIDE DEF v, w
  <1>2. v \in 0..Len(fs) /\ w \in 0..Len(fs)
    BY <1>1 DEF IsWhole
  <1>3. CASE v > w
    <2>1. w + 1 \in 0..Len(fs) /\ w < Len(fs)
      BY <1>2, <1>3
    <2>2. Ends(fs)[w + 1] \in Nat /\ Ends(fs)[v] \in Nat
      BY <1>2, <2>1, EndsType
    <2>3. Ends(fs)[w + 1] <= Ends(fs)[v]
      <3>1. CASE w + 1 = v
        BY <2>2, <3>1
      <3>2. CASE w + 1 < v
        BY <1>2, <2>1, <2>2, <3>2, EndsGrow
      <3> QED
        BY <1>2, <1>3, <3>1, <3>2
    <2> QED
      BY <1>1, <2>1, <2>2, <2>3 DEF IsWhole
  <1> QED
    BY <1>2, <1>3 DEF v, w

\* All of them lie within all the bytes, and only with all of the bytes.
LEMMA WholeAll ==
  ASSUME NEW fs \in Seq(Frame), NEW b \in Nat, b <= Ends(fs)[Len(fs)]
  PROVE  Whole(fs, b) = Len(fs) <=> b = Ends(fs)[Len(fs)]
  <1>1. IsWhole(fs, b, Whole(fs, b)) /\ Ends(fs)[Len(fs)] \in Nat
    BY WholeDef, EndsType
  <1>2. b = Ends(fs)[Len(fs)] => IsWhole(fs, b, Len(fs))
    BY <1>1 DEF IsWhole
  <1> QED
    BY <1>1, <1>2, WholeIs DEF IsWhole

LEMMA WholeAppend ==
  ASSUME NEW fs \in Seq(Frame), NEW f \in Frame, NEW b \in Nat, b <= Ends(fs)[Len(fs)]
  PROVE  Whole(Append(fs, f), b) = Whole(fs, b)
  <1> DEFINE gs == Append(fs, f)
  <1> DEFINE w == Whole(fs, b)
  <1>1. gs \in Seq(Frame) /\ Len(gs) = Len(fs) + 1 /\ Len(fs) \in Nat
    BY AppendProperties
  <1>2. IsWhole(fs, b, w)
    BY WholeDef
  <1>3. /\ \A k \in 0..Len(fs) : Ends(gs)[k] = Ends(fs)[k]
        /\ Ends(gs)[Len(fs) + 1] = Ends(fs)[Len(fs)] + f.size
    BY EndsAppend
  <1>4. f.size \in Nat /\ f.size >= 5 /\ Ends(fs)[Len(fs)] \in Nat
    <2>1. f.size \in Nat /\ f.size >= 5
      BY WireAssumption DEF Frame
    <2>2. Len(fs) \in 0..Len(fs)
      BY <1>1
    <2> QED
      BY <2>1, <2>2, EndsType
  <1> HIDE DEF gs, w
  <1>5. IsWhole(gs, b, w)
    <2>1. CASE w < Len(fs)
      BY <1>1, <1>2, <1>3, <2>1 DEF IsWhole
    <2>2. CASE w = Len(fs)
      BY <1>1, <1>2, <1>3, <1>4, <2>2 DEF IsWhole
    <2> QED
      BY <1>1, <1>2, <2>1, <2>2 DEF IsWhole
  <1> QED
    BY <1>1, <1>5, WholeIs DEF gs, w

\* No whole frame is there without the first.
LEMMA WholeNone ==
  ASSUME NEW fs \in Seq(Frame), NEW b \in Nat
  PROVE  Whole(fs, b) = 0 <=> (fs = <<>> \/ b < fs[1].size)
  <1>1. IsWhole(fs, b, Whole(fs, b))
    BY WholeDef
  <1>2. CASE fs = <<>>
    <2>1. Len(fs) = 0
      BY <1>2
    <2> QED
      BY <1>1, <1>2, <2>1 DEF IsWhole
  <1>3. CASE fs # <<>>
    <2>1. Len(fs) \in Nat \ {0} /\ 1 \in 1..Len(fs)
      BY <1>3, EmptySeq
    <2>2. Ends(fs)[1] = fs[1].size /\ Ends(fs)[0] = 0 /\ fs[1].size \in Nat
      <3>1. fs[1] \in Frame
        BY <2>1, ElementOfSeq
      <3>2. fs[1].size \in Nat
        BY <3>1, WireAssumption DEF Frame
      <3>3. Ends(fs)[1] = Ends(fs)[1 - 1] + fs[1].size /\ Ends(fs)[0] = 0
        BY <2>1, EndsNext
      <3> QED
        BY <3>2, <3>3
    <2>3. ASSUME b < fs[1].size PROVE Whole(fs, b) = 0
      <3>1. IsWhole(fs, b, 0)
        BY <2>1, <2>2, <2>3 DEF IsWhole
      <3> QED
        BY <3>1, WholeIs
    <2>4. ASSUME Whole(fs, b) = 0 PROVE b < fs[1].size
      BY <1>1, <2>1, <2>2, <2>4 DEF IsWhole
    <2> QED
      BY <1>3, <2>3, <2>4
  <1> QED
    BY <1>2, <1>3

LEMMA WholeTail ==
  ASSUME NEW fs \in Seq(Frame), fs # <<>>, NEW b \in Nat, fs[1].size <= b
  PROVE  Whole(Tail(fs), b - fs[1].size) = Whole(fs, b) - 1 /\ Whole(fs, b) >= 1
  <1> DEFINE gs == Tail(fs)
  <1> DEFINE w == Whole(fs, b)
  <1>1. gs \in Seq(Frame) /\ Len(gs) = Len(fs) - 1 /\ Len(fs) \in Nat \ {0}
    BY HeadTailProperties, EmptySeq
  <1>2. fs[1].size \in Nat
    <2>1. fs[1] \in Frame
      BY <1>1, ElementOfSeq
    <2> QED
      BY <2>1, WireAssumption DEF Frame
  <1>3. IsWhole(fs, b, w) /\ w >= 1
    <2>1. IsWhole(fs, b, w)
      BY WholeDef
    <2>2. w # 0
      BY <1>2, WholeNone
    <2> HIDE DEF w
    <2> QED
      BY <2>1, <2>2 DEF IsWhole
  <1>4. \A k \in 0..Len(fs) - 1 : Ends(gs)[k] = Ends(fs)[k + 1] - fs[1].size
    BY EndsTail
  <1> HIDE DEF gs, w
  <1>5. w \in 1..Len(fs)
    BY <1>1, <1>3 DEF IsWhole
  <1>6. Ends(fs)[w] \in Nat /\ Ends(gs)[w - 1] = Ends(fs)[w] - fs[1].size
    BY <1>1, <1>4, <1>5, EndsType
  <1>7. w < Len(fs) => Ends(fs)[w + 1] \in Nat /\ Ends(gs)[w] = Ends(fs)[w + 1] - fs[1].size
    BY <1>1, <1>4, <1>5, EndsType
  <1>8. IsWhole(gs, b - fs[1].size, w - 1)
    BY <1>1, <1>2, <1>3, <1>5, <1>6, <1>7 DEF IsWhole
  <1>9. b - fs[1].size \in Nat
    BY <1>2
  <1>10. Whole(gs, b - fs[1].size) = w - 1
    BY <1>1, <1>8, <1>9, WholeIs
  <1> QED
    BY <1>3, <1>10 DEF gs, w

-----------------------------------------------------------------------------
(* The invariant *)

\* The buffer begins with the first frame that is not decoded, and holds nothing that did
\* not arrive; nothing arrives beyond what was written.
Placed ==
  /\ frames \in Seq(Frame) /\ arrives \in Nat /\ buf \in 0..arrives
  /\ arrives <= Ends(frames)[Len(frames)]

Flags == {is_readable, eof, has_errored, up, partial} \subseteq BOOLEAN

\* Nothing is cut off before the connection is lost.
AllArrives == up => arrives = Ends(frames)[Len(frames)]

\* A read of 0 bytes comes after the last byte.
EofLast == eof => ~up /\ buf = arrives

\* A read that Framed does not show left no whole frame in the buffer.
PartialHidden == partial => Whole(frames, buf) = 0 /\ ~eof

WireInv == Placed /\ Flags /\ AllArrives /\ EofLast /\ PartialHidden

LEMMA WireInvInit == Init => WireInv
  <1> SUFFICES ASSUME Init PROVE WireInv
    OBVIOUS
  <1>1. frames \in Seq(Frame) /\ Len(frames) = 0
    BY EmptySeq DEF Init
  <1>2. Ends(frames)[0] = 0
    BY <1>1, EndsNext
  <1>3. Placed /\ AllArrives
    BY <1>1, <1>2 DEF Init, Placed, AllArrives
  <1>4. Flags /\ EofLast /\ PartialHidden
    BY DEF Init, Flags, EofLast, PartialHidden
  <1> QED
    BY <1>3, <1>4 DEF WireInv

\* What the invariant says of the bytes.
LEMMA PlacedFacts ==
  ASSUME Placed
  PROVE  /\ frames \in Seq(Frame) /\ Len(frames) \in Nat
         /\ arrives \in Nat /\ buf \in Nat /\ buf <= arrives
         /\ Ends(frames)[Len(frames)] \in Nat /\ arrives <= Ends(frames)[Len(frames)]
         /\ IsWhole(frames, arrives, Whole(frames, arrives))
         /\ Whole(frames, arrives) \in 0..Len(frames)
         /\ Whole(frames, buf) \in 0..Whole(frames, arrives)
  <1>1. /\ frames \in Seq(Frame) /\ Len(frames) \in Nat
        /\ arrives \in Nat /\ buf \in Nat /\ buf <= arrives /\ arrives <= Ends(frames)[Len(frames)]
    BY DEF Placed
  <1>2. Ends(frames)[Len(frames)] \in Nat
    BY <1>1, EndsType
  <1>3. IsWhole(frames, arrives, Whole(frames, arrives)) /\ IsWhole(frames, buf, Whole(frames, buf))
    BY <1>1, WholeDef
  <1>4. Whole(frames, buf) <= Whole(frames, arrives)
    BY <1>1, WholeMonotone
  <1> QED
    BY <1>1, <1>2, <1>3, <1>4 DEF IsWhole

\* A frame that is complete in the buffer is one of the whole frames that Framed counts.
LEMMA CompleteIsWhole ==
  ASSUME Placed
  PROVE  Complete <=> Whole(frames, buf) > 0
  <1>1. Whole(frames, buf) = 0 <=> (frames = <<>> \/ buf < frames[1].size)
    BY PlacedFacts, WholeNone
  <1>2. ASSUME frames # <<>> PROVE frames[1].size \in Nat /\ frames[1].size >= 5
    <2>1. 1 \in 1..Len(frames)
      BY <1>2, PlacedFacts, EmptySeq
    <2>2. frames[1] \in Frame
      BY <2>1, PlacedFacts, ElementOfSeq
    <2> QED
      BY <2>2, WireAssumption DEF Frame
  <1>3. buf \in Nat /\ Whole(frames, buf) \in Nat
    BY PlacedFacts
  <1> QED
    BY <1>1, <1>2, <1>3 DEF Complete

LEMMA InvServerWrites ==
  ASSUME WireInv, ServerWrites
  PROVE  WireInv'
  <1>1. PICK kind \in Kinds, size \in Sizes :
          frames' = Append(frames, [kind |-> kind, size |-> size]) /\ arrives' = arrives + size
    BY DEF ServerWrites
  <1> DEFINE f == [kind |-> kind, size |-> size]
  <1>2. f \in Frame /\ f.size = size /\ size \in Nat
    BY WireAssumption DEF Frame
  <1> HIDE DEF f
  <1>3. Placed
    BY DEF WireInv
  <1>4. frames' = Append(frames, f) /\ arrives' = arrives + size /\ UNCHANGED <<buf, is_readable, eof, has_errored, up, partial>>
    BY <1>1 DEF f, ServerWrites
  <1>5. frames' \in Seq(Frame) /\ Len(frames') = Len(frames) + 1
    BY <1>2, <1>3, <1>4, PlacedFacts, AppendProperties
  <1>6. Ends(frames')[Len(frames')] = Ends(frames)[Len(frames)] + size
    BY <1>2, <1>3, <1>4, <1>5, PlacedFacts, EndsAppend
  <1>7. Whole(frames', buf) = Whole(frames, buf)
    BY <1>2, <1>3, <1>4, PlacedFacts, WholeAppend
  <1>8. Placed'
    BY <1>2, <1>3, <1>4, <1>5, <1>6, PlacedFacts DEF Placed
  <1>9. up /\ AllArrives'
    BY <1>3, <1>2, <1>4, <1>6, PlacedFacts DEF WireInv, AllArrives, ServerWrites
  <1>10. EofLast' /\ PartialHidden' /\ Flags'
    BY <1>4, <1>7, <1>9 DEF WireInv, EofLast, PartialHidden, Flags
  <1> QED
    BY <1>8, <1>9, <1>10 DEF WireInv

LEMMA InvConsume ==
  ASSUME WireInv, Complete, Consume
  PROVE  /\ Placed'
         /\ Len(frames) > 0 /\ Len(frames') = Len(frames) - 1
         /\ Whole(frames', buf') = Whole(frames, buf) - 1
         /\ Whole(frames', arrives') = Whole(frames, arrives) - 1
         /\ buf = arrives <=> buf' = arrives'
         /\ arrives = Ends(frames)[Len(frames)] => arrives' = Ends(frames')[Len(frames')]
  <1>1. Placed /\ frames # <<>> /\ frames[1].size <= buf
    <2>1. Placed /\ frames # <<>> /\ buf >= frames[1].size
      BY DEF WireInv, Complete
    <2>2. 1 \in 1..Len(frames)
      BY <2>1, PlacedFacts, EmptySeq
    <2>3. frames[1] \in Frame
      BY <2>1, <2>2, PlacedFacts, ElementOfSeq
    <2> QED
      BY <2>1, <2>3, PlacedFacts, WireAssumption DEF Frame
  <1>2. frames[1].size \in Nat
    <2>1. 1 \in 1..Len(frames)
      BY <1>1, PlacedFacts, EmptySeq
    <2>2. frames[1] \in Frame
      BY <1>1, <2>1, PlacedFacts, ElementOfSeq
    <2> QED
      BY <2>2, WireAssumption DEF Frame
  <1>3. Len(frames) \in Nat \ {0} /\ frames' \in Seq(Frame) /\ Len(frames') = Len(frames) - 1
    BY <1>1, PlacedFacts, EmptySeq, HeadTailProperties DEF Consume
  <1>4. Ends(frames')[Len(frames')] = Ends(frames)[Len(frames)] - frames[1].size
    <2>1. Len(frames) - 1 \in 0..Len(frames) - 1
      BY <1>3
    <2>2. Ends(Tail(frames))[Len(frames) - 1] = Ends(frames)[(Len(frames) - 1) + 1] - frames[1].size
      BY <1>1, <2>1, PlacedFacts, EndsTail
    <2>3. (Len(frames) - 1) + 1 = Len(frames) /\ frames' = Tail(frames)
      BY <1>3 DEF Consume
    <2> QED
      BY <1>3, <2>2, <2>3
  <1>5. buf' = buf - frames[1].size /\ arrives' = arrives - frames[1].size
    BY DEF Consume
  <1>6. Placed'
    <2>1. frames[1].size <= buf /\ buf <= arrives /\ buf \in Nat /\ arrives \in Nat
      BY <1>1, PlacedFacts
    <2>2. arrives' \in Nat /\ buf' \in 0..arrives'
      BY <1>2, <1>5, <2>1
    <2>3. arrives <= Ends(frames)[Len(frames)] /\ Ends(frames)[Len(frames)] \in Nat
      BY <1>1, PlacedFacts
    <2>4. arrives' <= Ends(frames')[Len(frames')]
      BY <1>2, <1>4, <1>5, <2>1, <2>3
    <2> QED
      BY <1>3, <2>2, <2>4 DEF Placed
  <1>7. Whole(Tail(frames), buf - frames[1].size) = Whole(frames, buf) - 1
    BY <1>1, PlacedFacts, WholeTail
  <1>8. frames[1].size <= arrives
    BY <1>1, <1>2, PlacedFacts
  <1>9. Whole(Tail(frames), arrives - frames[1].size) = Whole(frames, arrives) - 1
    BY <1>1, <1>8, PlacedFacts, WholeTail
  <1>10. (buf = arrives <=> buf' = arrives') /\ (arrives = Ends(frames)[Len(frames)] => arrives' = Ends(frames')[Len(frames')])
    BY <1>1, <1>2, <1>4, <1>5, PlacedFacts
  <1>11. frames' = Tail(frames)
    BY DEF Consume
  <1> QED
    BY <1>3, <1>5, <1>6, <1>7, <1>9, <1>10, <1>11

LEMMA InvTryDecode ==
  ASSUME WireInv, TryDecode
  PROVE  WireInv'
  <1>1. Flags' /\ UNCHANGED <<eof, up>> /\ partial' = FALSE
    <2>1. has_errored' \in BOOLEAN /\ is_readable' \in BOOLEAN
      BY DEF TryDecode
    <2>2. UNCHANGED <<eof, up>> /\ partial' = FALSE
      BY DEF TryDecode
    <2> QED
      BY <2>1, <2>2 DEF WireInv, Flags
  <1>2. CASE Complete
    <2>1. Consume
      BY <1>2 DEF TryDecode
    <2> QED
      BY <1>1, <1>2, <2>1, InvConsume DEF WireInv, AllArrives, EofLast, PartialHidden
  <1>3. CASE ~Complete
    <2>1. UNCHANGED <<frames, buf, arrives>>
      BY <1>3 DEF TryDecode
    <2> QED
      BY <1>1, <2>1 DEF WireInv, Placed, AllArrives, EofLast, PartialHidden
  <1> QED
    BY <1>2, <1>3

\* Each action keeps the invariant.
LEMMA WireInvNext == WireInv /\ [Next]_vars => WireInv'
  <1> SUFFICES ASSUME WireInv, [Next]_vars PROVE WireInv'
    OBVIOUS
  <1>0. Placed /\ Flags
    BY DEF WireInv
  <1>1. CASE ServerWrites
    BY <1>1, InvServerWrites
  <1>2. CASE Cut
    <2>1. up /\ up' = FALSE /\ arrives' \in buf..arrives /\ UNCHANGED <<frames, buf, is_readable, eof, has_errored, partial>>
      BY <1>2 DEF Cut
    <2>2. Placed'
      BY <1>0, <2>1, PlacedFacts DEF Placed
    <2> QED
      BY <2>1, <2>2 DEF WireInv, Flags, AllArrives, EofLast, PartialHidden
  <1>3. CASE ReadSome
    <2>1. /\ buf < arrives /\ buf' \in (buf + 1)..arrives /\ eof' = FALSE
          /\ UNCHANGED <<frames, arrives, up, has_errored>> /\ is_readable' = TRUE
          /\ partial' = (Whole(frames, buf') = 0)
      BY <1>3 DEF ReadSome
    <2>2. Placed'
      BY <1>0, <2>1, PlacedFacts DEF Placed
    <2>3. Flags' /\ AllArrives' /\ EofLast' /\ PartialHidden'
      BY <2>1 DEF WireInv, Flags, AllArrives, EofLast, PartialHidden
    <2> QED
      BY <2>2, <2>3 DEF WireInv
  <1>4. CASE ReadZero
    <2>1. /\ buf = arrives /\ ~up /\ partial' = FALSE /\ eof' \in BOOLEAN /\ is_readable' \in BOOLEAN
          /\ UNCHANGED <<frames, arrives, buf, has_errored, up>>
      BY <1>0, <1>4 DEF ReadZero, Flags
    <2> QED
      BY <2>1 DEF WireInv, Placed, Flags, AllArrives, EofLast, PartialHidden
  <1>5. CASE ReadError
    BY <1>5 DEF WireInv, ReadError, Placed, Flags, AllArrives, EofLast, PartialHidden
  <1>6. CASE AfterError
    BY <1>6 DEF WireInv, AfterError, Placed, Flags, AllArrives, EofLast, PartialHidden
  <1>7. CASE TryDecode
    BY <1>7, InvTryDecode
  <1>8. CASE UNCHANGED vars
    BY <1>8 DEF WireInv, vars, Placed, Flags, AllArrives, EofLast, PartialHidden
  <1> QED
    BY <1>1, <1>2, <1>3, <1>4, <1>5, <1>6, <1>7, <1>8 DEF Next

LEMMA WireInvariant == Spec => []WireInv
  BY WireInvInit, WireInvNext, PTL DEF Spec

-----------------------------------------------------------------------------
(* The end of the stream *)

\* Behind the end of the stream, an error that next() is still to end was returned there.
EndInv ==
  /\ errored \in BOOLEAN
  /\ eof /\ has_errored => errored
  /\ CutFrameIsError

LEMMA EndInvNext == ASSUME WireInv, EndInv, [Next]_vars PROVE EndInv'
  <1> USE DEF EndInv, CutFrameIsError
  <1>1. CASE ServerWrites BY <1>1 DEF ServerWrites
  <1>2. CASE Cut BY <1>2 DEF Cut
  <1>3. CASE ReadSome BY <1>3 DEF ReadSome
  <1>4. CASE ReadZero BY <1>4 DEF ReadZero
  <1>5. CASE ReadError BY <1>5 DEF ReadError
  <1>6. CASE AfterError BY <1>6 DEF AfterError
  <1>7. CASE TryDecode
    <2> DEFINE kind == IF Complete THEN frames[1].kind ELSE "None"
    <2>1. /\ has_errored' = (kind = "Malformed" \/ (kind \in {"None", "Unknown"} /\ eof /\ buf' > 0))
          /\ is_readable' = (kind \in {"DataRow", "Malformed"} \/ has_errored')
          /\ errored' = (errored \/ has_errored') /\ eof' = eof
      BY <1>7 DEF TryDecode
    <2>2. errored' \in BOOLEAN /\ (eof' /\ has_errored' => errored') BY <2>1
    <2>3. buf' \in Nat
      <3>1. Placed' BY <1>7, InvTryDecode DEF WireInv
      <3> QED BY <3>1 DEF Placed
    <2>4. kind \in Kinds \cup {"None"}
      <3>1. CASE Complete
        <4>1. frames \in Seq(Frame) /\ frames # <<>> BY <3>1 DEF Complete, WireInv, Placed
        <4>2. frames[1] \in Frame BY <4>1
        <4> QED BY <4>2 DEF Frame
      <3> QED BY <3>1
    <2> HIDE DEF kind
    <2>5. ASSUME eof', ~is_readable', ~has_errored', ~errored' PROVE buf' = 0
      <3>1. kind \notin {"DataRow", "Malformed"} BY <2>1, <2>5
      <3>2. kind \in {"None", "Unknown"} BY <2>4, <3>1 DEF Kinds
      <3>3. eof BY <2>1, <2>5
      <3>4. ~(buf' > 0) BY <2>1, <2>5, <3>2, <3>3
      <3> QED BY <2>3, <3>4
    <2> QED BY <2>2, <2>5
  <1>8. CASE UNCHANGED vars BY <1>8 DEF vars
  <1> QED BY <1>1, <1>2, <1>3, <1>4, <1>5, <1>6, <1>7, <1>8 DEF Next

LEMMA EndInvariant == Spec => []EndInv
  <1>1. Init => EndInv BY DEF Init, EndInv, CutFrameIsError
  <1>2. WireInv /\ EndInv /\ [Next]_vars => EndInv' BY EndInvNext
  <1> QED BY <1>1, <1>2, WireInvariant, PTL DEF Spec

\* A stream that was cut inside a frame ends in an error, and only one with nothing left in
\* the read buffer in None alone: decode_eof makes an error of the rest (src/codec.rs:77-87,
\* which leaves the part of a frame where it is).
THEOREM CutFrameCorrect == Spec => []CutFrameIsError
  <1>1. EndInv => CutFrameIsError BY DEF EndInv
  <1> QED BY <1>1, EndInvariant, PTL

-----------------------------------------------------------------------------
(* Type correctness *)

\* The buffer never holds bytes that did not arrive, nor bytes of a frame that was already
\* decoded: the lengths that decode takes off the buffer are those of the frames.
THEOREM TypeCorrect == Spec => []TypeOK
  <1>1. WireInv /\ EndInv => TypeOK
    <2> SUFFICES ASSUME WireInv, EndInv PROVE TypeOK
      OBVIOUS
    <2>1. \A k \in DOMAIN frames : frames[k].kind \in Kinds /\ frames[k].size \in Sizes
      <3> SUFFICES ASSUME NEW k \in DOMAIN frames PROVE frames[k] \in Frame
        BY DEF Frame
      <3>1. frames \in Seq(Frame)
        BY DEF WireInv, Placed
      <3>2. k \in 1..Len(frames)
        BY <3>1, LenProperties
      <3> QED
        BY <3>1, <3>2, ElementOfSeq
    <2>2. buf \in 0..arrives /\ arrives \in 0..Ends(frames)[Len(frames)]
      BY PlacedFacts DEF WireInv
    <2> QED
      BY <2>1, <2>2 DEF TypeOK, WireInv, Flags, EndInv
  <1> QED
    BY <1>1, WireInvariant, EndInvariant, PTL

-----------------------------------------------------------------------------
(* The refinement: what Framed has for the frames, and for its flag *)

Stream == SubSeq(frames, 1, Whole(frames, arrives))
Got    == Whole(frames, buf)
Readable == is_readable /\ ~partial

\* The stream Framed sees is the part of the frames that is not cut off.
LEMMA StreamFacts ==
  ASSUME Placed
  PROVE  /\ Len(Stream) = Whole(frames, arrives) /\ Stream \in Seq(Frame)
         /\ \A k \in 1..Len(Stream) : Stream[k] = frames[k]
         /\ Got \in 0..Len(Stream)
         /\ Whole(frames, arrives) = Len(frames) => Stream = frames
  <1> DEFINE w == Whole(frames, arrives)
  <1>1. frames \in Seq(Frame) /\ w \in 0..Len(frames) /\ Len(frames) \in Nat /\ Got \in 0..w
    BY PlacedFacts DEF Got
  <1> HIDE DEF w
  <1>2. \A k \in 1..w : frames[k] \in Frame
    BY <1>1, ElementOfSeq
  <1>3. SubSeq(frames, 1, w) = [k \in 1..w |-> frames[k]]
    BY <1>1
  <1>4. SubSeq(frames, 1, w) \in Seq(Frame) /\ Len(SubSeq(frames, 1, w)) = w
    BY <1>1, <1>2, <1>3
  <1>5. w = Len(frames) => SubSeq(frames, 1, w) = frames
    BY <1>1, <1>3
  <1> QED
    BY <1>1, <1>3, <1>4, <1>5 DEF Stream, w

\* The server's frame appears at the end of Framed's stream.
LEMMA ImplServerWrites ==
  ASSUME WireInv, WireInv', ServerWrites
  PROVE  F!PeerWrites
  <1>1. PICK kind \in Kinds, size \in Sizes :
          frames' = Append(frames, [kind |-> kind, size |-> size]) /\ arrives' = arrives + size
    BY DEF ServerWrites
  <1> DEFINE f == [kind |-> kind, size |-> size]
  <1>2. f \in Frame
    BY DEF Frame
  <1> HIDE DEF f
  <1>3. Placed /\ Placed' /\ up /\ up' = up
    BY DEF WireInv, ServerWrites
  <1>4. frames' = Append(frames, f) /\ UNCHANGED <<buf, is_readable, eof, has_errored, partial>>
    BY <1>1 DEF f, ServerWrites
  <1>5. arrives = Ends(frames)[Len(frames)] /\ arrives' = Ends(frames')[Len(frames')]
    BY <1>3 DEF WireInv, AllArrives
  <1>6. Whole(frames, arrives) = Len(frames)
    BY <1>3, <1>5, PlacedFacts, WholeAll
  <1>7. Whole(frames', arrives') = Len(frames')
    <2>1. PICK fs : fs = frames' OBVIOUS
    <2>2. PICK b : b = arrives' OBVIOUS
    <2>3. fs \in Seq(Frame) /\ b \in Nat /\ b = Ends(fs)[Len(fs)] /\ b <= b
      BY <1>3, <1>5, <2>1, <2>2 DEF Placed
    <2>4. Whole(fs, b) = Len(fs)
      BY <2>3, WholeAll
    <2> QED
      BY <2>1, <2>2, <2>4
  <1>8. Whole(frames', buf') = Whole(frames, buf)
    BY <1>2, <1>3, <1>4, PlacedFacts, WholeAppend
  <1>9. Stream = frames
    BY <1>3, <1>6, StreamFacts
  <1>10. Stream' = frames'
    <2>1. (Placed /\ Whole(frames, arrives) = Len(frames) => Stream = frames)'
      BY StreamFacts, PTL
    <2> QED
      BY <1>3, <1>7, <2>1
  <1>11. Len(Stream') = Len(Stream) + 1 /\ SubSeq(Stream', 1, Len(Stream)) = Stream
    <2>1. frames \in Seq(Frame) /\ Len(frames) \in Nat
      BY <1>3, PlacedFacts
    <2>2. Len(frames') = Len(frames) + 1 /\ frames' \in Seq(Frame) /\ \A k \in 1..Len(frames) : frames'[k] = frames[k]
      BY <1>2, <1>4, <2>1, AppendProperties
    <2>3. SubSeq(frames', 1, Len(frames)) = [k \in 1..Len(frames) |-> frames'[k]]
      BY <2>1, <2>2
    <2>4. [k \in 1..Len(frames) |-> frames'[k]] = frames
      BY <2>1, <2>2
    <2> QED
      BY <1>9, <1>10, <2>2, <2>3, <2>4
  <1> QED
    BY <1>3, <1>4, <1>8, <1>11 DEF F!PeerWrites, F!readVars, Stream, Got

\* A cut behind any byte is a cut behind any whole frame.
LEMMA ImplCut ==
  ASSUME WireInv, WireInv', Cut
  PROVE  F!PeerGoes
  <1>1. /\ Placed /\ Placed' /\ up /\ up' = FALSE /\ arrives' \in buf..arrives
        /\ UNCHANGED <<frames, buf, is_readable, eof, has_errored, partial>>
    BY DEF WireInv, Cut
  <1>2. PICK b : b = arrives' OBVIOUS
  <1>3. PICK n : n = Whole(frames, b) OBVIOUS
  <1>4. b \in Nat /\ buf <= b /\ b <= arrives
    BY <1>1, <1>2, PlacedFacts
  <1>5. n \in Got..Len(Stream)
    <2>1. n <= Whole(frames, arrives) /\ Whole(frames, buf) <= n
      BY <1>1, <1>3, <1>4, PlacedFacts, WholeMonotone
    <2>2. n \in 0..Len(frames)
      BY <1>1, <1>3, <1>4, PlacedFacts, WholeDef DEF IsWhole
    <2> QED
      BY <1>1, <2>1, <2>2, PlacedFacts, StreamFacts DEF Got
  <1>6. Stream' = SubSeq(frames, 1, n)
    BY <1>1, <1>2, <1>3 DEF Stream
  <1>7. SubSeq(frames, 1, n) = SubSeq(Stream, 1, n)
    <2>1. n \in 0..Len(Stream) /\ Stream \in Seq(Frame) /\ frames \in Seq(Frame)
      BY <1>1, <1>5, StreamFacts, PlacedFacts
    <2>2. n \in 0..Len(frames) /\ \A k \in 1..n : Stream[k] = frames[k]
      BY <1>1, <2>1, StreamFacts, PlacedFacts
    <2> QED
      BY <2>1, <2>2
  <1> QED
    BY <1>1, <1>5, <1>6, <1>7 DEF F!PeerGoes, F!readVars, Stream, Got

\* A read that completes a frame is Fill, any other leaves Framed as it is.
LEMMA ImplReadSome ==
  ASSUME WireInv, WireInv', ReadSome
  PROVE  F!Fill \/ UNCHANGED <<Stream, Got, Readable, eof, has_errored>>
  <1>1. /\ Placed /\ Placed' /\ ~has_errored /\ ~is_readable /\ buf < arrives
        /\ buf' \in (buf + 1)..arrives /\ is_readable' = TRUE /\ eof' = FALSE
        /\ partial' = (Whole(frames, buf') = 0) /\ UNCHANGED <<frames, arrives, has_errored, up>>
    BY DEF WireInv, ReadSome
  <1>2. ~eof /\ eof \in BOOLEAN
    BY <1>1, PlacedFacts DEF WireInv, EofLast, Flags
  <1>3. PICK b : b = buf' OBVIOUS
  <1>4. b \in Nat /\ buf <= b /\ b <= arrives
    BY <1>1, <1>3, PlacedFacts
  <1>5. Whole(frames, b) \in Got..Len(Stream) /\ Got' = Whole(frames, b) /\ Got \in Nat /\ Len(Stream) \in Nat
    <2>1. Whole(frames, b) <= Whole(frames, arrives) /\ Whole(frames, buf) <= Whole(frames, b)
      BY <1>1, <1>4, PlacedFacts, WholeMonotone
    <2>2. Whole(frames, b) \in 0..Len(frames)
      BY <1>1, <1>4, PlacedFacts, WholeDef DEF IsWhole
    <2> QED
      BY <1>1, <1>3, <2>1, <2>2, PlacedFacts, StreamFacts DEF Got
  <1>6. UNCHANGED Stream /\ eof' = eof
    BY <1>1, <1>2 DEF Stream
  <1>7. CASE Whole(frames, b) = 0
    <2>1. Got' = Got
      BY <1>5, <1>7
    <2>2. ~Readable /\ ~Readable'
      BY <1>1, <1>3, <1>7 DEF Readable
    <2> QED
      BY <1>1, <1>6, <2>1, <2>2 DEF Readable
  <1>8. CASE Whole(frames, b) # 0
    <2>1. Got < Len(Stream) \/ (Got > 0 /\ ~up /\ ~eof)
      <3>1. CASE up
        <4>1. arrives = Ends(frames)[Len(frames)]
          BY <3>1 DEF WireInv, AllArrives
        <4>2. Len(Stream) = Len(frames) /\ Got # Len(frames)
          BY <1>1, <4>1, PlacedFacts, StreamFacts, WholeAll DEF Got
        <4> QED
          BY <1>5, <4>2
      <3>2. CASE ~up
        BY <1>2, <1>5, <1>8, <3>2
      <3> QED
        BY <3>1, <3>2
    <2>2. Got' \in (IF Got = 0 THEN 1 ELSE Got)..Len(Stream)
      BY <1>5, <1>8
    <2>3. ~(is_readable /\ ~partial) /\ (is_readable /\ ~partial)' = TRUE
      BY <1>1, <1>3, <1>8
    <2> QED
      BY <1>1, <1>6, <2>1, <2>2, <2>3 DEF F!Fill, Stream, Got
  <1> QED
    BY <1>7, <1>8

LEMMA ImplReadZero ==
  ASSUME WireInv, WireInv', ReadZero
  PROVE  F!FillEof \/ UNCHANGED <<Stream, Got, Readable, eof, has_errored>>
  <1>1. /\ Placed /\ ~has_errored /\ ~is_readable /\ buf = arrives /\ ~up /\ partial' = FALSE
        /\ UNCHANGED <<frames, arrives, buf, has_errored, up>>
    BY DEF WireInv, ReadZero
  <1>2. UNCHANGED <<Stream, Got>> /\ Got = Len(Stream)
    BY <1>1, StreamFacts DEF Stream, Got
  <1>3. CASE eof
    <2>1. UNCHANGED <<eof, is_readable>>
      BY <1>3 DEF ReadZero
    <2> QED
      BY <1>1, <1>2, <2>1 DEF Readable
  <1>4. CASE ~eof
    <2>1. eof' = TRUE /\ is_readable' = TRUE
      BY <1>4 DEF ReadZero
    <2>2. ~(is_readable /\ ~partial) /\ (is_readable /\ ~partial)' = TRUE
      BY <1>1, <2>1
    <2> QED
      BY <1>1, <1>2, <1>4, <2>1, <2>2 DEF F!FillEof, Stream, Got
  <1> QED
    BY <1>3, <1>4

LEMMA ImplReadError ==
  ASSUME WireInv, WireInv', ReadError
  PROVE  F!YieldErr
  <1>1. /\ Placed /\ ~has_errored /\ ~is_readable /\ buf = arrives /\ ~up /\ ~eof /\ has_errored' = TRUE
        /\ UNCHANGED <<frames, arrives, buf, is_readable, eof, up, partial>>
    BY DEF WireInv, ReadError
  <1>2. UNCHANGED <<Stream, Got>> /\ Got = Len(Stream)
    BY <1>1, StreamFacts DEF Stream, Got
  <1> QED
    BY <1>1, <1>2 DEF F!YieldErr, Stream, Got

LEMMA ImplAfterError ==
  ASSUME WireInv, WireInv', AfterError
  PROVE  F!YieldNone
  <1>1. /\ has_errored /\ has_errored' = FALSE /\ is_readable' = FALSE
        /\ UNCHANGED <<frames, arrives, buf, eof, up>>
    BY DEF AfterError
  <1>2. UNCHANGED <<Stream, Got>>
    BY <1>1 DEF Stream, Got
  <1>3. (is_readable /\ ~partial)' = FALSE
    BY <1>1
  <1> QED
    BY <1>1, <1>2, <1>3 DEF F!YieldNone, Stream, Got

\* A whole frame in the buffer: the head of Framed's stream, which decoding removes.
LEMMA DecodesHead ==
  ASSUME WireInv, WireInv', TryDecode, Complete
  PROVE  /\ Got > 0 /\ Got' = Got - 1 /\ Stream' = Tail(Stream) /\ Stream[1] = frames[1]
         /\ buf' = 0 => Got = 1
  <1>1. Placed /\ Placed' /\ Consume
    BY DEF WireInv, TryDecode
  <1>2. /\ Len(frames) > 0 /\ Len(frames') = Len(frames) - 1 /\ Got > 0 /\ Got' = Got - 1
        /\ Whole(frames', arrives') = Whole(frames, arrives) - 1
    BY <1>1, InvConsume, CompleteIsWhole DEF Got
  <1>3. PICK w : w = Whole(frames, arrives) OBVIOUS
  <1>4. w \in 1..Len(frames) /\ Got \in 1..w /\ Len(Stream) = w /\ Stream \in Seq(Frame) /\ Len(frames) \in Nat
    BY <1>1, <1>2, <1>3, PlacedFacts, StreamFacts DEF Got
  <1>5. \A k \in 1..w : Stream[k] = frames[k]
    BY <1>1, <1>4, StreamFacts
  <1>6. Stream' = Tail(Stream)
    <2>1. Stream' = SubSeq(Tail(frames), 1, w - 1)
      BY <1>1, <1>2, <1>3 DEF Stream, Consume
    <2>2. frames \in Seq(Frame) /\ frames # <<>> /\ Stream # <<>>
      BY <1>1, <1>4, PlacedFacts
    <2>3. /\ Tail(frames) \in Seq(Frame) /\ Len(Tail(frames)) = Len(frames) - 1
          /\ \A k \in 1..Len(frames) - 1 : Tail(frames)[k] = frames[k + 1]
      BY <2>2, HeadTailProperties
    <2>4. SubSeq(Tail(frames), 1, w - 1) = [k \in 1..w - 1 |-> Tail(frames)[k]]
      BY <1>4, <2>3
    <2>5. Tail(Stream) = [k \in 1..w - 1 |-> Stream[k + 1]]
      <3>1. PICK t : t = Tail(Stream) OBVIOUS
      <3>2. t \in Seq(Frame) /\ Len(t) = w - 1 /\ \A k \in 1..w - 1 : t[k] = Stream[k + 1]
        BY <1>4, <2>2, <3>1, HeadTailProperties
      <3>3. t = [k \in 1..w - 1 |-> t[k]]
        BY <3>2, LenProperties
      <3> QED
        BY <3>1, <3>2, <3>3
    <2> QED
      BY <1>4, <1>5, <2>1, <2>3, <2>4, <2>5
  <1>7. ASSUME buf' = 0 PROVE Got = 1
    <2>1. PICK fs : fs = frames' OBVIOUS
    <2>2. fs \in Seq(Frame)
      BY <1>1, <2>1 DEF Placed
    <2>3. Ends(fs)[0] = 0
      BY <2>2, EndsNext
    <2>4. Whole(fs, 0) = 0
      <3>1. IsWhole(fs, 0, Whole(fs, 0))
        BY <2>2, WholeDef
      <3>2. CASE fs = <<>>
        BY <2>2, <3>2, WholeNone
      <3>3. CASE fs # <<>>
        <4>1. 1 \in 1..Len(fs)
          BY <2>2, <3>3, EmptySeq
        <4>2. fs[1] \in Frame
          BY <2>2, <4>1, ElementOfSeq
        <4>3. fs[1].size \in Nat /\ fs[1].size >= 5
          BY <4>2, WireAssumption DEF Frame
        <4> QED
          BY <2>2, <4>3, WholeNone
      <3> QED
        BY <3>2, <3>3
    <2>5. Got' = 0
      BY <1>7, <2>1, <2>4 DEF Got
    <2> QED
      BY <1>2, <1>4, <2>5
  <1>8. Stream[1] = frames[1]
    BY <1>4, <1>5
  <1> QED
    BY <1>2, <1>6, <1>7, <1>8

\* One call of decode is one step of Framed, or none when the part of a frame that is
\* there does not count.
LEMMA ImplTryDecode ==
  ASSUME WireInv, WireInv', TryDecode
  PROVE  \/ F!NeedMore \/ F!SkipUnknown \/ F!Yield \/ F!YieldErr \/ F!YieldNone
         \/ UNCHANGED <<Stream, Got, Readable, eof, has_errored>>
  <1>1. /\ Placed /\ Placed' /\ ~has_errored /\ is_readable /\ partial' = FALSE
        /\ UNCHANGED <<eof, up>> /\ eof \in BOOLEAN /\ partial \in BOOLEAN
        /\ is_readable' \in BOOLEAN /\ has_errored' \in BOOLEAN /\ has_errored \in BOOLEAN
    BY DEF WireInv, TryDecode, Flags
  <1>2. Readable' = is_readable'
    BY <1>1 DEF Readable
  <1>3. CASE ~Complete
    <2>1. UNCHANGED <<frames, buf, arrives>> /\ UNCHANGED <<Stream, Got>>
      BY <1>3 DEF TryDecode, Stream, Got
    <2>2. has_errored' = (eof /\ buf > 0) /\ is_readable' = has_errored'
      BY <1>3, <2>1 DEF TryDecode
    <2>3. Got = 0
      BY <1>1, <1>3, CompleteIsWhole, PlacedFacts DEF Got
    <2>4. CASE partial
      <3>1. ~eof
        BY <2>4 DEF WireInv, PartialHidden
      <3>2. ~has_errored' /\ ~is_readable'
        BY <2>2, <3>1
      <3> QED
        BY <1>1, <1>2, <2>1, <2>4, <3>2 DEF Readable
    <2>5. CASE ~partial /\ ~eof
      <3>1. ~has_errored' /\ ~is_readable'
        BY <2>2, <2>5
      <3>2. (is_readable /\ ~partial)' = FALSE /\ has_errored' = has_errored
        BY <1>1, <3>1
      <3> QED
        BY <1>1, <2>1, <2>3, <2>5, <3>2 DEF F!NeedMore, Stream, Got
    <2>6. CASE ~partial /\ eof /\ buf > 0
      <3>1. has_errored' /\ is_readable'
        BY <2>2, <2>6
      <3>2. (is_readable /\ ~partial)' = (is_readable /\ ~partial) /\ has_errored' = TRUE
        BY <1>1, <2>6, <3>1
      <3> QED
        BY <1>1, <2>1, <2>3, <2>6, <3>2 DEF F!YieldErr, Stream, Got
    <2>7. CASE ~partial /\ eof /\ ~(buf > 0)
      <3>1. ~has_errored' /\ ~is_readable'
        BY <2>2, <2>7
      <3>2. (is_readable /\ ~partial)' = FALSE /\ has_errored' = FALSE
        BY <1>1, <3>1
      <3> QED
        BY <1>1, <2>1, <2>3, <2>7, <3>2 DEF F!YieldNone, Stream, Got
    <2> QED
      BY <1>1, <2>4, <2>5, <2>6, <2>7
  <1>4. CASE Complete
    <2>1. Got > 0 /\ Got' = Got - 1 /\ Stream' = Tail(Stream) /\ Stream[1] = frames[1] /\ (buf' = 0 => Got = 1)
      BY <1>4, DecodesHead
    <2>2. ~partial
      BY <2>1 DEF WireInv, PartialHidden, Got
    <2>3. buf' \in Nat
      BY <1>1 DEF Placed
    <2>4. /\ has_errored' = (frames[1].kind = "Malformed" \/ (frames[1].kind \in {"None", "Unknown"} /\ eof /\ buf' > 0))
          /\ is_readable' = (frames[1].kind \in {"DataRow", "Malformed"} \/ has_errored')
      BY <1>4 DEF TryDecode
    <2>5. frames[1].kind \in {"DataRow", "Unknown", "Malformed"}
      <3>1. frames \in Seq(Frame) /\ frames # <<>>
        BY <1>1, <1>4, PlacedFacts DEF Complete
      <3>2. frames[1] \in Frame
        BY <3>1
      <3> QED
        BY <3>2 DEF Frame, Kinds
    <2>6. ASSUME NEW kinds, frames[1].kind \in kinds PROVE F!Decode(kinds)
      BY <1>1, <2>1, <2>2, <2>6 DEF F!Decode, Stream, Got
    <2>7. CASE frames[1].kind = "DataRow"
      <3>1. F!Decode(F!KnownKinds)
        BY <2>6, <2>7 DEF F!KnownKinds
      <3>2. (is_readable /\ ~partial)' = (is_readable /\ ~partial) /\ has_errored' = has_errored
        BY <1>1, <2>2, <2>4, <2>7
      <3> QED
        BY <1>1, <3>1, <3>2 DEF F!Yield
    <2>8. CASE frames[1].kind = "Malformed"
      <3>1. F!Decode({"Malformed"})
        BY <2>6, <2>8
      <3>2. (is_readable /\ ~partial)' = (is_readable /\ ~partial) /\ has_errored' = TRUE
        BY <1>1, <2>2, <2>4, <2>8
      <3> QED
        BY <1>1, <3>1, <3>2 DEF F!YieldErr
    <2>9. CASE frames[1].kind = "Unknown"
      <3>1. F!Decode({"Unknown"})
        BY <2>6, <2>9
      <3>2. has_errored' = (eof /\ buf' > 0) /\ is_readable' = has_errored'
        BY <1>1, <2>4, <2>9
      <3>3. CASE ~eof
        <4>1. (is_readable /\ ~partial)' = FALSE /\ has_errored' = has_errored
          BY <1>1, <3>2, <3>3
        <4> QED
          BY <1>1, <3>1, <3>3, <4>1 DEF F!SkipUnknown
      <3>4. CASE eof /\ buf' > 0
        <4>1. (is_readable /\ ~partial)' = (is_readable /\ ~partial) /\ has_errored' = TRUE
          BY <1>1, <2>2, <3>2, <3>4
        <4> QED
          BY <1>1, <3>1, <3>4, <4>1 DEF F!YieldErr
      <3>5. CASE eof /\ ~(buf' > 0)
        <4>1. (is_readable /\ ~partial)' = FALSE /\ has_errored' = FALSE
          BY <1>1, <3>2, <3>5
        <4>2. Got = 1
          BY <2>1, <2>3, <3>5
        <4> QED
          BY <1>1, <3>1, <3>5, <4>1, <4>2 DEF F!YieldNone, Got
      <3> QED
        BY <3>3, <3>4, <3>5
    <2> QED
      BY <2>5, <2>7, <2>8, <2>9
  <1> QED
    BY <1>3, <1>4

\* Every step of the byte stream is a step of the stream of whole frames, or none.
LEMMA ImplNext ==
  WireInv /\ WireInv' /\ [Next]_vars =>
    [(F!ReadStep /\ up' = up) \/ F!PeerWrites \/ F!PeerGoes]_<<SubSeq(frames, 1, Whole(frames, arrives)), F!readVars, up>>
  <1> SUFFICES ASSUME WireInv, WireInv', [Next]_vars
               PROVE  \/ (F!ReadStep /\ up' = up) \/ F!PeerWrites \/ F!PeerGoes
                      \/ UNCHANGED <<Stream, Got, Readable, eof, has_errored, up>>
    BY DEF F!readVars, Stream, Got, Readable
  <1>1. CASE ServerWrites
    BY <1>1, ImplServerWrites
  <1>2. CASE Cut
    BY <1>2, ImplCut
  <1>3. CASE ReadSome
    <2>1. up' = up
      BY <1>3 DEF ReadSome
    <2> QED
      BY <1>3, <2>1, ImplReadSome DEF F!ReadStep
  <1>4. CASE ReadZero
    <2>1. up' = up
      BY <1>4 DEF ReadZero
    <2> QED
      BY <1>4, <2>1, ImplReadZero DEF F!ReadStep
  <1>5. CASE ReadError
    <2>1. up' = up
      BY <1>5 DEF ReadError
    <2> QED
      BY <1>5, <2>1, ImplReadError DEF F!ReadStep
  <1>6. CASE AfterError
    <2>1. up' = up
      BY <1>6 DEF AfterError
    <2> QED
      BY <1>6, <2>1, ImplAfterError DEF F!ReadStep
  <1>7. CASE TryDecode
    <2>1. up' = up
      BY <1>7 DEF TryDecode
    <2> QED
      BY <1>7, <2>1, ImplTryDecode DEF F!ReadStep
  <1>8. CASE UNCHANGED vars
    BY <1>8 DEF vars, Stream, Got, Readable
  <1> QED
    BY <1>1, <1>2, <1>3, <1>4, <1>5, <1>6, <1>7, <1>8 DEF Next

LEMMA ImplInit ==
  Init => /\ SubSeq(frames, 1, Whole(frames, arrives)) = <<>> /\ Whole(frames, buf) = 0
          /\ (is_readable /\ ~partial) = FALSE /\ eof = FALSE /\ has_errored = FALSE /\ up = TRUE
  <1> SUFFICES ASSUME Init
               PROVE  SubSeq(frames, 1, Whole(frames, arrives)) = <<>> /\ Whole(frames, buf) = 0
    BY DEF Init
  <1>1. frames \in Seq(Frame) /\ frames = <<>> /\ arrives = 0 /\ buf = 0
    BY EmptySeq DEF Init
  <1>2. Whole(frames, 0) = 0
    BY <1>1, WholeNone
  <1>3. SubSeq(frames, 1, 0) = <<>>
    BY <1>1
  <1> QED
    BY <1>1, <1>2, <1>3

\* Reading bytes in any pieces is reading whole frames as Framed says: a part of a frame is
\* never decoded, no frame is skipped or decoded twice, and a cut frame ends in an error.
THEOREM WireReadsFrames == Spec => ReadsFrames
  <1>1. Init => /\ SubSeq(frames, 1, Whole(frames, arrives)) = <<>> /\ Whole(frames, buf) = 0
                /\ (is_readable /\ ~partial) = FALSE /\ eof = FALSE /\ has_errored = FALSE /\ up = TRUE
    BY ImplInit
  <1>2. WireInv /\ WireInv' /\ [Next]_vars =>
          [(F!ReadStep /\ up' = up) \/ F!PeerWrites \/ F!PeerGoes]_<<SubSeq(frames, 1, Whole(frames, arrives)), F!readVars, up>>
    BY ImplNext
  <1> QED
    BY <1>1, <1>2, WireInvariant, PTL DEF Spec, ReadsFrames, F!ReadHalf
=============================================================================
