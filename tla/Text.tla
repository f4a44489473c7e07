-------------------------------- MODULE Text --------------------------------
(***************************************************************************)
(* Texts as sequences of symbols, with the operations of Rust's str that   *)
(* the parsers and builders of this crate use. What a symbol is (a byte, a *)
(* character, a whole word) is up to the module that uses them.            *)
(***************************************************************************)
EXTENDS Naturals, Sequences

StartsAt(text, part, k) ==
  /\ k + Len(part) <= Len(text) + 1
  /\ SubSeq(text, k, k + Len(part) - 1) = part

\* What is read at one place: the piece it gives, and where reading goes on.
Read(piece, next) == [piece |-> piece, next |-> next]

\* All that is read from each place on, up to the end behind place n.
From(n, read) ==
  LET from[k \in 1..n + 1] ==
        IF k > n THEN <<>> ELSE LET r == read[k] IN r.piece \o from[r.next]
  IN from

\* str::replace: every occurrence from left to right; what was put in is not looked at.
Replace(text, old, new) ==
  LET read == [k \in DOMAIN text |-> IF StartsAt(text, old, k) THEN Read(new, k + Len(old))
                                                              ELSE Read(<<text[k]>>, k + 1)]
  IN From(Len(text), read)[1]

Has(text, c) == \E k \in DOMAIN text : text[k] = c

\* The place of the first c in a text that has one.
Find(text, c) == CHOOSE k \in DOMAIN text : text[k] = c /\ \A j \in 1..k - 1 : text[j] # c

\* str::split_once at the first c.
Before(text, c) == IF Has(text, c) THEN SubSeq(text, 1, Find(text, c) - 1) ELSE text
After(text, c)  == IF Has(text, c) THEN SubSeq(text, Find(text, c) + 1, Len(text)) ELSE <<>>

\* str::split at every c.
Split(text, c) ==
  LET End(k) == CHOOSE j \in k..Len(text) + 1 :
                  /\ j <= Len(text) => text[j] = c
                  /\ \A n \in k..j - 1 : text[n] # c
      read == [k \in 1..Len(text) + 1 |-> Read(<<SubSeq(text, k, End(k) - 1)>>, End(k) + 1)]
  IN From(Len(text) + 1, read)[1]
=============================================================================
