-------------------------------- MODULE Calls --------------------------------
(***************************************************************************)
(* What a Client promises its application, without buffers, messages or    *)
(* read loops: calls are made one at a time, the server decides each of    *)
(* them once, and the call returns exactly that decision, until the        *)
(* connection is over: closed, lost, or left behind by a dropped call.     *)
(* Session shows that the calls of src/client.rs implement this.           *)
(***************************************************************************)
EXTENDS Naturals

VARIABLES
  status,  \* "idle"; "asked": a call waits; "decided": so it does, for a known answer
  call,    \* calls made so far
  answer,  \* what the server has decided for the call that waits
  given    \* what the latest call returned

vars == <<status, call, answer, given>>

\* is: "ok" or "db" (a database error); rows, affected: how many rows a query returns, and
\* by which statement's count execute does.
Answers == [id : Nat, is : {"ok", "db"}, rows : Nat, affected : Nat]
Nothing == [id |-> 0, is |-> "none", rows |-> 0, affected |-> 0]

Init == status = "idle" /\ call = 0 /\ answer = Nothing /\ given = Nothing

Begin ==
  /\ status = "idle" /\ status' = "asked"
  /\ call' = call + 1 /\ given' = Nothing
  /\ UNCHANGED answer

Decide ==
  /\ status = "asked" /\ status' = "decided"
  /\ answer' \in Answers /\ answer'.id = call
  /\ UNCHANGED <<call, given>>

Return ==
  /\ status = "decided" /\ status' = "idle"
  /\ given' = answer /\ answer' = Nothing
  /\ UNCHANGED call

\* poll returns something else.
Poll ==
  /\ status = "idle" /\ given' = Nothing
  /\ UNCHANGED <<status, call, answer>>

\* From then on nothing is promised. Calls can still be made.
End ==
  /\ status' = "over" /\ call' \in {call, call + 1}
  /\ answer' = Nothing /\ given' = Nothing

Next == Begin \/ Decide \/ Return \/ Poll \/ End

Spec == Init /\ [][Next]_vars
=============================================================================
