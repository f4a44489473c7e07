------------------------- MODULE TransactionProofs --------------------------
(***************************************************************************)
(* Proofs about Transaction, for every set of savepoint names and every     *)
(* number of writes, Transactions and savepoints.                           *)
(***************************************************************************)
EXTENDS Transaction, TLAPS

-----------------------------------------------------------------------------
(* The type invariant. *)

Stacks == Seq([name : Names, before : SUBSET Nat])

ServerType ==
  /\ up \in BOOLEAN /\ txn \in {"none", "open", "failed"}
  /\ pending \subseteq Nat /\ durable \subseteq Nat /\ stack \in Stacks

\* The end of the transaction block keeps the typing.
LEMMA EndsType == ASSUME Ends PROVE txn' = "none" /\ pending' = {} /\ stack' \in Stacks
  BY DEF Ends, Stacks

\* So does the loss of the connection.
LEMMA LostType ==
  ASSUME ServerType, NEW committed \in SUBSET Nat, Lost(committed)
  PROVE  ServerType'
  BY EndsType DEF Lost, ServerType

\* A part of a sequence, or one element more, keeps its type.
LEMMA Parts ==
  ASSUME NEW S, NEW q \in Seq(S), NEW e \in S
  PROVE  /\ Append(q, e) \in Seq(S)
         /\ \A k \in 1..Len(q) :
              q[k] \in S /\ SubSeq(q, 1, k) \in Seq(S) /\ SubSeq(q, 1, k - 1) \in Seq(S)
  OBVIOUS

\* A part of the savepoints, or one more, is well typed.
LEMMA StackType ==
  ASSUME stack \in Stacks, NEW n \in Names, NEW p \in SUBSET Nat
  PROVE  /\ Append(stack, [name |-> n, before |-> p]) \in Stacks
         /\ \A k \in 1..Len(stack) :
              /\ stack[k].before \subseteq Nat
              /\ SubSeq(stack, 1, k) \in Stacks /\ SubSeq(stack, 1, k - 1) \in Stacks
  <1> DEFINE S == [name : Names, before : SUBSET Nat]
  <1>1. stack \in Seq(S) BY DEF Stacks
  <1>2. [name |-> n, before |-> p] \in S OBVIOUS
  <1>3. \A e \in S : e.before \subseteq Nat OBVIOUS
  <1> HIDE DEF S
  <1>4. /\ Append(stack, [name |-> n, before |-> p]) \in Seq(S)
        /\ \A k \in 1..Len(stack) :
             stack[k] \in S /\ SubSeq(stack, 1, k) \in Seq(S) /\ SubSeq(stack, 1, k - 1) \in Seq(S)
    BY <1>1, <1>2, Parts
  <1> QED BY <1>3, <1>4 DEF Stacks, S

\* The commands about the transaction block keep the typing of the server.
LEMMA BlockType ==
  ASSUME ServerType, NEW reply, BeginBlock(reply) \/ Commit(reply) \/ Rollback(reply)
  PROVE  ServerType'
  <1>1. CASE BeginBlock(reply) BY <1>1 DEF BeginBlock, Fails, ServerType
  <1>2. CASE Commit(reply) BY <1>2, EndsType DEF Commit, ServerType
  <1>3. CASE Rollback(reply) BY <1>3, EndsType DEF Rollback, ServerType
  <1> QED BY <1>1, <1>2, <1>3

\* So do those about a savepoint.
LEMMA SavepointType ==
  ASSUME ServerType, NEW reply, NEW n \in Names,
         SetSavepoint(n, reply) \/ ReleaseSavepoint(n, reply) \/ RollbackToSavepoint(n, reply)
  PROVE  ServerType'
  <1>1. CASE SetSavepoint(n, reply)
    BY <1>1, StackType DEF SetSavepoint, Fails, ServerType
  <1>2. CASE ReleaseSavepoint(n, reply)
    BY <1>2, StackType DEF ReleaseSavepoint, Latest, Fails, ServerType
  <1>3. CASE RollbackToSavepoint(n, reply)
    BY <1>3, StackType DEF RollbackToSavepoint, Latest, Fails, ServerType
  <1> QED BY <1>1, <1>2, <1>3

\* The typing of the handles and of what is recorded about them.
ClientType ==
  /\ borrow \in {"client", "transaction", "savepoint"} /\ inWith \in BOOLEAN
  /\ name \in Names /\ handles \in Nat
  /\ owner \subseteq Nat \X Nat /\ writes \in Nat
  /\ swallowed \in BOOLEAN /\ abandoned \in BOOLEAN /\ outcome \in Outcomes

\* The type invariant is the conjunction of these parts.
LEMMA TypeParts == TypeOK <=> ServerType /\ ClientType
  BY DEF TypeOK, ServerType, ClientType, Stacks

\* A statement keeps the typing.
LEMMA StatementType ==
  ASSUME ServerType, ClientType, Statement
  PROVE  ServerType' /\ ClientType'
  <1>1. PICK reply \in {"ok", "db", "io"} :
          /\ \/ Write(writes', reply)
             \/ reply = "io" /\ Lost(IF txn = "none" THEN {writes'} ELSE {})
          /\ owner' = IF reply # "ok" THEN owner
                      ELSE owner \cup {<<IF borrow = "client" THEN 0 ELSE handles, writes'>>}
          /\ swallowed' = (swallowed \/ reply # "ok")
    BY DEF Statement
  <1>2. writes' = writes + 1 /\ writes' \in Nat BY DEF Statement, ClientType
  <1>3. ServerType'
    <2>1. CASE Write(writes', reply) BY <1>2, <2>1 DEF Write, Fails, ServerType
    <2>2. CASE Lost(IF txn = "none" THEN {writes'} ELSE {}) BY <1>2, <2>2, LostType
    <2> QED BY <1>1, <2>1, <2>2
  <1>4. owner' \subseteq Nat \X Nat BY <1>1, <1>2 DEF ClientType
  <1>5. swallowed' \in BOOLEAN BY <1>1 DEF ClientType
  <1> QED BY <1>2, <1>3, <1>4, <1>5 DEF Statement, handleVars, ClientType

\* The end of a Transaction keeps the typing.
LEMMA FinishType ==
  ASSUME ClientType, NEW reply \in {"ok", "db", "io"},
         NEW by \in {"commit", "rollback", "with ok", "with err"}, Finish(by, reply)
  PROVE  ClientType'
  <1>1. [by |-> by, is |-> reply] \in Outcomes BY DEF Outcomes
  <1> QED BY <1>1 DEF Finish, ClientType

\* Every variable has its type, in every reachable state.
THEOREM TypeCorrect == Spec => []TypeOK
  <1>1. Init => TypeOK
    <2> SUFFICES ASSUME Init PROVE TypeOK OBVIOUS
    <2>1. ServerType BY DEF Init, ServerType, Stacks
    <2>2. ClientType BY DEF Init, ClientType, Outcomes
    <2> QED BY <2>1, <2>2, TypeParts
  <1>2. TypeOK /\ [Next]_vars => TypeOK'
    <2> SUFFICES ASSUME ServerType, ClientType, [Next]_vars PROVE ServerType' /\ ClientType'
      BY TypeParts DEF TypeOK, ServerType, ClientType, Stacks
    <2>0. ServerType /\ ClientType OBVIOUS
    <2>e. pending \in SUBSET Nat /\ {} \in SUBSET Nat BY <2>0 DEF ServerType
    <2>1. CASE Execute BY <2>0, <2>1, StatementType DEF Execute
    <2>2. CASE Begin
      <3>1. ServerType' BY <2>0, <2>2, <2>e, BlockType, LostType DEF Begin, ClientType
      <3>2. outcome' \in Outcomes BY <2>2 DEF Begin, Outcomes
      <3>a. borrow' \in {"client", "transaction"} /\ handles' \in Nat /\ inWith' \in BOOLEAN
        BY <2>0, <2>2 DEF Begin, ClientType
      <3>3. ClientType' BY <2>0, <2>2, <3>2, <3>a DEF Begin, ClientType
      <3> QED BY <3>1, <3>3
    <2>3. CASE TransactionCommit \/ WithOk
      <3>1. ServerType'
        BY <2>0, <2>3, <2>e, BlockType, LostType DEF TransactionCommit, WithOk, ClientType
      <3>2. ClientType' BY <2>0, <2>3, FinishType DEF TransactionCommit, WithOk
      <3> QED BY <3>1, <3>2
    <2>4. CASE TransactionRollback \/ WithErr
      <3>1. ServerType'
        BY <2>0, <2>4, <2>e, BlockType, LostType DEF TransactionRollback, WithErr, ClientType
      <3>2. ClientType' BY <2>0, <2>4, FinishType DEF TransactionRollback, WithErr
      <3> QED BY <3>1, <3>2
    <2>5. CASE ClientCommit \/ ClientRollback
      <3>1. ServerType'
        BY <2>0, <2>5, <2>e, BlockType, LostType DEF ClientCommit, ClientRollback, ClientType
      <3>2. ClientType'
        BY <2>0, <2>5 DEF ClientCommit, ClientRollback, ClientType, handleVars, ghostVars
      <3> QED BY <3>1, <3>2
    <2>6. CASE DropTransaction
      BY <2>0, <2>6
      DEF DropTransaction, ServerType, ClientType, serverVars, Outcomes
    <2>7. CASE \E n \in Names : CreateSavepoint(n)
      <3>1. PICK n \in Names : CreateSavepoint(n) BY <2>7
      <3>2. ServerType' BY <2>0, <3>1, <2>e, SavepointType, LostType DEF CreateSavepoint
      <3>3. ClientType' BY <2>0, <3>1 DEF CreateSavepoint, ClientType
      <3> QED BY <3>2, <3>3
    <2>8. CASE SavepointRelease \/ SavepointRollback
      <3>1. ServerType'
        BY <2>0, <2>8, <2>e, SavepointType, LostType
        DEF SavepointRelease, SavepointRollback, ClientType
      <3>2. ClientType'
        BY <2>0, <2>8 DEF SavepointRelease, SavepointRollback, SavepointEnds, ClientType
      <3> QED BY <3>1, <3>2
    <2>9. CASE DropSavepoint
      BY <2>0, <2>9 DEF DropSavepoint, ServerType, ClientType, serverVars, ghostVars
    <2>10. CASE UNCHANGED vars
      BY <2>0, <2>10
      DEF vars, serverVars, handleVars, ghostVars, ServerType, ClientType
    <2> QED BY <2>1, <2>2, <2>3, <2>4, <2>5, <2>6, <2>7, <2>8, <2>9, <2>10 DEF Next
  <1> QED BY <1>1, <1>2, PTL DEF Spec

-----------------------------------------------------------------------------
(* The inductive invariant, part by part. *)

\* What a call other than a statement may do to the writes: nothing, or decide them all.
Kept    == pending' = pending /\ durable' = durable
Decided == pending' = {} /\ durable' \in {durable, durable \cup pending}

\* Nor does it begin to use a Transaction that is over, or repair the connection.
Quiet ==
  /\ UNCHANGED <<owner, writes>> /\ (up' => up)
  /\ \/ Kept
     \/ Decided /\ (borrow' = "client" \/ (~up' /\ durable' = durable))
  /\ \/ handles' = handles /\ (borrow = "client" => borrow' = "client")
     \/ handles' = handles + 1

\* The writes of a Transaction depend on two variables.
LEMMA OfSame == ASSUME UNCHANGED <<owner, writes>> PROVE \A h : Of(h)' = Of(h)
  BY DEF Of

\* No write has an owner yet in a Transaction that is still to come.
LEMMA OfNone ==
  ASSUME TypeOK, OwnerInv, NEW h \in Nat, h > handles
  PROVE  Of(h) = {}
  BY DEF TypeOK, OwnerInv, Of

\* A quiet step adds no write, so every write keeps its owner.
LEMMA OwnerKept ==
  ASSUME TypeOK, OwnerInv, Quiet
  PROVE  OwnerInv'
  <1>1. pending' \subseteq 1..writes /\ durable' \subseteq 1..writes
    BY DEF Quiet, Kept, Decided, OwnerInv
  <1>2. (0..handles) \subseteq (0..handles') BY DEF Quiet, TypeOK
  <1> QED BY <1>1, <1>2 DEF Quiet, OwnerInv

\* A quiet step decides all writes of a Transaction in one way.
LEMMA FateKept ==
  ASSUME TypeOK, OwnerInv, FateInv, Quiet
  PROVE  FateInv'
  <1> SUFFICES ASSUME NEW h \in 1..handles'
      PROVE \/ Of(h) \subseteq pending' /\ Of(h) \cap durable' = {}
            \/ (h < handles' \/ borrow' = "client") /\ Of(h) \subseteq durable'
            \/ (h < handles' \/ borrow' = "client" \/ ~up')
                 /\ Of(h) \cap (pending' \cup durable') = {}
    BY OfSame DEF FateInv, Quiet
  <1>1. handles \in Nat BY DEF TypeOK
  <1>2. CASE h > handles
    <2>1. Of(h) = {} BY <1>1, <1>2, OfNone
    <2> QED BY <2>1
  <1>3. CASE h <= handles
    <2>1. h \in 1..handles BY <1>1, <1>3
    <2>2. h < handles \/ borrow = "client" => h < handles' \/ borrow' = "client"
      BY <1>1, <1>3 DEF Quiet
    <2>3. \/ Of(h) \subseteq pending /\ Of(h) \cap durable = {}
          \/ (h < handles \/ borrow = "client") /\ Of(h) \subseteq durable
          \/ (h < handles \/ borrow = "client" \/ ~up) /\ Of(h) \cap (pending \cup durable) = {}
      BY <2>1 DEF FateInv
    <2>4. CASE Kept BY <2>2, <2>3, <2>4 DEF Kept, Quiet
    <2>5. CASE Decided /\ (borrow' = "client" \/ (~up' /\ durable' = durable))
      BY <2>2, <2>3, <2>5 DEF Decided
    <2> QED BY <2>4, <2>5 DEF Quiet
  <1> QED BY <1>1, <1>2, <1>3 DEF Quiet

\* The writes of a Transaction in use are undecided, or were lost with the connection.
LEMMA FateNow ==
  ASSUME TypeOK, BlockInv, FateInv, borrow # "client"
  PROVE  Of(handles) \cap durable = {} /\ (up => Of(handles) \subseteq pending)
  <1>1. handles \in 1..handles /\ ~(handles < handles) BY DEF TypeOK, BlockInv
  <1> QED BY <1>1 DEF FateInv

-----------------------------------------------------------------------------
(* The calls that are not a statement are quiet. *)

\* The loss of the connection decides the writes of the transaction.
LEMMA LostDecides ==
  ASSUME NEW committed \in {{}, pending}, Lost(committed)
  PROVE  ~up' /\ Closed' /\ Decided /\ (committed = {} => durable' = durable)
  BY DEF Lost, Ends, Closed, Decided

\* So does each command that ends the block.
LEMMA EndDecides ==
  ASSUME NEW reply, Commit(reply) \/ Rollback(reply)
  PROVE  up' = up /\ Closed' /\ Decided
  BY DEF Commit, Rollback, Ends, Closed, Decided

\* While the Savepoint exists nothing is written, so the rollback to it undoes nothing.
LEMMA RollbackKeeps ==
  ASSUME TypeOK, SavepointInv, borrow = "savepoint", NEW reply, RollbackToSavepoint(name, reply)
  PROVE  Kept
  <1>1. stack # <<>> /\ stack \in Seq([name : Names, before : SUBSET Nat])
    BY DEF SavepointInv, TypeOK
  <1>2. Len(stack) \in Nat /\ Len(stack) > 0 BY <1>1
  <1>3. stack[Len(stack)].name = name /\ stack[Len(stack)].before = pending BY DEF SavepointInv
  <1>4. \A k \in Latest(name) : k = Len(stack)
    <2> SUFFICES ASSUME NEW k \in Latest(name), k # Len(stack) PROVE FALSE OBVIOUS
    <2>1. k \in 1..Len(stack) /\ Len(stack) \in (k + 1)..Len(stack) BY <1>2 DEF Latest
    <2> QED BY <1>3, <2>1 DEF Latest
  <1> QED BY <1>3, <1>4 DEF RollbackToSavepoint, Kept

\* Every step but a statement is quiet.
LEMMA OthersQuiet ==
  ASSUME TypeOK, SavepointInv, [Next]_vars, ~Execute
  PROVE  Quiet
  <1>1. CASE Begin
    <2>1. PICK reply \in {"ok", "db", "io"} :
            /\ BeginBlock(reply) \/ (reply = "io" /\ Lost({}))
            /\ IF reply = "ok"
                 THEN borrow' = "transaction" /\ handles' = handles + 1 /\ inWith' \in BOOLEAN
                 ELSE UNCHANGED <<borrow, handles, inWith>>
      BY <1>1 DEF Begin
    <2>2. CASE BeginBlock(reply) BY <1>1, <2>1, <2>2 DEF Begin, BeginBlock, Quiet, Kept
    <2>3. CASE reply = "io" /\ Lost({})
      BY <1>1, <2>1, <2>3, LostDecides DEF Begin, Quiet
    <2> QED BY <2>1, <2>2, <2>3
  <1>2. CASE TransactionCommit \/ TransactionRollback \/ WithOk \/ WithErr
    <2>1. Decided /\ (up' => up)
      BY <1>2, LostDecides, EndDecides
      DEF TransactionCommit, TransactionRollback, WithOk, WithErr
    <2>2. borrow' = "client" /\ UNCHANGED <<owner, writes, handles>>
      BY <1>2 DEF TransactionCommit, TransactionRollback, WithOk, WithErr, Finish
    <2> QED BY <2>1, <2>2 DEF Quiet
  <1>3. CASE ClientCommit \/ ClientRollback
    <2>1. Decided /\ (up' => up)
      BY <1>3, LostDecides, EndDecides DEF ClientCommit, ClientRollback
    <2>2. borrow' = "client" /\ UNCHANGED <<owner, writes, handles>>
      BY <1>3 DEF ClientCommit, ClientRollback, handleVars, ghostVars
    <2> QED BY <2>1, <2>2 DEF Quiet
  <1>4. CASE DropTransaction \/ DropSavepoint \/ UNCHANGED vars
    BY <1>4
    DEF DropTransaction, DropSavepoint, vars, serverVars, handleVars, ghostVars, Quiet, Kept
  <1>5. CASE \E n \in Names : CreateSavepoint(n)
    <2>1. PICK n \in Names : CreateSavepoint(n) BY <1>5
    <2>2. (Kept /\ up' = up) \/ (Decided /\ ~up' /\ durable' = durable)
      BY <2>1, LostDecides DEF CreateSavepoint, SetSavepoint, Kept
    <2> QED BY <2>1, <2>2 DEF CreateSavepoint, Quiet
  <1>6. CASE SavepointRelease \/ SavepointRollback
    <2>1. (Kept /\ up' = up) \/ (Decided /\ ~up' /\ durable' = durable)
      <3>1. CASE SavepointRelease
        BY <3>1, LostDecides DEF SavepointRelease, ReleaseSavepoint, Kept
      <3>2. CASE SavepointRollback
        BY <3>2, LostDecides, RollbackKeeps DEF SavepointRollback, RollbackToSavepoint
      <3> QED BY <1>6, <3>1, <3>2
    <2>2. borrow = "savepoint" /\ UNCHANGED <<owner, writes, handles>>
      BY <1>6 DEF SavepointRelease, SavepointRollback, SavepointEnds
    <2> QED BY <2>1, <2>2 DEF Quiet
  <1> QED BY <1>1, <1>2, <1>3, <1>4, <1>5, <1>6 DEF Next

-----------------------------------------------------------------------------
(* A statement. *)

\* The Transaction a statement runs in: 0 outside any.
Issuer == IF borrow = "client" THEN 0 ELSE handles

\* What a statement may do: write, or fail, or lose the connection.
LEMMA StatementEffect ==
  ASSUME TypeOK, BlockInv, Execute
  PROVE  /\ writes' = writes + 1 /\ UNCHANGED <<borrow, handles, abandoned, outcome>>
         /\ borrow \in {"client", "transaction"}
         /\ \/ /\ up /\ up' /\ owner' = owner \cup {<<Issuer, writes + 1>>}
               /\ UNCHANGED <<txn, stack, swallowed>>
               /\ \/ txn = "none" /\ durable' = durable \cup {writes + 1} /\ pending' = pending
                  \/ txn = "open" /\ pending' = pending \cup {writes + 1} /\ durable' = durable
            \/ /\ up /\ up' /\ owner' = owner /\ swallowed' = TRUE
               /\ Fails /\ Kept /\ UNCHANGED stack
            \/ /\ ~up' /\ Closed' /\ owner' = owner /\ swallowed' = TRUE
               /\ durable' \in {durable} \cup
                               (IF up /\ txn = "none" THEN {durable \cup {writes + 1}} ELSE {})
  <1>1. PICK reply \in {"ok", "db", "io"} :
          /\ \/ Write(writes', reply)
             \/ reply = "io" /\ Lost(IF txn = "none" THEN {writes'} ELSE {})
          /\ owner' = IF reply # "ok" THEN owner
                      ELSE owner \cup {<<IF borrow = "client" THEN 0 ELSE handles, writes'>>}
          /\ swallowed' = (swallowed \/ reply # "ok")
    BY DEF Execute, Statement
  <1>2. /\ writes' = writes + 1 /\ UNCHANGED <<borrow, handles, abandoned, outcome>>
        /\ borrow \in {"client", "transaction"}
    BY DEF Execute, Statement, handleVars
  <1>3. CASE Write(writes', reply)
    <2>1. CASE reply = "ok"
      <3>1. swallowed' = swallowed BY <1>1, <2>1 DEF TypeOK
      <3> QED BY <1>1, <1>2, <1>3, <2>1, <3>1 DEF Write, Issuer
    <2>2. CASE reply = "db" BY <1>1, <1>2, <1>3, <2>2 DEF Write, Kept
    <2> QED BY <1>1, <1>3, <2>1, <2>2 DEF Write
  <1>4. CASE reply = "io" /\ Lost(IF txn = "none" THEN {writes'} ELSE {})
    BY <1>1, <1>2, <1>4 DEF Lost, Ends, Closed
  <1> QED BY <1>1, <1>3, <1>4

\* The number of a new write is a new number.
LEMMA NewWrite ==
  ASSUME TypeOK, OwnerInv
  PROVE  /\ writes + 1 \notin pending \cup durable
         /\ \A h : writes + 1 \notin Of(h)
         /\ \A d \in owner : d[2] # writes + 1
         /\ Issuer \in 0..handles
  <1>1. writes \in Nat /\ handles \in Nat /\ writes + 1 \notin 1..writes BY DEF TypeOK
  <1> QED BY <1>1 DEF OwnerInv, Of, Issuer

\* A statement adds at most its own write to those of the Transaction it runs in.
LEMMA OfGrows ==
  ASSUME TypeOK, OwnerInv, BlockInv, Execute
  PROVE  /\ owner' = owner => \A h : Of(h)' = Of(h)
         /\ owner' = owner \cup {<<Issuer, writes + 1>>} =>
              \A h : Of(h)' = IF h = Issuer THEN Of(h) \cup {writes + 1} ELSE Of(h)
  <1>1. writes \in Nat /\ writes' = writes + 1 BY StatementEffect DEF TypeOK
  <1>2. 1..writes' = (1..writes) \cup {writes + 1} BY <1>1
  <1>3. \A h : <<h, writes + 1>> \notin owner BY NewWrite
  <1>4. ASSUME owner' = owner, NEW h PROVE Of(h)' = Of(h) BY <1>2, <1>3, <1>4 DEF Of
  <1>5. ASSUME owner' = owner \cup {<<Issuer, writes + 1>>}, NEW h
        PROVE  Of(h)' = IF h = Issuer THEN Of(h) \cup {writes + 1} ELSE Of(h)
    <2>1. \A w : <<h, w>> \in owner' <=> <<h, w>> \in owner \/ (h = Issuer /\ w = writes + 1)
      BY <1>5
    <2> QED BY <1>2, <1>3, <2>1 DEF Of
  <1> QED BY <1>4, <1>5

\* A statement keeps the invariant, part by part.
LEMMA ExecuteKeeps ==
  ASSUME TypeOK, TransactionInv, Execute
  PROVE  TransactionInv'
  <1>1. BlockInv /\ OwnerInv /\ FateInv /\ CommitsItsOwn /\ ErrRollsBack /\ OkCommits
    BY DEF TransactionInv
  <1>2. /\ writes' = writes + 1 /\ UNCHANGED <<borrow, handles, abandoned, outcome>>
        /\ borrow \in {"client", "transaction"} /\ writes \in Nat /\ handles \in Nat
    BY <1>1, StatementEffect DEF TypeOK
  <1> DEFINE Wrote == /\ up /\ up' /\ owner' = owner \cup {<<Issuer, writes + 1>>}
                      /\ UNCHANGED <<txn, stack, swallowed>>
                      /\ \/ txn = "none" /\ durable' = durable \cup {writes + 1} /\ pending' = pending
                         \/ txn = "open" /\ pending' = pending \cup {writes + 1} /\ durable' = durable
             Failed == /\ up /\ up' /\ owner' = owner /\ swallowed' = TRUE
                       /\ Fails /\ Kept /\ UNCHANGED stack
             Broke == /\ ~up' /\ Closed' /\ owner' = owner /\ swallowed' = TRUE
                      /\ durable' \in {durable} \cup
                               (IF up /\ txn = "none" THEN {durable \cup {writes + 1}} ELSE {})
  <1>3. Wrote \/ Failed \/ Broke BY <1>1, StatementEffect
  <1> HIDE DEF Wrote, Failed, Broke
  <1>4. BlockInv'
    <2>1. CASE Wrote
      <3>1. Closed => Closed' BY <2>1 DEF Wrote, Closed
      <3> QED BY <1>1, <1>2, <2>1, <3>1 DEF Wrote, BlockInv
    <2>2. CASE Failed
      <3>1. Closed => Closed' BY <2>2 DEF Failed, Closed, Fails, Kept
      <3> QED BY <1>1, <1>2, <2>2, <3>1 DEF Failed, BlockInv, Fails
    <2>3. CASE Broke BY <1>1, <1>2, <2>3 DEF Broke, BlockInv
    <2> QED BY <1>3, <2>1, <2>2, <2>3
  <1>5. SavepointInv' BY <1>2 DEF SavepointInv
  <1>6. OwnerInv'
    <2>1. \A d \in owner : d[2] # writes + 1 BY <1>1, NewWrite
    <2>2. owner' \in {owner, owner \cup {<<Issuer, writes + 1>>}}
      BY <1>3 DEF Wrote, Failed, Broke
    <2>3. Issuer \in 0..handles BY <1>1, NewWrite
    <2>4. /\ pending' \subseteq pending \cup {writes + 1}
          /\ durable' \subseteq durable \cup {writes + 1}
      BY <1>3 DEF Wrote, Failed, Broke, Kept, Closed
    <2>5. (1..writes) \subseteq 1..writes' /\ writes + 1 \in 1..writes' BY <1>2
    <2>6. \A d, e \in owner' : d[2] = e[2] => d = e
      BY <1>1, <2>1, <2>2 DEF OwnerInv
    <2> QED BY <1>1, <1>2, <2>2, <2>3, <2>4, <2>5, <2>6 DEF OwnerInv
  <1>7. /\ Wrote => \A h : Of(h)' = IF h = Issuer THEN Of(h) \cup {writes + 1} ELSE Of(h)
        /\ Failed \/ Broke => \A h : Of(h)' = Of(h)
    BY <1>1, OfGrows DEF Wrote, Failed, Broke
  <1>8. \A h : writes + 1 \notin Of(h) BY <1>1, NewWrite
  <1>9. FateInv'
    <2> SUFFICES ASSUME NEW h \in 1..handles
        PROVE \/ Of(h)' \subseteq pending' /\ Of(h)' \cap durable' = {}
              \/ (h < handles \/ borrow = "client") /\ Of(h)' \subseteq durable'
              \/ (h < handles \/ borrow = "client" \/ ~up')
                   /\ Of(h)' \cap (pending' \cup durable') = {}
      BY <1>2 DEF FateInv
    <2>1. CASE h = Issuer
      <3>1. borrow # "client" /\ h = handles BY <1>2, <2>1 DEF Issuer
      <3>2. Of(h) \cap durable = {} /\ (up => Of(h) \subseteq pending)
        BY <1>1, <3>1, FateNow
      <3>3. /\ ~up => txn = "none"
            /\ up => txn \in {"open", "failed"}
        BY <1>1, <3>1 DEF BlockInv, Closed
      <3>4. CASE Wrote
        BY <1>1, <1>7, <1>8, <2>1, <3>2, <3>3, <3>4, NewWrite DEF Wrote
      <3>5. CASE Failed BY <1>7, <3>2, <3>5 DEF Failed, Kept
      <3>6. CASE Broke BY <1>7, <3>2, <3>3, <3>6 DEF Broke, Closed
      <3> QED BY <1>3, <3>4, <3>5, <3>6
    <2>2. CASE h # Issuer
      <3>1. Of(h)' = Of(h) BY <1>3, <1>7, <2>2
      <3>2. h < handles \/ borrow = "client" BY <1>2, <2>2 DEF Issuer
      <3>3. \/ Of(h) \subseteq pending /\ Of(h) \cap durable = {}
            \/ Of(h) \subseteq durable
            \/ Of(h) \cap (pending \cup durable) = {}
        BY <1>1 DEF FateInv
      <3>4. CASE Wrote BY <1>8, <3>1, <3>2, <3>3, <3>4 DEF Wrote
      <3>5. CASE Failed BY <3>1, <3>2, <3>3, <3>5 DEF Failed, Kept
      <3>6. CASE Broke BY <1>8, <3>1, <3>2, <3>3, <3>6 DEF Broke, Closed
      <3> QED BY <1>3, <3>4, <3>5, <3>6
    <2> QED BY <2>1, <2>2
  <1>10. CommitsItsOwn'
    <2> SUFFICES ASSUME ~abandoned PROVE pending' \subseteq Of(handles)'
      BY <1>2 DEF CommitsItsOwn
    <2>1. pending \subseteq Of(handles) BY <1>1 DEF CommitsItsOwn
    <2>2. borrow = "client" => txn = "none" BY <1>1 DEF BlockInv, Closed
    <2>3. CASE Wrote BY <1>2, <1>7, <2>1, <2>2, <2>3 DEF Wrote, Issuer
    <2>4. CASE Failed BY <1>2, <1>7, <2>1, <2>4 DEF Failed, Kept
    <2>5. CASE Broke BY <2>5 DEF Broke, Closed
    <2> QED BY <1>3, <2>3, <2>4, <2>5
  <1>11. ErrRollsBack' /\ OkCommits'
    <2> SUFFICES ASSUME borrow = "client", outcome.by # "none"
        PROVE /\ outcome.by = "with err" => durable' \cap Of(handles)' = {}
              /\ (~swallowed' /\ outcome.by \in {"commit", "with ok"} /\ outcome.is = "ok")
                   => Of(handles)' \subseteq durable'
      BY <1>2 DEF ErrRollsBack, OkCommits
    <2>1. handles # Issuer BY <1>1, <1>2 DEF BlockInv, Issuer
    <2>2. Of(handles)' = Of(handles) BY <1>2, <1>3, <1>7, <2>1
    <2>3. durable \subseteq durable' /\ durable' \subseteq durable \cup {writes + 1}
      BY <1>3 DEF Wrote, Failed, Broke, Kept
    <2>4. ~swallowed' => ~swallowed BY <1>3 DEF Wrote, Failed, Broke
    <2> QED BY <1>1, <1>8, <2>2, <2>3, <2>4 DEF ErrRollsBack, OkCommits
  <1> QED BY <1>4, <1>5, <1>6, <1>9, <1>10, <1>11 DEF TransactionInv

-----------------------------------------------------------------------------
(* The other steps. *)

\* What a Transaction's end records.
LEMMA EndsAs ==
  ASSUME NEW by, NEW is, Finish(by, is)
  PROVE  /\ outcome'.by = by /\ outcome'.is = is /\ borrow' = "client"
         /\ UNCHANGED <<handles, swallowed>>
  BY DEF Finish

\* A command about a savepoint never ends the transaction, and succeeds only in an open one,
\* or opens it again.
LEMMA SavepointEffect ==
  ASSUME NEW n, NEW reply \in {"ok", "db", "io"}, up => txn \in {"open", "failed"},
         SetSavepoint(n, reply) \/ ReleaseSavepoint(n, reply) \/ RollbackToSavepoint(n, reply)
  PROVE  up /\ up' /\ txn' = IF reply = "ok" THEN "open" ELSE "failed"
  <1>1. CASE SetSavepoint(n, reply) BY <1>1 DEF SetSavepoint, Fails
  <1>2. CASE ReleaseSavepoint(n, reply) BY <1>2 DEF ReleaseSavepoint, Fails
  <1>3. CASE RollbackToSavepoint(n, reply) BY <1>3 DEF RollbackToSavepoint, Fails
  <1> QED BY <1>1, <1>2, <1>3

\* The server's transaction and the handles stay in agreement.
LEMMA BlockKept ==
  ASSUME TypeOK, BlockInv, [Next]_vars, ~Execute
  PROVE  BlockInv'
  <1>0. handles \in Nat /\ outcome \in Outcomes /\ swallowed \in BOOLEAN BY DEF TypeOK
  <1>1. CASE Begin
    <2>1. PICK reply \in {"ok", "db", "io"} :
            /\ BeginBlock(reply) \/ (reply = "io" /\ Lost({}))
            /\ IF reply = "ok"
                 THEN borrow' = "transaction" /\ handles' = handles + 1 /\ inWith' \in BOOLEAN
                 ELSE UNCHANGED <<borrow, handles, inWith>>
      BY <1>1 DEF Begin
    <2>2. /\ borrow = "client" /\ outcome'.by = "none" /\ abandoned' = abandoned
      BY <1>1 DEF Begin
    <2>3. CASE reply = "ok"
      <3>1. up' /\ txn' = "open" BY <2>1, <2>3 DEF BeginBlock
      <3>2. borrow' = "transaction" /\ handles' > 0 BY <1>0, <2>1, <2>3
      <3> QED BY <2>2, <3>1, <3>2 DEF BlockInv
    <2>4. CASE reply = "db"
      <3>1. up /\ up' /\ (Closed => Closed')
        BY <2>1, <2>4 DEF BeginBlock, Fails, Closed
      <3> QED BY <2>1, <2>2, <2>4, <3>1 DEF BlockInv
    <2>5. CASE reply = "io"
      <3>1. Closed' BY <2>1, <2>5, LostDecides DEF BeginBlock
      <3> QED BY <2>1, <2>2, <2>5, <3>1 DEF BlockInv
    <2> QED BY <2>3, <2>4, <2>5
  <1>2. CASE TransactionCommit \/ TransactionRollback \/ WithOk \/ WithErr
    <2>1. Closed'
      BY <1>2, LostDecides, EndDecides
      DEF TransactionCommit, TransactionRollback, WithOk, WithErr
    <2>2. borrow' = "client" /\ handles' = handles /\ handles > 0
      BY <1>2
      DEF TransactionCommit, TransactionRollback, WithOk, WithErr, Finish, BlockInv
    <2> QED BY <2>1, <2>2 DEF BlockInv
  <1>3. CASE ClientCommit \/ ClientRollback
    <2>1. Closed' BY <1>3, LostDecides, EndDecides DEF ClientCommit, ClientRollback
    <2>2. borrow' = "client" /\ UNCHANGED <<handles, outcome>>
      BY <1>3 DEF ClientCommit, ClientRollback, handleVars, ghostVars
    <2> QED BY <2>1, <2>2 DEF BlockInv
  <1>4. CASE DropTransaction
    <2>1. (Closed => Closed') /\ up' = up BY <1>4 DEF DropTransaction, serverVars, Closed
    <2>2. borrow' = "client" /\ abandoned' /\ outcome'.by = "none"
      BY <1>4 DEF DropTransaction
    <2> QED BY <2>1, <2>2 DEF BlockInv
  <1>5. CASE DropSavepoint \/ UNCHANGED vars
    <2>1. (Closed => Closed') /\ UNCHANGED <<up, txn, handles, outcome, swallowed, abandoned>>
      BY <1>5
      DEF DropSavepoint, vars, serverVars, handleVars, ghostVars, Closed
    <2>2. borrow' = borrow \/ (borrow = "savepoint" /\ borrow' = "transaction")
      BY <1>5 DEF DropSavepoint, vars, handleVars
    <2> QED BY <2>1, <2>2 DEF BlockInv
  <1>6. CASE (\E n \in Names : CreateSavepoint(n)) \/ SavepointRelease \/ SavepointRollback
    <2>1. PICK n \in Names, reply \in {"ok", "db", "io"} :
            /\ \/ SetSavepoint(n, reply) \/ ReleaseSavepoint(n, reply) \/ RollbackToSavepoint(n, reply)
               \/ reply = "io" /\ Lost({})
            /\ swallowed' = (swallowed \/ reply # "ok")
      <3>0. name \in Names BY DEF TypeOK
      <3>1. CASE \E n \in Names : CreateSavepoint(n) BY <3>1 DEF CreateSavepoint
      <3>2. CASE SavepointRelease BY <3>0, <3>2 DEF SavepointRelease, SavepointEnds
      <3>3. CASE SavepointRollback BY <3>0, <3>3 DEF SavepointRollback, SavepointEnds
      <3> QED BY <1>6, <3>1, <3>2, <3>3
    <2>2. borrow # "client" /\ borrow' # "client" /\ UNCHANGED <<handles, outcome>>
      BY <1>6 DEF CreateSavepoint, SavepointRelease, SavepointRollback, SavepointEnds
    <2>3. \/ up' /\ txn' \in {"open", "failed"} /\ (swallowed' \/ txn' = "open")
          \/ ~up' /\ Closed' /\ swallowed'
      <3>1. CASE reply = "io" /\ Lost({}) BY <2>1, <3>1, LostDecides
      <3>2. CASE ~(reply = "io" /\ Lost({}))
        BY <2>1, <2>2, <3>2, SavepointEffect DEF BlockInv
      <3> QED BY <3>1, <3>2
    <2> QED BY <2>2, <2>3 DEF BlockInv
  <1> QED BY <1>1, <1>2, <1>3, <1>4, <1>5, <1>6 DEF Next

\* A Savepoint that is created is the latest one; the other steps end it or leave it alone.
LEMMA SavepointKept ==
  ASSUME TypeOK, SavepointInv, [Next]_vars, ~Execute
  PROVE  SavepointInv'
  <1>1. CASE \E n \in Names : CreateSavepoint(n)
    <2> SUFFICES ASSUME borrow' = "savepoint" PROVE SavepointInv' BY DEF SavepointInv
    <2>1. PICK n \in Names : CreateSavepoint(n) BY <1>1
    <2>2. SetSavepoint(n, "ok") /\ name' = n
      BY <2>1 DEF CreateSavepoint
    <2>3. /\ up' /\ txn' = "open" /\ pending' = pending
          /\ stack' = Append(stack, [name |-> n, before |-> pending])
      BY <2>2 DEF SetSavepoint
    <2>4. stack \in Seq([name : Names, before : SUBSET Nat]) BY DEF TypeOK
    <2>5. stack' # <<>> /\ stack'[Len(stack')] = [name |-> n, before |-> pending]
      BY <2>3, <2>4
    <2> QED BY <2>2, <2>3, <2>5 DEF SavepointInv
  <1>2. CASE UNCHANGED vars
    BY <1>2 DEF vars, serverVars, handleVars, SavepointInv
  <1>3. CASE /\ Next /\ ~(\E n \in Names : CreateSavepoint(n))
    <2>1. borrow' # "savepoint"
      BY <1>3
      DEF Next, Begin, TransactionCommit, TransactionRollback, WithOk, WithErr, Finish,
          ClientCommit, ClientRollback, handleVars, DropTransaction, SavepointRelease,
          SavepointRollback, SavepointEnds, DropSavepoint
    <2> QED BY <2>1 DEF SavepointInv
  <1> QED BY <1>1, <1>2, <1>3

\* What the latest outcome says of the writes stays true, and is true when it is recorded.
LEMMA OutcomeKept ==
  ASSUME TypeOK, TransactionInv, [Next]_vars, ~Execute
  PROVE  ErrRollsBack' /\ OkCommits'
  <1>0. BlockInv /\ SavepointInv /\ OwnerInv /\ FateInv /\ ErrRollsBack /\ OkCommits
    BY DEF TransactionInv
  <1>1. Quiet BY <1>0, OthersQuiet
  <1> SUFFICES ASSUME borrow' = "client", outcome'.by # "none"
      PROVE /\ outcome'.by = "with err" => durable' \cap Of(handles)' = {}
            /\ (~swallowed' /\ outcome'.by \in {"commit", "with ok"} /\ outcome'.is = "ok")
                 => Of(handles)' \subseteq durable'
    BY DEF ErrRollsBack, OkCommits
  <1>2. \A h : Of(h)' = Of(h) BY <1>1, OfSame DEF Quiet
  <1>3. CASE TransactionCommit \/ WithOk
    <2>1. PICK by \in {"commit", "with ok"}, reply \in {"ok", "db", "io"} :
            (Commit(reply) \/ (reply = "io" /\ Lost(pending))) /\ Finish(by, reply)
      <3>1. CASE TransactionCommit BY <3>1 DEF TransactionCommit
      <3>2. CASE WithOk BY <3>2 DEF WithOk
      <3> QED BY <1>3, <3>1, <3>2
    <2>2. /\ borrow = "transaction" /\ handles' = handles /\ swallowed' = swallowed
          /\ outcome'.by # "with err" /\ outcome'.is = reply
      BY <1>3, <2>1, EndsAs DEF TransactionCommit, WithOk
    <2>3. ASSUME ~swallowed', outcome'.is = "ok" PROVE Of(handles)' \subseteq durable'
      <3>1. Commit("ok") BY <2>1, <2>2, <2>3
      <3>2. up /\ txn = "open" BY <1>0, <2>2, <2>3 DEF BlockInv
      <3>3. durable' = durable \cup pending BY <3>1, <3>2 DEF Commit
      <3>4. Of(handles) \subseteq pending BY <1>0, <2>2, <3>2, FateNow
      <3> QED BY <1>2, <2>2, <3>3, <3>4
    <2> QED BY <2>2, <2>3
  <1>4. CASE TransactionRollback \/ WithErr
    <2>1. PICK by \in {"rollback", "with err"}, is \in {"ok", "db", "io"},
               reply \in {"ok", "io"} :
            (Rollback(reply) \/ (reply = "io" /\ Lost({}))) /\ Finish(by, is)
      <3>1. CASE TransactionRollback BY <3>1 DEF TransactionRollback
      <3>2. CASE WithErr BY <3>2 DEF WithErr
      <3> QED BY <1>4, <3>1, <3>2
    <2>2. /\ borrow = "transaction" /\ handles' = handles
          /\ outcome'.by \in {"rollback", "with err"}
      BY <1>4, <2>1, EndsAs DEF TransactionRollback, WithErr
    <2>3. durable' = durable BY <2>1, LostDecides DEF Rollback
    <2>4. Of(handles) \cap durable = {} BY <1>0, <2>2, FateNow
    <2> QED BY <1>2, <2>2, <2>3, <2>4
  <1>5. CASE ClientCommit \/ ClientRollback \/ UNCHANGED vars
    <2>1. UNCHANGED <<borrow, handles, outcome, swallowed>>
      BY <1>5 DEF ClientCommit, ClientRollback, vars, handleVars, ghostVars
    <2>2. pending = {} BY <1>0, <2>1 DEF BlockInv, Closed
    <2>3. durable' = durable BY <1>1, <2>2 DEF Quiet, Kept, Decided
    <2> QED BY <1>0, <1>2, <2>1, <2>3 DEF ErrRollsBack, OkCommits
  <1>6. CASE Begin \/ DropTransaction
    <2>1. outcome' = [by |-> "none", is |-> "ok"] BY <1>6 DEF Begin, DropTransaction
    <2> QED BY <2>1
  <1>7. CASE \/ \E n \in Names : CreateSavepoint(n)
             \/ SavepointRelease \/ SavepointRollback \/ DropSavepoint
    <2>1. borrow' # "client"
      BY <1>7
      DEF CreateSavepoint, SavepointRelease, SavepointRollback, SavepointEnds, DropSavepoint
    <2> QED BY <2>1
  <1> QED BY <1>3, <1>4, <1>5, <1>6, <1>7 DEF Next

-----------------------------------------------------------------------------
(* The theorems. *)

\* The invariant holds in every reachable state.
THEOREM InvCorrect == Spec => []TransactionInv
  <1>1. Init => TransactionInv
    BY DEF Init, TransactionInv, BlockInv, SavepointInv, OwnerInv, FateInv, Closed,
           CommitsItsOwn, ErrRollsBack, OkCommits, Of
  <1>2. TypeOK /\ TransactionInv /\ [Next]_vars => TransactionInv'
    <2> SUFFICES ASSUME TypeOK, TransactionInv, [Next]_vars PROVE TransactionInv' OBVIOUS
    <2>1. BlockInv /\ SavepointInv /\ OwnerInv /\ FateInv /\ CommitsItsOwn
      BY DEF TransactionInv
    <2>2. CASE Execute BY <2>2, ExecuteKeeps
    <2>3. CASE ~Execute
      <3>1. BlockInv' /\ SavepointInv' /\ ErrRollsBack' /\ OkCommits'
        BY <2>1, <2>3, BlockKept, SavepointKept, OutcomeKept
      <3>2. Quiet BY <2>1, <2>3, OthersQuiet
      <3>3. OwnerInv' /\ FateInv' BY <2>1, <3>2, OwnerKept, FateKept
      <3>4. abandoned => abandoned'
        BY <2>3
        DEF Next, Begin, TransactionCommit, TransactionRollback, WithOk, WithErr, Finish,
            ClientCommit, ClientRollback, ghostVars, DropTransaction, CreateSavepoint,
            SavepointRelease, SavepointRollback, SavepointEnds, DropSavepoint, vars
      <3>5. CommitsItsOwn'
        <4> SUFFICES ASSUME ~abandoned PROVE CommitsItsOwn'
          BY <3>4 DEF CommitsItsOwn
        <4>1. pending' \subseteq pending BY <3>2 DEF Quiet, Kept, Decided
        <4>2. CASE borrow = "client"
          <5>1. pending = {} BY <2>1, <4>2 DEF BlockInv, Closed
          <5> QED BY <4>1, <5>1 DEF CommitsItsOwn
        <4>3. CASE borrow # "client"
          <5>1. handles' = handles
            BY <2>3, <4>3
            DEF Next, Begin, TransactionCommit, TransactionRollback, WithOk, WithErr, Finish,
                ClientCommit, ClientRollback, handleVars, DropTransaction, CreateSavepoint,
                SavepointRelease, SavepointRollback, SavepointEnds, DropSavepoint, vars
          <5>2. Of(handles)' = Of(handles) BY <3>2, <5>1, OfSame DEF Quiet
          <5> QED BY <2>1, <4>1, <5>2 DEF CommitsItsOwn
        <4> QED BY <4>2, <4>3
      <3> QED BY <3>1, <3>3, <3>5 DEF TransactionInv
    <2> QED BY <2>2, <2>3
  <1> QED BY <1>1, <1>2, TypeCorrect, PTL DEF Spec

\* A Client that can be used directly has no transaction open, unless one was dropped.
THEOREM NothingLeftOpenCorrect == Spec => []NothingLeftOpen
  <1>1. TransactionInv => NothingLeftOpen
    BY DEF TransactionInv, BlockInv, Closed, NothingLeftOpen
  <1> QED BY <1>1, InvCorrect, PTL

\* The writes of a Transaction that is over are durable together or not at all.
THEOREM AllOrNothingCorrect == Spec => []AllOrNothing
  <1>1. TransactionInv => AllOrNothing
    <2> SUFFICES ASSUME FateInv, NEW h \in 1..handles, h < handles \/ borrow = "client"
                 PROVE  (durable \cap Of(h)) \in {{}, Of(h)}
      BY DEF TransactionInv, AllOrNothing
    <2>1. \/ Of(h) \cap durable = {} \/ Of(h) \subseteq durable BY DEF FateInv
    <2> QED BY <2>1
  <1> QED BY <1>1, InvCorrect, PTL

\* A commit commits what was written through its own Transaction, unless one was dropped;
\* with_transaction leaves no write of a closure that returned Err; and a commit that
\* returns Ok, after calls that did, has committed.
THEOREM OutcomesCorrect == Spec => [](CommitsItsOwn /\ ErrRollsBack /\ OkCommits)
  <1>1. TransactionInv => CommitsItsOwn /\ ErrRollsBack /\ OkCommits BY DEF TransactionInv
  <1> QED BY <1>1, InvCorrect, PTL

\* Rolling back through a Savepoint undoes no write: the borrow lets none happen.
THEOREM RollbackUndoesNothing == Spec => SavepointRollbackUndoesNothing
  <1>1. TypeOK /\ TransactionInv /\ [Next]_vars
          => [SavepointRollback /\ up' => pending' = pending]_vars
    <2> SUFFICES ASSUME TypeOK, SavepointInv, SavepointRollback, up' PROVE pending' = pending
      BY DEF TransactionInv
    <2>1. borrow = "savepoint" /\ \E reply : RollbackToSavepoint(name, reply)
      BY LostDecides DEF SavepointRollback
    <2> QED BY <2>1, RollbackKeeps DEF Kept
  <1> QED BY <1>1, TypeCorrect, InvCorrect, PTL DEF Spec, SavepointRollbackUndoesNothing
=============================================================================
