---------------------------- MODULE Transaction -----------------------------
(***************************************************************************)
(* Transaction, Savepoint and Client::with_transaction (src/transaction.rs) *)
(* over the transaction state the server keeps for the session. Each call   *)
(* is one step here: that a call gets its own answer is Session's subject,  *)
(* so no future is dropped inside a call.                                   *)
(*                                                                         *)
(* A Transaction borrows the Client, a Savepoint borrows it through the     *)
(* Transaction: "borrow" says which of the three the program can use.       *)
(***************************************************************************)
EXTENDS Naturals, Sequences

CONSTANTS
  Names,      \* savepoint names
  MaxWrites,  \* bound: statements that write
  MaxTxns,    \* bound: Transactions begun
  MaxDepth    \* bound: savepoints the server holds

ASSUME TransactionAssumption ==
  MaxWrites \in Nat /\ MaxTxns \in Nat /\ MaxDepth \in Nat

VARIABLES
  up,         \* the connection works
  txn,        \* the server's transaction: "none", "open", "failed"
  pending,    \* writes of the open transaction
  stack,      \* its savepoints, each with the writes made before it
  durable,    \* committed writes
  borrow,     \* "client", "transaction", "savepoint"
  inWith,     \* the Transaction was begun by with_transaction
  name,       \* the name the Savepoint keeps
  handles,    \* Transactions begun
  owner,      \* which of them (0: none) issued which write that returned Ok
  writes,     \* statements issued
  swallowed,  \* ghost: a call through the current Transaction failed
  abandoned,  \* ghost: a Transaction was dropped unfinished
  outcome     \* how the latest Transaction ended

serverVars == <<up, txn, pending, stack, durable>>
handleVars == <<borrow, inWith, name, handles>>
ghostVars  == <<owner, writes, swallowed, abandoned, outcome>>
vars == <<serverVars, handleVars, ghostVars>>

\* by: what ended it. is: what its last call returned.
Outcomes == [by : {"none", "commit", "rollback", "with ok", "with err"}, is : {"ok", "db", "io"}]

Init ==
  /\ up = TRUE /\ txn = "none" /\ pending = {} /\ stack = <<>> /\ durable = {}
  /\ borrow = "client" /\ inWith = FALSE /\ name \in Names /\ handles = 0
  /\ owner = {} /\ writes = 0 /\ swallowed = FALSE /\ abandoned = FALSE
  /\ outcome = [by |-> "none", is |-> "ok"]

-----------------------------------------------------------------------------
(* The server (external): the effect of one SQL command, and its reply. *)

Fails == txn' = IF txn = "open" THEN "failed" ELSE txn

\* The transaction block is over.
Ends == txn' = "none" /\ pending' = {} /\ stack' = <<>>

Write(w, reply) ==
  /\ up /\ up' = up /\ UNCHANGED stack
  /\ \/ reply = "ok" /\ txn = "none"
          /\ durable' = durable \cup {w} /\ UNCHANGED <<txn, pending>>
     \/ reply = "ok" /\ txn = "open"
          /\ pending' = pending \cup {w} /\ UNCHANGED <<txn, durable>>
     \/ reply = "db" /\ Fails /\ UNCHANGED <<pending, durable>>

\* BEGIN inside a transaction is only a warning.
BeginBlock(reply) ==
  /\ up /\ UNCHANGED <<up, pending, stack, durable>>
  /\ \/ reply = "ok" /\ txn # "failed" /\ txn' = "open"
     \/ reply = "db" /\ Fails

\* COMMIT of a failed transaction rolls it back and is no error: its tag is ROLLBACK.
\* Deferred constraints can make COMMIT fail.
Commit(reply) ==
  /\ up /\ UNCHANGED up /\ Ends
  /\ durable' = IF txn = "open" /\ reply = "ok" THEN durable \cup pending ELSE durable
  /\ reply = "ok" \/ (reply = "db" /\ txn = "open")

Rollback(reply) == up /\ UNCHANGED <<up, durable>> /\ Ends /\ reply = "ok"

SetSavepoint(n, reply) ==
  /\ up /\ UNCHANGED <<up, pending, durable>>
  /\ \/ /\ reply = "ok" /\ txn = "open" /\ Len(stack) < MaxDepth
        /\ stack' = Append(stack, [name |-> n, before |-> pending])
        /\ UNCHANGED txn
     \/ reply = "db" /\ Fails /\ UNCHANGED stack

\* The latest savepoint of that name.
Latest(n) == {k \in 1..Len(stack) :
                /\ stack[k].name = n
                /\ \A j \in (k + 1)..Len(stack) : stack[j].name # n}

ReleaseSavepoint(n, reply) ==
  /\ up /\ UNCHANGED <<up, pending, durable>>
  /\ \/ /\ reply = "ok" /\ txn = "open"
        /\ \E k \in Latest(n) : stack' = SubSeq(stack, 1, k - 1)
        /\ UNCHANGED txn
     \/ /\ reply = "db" /\ (txn = "failed" \/ Latest(n) = {})
        /\ Fails /\ UNCHANGED stack

\* The savepoint itself stays.
RollbackToSavepoint(n, reply) ==
  /\ up /\ UNCHANGED <<up, durable>>
  /\ \/ /\ reply = "ok" /\ txn \in {"open", "failed"}
        /\ \E k \in Latest(n) : stack' = SubSeq(stack, 1, k) /\ pending' = stack[k].before
        /\ txn' = "open"
     \/ reply = "db" /\ Latest(n) = {} /\ Fails /\ UNCHANGED <<pending, stack>>

\* The connection is lost, or was, and the call returns Err(Io) or Err(Protocol). A write
\* that committed by itself, or a COMMIT, may have been done.
Lost(committed) ==
  /\ up' = FALSE /\ Ends
  /\ durable' \in {durable} \cup (IF up THEN {durable \cup committed} ELSE {})

-----------------------------------------------------------------------------
(* The client *)

\* A statement that writes.
Statement ==
  /\ writes < MaxWrites /\ writes' = writes + 1
  /\ \E reply \in {"ok", "db", "io"} :
       /\ \/ Write(writes', reply)
          \/ reply = "io" /\ Lost(IF txn = "none" THEN {writes'} ELSE {})
       /\ owner' = IF reply # "ok" THEN owner
                   ELSE owner \cup {<<IF borrow = "client" THEN 0 ELSE handles, writes'>>}
       /\ swallowed' = (swallowed \/ reply # "ok")
  /\ UNCHANGED <<handleVars, abandoned, outcome>>

\* Mutant: a Savepoint does not borrow its Transaction.
ExecuteAnyTime == Statement

\* Client::execute and Transaction::execute.
Execute == borrow \in {"client", "transaction"} /\ Statement

\* Client::begin, and the beginning of with_transaction.
Begin ==
  /\ borrow = "client" /\ handles < MaxTxns
  /\ \E reply \in {"ok", "db", "io"} :
       /\ BeginBlock(reply) \/ (reply = "io" /\ Lost({}))
       /\ IF reply = "ok"
            THEN borrow' = "transaction" /\ handles' = handles + 1 /\ inWith' \in BOOLEAN
            ELSE UNCHANGED <<borrow, handles, inWith>>
  /\ swallowed' = FALSE /\ outcome' = [by |-> "none", is |-> "ok"]
  /\ UNCHANGED <<name, owner, writes, abandoned>>

\* The Transaction is consumed, whatever its last call returns.
Finish(by, reply) ==
  /\ borrow' = "client" /\ outcome' = [by |-> by, is |-> reply]
  /\ UNCHANGED <<inWith, name, handles, owner, writes, swallowed, abandoned>>

TransactionCommit ==
  /\ borrow = "transaction" /\ ~inWith
  /\ \E reply \in {"ok", "db", "io"} :
       /\ Commit(reply) \/ (reply = "io" /\ Lost(pending))
       /\ Finish("commit", reply)

\* Mutant: the ROLLBACK is not awaited.
RollbackNotAwaited ==
  /\ borrow = "transaction" /\ ~inWith
  /\ Finish("rollback", "ok") /\ UNCHANGED serverVars

TransactionRollback ==
  /\ borrow = "transaction" /\ ~inWith
  /\ \E reply \in {"ok", "io"} :
       /\ Rollback(reply) \/ (reply = "io" /\ Lost({}))
       /\ Finish("rollback", reply)

\* Mutant: the COMMIT is not awaited.
WithOkNotAwaited ==
  /\ borrow = "transaction" /\ inWith
  /\ Finish("with ok", "ok") /\ UNCHANGED serverVars

\* The closure of with_transaction returned Ok: commit().await?.
WithOk ==
  /\ borrow = "transaction" /\ inWith
  /\ \E reply \in {"ok", "db", "io"} :
       /\ Commit(reply) \/ (reply = "io" /\ Lost(pending))
       /\ Finish("with ok", reply)

\* Mutant: the Err path only returns.
WithErrForgetsRollback ==
  /\ borrow = "transaction" /\ inWith
  /\ Finish("with err", "db") /\ UNCHANGED serverVars

\* Mutant: the Err path commits, too.
WithErrCommits ==
  /\ borrow = "transaction" /\ inWith
  /\ \E reply \in {"ok", "db", "io"} :
       Commit(reply) \/ (reply = "io" /\ Lost(pending))
  /\ Finish("with err", "db")

\* The closure returned Err: what rollback returns is ignored.
WithErr ==
  /\ borrow = "transaction" /\ inWith
  /\ \E reply \in {"ok", "io"} :
       /\ Rollback(reply) \/ (reply = "io" /\ Lost({}))
       /\ Finish("with err", "db")

\* Client::commit and Client::rollback.
ClientCommit ==
  /\ borrow = "client"
  /\ \E reply \in {"ok", "db", "io"} : Commit(reply) \/ (reply = "io" /\ Lost(pending))
  /\ UNCHANGED <<handleVars, ghostVars>>

ClientRollback ==
  /\ borrow = "client"
  /\ \E reply \in {"ok", "io"} : Rollback(reply) \/ (reply = "io" /\ Lost({}))
  /\ UNCHANGED <<handleVars, ghostVars>>

\* Drop of an unfinished Transaction writes a log line and sends nothing.
DropTransaction ==
  /\ borrow = "transaction" /\ ~inWith
  /\ borrow' = "client" /\ abandoned' = TRUE /\ outcome' = [by |-> "none", is |-> "ok"]
  /\ UNCHANGED <<serverVars, inWith, name, handles, owner, writes, swallowed>>

---- \* Savepoints

CreateSavepoint(n) ==
  /\ borrow = "transaction"
  /\ \E reply \in {"ok", "db", "io"} :
       /\ SetSavepoint(n, reply) \/ (reply = "io" /\ Lost({}))
       /\ IF reply = "ok" THEN borrow' = "savepoint" /\ name' = n ELSE UNCHANGED <<borrow, name>>
       /\ swallowed' = (swallowed \/ reply # "ok")
  /\ UNCHANGED <<inWith, handles, owner, writes, abandoned, outcome>>

\* release and rollback consume the Savepoint; the Transaction is usable again.
SavepointEnds(reply) ==
  /\ borrow' = "transaction" /\ swallowed' = (swallowed \/ reply # "ok")
  /\ UNCHANGED <<inWith, name, handles, owner, writes, abandoned, outcome>>

SavepointRelease ==
  /\ borrow = "savepoint"
  /\ \E reply \in {"ok", "db", "io"} :
       /\ ReleaseSavepoint(name, reply) \/ (reply = "io" /\ Lost({}))
       /\ SavepointEnds(reply)

\* Mutant: the whole transaction is rolled back.
SavepointRollsBackAll ==
  /\ borrow = "savepoint"
  /\ \E reply \in {"ok", "io"} :
       /\ Rollback(reply) \/ (reply = "io" /\ Lost({}))
       /\ SavepointEnds(reply)

SavepointRollback ==
  /\ borrow = "savepoint"
  /\ \E reply \in {"ok", "db", "io"} :
       /\ RollbackToSavepoint(name, reply) \/ (reply = "io" /\ Lost({}))
       /\ SavepointEnds(reply)

\* Mutant: a dropped Savepoint does not give the Transaction back.
LeakSavepoint ==
  /\ borrow = "savepoint" /\ borrow' = "none"
  /\ UNCHANGED <<serverVars, inWith, name, handles, ghostVars>>

\* Drop of a Savepoint writes a log line and sends nothing.
DropSavepoint ==
  /\ borrow = "savepoint" /\ borrow' = "transaction"
  /\ UNCHANGED <<serverVars, inWith, name, handles, ghostVars>>

-----------------------------------------------------------------------------
Next ==
  \/ Execute \/ Begin \/ TransactionCommit \/ TransactionRollback \/ WithOk \/ WithErr
  \/ ClientCommit \/ ClientRollback \/ DropTransaction
  \/ (\E n \in Names : CreateSavepoint(n)) \/ SavepointRelease \/ SavepointRollback
  \/ DropSavepoint

Spec == Init /\ [][Next]_vars

-----------------------------------------------------------------------------
(* Properties *)

\* Type invariant.
TypeOK ==
  /\ {up, inWith, swallowed, abandoned} \subseteq BOOLEAN
  /\ txn \in {"none", "open", "failed"} /\ borrow \in {"client", "transaction", "savepoint"}
  /\ pending \subseteq Nat /\ durable \subseteq Nat
  /\ stack \in Seq([name : Names, before : SUBSET Nat])
  /\ name \in Names /\ handles \in Nat /\ writes \in Nat
  /\ owner \subseteq Nat \X Nat /\ outcome \in Outcomes

\* The writes that returned Ok through Transaction h.
Of(h) == {w \in 1..writes : <<h, w>> \in owner}

\* Unless a Transaction was dropped unfinished, a Client that can be used directly has no
\* transaction open on the server: neither a failed begin or commit nor a with_transaction
\* that ends in Err leaves one behind (the "?" and "let _ =" paths).
NothingLeftOpen ==
  (borrow = "client" /\ ~abandoned) => txn = "none" /\ pending = {} /\ stack = <<>>

\* Unless a Transaction was dropped unfinished, what a commit makes durable was written
\* through the Transaction that commits.
CommitsItsOwn == ~abandoned => pending \subseteq Of(handles)

\* The writes of a Transaction that is over are durable together or not at all, whether
\* it was committed, rolled back, dropped, failed or cut off, and whatever savepoints it used.
AllOrNothing ==
  \A h \in 1..handles :
    (h < handles \/ borrow = "client") => (durable \cap Of(h)) \in {{}, Of(h)}

\* with_transaction whose closure returned Err leaves none of its writes.
ErrRollsBack ==
  (borrow = "client" /\ outcome.by = "with err") => durable \cap Of(handles) = {}

\* A commit that returns Ok, of a Transaction none of whose calls failed, is a commit.
OkCommits ==
  (borrow = "client" /\ ~swallowed /\ outcome.by \in {"commit", "with ok"} /\ outcome.is = "ok")
    => Of(handles) \subseteq durable

\* A Savepoint borrows the Client as long as it exists, so no statement can run between
\* its creation and its rollback: rolling back through the handle undoes no write.
SavepointRollbackUndoesNothing ==
  [][SavepointRollback /\ up' => pending' = pending]_vars

-----------------------------------------------------------------------------
(* Why they hold: the inductive invariant *)

Closed == txn = "none" /\ pending = {} /\ stack = <<>>

\* The server's transaction and the handles agree: a lost connection has none open, a
\* usable Transaction has one, and an outcome is that of a Transaction that is over.
BlockInv ==
  /\ ~up => Closed
  /\ (up /\ borrow # "client") => txn \in {"open", "failed"}
  /\ borrow # "client" => handles > 0 /\ outcome.by = "none" /\ (~swallowed => up /\ txn = "open")
  /\ (borrow = "client" /\ (~abandoned \/ outcome.by # "none")) => Closed
  /\ outcome.by # "none" => handles > 0

\* The savepoint of a Savepoint is the latest one, and nothing was written since.
SavepointInv ==
  borrow = "savepoint" =>
    /\ up /\ txn = "open" /\ stack # <<>>
    /\ stack[Len(stack)] = [name |-> name, before |-> pending]

\* Every write has one owner.
OwnerInv ==
  /\ pending \subseteq 1..writes /\ durable \subseteq 1..writes
  /\ owner \subseteq (0..handles) \X (1..writes)
  /\ \A d, e \in owner : d[2] = e[2] => d = e

\* The writes of a Transaction are undecided together, until all are durable or none
\* will be. Only a Transaction in use, on a connection that works, can add to them.
FateInv ==
  \A h \in 1..handles :
    \/ Of(h) \subseteq pending /\ Of(h) \cap durable = {}
    \/ (h < handles \/ borrow = "client") /\ Of(h) \subseteq durable
    \/ (h < handles \/ borrow = "client" \/ ~up) /\ Of(h) \cap (pending \cup durable) = {}

TransactionInv ==
  BlockInv /\ SavepointInv /\ OwnerInv /\ FateInv /\ CommitsItsOwn /\ ErrRollsBack /\ OkCommits

-----------------------------------------------------------------------------
(* What a comment says, and the code does not do *)

\* src/transaction.rs:174: with_transaction "Commits on `Ok`".
CommitsOnOk ==
  (borrow = "client" /\ outcome.by = "with ok" /\ outcome.is = "ok")
    => Of(handles) \subseteq durable
=============================================================================
