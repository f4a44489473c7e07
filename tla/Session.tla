------------------------------ MODULE Session -------------------------------
(***************************************************************************)
(* The calls of a Client (src/client.rs): each sends its frames, then reads *)
(* messages until ReadyForQuery. A Client runs one call at a time (&mut     *)
(* self), any call can fail, and the application can drop a call's future   *)
(* at any .await.                                                           *)
(*                                                                         *)
(* A frame's "id" and "at" say which call it belongs to; they are not on    *)
(* the wire, and no step of the client depends on them.                     *)
(***************************************************************************)
EXTENDS Backend, FiniteSets

CONSTANTS
  Ops,       \* the operations the application uses
  MaxCalls,  \* bound: calls of them
  Drops      \* whether the application drops futures

AllOps == {"query", "execute", "extended", "poll", "close"}

ASSUME SessionAssumption == Ops \subseteq AllOps /\ MaxCalls \in Nat /\ Drops \in BOOLEAN

VARIABLES
  pc,       \* where the client is
  op,       \* the call in progress
  call,     \* calls begun, and the id of the latest
  acc,      \* its local variables: columns, rows, affected
  result,   \* what the latest call returned
  fwd,      \* notifications sent to the broadcast channel
  drained,  \* notifications discarded by drain_until_ready
  clean     \* ghost: no call was dropped or has met a stream error

clientVars == <<pc, op, call, acc, result, fwd, drained, clean>>
vars == <<writeVars, s2c, readVars, up, serverVars, clientVars>>

\* The columns of a RowDescription, known by the result set it describes.
Columns == [id : Nat, set : Nat]
ColumnsOf(m) == [id |-> m.at.id, set |-> m.at.set]
NoColumns == [id |-> 0, set |-> 0]

\* A Row: its values (the n-th DataRow of the answer to id) and the columns it was given.
Rows == [id : Nat, set : Nat, n : Nat, columns : Columns]
RowOf(m, columns) == [id |-> m.at.id, set |-> m.at.set, n |-> m.at.rows, columns |-> columns]

\* "affected" is a row count, known by the statement that reported it.
Locals == [columns : Columns, rows : Seq(Rows), affected : Nat]
NoLocals == [columns |-> NoColumns, rows |-> <<>>, affected |-> 0]

\* What a call returns. "at" is that of the message that decided it.
Outcomes == {"none", "ok", "db", "err", "more", "eof"}
Results == [is : Outcomes, op : AllOps \cup {"none"}, at : Progress, locals : Locals]
NoResult == [is |-> "none", op |-> "none", at |-> Fresh(0), locals |-> NoLocals]

Init ==
  /\ StreamInit /\ ServerInit
  /\ pc = "idle" /\ op = "none" /\ call = 0
  /\ acc = NoLocals /\ result = NoResult
  /\ fwd = {} /\ drained = {} /\ clean = TRUE

-----------------------------------------------------------------------------
(* Beginning a call, and sending its frames *)

\* Mutant: query_extended ends with Flush and no Sync.
ScriptWithoutSync(o) ==
  CASE o \in {"query", "execute"} -> <<"Query">>
    [] o = "extended" -> <<"Parse", "Bind", "Describe", "Execute", "Flush">>
    [] OTHER -> <<"Terminate">>

Script(o) ==
  CASE o \in {"query", "execute"} -> <<"Query">>
    [] o = "extended" -> <<"Parse", "Bind", "Describe", "Execute", "Sync", "Flush">>
    [] OTHER -> <<"Terminate">>

Frames(o, id) == [i \in 1..Len(Script(o)) |-> [kind |-> Script(o)[i], id |-> id]]

\* A call: poll_ready, then encode of its first frame. With a frame of a dropped call
\* still in a full write buffer, poll_ready flushes that first.
Begin(o) ==
  /\ pc = "idle" /\ call < MaxCalls /\ o \in Ops \ {"poll"}
  /\ out' = out \o Frames(o, call + 1)
  /\ enc' \in {enc + 1} \cup (IF wr < enc THEN {enc} ELSE {})
  /\ pc' = "send" /\ op' = o /\ call' = call + 1 /\ result' = NoResult
  /\ UNCHANGED <<wr, s2c, readVars, up, serverVars, acc, fwd, drained, clean>>

SendNext ==
  /\ pc = "send" /\ Encode
  /\ UNCHANGED <<s2c, readVars, up, serverVars, clientVars>>

FlushNext ==
  /\ pc = "send" /\ Flush
  /\ UNCHANGED <<s2c, readVars, up, serverVars, clientVars>>

\* The call returns.
Return(is, last) ==
  /\ pc' = "idle" /\ op' = "none" /\ acc' = NoLocals
  /\ result' = [is |-> is, op |-> op, at |-> last, locals |-> acc]

\* The last send has returned: the reading loop starts. close is done, and has
\* consumed the Client.
SendDone ==
  /\ pc = "send" /\ wr = enc /\ enc = Len(out)
  /\ pc' = IF op = "close" THEN "closed" ELSE "read"
  /\ UNCHANGED <<writeVars, s2c, readVars, up, serverVars>>
  /\ UNCHANGED <<op, call, acc, result, fwd, drained, clean>>

SendFails ==
  /\ pc = "send" /\ WriteError
  /\ IF op = "close"
       THEN pc' = "closed" /\ UNCHANGED <<op, acc, result>>
       ELSE Return("err", Fresh(0))
  /\ clean' = FALSE
  /\ UNCHANGED <<s2c, readVars, up, serverVars, call, fwd, drained>>

-----------------------------------------------------------------------------
(* Reading *)

\* Framed works towards the next message.
Pump ==
  /\ pc \in {"read", "drain", "poll"}
  /\ Fill \/ FillEof \/ NeedMore \/ SkipUnknown
  /\ UNCHANGED <<writeVars, up, serverVars, clientVars>>

\* The loop of the call in progress receives a message of one of these kinds.
Receive(kinds) ==
  /\ pc = "read" /\ Yield /\ Msg.kind \in kinds
  /\ UNCHANGED <<writeVars, up, serverVars, call, clean>>

\* Mutant: the columns of an earlier RowDescription are kept.
KeepFirstColumns ==
  /\ Receive({"RowDescription"})
  /\ acc' = IF op = "execute" \/ acc.columns # NoColumns
              THEN acc ELSE [acc EXCEPT !.columns = ColumnsOf(Msg)]
  /\ UNCHANGED <<pc, op, result, fwd, drained>>

OnRowDescription ==
  /\ Receive({"RowDescription"})
  /\ acc' = IF op = "execute" THEN acc ELSE [acc EXCEPT !.columns = ColumnsOf(Msg)]
  /\ UNCHANGED <<pc, op, result, fwd, drained>>

OnDataRow ==
  /\ Receive({"DataRow"})
  /\ acc' = IF op = "execute" THEN acc
            ELSE [acc EXCEPT !.rows = Append(@, RowOf(Msg, acc.columns))]
  /\ UNCHANGED <<pc, op, result, fwd, drained>>

\* Mutant: a tag without a row count resets affected.
CountEveryTag ==
  /\ Receive({"CommandComplete"})
  /\ acc' = IF op = "execute"
              THEN [acc EXCEPT !.affected = IF Msg.at.counted = Msg.at.set THEN Msg.at.set ELSE 0]
              ELSE acc
  /\ UNCHANGED <<pc, op, result, fwd, drained>>

\* execute keeps the count of the last tag that ends in a number.
OnCommandComplete ==
  /\ Receive({"CommandComplete"})
  /\ acc' = IF op = "execute" /\ Msg.at.counted = Msg.at.set
              THEN [acc EXCEPT !.affected = Msg.at.set] ELSE acc
  /\ UNCHANGED <<pc, op, result, fwd, drained>>

\* Mutant: the loop ends at CommandComplete.
ReadyAtCommandComplete ==
  /\ Receive({"ReadyForQuery", "CommandComplete"})
  /\ Return("ok", Msg.at)
  /\ UNCHANGED <<fwd, drained>>

OnReadyForQuery ==
  /\ Receive({"ReadyForQuery"})
  /\ Return("ok", Msg.at)
  /\ UNCHANGED <<fwd, drained>>

\* Mutant: the call returns without drain_until_ready.
ErrorWithoutDrain ==
  /\ Receive({"ErrorResponse"})
  /\ Return("db", Msg.at)
  /\ UNCHANGED <<fwd, drained>>

\* The error is kept and the rest of the answer is read away before it is returned.
OnErrorResponse ==
  /\ Receive({"ErrorResponse"})
  /\ pc' = "drain"
  /\ result' = [NoResult EXCEPT !.at = Msg.at, !.op = op]
  /\ UNCHANGED <<op, acc, fwd, drained>>

\* Mutant: notifications are not forwarded from inside a call.
ForgetNotification ==
  /\ Receive({"NotificationResponse"})
  /\ UNCHANGED <<pc, op, acc, result, fwd, drained>>

OnNotification ==
  /\ Receive({"NotificationResponse"})
  /\ fwd' = fwd \cup {Msg.note}
  /\ UNCHANGED <<pc, op, acc, result, drained>>

OnOther ==
  /\ Receive({"ParseComplete", "BindComplete", "NoData", "EmptyQueryResponse", "NoticeResponse"})
  /\ UNCHANGED <<pc, op, acc, result, fwd, drained>>

\* "connection closed", an I/O error or a decode error.
ReadFails ==
  /\ pc = "read" /\ (YieldErr \/ YieldNone)
  /\ Return("err", Fresh(0))
  /\ clean' = FALSE
  /\ UNCHANGED <<writeVars, up, serverVars, call, fwd, drained>>

Read ==
  \/ OnRowDescription \/ OnDataRow \/ OnCommandComplete \/ OnReadyForQuery
  \/ OnErrorResponse \/ OnNotification \/ OnOther \/ ReadFails

---- \* drain_until_ready

\* Mutant: any message ends the draining.
DrainOneMessage ==
  /\ pc = "drain" /\ Yield
  /\ Return("db", result.at)
  /\ drained' = drained \cup (IF Msg.kind = "NotificationResponse" THEN {Msg.note} ELSE {})
  /\ UNCHANGED <<writeVars, up, serverVars, call, fwd, clean>>

\* Everything before ReadyForQuery is dropped, notifications too.
DrainMessage ==
  /\ pc = "drain" /\ Yield
  /\ IF Msg.kind = "ReadyForQuery"
       THEN Return("db", result.at)
       ELSE UNCHANGED <<pc, op, acc, result>>
  /\ drained' = drained \cup (IF Msg.kind = "NotificationResponse" THEN {Msg.note} ELSE {})
  /\ UNCHANGED <<writeVars, up, serverVars, call, fwd, clean>>

DrainError ==
  /\ pc = "drain" /\ YieldErr
  /\ clean' = FALSE
  /\ UNCHANGED <<writeVars, up, serverVars, pc, op, call, acc, result, fwd, drained>>

\* Mutant: the end of the stream is treated like any message but ReadyForQuery.
DrainForEver ==
  /\ pc = "drain" /\ YieldNone
  /\ clean' = FALSE
  /\ UNCHANGED <<writeVars, up, serverVars, pc, op, call, acc, result, fwd, drained>>

DrainNone ==
  /\ pc = "drain" /\ YieldNone
  /\ Return("db", result.at)
  /\ clean' = FALSE
  /\ UNCHANGED <<writeVars, up, serverVars, call, fwd, drained>>

Drain == DrainMessage \/ DrainError \/ DrainNone

---- \* poll

BeginPoll ==
  /\ pc = "idle" /\ "poll" \in Ops
  /\ pc' = "poll" /\ op' = "poll" /\ result' = NoResult
  /\ UNCHANGED <<writeVars, s2c, readVars, up, serverVars, call, acc, fwd, drained, clean>>

\* Mutant: poll does not look at the message.
PollIgnores ==
  /\ pc = "poll" /\ Yield
  /\ Return("more", Msg.at)
  /\ UNCHANGED <<writeVars, up, serverVars, call, fwd, drained, clean>>

\* Ok(true): one message of any kind was read.
PollMessage ==
  /\ pc = "poll" /\ Yield
  /\ Return("more", Msg.at)
  /\ fwd' = fwd \cup (IF Msg.kind = "NotificationResponse" THEN {Msg.note} ELSE {})
  /\ UNCHANGED <<writeVars, up, serverVars, call, drained, clean>>

\* Err, or Ok(false) when next() is None.
PollEnds ==
  /\ pc = "poll"
  /\ \/ YieldErr /\ Return("err", Fresh(0))
     \/ YieldNone /\ Return("eof", Fresh(0))
  /\ clean' = FALSE
  /\ UNCHANGED <<writeVars, up, serverVars, call, fwd, drained>>

Poll == PollMessage \/ PollEnds

-----------------------------------------------------------------------------
(* The application drops the future of a call that is waiting. *)

DropWhileSending ==
  /\ Drops /\ pc = "send" /\ AbandonWrites
  /\ pc' = IF op = "close" THEN "closed" ELSE "idle"
  /\ op' = "none" /\ clean' = FALSE
  /\ UNCHANGED <<s2c, readVars, up, serverVars, call, acc, result, fwd, drained>>

\* Framed::next() is cancel safe: what was read stays in the buffer. A dropped poll
\* has done nothing.
DropWhileReading ==
  /\ Drops /\ pc \in {"read", "drain", "poll"} /\ ReadPending
  /\ pc' = "idle" /\ op' = "none" /\ acc' = NoLocals /\ result' = NoResult
  /\ clean' = (clean /\ pc = "poll")
  /\ UNCHANGED <<writeVars, s2c, readVars, up, serverVars, call, fwd, drained>>

-----------------------------------------------------------------------------
\* The steps of a call in progress, which the executor takes while it can.
ClientStep == SendNext \/ FlushNext \/ SendDone \/ SendFails \/ Pump \/ Read \/ Drain \/ Poll

Application == BeginPoll \/ (\E o \in Ops : Begin(o)) \/ DropWhileSending \/ DropWhileReading

ServerStep == (Serve \/ Environment) /\ UNCHANGED clientVars

Next == ClientStep \/ Application \/ ServerStep

Spec == Init /\ [][Next]_vars

\* The executor polls a future that can make progress; a live server answers what it
\* has read. Nobody has to begin or to drop a call, and no fault has to happen.
FairSpec == Spec /\ WF_vars(ClientStep) /\ WF_vars(Serve /\ UNCHANGED clientVars)

-----------------------------------------------------------------------------
(* Properties *)

\* Type invariant: cursors lie within their sequences and every variable has its type.
TypeOK ==
  /\ out \in Seq([kind : FrontendKinds, id : Nat])
  /\ wr \in Nat /\ enc \in Nat /\ wr <= enc /\ enc <= Len(out)
  /\ s2c \in Seq(BackendFrames) /\ got \in Nat /\ got <= Len(s2c)
  /\ {is_readable, eof, has_errored, up, clean} \subseteq BOOLEAN
  /\ phase \in Phases /\ at \in Progress /\ notes \in Nat /\ noise \in Nat
  /\ pc \in {"idle", "send", "read", "drain", "poll", "closed"}
  /\ op \in AllOps \cup {"none"} /\ call \in Nat
  /\ acc \in Locals /\ result \in Results
  /\ fwd \subseteq Nat /\ drained \subseteq Nat

\* Between two calls, on a connection that has met neither a dropped call nor a stream
\* error, nothing of an earlier request is left: not on its way, not at the server, not
\* among the messages still to be read. This is what makes the read loops (which take
\* the next messages for their own answer) right, errors included (drain_until_ready).
InSync ==
  (clean /\ up /\ pc \in {"idle", "poll"}) =>
    /\ phase = "ready"
    /\ \A i \in 1..Len(out) : out[i].kind = "Flush"
    /\ \A i \in 1..Len(s2c) : s2c[i].kind \in AsyncKinds

\* A call on a clean connection returns what the server answered to that call: a result,
\* a database error, and each row. Read with the loops of query_simple,
\* read_extended_results and execute_simple.
AnswerIsOwn ==
  clean =>
    /\ result.is = "ok" => result.at.id = call
    /\ (result.is = "db" /\ up) => result.at.id = call
    /\ \A i \in 1..Len(result.locals.rows) : result.locals.rows[i].id = call

\* Ok carries every row of the answer, once and in order, each with the columns of its
\* own result set, also when one simple query has several of them.
RowsComplete ==
  (clean /\ result.is = "ok" /\ result.op \in {"query", "extended"}) =>
    /\ Len(result.locals.rows) = result.at.rows
    /\ \A i \in 1..Len(result.locals.rows) :
         LET row == result.locals.rows[i]
         IN row.n = i /\ row.columns = [id |-> row.id, set |-> row.set]

\* execute returns the count of the last statement whose tag has one (0 without any).
AffectedIsLastCount ==
  (clean /\ result.is = "ok" /\ result.op = "execute") =>
    result.locals.affected = result.at.counted

\* While the connection is up every notification is in exactly one place: on its way,
\* forwarded to the subscribers, or discarded by drain_until_ready. No read loop loses
\* one or forwards it twice, whatever calls are dropped and whatever errors occur.
NotificationsAccounted ==
  up =>
    /\ fwd \cap drained = {}
    /\ fwd \cup drained \subseteq 1..notes
    /\ \A n \in 1..notes :
         Cardinality({i \in 1..Len(s2c) : s2c[i].note = n})
           = (IF n \in fwd \cup drained THEN 0 ELSE 1)

-----------------------------------------------------------------------------
(* Why InSync and AnswerIsOwn hold: the inductive invariant *)

Pending == pc \in {"send", "read", "drain"}

\* A call that reads an answer is in progress.
InCall == Pending /\ op # "close"

\* Every request ends in one frame that makes the server answer ReadyForQuery.
SyncKinds     == {"Query", "Sync"}
ExtendedKinds == {"Parse", "Bind", "Describe", "Execute"}

\* Kinds that answer no call. A server that is gone may have said why.
QuietKinds == AsyncKinds \cup (IF up THEN {} ELSE {"ErrorResponse"})

\* Frames to the server: those of the call in progress, up to one Query or Sync, around
\* the Flush frames that the calls leave behind their Sync.
OutInv ==
  \A i \in 1..Len(out) :
    /\ out[i].kind # "Flush" => out[i].id = call /\ pc \in {"send", "read", "drain", "closed"}
    /\ out[i].kind # "Flush" => (InCall <=> out[i].kind \in SyncKinds \cup ExtendedKinds)
    /\ out[i].kind \in SyncKinds => \A j \in (i + 1)..Len(out) : out[j].kind = "Flush"
    /\ out[i].kind \in ExtendedKinds => \E j \in (i + 1)..Len(out) : out[j].kind = "Sync"
    /\ out[i].kind \in SyncKinds => phase \in {"ready", "exec", "skip"}

\* The server works on the call in progress, or on nothing.
PhaseInv ==
  /\ phase # "ready" => InCall /\ at.id = call
  /\ phase \in {"exec", "skip"} => \E i \in 1..Len(out) : out[i].kind = "Sync"

\* Frames to the client: answers to the call in progress, ended by its ReadyForQuery,
\* which is the last thing the server does for it.
InInv ==
  \A i \in 1..Len(s2c) :
    /\ s2c[i].kind \notin QuietKinds => InCall /\ s2c[i].at.id = call
    /\ s2c[i].kind = "ReadyForQuery" =>
         /\ phase = "ready"
         /\ \A j \in 1..Len(out) : out[j].kind = "Flush"
         /\ \A j \in (i + 1)..Len(s2c) : s2c[j].kind \in QuietKinds

\* What the client has gathered belongs to the call in progress.
LocalInv ==
  /\ \A i \in 1..Len(acc.rows) : acc.rows[i].id = call
  /\ ~Pending => acc.rows = <<>>
  /\ pc = "send" => acc.rows = <<>>
  /\ pc = "drain" => (result.is = "none" /\ (up => result.at.id = call))
  /\ Pending => result.locals.rows = <<>> /\ result.is = "none"

SyncInv == clean => OutInv /\ PhaseInv /\ InInv /\ LocalInv /\ AnswerIsOwn

-----------------------------------------------------------------------------
(* The calls of a Session implement those of Calls. *)

\* The connection is closed or out of step, or is gone without the end of the answer.
Ready == {i \in 1..Len(s2c) : s2c[i].kind = "ReadyForQuery"}
Over  == ~clean \/ op = "close" \/ pc = "closed" \/ (~up /\ InCall /\ Ready = {})

\* The end of the answer is on its way: what the call will return. An ErrorResponse makes
\* it an error, also one that the call has already taken.
Decision ==
  LET end == CHOOSE i \in Ready : TRUE
      is  == IF pc = "drain" \/ (\E i \in 1..end : s2c[i].kind = "ErrorResponse") THEN "db" ELSE "ok"
  IN [id |-> s2c[end].at.id, is |-> is,
      rows |-> IF is = "ok" /\ op # "execute" THEN s2c[end].at.rows ELSE 0,
      affected |-> IF is = "ok" /\ op = "execute" THEN s2c[end].at.counted ELSE 0]

Given ==
  [id |-> result.at.id, is |-> result.is,
   rows |-> IF result.is = "ok" THEN Len(result.locals.rows) ELSE 0,
   affected |-> IF result.is = "ok" THEN result.locals.affected ELSE 0]

NoAnswer == [id |-> 0, is |-> "none", rows |-> 0, affected |-> 0]

Promise == INSTANCE Calls WITH
  status <- IF Over THEN "over" ELSE IF ~InCall THEN "idle" ELSE IF Ready = {} THEN "asked" ELSE "decided",
  call   <- call,
  answer <- IF ~Over /\ InCall /\ Ready # {} THEN Decision ELSE NoAnswer,
  given  <- IF ~Over /\ ~InCall /\ result.is \in {"ok", "db"} THEN Given ELSE NoAnswer

\* Every call that returns while the connection lasts returns what the server decided for
\* it, with that number of rows, and the server decides it once: whatever is dropped,
\* lost or unknown afterwards.
KeepsPromise == Promise!Spec

-----------------------------------------------------------------------------
(* Liveness *)

\* Without dropped calls, COPY, unknown tags and malformed bodies every call returns: with
\* the answer, or with an error once the connection is lost.
CallReturns == Pending ~> ~Pending

\* What is left of the answer is in the read buffer, behind an unknown tag, and Framed
\* will not look at it before something else arrives.
Stalled == pc \in {"read", "drain"} /\ ReadPending /\ got > 0 /\ got = Len(s2c)

\* The server waits for the data of a COPY; there is no call that sends it.
Copying == phase = "copy" /\ s2c = <<>>

\* The server discards everything up to a Sync that was never sent.
Wedged == phase = "skip" /\ \A i \in 1..Len(out) : out[i].kind # "Sync"

\* Each side waits for the other to read: the client's socket does not hold the frame it has
\* to send, and the server's does not hold what it is writing.
Jammed == pc = "send" /\ wr < enc /\ wr >= C2SCap /\ out[wr + 1].kind \in LargeFrontend /\ Blocked

\* With dropped calls, COPY, unknown tags and malformed bodies, a call that never returns
\* is for ever in one of four states: the end of its answer is stuck behind an unknown
\* tag, or the server waits for COPY data; or, but only after a call that did not read its
\* answer to the end, the server discards its request, or each side waits for the other
\* to read.
HangsOnlyIf ==
  <>[]Pending => <>[](up /\ (Stalled \/ Copying \/ (~clean /\ (Wedged \/ Jammed))))

-----------------------------------------------------------------------------
(* What the repository's comments say, and the code does not do *)

\* src/client.rs:70: a subscriber gets the notifications of LISTEN/NOTIFY.
SubscribersGetNotifications == drained = {}
=============================================================================
