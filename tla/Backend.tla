------------------------------ MODULE Backend -------------------------------
(***************************************************************************)
(* The database server at the far end of the stream. It is not part of the *)
(* repository: this is the protocol the client code is written against,    *)
(* with the freedom a server has (result sets, errors, asynchronous        *)
(* messages, unknown tags, loss of the connection).                        *)
(*                                                                         *)
(* "at" is how far the answer to the current request has got. Every frame  *)
(* carries a copy of it, so a frame says which request it answers and what *)
(* precedes it in that answer; the client never looks at it.               *)
(***************************************************************************)
EXTENDS Framed

CONSTANTS
  MaxRows,     \* bound: DataRows in the answer to one request
  MaxSets,     \* bound: statements in one simple query
  MaxNotes,    \* bound: NotificationResponses
  MaxNoise,    \* bound: other frames that answer no request
  NoiseKinds,  \* their kinds, a subset of {"NoticeResponse", "Unknown", "Malformed"}
  Crashes,     \* whether the server may drop the connection
  Copies       \* whether the application runs COPY FROM STDIN as a simple query

ASSUME BackendAssumption ==
  /\ MaxRows \in Nat /\ MaxSets \in Nat /\ MaxNotes \in Nat /\ MaxNoise \in Nat
  /\ NoiseKinds \subseteq {"NoticeResponse", "Unknown", "Malformed"}
  /\ Crashes \in BOOLEAN /\ Copies \in BOOLEAN

VARIABLES
  phase,   \* what the server is doing
  at,      \* progress of the current answer
  notes,   \* NotificationResponses sent
  noise    \* other asynchronous frames sent

serverVars == <<phase, at, notes, noise>>

\* "ready": between messages. "simple", "rows": inside a simple query, between its
\* statements or inside a result set. "done": a simple query that only lacks its
\* ReadyForQuery. "copy": inside a COPY, waiting for its data. "exec": inside Execute.
\* "skip": after an error in the extended protocol, discarding until Sync.
Phases == {"ready", "simple", "rows", "done", "copy", "exec", "skip"}

\* id: request; rows: DataRows so far; set: result sets so far; counted: the set whose
\* CommandComplete last carried a row count (0: none).
Progress == [id : Nat, rows : Nat, set : Nat, counted : Nat]
Fresh(id) == [id |-> id, rows |-> 0, set |-> 0, counted |-> 0]

BackendFrames == [kind : BackendKinds, at : Progress, note : Nat]
AsyncKinds == {"NotificationResponse", "NoticeResponse", "Unknown", "Malformed"}

ServerInit == phase = "ready" /\ at = Fresh(0) /\ notes = 0 /\ noise = 0

-----------------------------------------------------------------------------
\* The last frame does not fit into the socket: the server is in the middle of writing it.
Blocked == Len(s2c) - got > S2CCap /\ s2c[Len(s2c)].kind \in LargeBackend

\* The server reads the next frame.
Take(kinds) ==
  /\ up /\ ~Blocked /\ wr > 0 /\ out[1].kind \in kinds
  /\ out' = Tail(out) /\ wr' = wr - 1 /\ enc' = enc - 1

\* The answer being worked on when a frame of request id is read.
Current(id) == IF at.id = id THEN at ELSE Fresh(id)

Send(kind, progress, note) ==
  /\ up /\ ~Blocked
  /\ s2c' = Append(s2c, [kind |-> kind, at |-> progress, note |-> note])

Answer(kind, progress) ==
  /\ Send(kind, progress, 0)
  /\ at' = progress
  /\ UNCHANGED <<readVars, up, notes, noise>>

Silent == UNCHANGED <<s2c, readVars, up, notes, noise>>

---- \* The simple query protocol

ReadQuery ==
  /\ phase = "ready" /\ Take({"Query"})
  /\ phase' = "simple" /\ at' = Fresh(out[1].id)
  /\ Silent

\* A statement that returns rows describes them first.
DescribeRows ==
  /\ phase = "simple" /\ at.set < MaxSets
  /\ phase' = "rows"
  /\ Answer("RowDescription", [at EXCEPT !.set = @ + 1])
  /\ UNCHANGED writeVars

SendRow ==
  /\ phase = "rows" \/ (phase = "exec" /\ at.set > 0)
  /\ at.rows < MaxRows
  /\ Answer("DataRow", [at EXCEPT !.rows = @ + 1])
  /\ UNCHANGED <<phase, writeVars>>

\* The statement that ends next, when it had no result set to number it.
SetOfStatement ==
  IF phase = "simple" \/ (phase = "exec" /\ at.set = 0) THEN at.set + 1 ELSE at.set

\* The end of a statement. Its tag may carry a row count ("INSERT 0 5") or not
\* ("CREATE TABLE").
CompleteCommand ==
  /\ phase \in {"simple", "rows", "exec"}
  /\ phase = "simple" => at.set < MaxSets
  /\ phase' = IF phase = "exec" THEN "ready" ELSE "simple"
  /\ \E counted \in {at.counted, SetOfStatement} :
       Answer("CommandComplete", [at EXCEPT !.set = SetOfStatement, !.counted = counted])
  /\ UNCHANGED writeVars

EmptyQuery ==
  /\ phase \in {"simple", "exec"} /\ at.set = 0
  /\ phase' = IF phase = "exec" THEN "ready" ELSE "done"
  /\ Answer("EmptyQueryResponse", at)
  /\ UNCHANGED writeVars

\* A statement fails. The rest of the request is not executed.
FailStatement ==
  /\ phase \in {"simple", "rows", "exec"}
  /\ phase' = IF phase = "exec" THEN "skip" ELSE "done"
  /\ Answer("ErrorResponse", at)
  /\ UNCHANGED writeVars

EndSimpleQuery ==
  /\ phase = "done" \/ (phase = "simple" /\ at.set > 0)
  /\ phase' = "ready"
  /\ Answer("ReadyForQuery", at)
  /\ UNCHANGED writeVars

\* COPY FROM STDIN: the CopyInResponse has a tag the client does not know.
StartCopy ==
  /\ Copies /\ phase = "simple" /\ at.set < MaxSets
  /\ phase' = "copy"
  /\ Answer("Unknown", [at EXCEPT !.set = @ + 1])
  /\ UNCHANGED writeVars

\* A COPY ignores Flush and Sync, and fails on any other message that is not its data.
InterruptCopy ==
  /\ phase = "copy" /\ Take(FrontendKinds \ {"Terminate"})
  /\ IF out[1].kind \in {"Flush", "Sync"}
       THEN UNCHANGED <<phase, at>> /\ Silent
       ELSE phase' = "done" /\ Answer("ErrorResponse", at)

---- \* The extended query protocol

\* Parse, Bind and Describe each answer at once, or fail.
ReadExtended ==
  /\ phase = "ready" /\ Take({"Parse", "Bind", "Describe"})
  /\ LET p == Current(out[1].id) IN
     \/ /\ phase' = "ready"
        /\ \/ out[1].kind = "Parse" /\ Answer("ParseComplete", p)
           \/ out[1].kind = "Bind" /\ Answer("BindComplete", p)
           \/ out[1].kind = "Describe" /\ Answer("RowDescription", [p EXCEPT !.set = @ + 1])
           \/ out[1].kind = "Describe" /\ Answer("NoData", p)
     \/ /\ phase' = "skip"
        /\ Answer("ErrorResponse", p)

ReadExecute ==
  /\ phase = "ready" /\ Take({"Execute"})
  /\ phase' = "exec" /\ at' = Current(out[1].id)
  /\ Silent

\* Sync ends the extended request, whether it failed or not.
ReadSync ==
  /\ phase \in {"ready", "skip"} /\ Take({"Sync"})
  /\ phase' = "ready"
  /\ Answer("ReadyForQuery", Current(out[1].id))

ReadFlush ==
  /\ phase = "ready" /\ Take({"Flush"})
  /\ UNCHANGED <<phase, at>>
  /\ Silent

\* After an error everything up to Sync is discarded, simple queries included.
Discard ==
  /\ phase = "skip" /\ Take(FrontendKinds \ {"Sync", "Terminate"})
  /\ UNCHANGED <<phase, at>>
  /\ Silent

---- \* The connection

ReadTerminate ==
  /\ phase \in {"ready", "skip", "copy"} /\ Take({"Terminate"})
  /\ up' = FALSE
  /\ UNCHANGED <<phase, at, s2c, readVars, notes, noise>>

Notify ==
  /\ notes < MaxNotes
  /\ Send("NotificationResponse", at, notes + 1)
  /\ notes' = notes + 1
  /\ UNCHANGED <<writeVars, readVars, up, phase, at, noise>>

\* Notices, tags the client does not know, and bodies it cannot decode.
MakeNoise ==
  /\ noise < MaxNoise
  /\ \E kind \in NoiseKinds : Send(kind, at, 0)
  /\ noise' = noise + 1
  /\ UNCHANGED <<writeVars, readVars, up, phase, at, notes>>

\* A FATAL error: the server reports it and closes, in any phase.
Fatal ==
  /\ Crashes /\ Send("ErrorResponse", at, 0)
  /\ up' = FALSE
  /\ UNCHANGED <<writeVars, readVars, phase, at, notes, noise>>

\* The connection is lost, with any part of what was still in the socket.
Lose ==
  /\ Crashes /\ up
  /\ \E n \in got..Len(s2c) : s2c' = SubSeq(s2c, 1, n)
  /\ up' = FALSE
  /\ UNCHANGED <<writeVars, readVars, phase, at, notes, noise>>

\* What a live server does to answer, and so does eventually.
Serve ==
  \/ ReadQuery \/ DescribeRows \/ SendRow \/ CompleteCommand \/ EmptyQuery
  \/ FailStatement \/ EndSimpleQuery \/ StartCopy \/ InterruptCopy
  \/ ReadExtended \/ ReadExecute \/ ReadSync \/ ReadFlush \/ Discard
  \/ ReadTerminate

Environment == Notify \/ MakeNoise \/ Fatal \/ Lose
=============================================================================
