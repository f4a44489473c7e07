--------------------------- MODULE SessionProofs ----------------------------
(***************************************************************************)
(* Proofs about Session, for every number of calls, rows, result sets,      *)
(* notifications and faults, and every pipe capacity.                       *)
(***************************************************************************)
EXTENDS Session, FiniteSetTheorems, TLAPS

-----------------------------------------------------------------------------
(* The stream. *)

\* The typing of the two sequences and of their cursors.
OutType == out \in Seq([kind : FrontendKinds, id : Nat])
             /\ wr \in Nat /\ enc \in Nat /\ wr <= enc /\ enc <= Len(out)
InType  == s2c \in Seq(BackendFrames) /\ got \in Nat /\ got <= Len(s2c)

\* Decoding takes the first message from both the buffer and the sequence.
LEMMA DecodeType ==
  ASSUME NEW kinds, InType, Decode(kinds)
  PROVE  InType' /\ s2c # <<>> /\ Msg \in BackendFrames /\ Msg.kind \in kinds
  BY DEF InType, Decode, Msg

\* The read operations keep the typing.
LEMMA YieldType ==
  ASSUME InType, Yield
  PROVE  InType' /\ Msg \in BackendFrames /\ UNCHANGED <<is_readable, eof, has_errored>>
  BY DecodeType DEF Yield

\* A poll that fails keeps the typing and sets has_errored.
LEMMA YieldErrType ==
  ASSUME InType, YieldErr
  PROVE  InType' /\ has_errored' = TRUE /\ UNCHANGED <<is_readable, eof>>
  BY DecodeType DEF YieldErr, InType

\* A poll that returns None keeps the typing and clears the flags.
LEMMA YieldNoneType ==
  ASSUME InType, YieldNone
  PROVE  InType' /\ has_errored' = FALSE /\ is_readable' = FALSE /\ UNCHANGED eof
  BY DecodeType DEF YieldNone, InType

\* The steps of Framed between two results keep the typing.
LEMMA PumpType ==
  ASSUME InType, {is_readable, eof, has_errored} \subseteq BOOLEAN,
         Fill \/ FillEof \/ NeedMore \/ SkipUnknown
  PROVE  InType' /\ {is_readable, eof, has_errored}' \subseteq BOOLEAN
  <1>1. CASE Fill BY <1>1 DEF Fill, InType
  <1>2. CASE FillEof BY <1>2 DEF FillEof, InType
  <1>3. CASE NeedMore BY <1>3 DEF NeedMore, InType
  <1>4. CASE SkipUnknown BY <1>4, DecodeType DEF SkipUnknown
  <1> QED BY <1>1, <1>2, <1>3, <1>4

\* So do the operations on the other sequence.
LEMMA TakeType ==
  ASSUME NEW kinds, OutType, Take(kinds)
  PROVE  OutType' /\ Len(out) > 0 /\ out[1] \in [kind : FrontendKinds, id : Nat]
           /\ out[1].kind \in kinds
  <1> DEFINE F == [kind : FrontendKinds, id : Nat]
  <1>1. out \in Seq(F) /\ Len(out) > 0 /\ out' = Tail(out) BY DEF OutType, Take
  <1> HIDE DEF F
  <1>2. out' \in Seq(F) /\ Len(out') = Len(out) - 1 /\ out[1] \in F BY <1>1
  <1>3. wr' \in Nat /\ enc' \in Nat /\ wr' <= enc' /\ enc' <= Len(out')
    BY <1>2 DEF OutType, Take
  <1> QED BY <1>1, <1>2, <1>3 DEF OutType, Take, F

\* A frame the server sends goes to the end of a well-typed sequence.
LEMMA SendFrameType ==
  ASSUME NEW kind \in BackendKinds, NEW progress \in Progress, NEW note \in Nat,
         InType, Send(kind, progress, note), got' = got
  PROVE  InType'
  <1> DEFINE f == [kind |-> kind, at |-> progress, note |-> note]
  <1>1. f \in BackendFrames BY DEF BackendFrames
  <1>2. s2c' = Append(s2c, f) BY DEF Send
  <1> HIDE DEF f
  <1> QED BY <1>1, <1>2 DEF InType

\* The frames of a call are well typed, and there is at least one.
LEMMA FramesType ==
  ASSUME NEW o \in AllOps \ {"poll"}, NEW id \in Nat
  PROVE  /\ Frames(o, id) \in Seq([kind : FrontendKinds, id : Nat])
         /\ Len(Frames(o, id)) >= 1
  BY DEF Frames, Script, FrontendKinds, AllOps

-----------------------------------------------------------------------------
(* The type invariant. *)

FlagType   == {is_readable, eof, has_errored, up, clean} \subseteq BOOLEAN
ServerType == phase \in Phases /\ at \in Progress /\ notes \in Nat /\ noise \in Nat
ClientType ==
  /\ pc \in {"idle", "send", "read", "drain", "poll", "closed"}
  /\ op \in AllOps \cup {"none"} /\ call \in Nat
  /\ acc \in Locals /\ result \in Results
  /\ fwd \subseteq Nat /\ drained \subseteq Nat

\* The type invariant is the conjunction of these parts.
LEMMA TypeParts == TypeOK <=> OutType /\ InType /\ FlagType /\ ServerType /\ ClientType
  BY DEF TypeOK, OutType, InType, FlagType, ServerType, ClientType

\* The initial values of the client's variables have their types.
LEMMA ConstantTypes ==
  /\ Fresh(0) \in Progress /\ NoColumns \in Columns /\ NoLocals \in Locals /\ NoResult \in Results
  /\ NoLocals.rows = <<>> /\ NoResult.is = "none" /\ NoResult.locals.rows = <<>>
  <1>1. NoColumns \in Columns BY DEF NoColumns, Columns
  <1>2. NoLocals \in Locals BY <1>1 DEF NoLocals, Locals
  <1>3. Fresh(0) \in Progress BY DEF Fresh, Progress
  <1>4. NoResult \in Results BY <1>2, <1>3 DEF NoResult, Results, Outcomes
  <1> QED BY <1>1, <1>2, <1>3, <1>4 DEF NoResult, NoLocals

\* A server step keeps the types, and leaves the read half of the client alone.
LEMMA AnswerType ==
  ASSUME NEW kind \in BackendKinds, NEW progress \in Progress,
         InType, ServerType, Answer(kind, progress)
  PROVE  InType' /\ at' \in Progress /\ UNCHANGED <<readVars, up, notes, noise>>
  BY SendFrameType DEF Answer, readVars

\* Every step of the server's answers keeps the typing.
LEMMA ServeType ==
  ASSUME OutType, InType, ServerType, FlagType, Serve
  PROVE  /\ OutType' /\ InType' /\ ServerType' /\ up' \in BOOLEAN
         /\ UNCHANGED <<is_readable, eof, has_errored>>
  <1> USE DEF readVars, ServerType, Phases
  <1>0. /\ \A id \in Nat : Fresh(id) \in Progress /\ Current(id) \in Progress
        /\ at.set \in Nat /\ at.rows \in Nat /\ at.counted \in Nat
        /\ \A p \in Progress : [p EXCEPT !.set = @ + 1] \in Progress
        /\ \A p \in Progress : [p EXCEPT !.rows = @ + 1] \in Progress
        /\ \A s, c \in Nat : [at EXCEPT !.set = s, !.counted = c] \in Progress
        /\ up \in BOOLEAN
    <2>1. \A id \in Nat : Fresh(id) \in Progress /\ Current(id) \in Progress
      BY DEF Fresh, Current, Progress
    <2>2. \A p \in Progress : [p EXCEPT !.set = @ + 1] \in Progress
                             /\ [p EXCEPT !.rows = @ + 1] \in Progress
      BY DEF Progress
    <2>3. \A s, c \in Nat : [at EXCEPT !.set = s, !.counted = c] \in Progress
      BY DEF Progress
    <2>4. at.set \in Nat /\ at.rows \in Nat /\ at.counted \in Nat /\ up \in BOOLEAN
      BY DEF Progress, FlagType
    <2> QED BY <2>1, <2>2, <2>3, <2>4
  <1>a. UNCHANGED writeVars => OutType' BY DEF writeVars, OutType
  <1>b. UNCHANGED <<s2c, got>> => InType' BY DEF InType
  <1>c. Silent => InType' /\ UNCHANGED <<is_readable, eof, has_errored, up, notes, noise>>
    BY <1>b DEF Silent
  <1>k. {"RowDescription", "DataRow", "CommandComplete", "EmptyQueryResponse", "ReadyForQuery",
         "ErrorResponse", "ParseComplete", "BindComplete", "NoData", "Unknown"} \subseteq BackendKinds
    BY DEF BackendKinds, KnownKinds
  <1>1. CASE ReadQuery BY <1>1, <1>0, <1>c, TakeType DEF ReadQuery
  <1>2. CASE DescribeRows BY <1>2, <1>0, <1>a, <1>k, AnswerType DEF DescribeRows
  <1>3. CASE SendRow BY <1>3, <1>0, <1>a, <1>k, AnswerType DEF SendRow
  <1>4. CASE CompleteCommand
    <2>1. PICK c \in {at.counted, SetOfStatement} :
            Answer("CommandComplete", [at EXCEPT !.set = SetOfStatement, !.counted = c])
      BY <1>4 DEF CompleteCommand
    <2>0. at.set \in Nat BY <1>0
    <2>2. SetOfStatement \in Nat BY ONLY <2>0 DEF SetOfStatement
    <2>3. c \in Nat BY <2>1, <2>2, <1>0
    <2>4. InType' /\ at' \in Progress /\ UNCHANGED <<readVars, up, notes, noise>>
      BY <2>1, <2>2, <2>3, <1>0, <1>k, AnswerType
    <2> QED BY <1>4, <2>4, <1>0, <1>a, <1>k, AnswerType DEF CompleteCommand
  <1>5. CASE EmptyQuery BY <1>5, <1>0, <1>a, <1>k, AnswerType DEF EmptyQuery
  <1>6. CASE FailStatement BY <1>6, <1>0, <1>a, <1>k, AnswerType DEF FailStatement
  <1>7. CASE EndSimpleQuery BY <1>7, <1>0, <1>a, <1>k, AnswerType DEF EndSimpleQuery
  <1>8. CASE StartCopy BY <1>8, <1>0, <1>a, <1>k, AnswerType DEF StartCopy
  <1>9. CASE InterruptCopy BY <1>9, <1>0, <1>c, <1>k, AnswerType, TakeType DEF InterruptCopy
  <1>10. CASE ReadExtended
    <2>1. OutType' /\ out[1].id \in Nat BY <1>10, TakeType DEF ReadExtended
    <2> QED BY <1>10, <2>1, <1>0, <1>k, AnswerType DEF ReadExtended
  <1>11. CASE ReadExecute BY <1>11, <1>0, <1>c, TakeType DEF ReadExecute
  <1>12. CASE ReadSync BY <1>12, <1>0, <1>k, AnswerType, TakeType DEF ReadSync
  <1>13. CASE ReadFlush BY <1>13, <1>0, <1>c, TakeType DEF ReadFlush
  <1>14. CASE Discard BY <1>14, <1>0, <1>c, TakeType DEF Discard
  <1>15. CASE ReadTerminate BY <1>15, <1>0, <1>b, TakeType DEF ReadTerminate
  <1> QED
    BY <1>1, <1>2, <1>3, <1>4, <1>5, <1>6, <1>7, <1>8, <1>9, <1>10, <1>11, <1>12, <1>13,
       <1>14, <1>15 DEF Serve

\* So do notifications, other asynchronous frames and the loss of the connection.
LEMMA EnvironmentType ==
  ASSUME OutType, InType, ServerType, FlagType, Environment
  PROVE  /\ OutType' /\ InType' /\ ServerType' /\ up' \in BOOLEAN
         /\ UNCHANGED <<is_readable, eof, has_errored>>
  <1> USE DEF readVars, ServerType
  <1>0. up \in BOOLEAN /\ (UNCHANGED writeVars => OutType')
    BY DEF writeVars, OutType, FlagType
  <1>k. {"NotificationResponse", "ErrorResponse"} \cup NoiseKinds \subseteq BackendKinds
    BY BackendAssumption DEF BackendKinds, KnownKinds
  <1>1. CASE Notify BY <1>1, <1>0, <1>k, SendFrameType DEF Notify
  <1>2. CASE MakeNoise BY <1>2, <1>0, <1>k, SendFrameType DEF MakeNoise
  <1>3. CASE Fatal BY <1>3, <1>0, <1>k, SendFrameType DEF Fatal
  <1>4. CASE Lose
    <2>1. PICK n \in got..Len(s2c) : s2c' = SubSeq(s2c, 1, n) BY <1>4 DEF Lose
    <2>2. InType' BY <1>4, <2>1 DEF Lose, InType
    <2> QED BY <1>4, <2>2, <1>0 DEF Lose
  <1> QED BY <1>1, <1>2, <1>3, <1>4 DEF Environment

\* What the client makes of a message has the type of its variables.
LEMMA MsgTypes ==
  ASSUME NEW m \in BackendFrames, NEW columns \in Columns
  PROVE  ColumnsOf(m) \in Columns /\ RowOf(m, columns) \in Rows
           /\ m.at \in Progress /\ m.at.set \in Nat /\ m.note \in Nat
  BY DEF BackendFrames, Progress, ColumnsOf, RowOf, Columns, Rows

\* A call that returns leaves the client's variables well typed.
LEMMA ReturnType ==
  ASSUME NEW is \in Outcomes, NEW last \in Progress, ClientType, Return(is, last)
  PROVE  /\ pc' = "idle" /\ op' = "none" /\ acc' \in Locals /\ result' \in Results
         /\ acc'.rows = <<>> /\ result'.is = is /\ result'.at = last /\ result'.op = op
         /\ result'.locals = acc
  BY ConstantTypes DEF Return, ClientType, Results

\* Beginning a call keeps the typing.
LEMMA BeginType ==
  ASSUME NEW o \in Ops, OutType, ClientType, Begin(o)
  PROVE  OutType' /\ ClientType'
  <1> DEFINE F == [kind : FrontendKinds, id : Nat]
             fs == Frames(o, call + 1)
  <1>1. o \in AllOps \ {"poll"} /\ call + 1 \in Nat
    BY SessionAssumption DEF Begin, ClientType
  <1>2. fs \in Seq(F) /\ Len(fs) >= 1 BY <1>1, FramesType
  <1>3. out \in Seq(F) /\ out' = out \o fs BY DEF OutType, Begin
  <1>4. wr' = wr /\ enc' \in {enc, enc + 1} BY DEF Begin
  <1> HIDE DEF F, fs
  <1>5. out' \in Seq(F) /\ Len(out') = Len(out) + Len(fs) BY <1>2, <1>3
  <1>6. OutType' BY <1>2, <1>4, <1>5 DEF OutType, F
  <1>7. ClientType' BY <1>1, ConstantTypes DEF Begin, ClientType
  <1> QED BY <1>6, <1>7

\* The steps that send, begin or drop.
LEMMA SendingType ==
  ASSUME OutType, InType, FlagType, ServerType, ClientType,
         SendNext \/ FlushNext \/ SendDone \/ SendFails \/ Application
  PROVE  OutType' /\ InType' /\ FlagType' /\ ServerType' /\ ClientType'
  <1> USE DEF writeVars, readVars, serverVars, clientVars
  <1>s. UNCHANGED <<s2c, got>> => InType' BY DEF InType
  <1>f. UNCHANGED <<is_readable, eof, has_errored, up>> /\ clean' \in BOOLEAN => FlagType'
    BY DEF FlagType
  <1>v. UNCHANGED serverVars => ServerType' BY DEF ServerType
  <1>o. UNCHANGED writeVars => OutType' BY DEF OutType
  <1>b. clean \in BOOLEAN BY DEF FlagType
  <1>c. WriteError \/ AbandonWrites => OutType' BY SMTT(30) DEF WriteError, AbandonWrites, OutType
  <1>z. Fresh(0) \in Progress /\ "err" \in Outcomes BY ConstantTypes DEF Outcomes
  <1>1. CASE SendNext
    <2>1. OutType' BY <1>1 DEF SendNext, Encode, OutType
    <2> QED BY <1>1, <2>1, <1>s, <1>f, <1>v, <1>b DEF SendNext, ClientType
  <1>2. CASE FlushNext
    <2>1. OutType' BY <1>2 DEF FlushNext, Flush, OutType
    <2> QED BY <1>2, <2>1, <1>s, <1>f, <1>v, <1>b DEF FlushNext, ClientType
  <1>3. CASE SendDone
    <2>1. ClientType' BY <1>3 DEF SendDone, ClientType
    <2> QED BY <1>3, <2>1, <1>s, <1>f, <1>v, <1>b, <1>o DEF SendDone
  <1>4. CASE SendFails
    <2>1. ClientType' BY <1>4, <1>z, ReturnType DEF SendFails, ClientType
    <2> QED BY <1>4, <2>1, <1>s, <1>f, <1>v, <1>c DEF SendFails
  <1>5. CASE BeginPoll
    <2>1. ClientType' BY <1>5, ConstantTypes DEF BeginPoll, ClientType, AllOps
    <2> QED BY <1>5, <2>1, <1>s, <1>f, <1>v, <1>b, <1>o DEF BeginPoll
  <1>6. CASE \E o \in Ops : Begin(o)
    <2>1. PICK o \in Ops : Begin(o) BY <1>6
    <2>2. OutType' /\ ClientType' BY <2>1, BeginType
    <2> QED BY <2>1, <2>2, <1>s, <1>f, <1>v, <1>b DEF Begin
  <1>7. CASE DropWhileSending
    <2>1. ClientType' BY <1>7 DEF DropWhileSending, ClientType
    <2> QED BY <1>7, <2>1, <1>s, <1>f, <1>v, <1>c DEF DropWhileSending
  <1>8. CASE DropWhileReading
    <2>1. ClientType' BY <1>8, ConstantTypes DEF DropWhileReading, ClientType
    <2> QED BY <1>8, <2>1, <1>s, <1>f, <1>v, <1>b, <1>o DEF DropWhileReading
  <1> QED BY <1>1, <1>2, <1>3, <1>4, <1>5, <1>6, <1>7, <1>8 DEF Application

\* The steps that read.
LEMMA ReadingType ==
  ASSUME OutType, InType, FlagType, ServerType, ClientType, Pump \/ Read \/ Drain \/ Poll
  PROVE  OutType' /\ InType' /\ FlagType' /\ ServerType' /\ ClientType'
  <1> USE DEF writeVars, serverVars, clientVars
  <1>v. UNCHANGED serverVars => ServerType' BY DEF ServerType
  <1>o. UNCHANGED writeVars => OutType' BY DEF OutType
  <1>b. clean \in BOOLEAN BY DEF FlagType
  <1>f. ASSUME UNCHANGED up, clean' \in BOOLEAN, {is_readable, eof, has_errored}' \subseteq BOOLEAN
        PROVE  FlagType'
    BY <1>f DEF FlagType
  <1>z. Fresh(0) \in Progress /\ {"err", "eof", "ok", "db", "more"} \subseteq Outcomes
    BY ConstantTypes DEF Outcomes
  <1>m. ASSUME Yield
        PROVE  /\ InType' /\ Msg.at \in Progress /\ Msg.at.set \in Nat /\ Msg.note \in Nat
               /\ \A columns \in Columns : RowOf(Msg, columns) \in Rows
               /\ ColumnsOf(Msg) \in Columns
               /\ {is_readable, eof, has_errored}' \subseteq BOOLEAN
    BY <1>m, YieldType, MsgTypes, ConstantTypes DEF FlagType
  <1>e. ASSUME YieldErr \/ YieldNone
        PROVE  InType' /\ {is_readable, eof, has_errored}' \subseteq BOOLEAN
    BY <1>e, YieldErrType, YieldNoneType DEF FlagType
  <1>1. CASE Pump
    <2>1. InType' /\ {is_readable, eof, has_errored}' \subseteq BOOLEAN
      BY <1>1, PumpType DEF Pump, FlagType
    <2>2. ClientType' BY <1>1 DEF Pump, ClientType
    <2> QED BY <1>1, <2>1, <2>2, <1>v, <1>o, <1>b, <1>f DEF Pump
  <1>2. ASSUME NEW kinds, Receive(kinds), ClientType'
        PROVE  OutType' /\ InType' /\ FlagType' /\ ServerType' /\ ClientType'
    BY <1>2, <1>m, <1>v, <1>o, <1>b, <1>f DEF Receive
  <1>3. ASSUME NEW kinds, Receive(kinds), acc' \in Locals, UNCHANGED <<pc, op, result, fwd, drained>>
        PROVE  ClientType'
    BY <1>3 DEF Receive, ClientType
  <1>4. CASE OnRowDescription
    <2>1. acc' \in Locals BY <1>4, <1>m DEF OnRowDescription, Receive, ClientType, Locals
    <2> QED BY <1>4, <2>1, <1>2, <1>3 DEF OnRowDescription
  <1>5. CASE OnDataRow
    <2>1. acc.columns \in Columns /\ acc.rows \in Seq(Rows) BY DEF ClientType, Locals
    <2>2. RowOf(Msg, acc.columns) \in Rows BY <1>5, <1>m, <2>1 DEF OnDataRow, Receive
    <2>3. Append(acc.rows, RowOf(Msg, acc.columns)) \in Seq(Rows) BY <2>1, <2>2
    <2>4. acc' \in Locals BY <1>5, <2>3 DEF OnDataRow, ClientType, Locals
    <2> QED BY <1>5, <2>4, <1>2, <1>3 DEF OnDataRow
  <1>6. CASE OnCommandComplete
    <2>1. acc' \in Locals BY <1>6, <1>m DEF OnCommandComplete, Receive, ClientType, Locals
    <2> QED BY <1>6, <2>1, <1>2, <1>3 DEF OnCommandComplete
  <1>7. CASE OnReadyForQuery
    <2>1. ClientType'
      BY <1>7, <1>m, <1>z, ReturnType DEF OnReadyForQuery, Receive, ClientType
    <2> QED BY <1>7, <2>1, <1>2 DEF OnReadyForQuery
  <1>8. CASE OnErrorResponse
    <2>1. result' \in Results
      BY <1>8, <1>m, ConstantTypes DEF OnErrorResponse, Receive, ClientType, Results
    <2>2. ClientType' BY <1>8, <2>1 DEF OnErrorResponse, Receive, ClientType
    <2> QED BY <1>8, <2>2, <1>2 DEF OnErrorResponse
  <1>9. CASE OnNotification
    <2>1. ClientType' BY <1>9, <1>m DEF OnNotification, Receive, ClientType
    <2> QED BY <1>9, <2>1, <1>2 DEF OnNotification
  <1>10. CASE OnOther
    <2>1. ClientType' BY <1>10 DEF OnOther, Receive, ClientType
    <2> QED BY <1>10, <2>1, <1>2 DEF OnOther
  <1>11. CASE ReadFails
    <2>1. ClientType' BY <1>11, <1>z, ReturnType DEF ReadFails, ClientType
    <2> QED BY <1>11, <2>1, <1>e, <1>v, <1>o, <1>f DEF ReadFails
  <1>12. CASE DrainMessage
    <2>1. result.at \in Progress BY DEF ClientType, Results
    <2>2. drained' \subseteq Nat BY <1>12, <1>m DEF DrainMessage, ClientType
    <2>3. ClientType' BY <1>12, <2>1, <2>2, <1>z, ReturnType DEF DrainMessage, ClientType
    <2> QED BY <1>12, <2>3, <1>m, <1>v, <1>o, <1>b, <1>f DEF DrainMessage
  <1>13. CASE DrainError
    <2>1. ClientType' BY <1>13 DEF DrainError, ClientType
    <2> QED BY <1>13, <2>1, <1>e, <1>v, <1>o, <1>f DEF DrainError
  <1>14. CASE DrainNone
    <2>1. result.at \in Progress BY DEF ClientType, Results
    <2>2. ClientType' BY <1>14, <2>1, <1>z, ReturnType DEF DrainNone, ClientType
    <2> QED BY <1>14, <2>2, <1>e, <1>v, <1>o, <1>f DEF DrainNone
  <1>15. CASE PollMessage
    <2>1. fwd' \subseteq Nat BY <1>15, <1>m DEF PollMessage, ClientType
    <2>2. ClientType' BY <1>15, <2>1, <1>m, <1>z, ReturnType DEF PollMessage, ClientType
    <2> QED BY <1>15, <2>2, <1>m, <1>v, <1>o, <1>b, <1>f DEF PollMessage
  <1>16. CASE PollEnds
    <2>1. ClientType' BY <1>16, <1>z, ReturnType DEF PollEnds, ClientType
    <2> QED BY <1>16, <2>1, <1>e, <1>v, <1>o, <1>f DEF PollEnds
  <1> QED
    BY <1>1, <1>4, <1>5, <1>6, <1>7, <1>8, <1>9, <1>10, <1>11, <1>12, <1>13, <1>14, <1>15, <1>16
    DEF Read, Drain, Poll

\* Every variable has its type and every cursor stays within its sequence, in every
\* reachable state and for every value of the constants.
THEOREM TypeCorrect == Spec => []TypeOK
  <1>1. Init => TypeOK
    <2> SUFFICES ASSUME Init PROVE TypeOK OBVIOUS
    <2>0. \A S : <<>> \in Seq(S) /\ Len(<<>>) = 0 OBVIOUS
    <2>1. OutType /\ InType BY <2>0 DEF Init, StreamInit, OutType, InType
    <2>a. FlagType BY DEF Init, StreamInit, FlagType
    <2>2. ServerType BY ConstantTypes DEF Init, ServerInit, ServerType, Phases
    <2>3. ClientType BY ConstantTypes DEF Init, ClientType
    <2> QED BY <2>1, <2>a, <2>2, <2>3, TypeParts
  <1>2. TypeOK /\ [Next]_vars => TypeOK'
    <2> SUFFICES ASSUME OutType, InType, FlagType, ServerType, ClientType, [Next]_vars
                 PROVE  OutType' /\ InType' /\ FlagType' /\ ServerType' /\ ClientType'
      BY TypeParts DEF TypeOK, OutType, InType, FlagType, ServerType, ClientType
    <2>1. CASE ClientStep BY <2>1, SendingType, ReadingType DEF ClientStep
    <2>2. CASE Application BY <2>2, SendingType
    <2>3. CASE ServerStep
      <3>1. UNCHANGED clientVars BY <2>3 DEF ServerStep
      <3>2. /\ OutType' /\ InType' /\ ServerType' /\ up' \in BOOLEAN
            /\ UNCHANGED <<is_readable, eof, has_errored>>
        BY <2>3, ServeType, EnvironmentType DEF ServerStep
      <3>3. FlagType' BY <3>1, <3>2 DEF FlagType, clientVars
      <3>4. ClientType' BY <3>1 DEF ClientType, clientVars
      <3> QED BY <3>2, <3>3, <3>4
    <2>4. CASE UNCHANGED vars
      BY <2>4 DEF vars, writeVars, readVars, serverVars, clientVars,
                  OutType, InType, FlagType, ServerType, ClientType
    <2> QED BY <2>1, <2>2, <2>3, <2>4 DEF Next
  <1> QED BY <1>1, <1>2, PTL DEF Spec

-----------------------------------------------------------------------------
(* The inductive invariant. *)

\* A property of the two sequences survives a step that takes the head or adds a tail.
LEMMA TakeShifts ==
  ASSUME NEW kinds, OutType, Take(kinds)
  PROVE  /\ Len(out) \in Nat /\ Len(out) > 0 /\ Len(out') = Len(out) - 1
         /\ \A i \in 1..Len(out') : out'[i] = out[i + 1]
         /\ out[1].kind \in kinds
  <1> DEFINE F == [kind : FrontendKinds, id : Nat]
  <1>1. out \in Seq(F) /\ Len(out) > 0 /\ out' = Tail(out) /\ out[1].kind \in kinds
    BY DEF OutType, Take
  <1> HIDE DEF F
  <1> QED BY <1>1

\* Decoding moves every frame to the client one place forward.
LEMMA DecodeShifts ==
  ASSUME NEW kinds, InType, Decode(kinds)
  PROVE  /\ Len(s2c) \in Nat /\ Len(s2c) > 0 /\ Len(s2c') = Len(s2c) - 1
         /\ \A i \in 1..Len(s2c') : s2c'[i] = s2c[i + 1]
         /\ Msg = s2c[1] /\ Msg.kind \in kinds
  <1>1. s2c \in Seq(BackendFrames) /\ Len(s2c) > 0 /\ s2c' = Tail(s2c) /\ s2c[1].kind \in kinds
    BY DEF InType, Decode
  <1> QED BY <1>1 DEF Msg

\* Sending leaves the frames to the client in place and adds one behind them.
LEMMA SendAppends ==
  ASSUME NEW kind \in BackendKinds, NEW progress \in Progress, NEW note \in Nat,
         InType, Send(kind, progress, note)
  PROVE  /\ Len(s2c) \in Nat /\ Len(s2c') = Len(s2c) + 1
         /\ \A i \in 1..Len(s2c) : s2c'[i] = s2c[i]
         /\ s2c'[Len(s2c) + 1].kind = kind /\ s2c'[Len(s2c) + 1].at = progress
  <1> DEFINE f == [kind |-> kind, at |-> progress, note |-> note]
  <1>1. f \in BackendFrames /\ f.kind = kind /\ f.at = progress BY DEF BackendFrames
  <1>2. s2c' = Append(s2c, f) BY DEF Send
  <1> HIDE DEF f
  <1> QED BY <1>1, <1>2 DEF InType

\* The client's steps leave OutInv and PhaseInv alone as long as the call goes on.
LEMMA OutInvKept ==
  ASSUME OutInv, PhaseInv, UNCHANGED <<out, phase, at, call>>, InCall' = InCall,
         pc \in {"send", "read", "drain", "closed"} => pc' \in {"send", "read", "drain", "closed"}
  PROVE  OutInv' /\ PhaseInv'
  BY DEF OutInv, PhaseInv

\* With nothing but Flush on the way and a ready server, any client state will do.
LEMMA OutInvQuiet ==
  ASSUME \A i \in 1..Len(out) : out[i].kind = "Flush", phase = "ready",
         UNCHANGED <<out, phase>>
  PROVE  OutInv' /\ PhaseInv'
  BY DEF OutInv, PhaseInv, SyncKinds, ExtendedKinds

\* The server takes a frame.
LEMMA OutInvTake ==
  ASSUME NEW kinds, OutType, OutInv, Take(kinds), UNCHANGED clientVars,
         phase' \in {"ready", "exec", "skip"}
           \/ \A i \in 1..Len(out') : out'[i].kind \notin SyncKinds
  PROVE  OutInv'
  <1> USE DEF clientVars
  <1>1. /\ Len(out) \in Nat /\ Len(out) > 0 /\ Len(out') = Len(out) - 1
        /\ \A i \in 1..Len(out') : out'[i] = out[i + 1]
    BY TakeShifts
  <1>2. InCall' = InCall BY DEF InCall, Pending
  <1> SUFFICES ASSUME NEW i \in 1..Len(out')
      PROVE /\ out'[i].kind # "Flush" => out'[i].id = call /\ pc \in {"send", "read", "drain", "closed"}
            /\ out'[i].kind # "Flush" => (InCall <=> out'[i].kind \in SyncKinds \cup ExtendedKinds)
            /\ out'[i].kind \in SyncKinds => \A j \in (i + 1)..Len(out') : out'[j].kind = "Flush"
            /\ out'[i].kind \in ExtendedKinds => \E j \in (i + 1)..Len(out') : out'[j].kind = "Sync"
            /\ out'[i].kind \in SyncKinds => phase' \in {"ready", "exec", "skip"}
    BY <1>2 DEF OutInv, SyncKinds, ExtendedKinds
  <1>3. i + 1 \in 1..Len(out) /\ out'[i] = out[i + 1] BY <1>1
  <1>4. /\ out'[i].kind # "Flush" => out'[i].id = call /\ pc \in {"send", "read", "drain", "closed"}
        /\ out'[i].kind # "Flush" => (InCall <=> out'[i].kind \in SyncKinds \cup ExtendedKinds)
    BY <1>3 DEF OutInv
  <1>5. ASSUME out'[i].kind \in SyncKinds, NEW j \in (i + 1)..Len(out')
        PROVE  out'[j].kind = "Flush"
    <2>1. j + 1 \in (i + 1 + 1)..Len(out) /\ out'[j] = out[j + 1] BY <1>1
    <2> QED BY <1>3, <1>5, <2>1 DEF OutInv
  <1>6. ASSUME out'[i].kind \in ExtendedKinds
        PROVE  \E j \in (i + 1)..Len(out') : out'[j].kind = "Sync"
    <2>1. PICK j \in (i + 1 + 1)..Len(out) : out[j].kind = "Sync" BY <1>3, <1>6 DEF OutInv
    <2>2. j - 1 \in (i + 1)..Len(out') /\ out'[j - 1] = out[j] BY <1>1, <2>1
    <2> QED BY <2>1, <2>2
  <1>7. out'[i].kind \in SyncKinds => phase' \in {"ready", "exec", "skip"} OBVIOUS
  <1> QED BY <1>4, <1>5, <1>6, <1>7

\* The server sends a message: an asynchronous one, or an answer when its ReadyForQuery
\* has not been sent.
LEMMA InInvSend ==
  ASSUME NEW kind \in BackendKinds, NEW progress \in Progress, NEW note \in Nat,
         InType, InInv, Send(kind, progress, note), UNCHANGED clientVars,
         up' => up,
         kind \notin QuietKinds' => InCall /\ progress.id = call,
         \/ \A i \in 1..Len(s2c) : s2c[i].kind # "ReadyForQuery"
         \/ /\ kind \in QuietKinds' /\ phase' = phase
            /\ UNCHANGED out,
         kind = "ReadyForQuery" => phase' = "ready" /\ \A j \in 1..Len(out') : out'[j].kind = "Flush"
  PROVE  InInv'
  <1> USE DEF clientVars
  <1>1. /\ Len(s2c) \in Nat /\ Len(s2c') = Len(s2c) + 1
        /\ \A i \in 1..Len(s2c) : s2c'[i] = s2c[i]
        /\ s2c'[Len(s2c) + 1].kind = kind /\ s2c'[Len(s2c) + 1].at = progress
    BY SendAppends
  <1>2. InCall' = InCall BY DEF InCall, Pending
  <1>3. QuietKinds \subseteq QuietKinds' /\ "ReadyForQuery" \notin QuietKinds'
    BY DEF QuietKinds, AsyncKinds
  <1> SUFFICES ASSUME NEW i \in 1..Len(s2c')
      PROVE /\ s2c'[i].kind \notin QuietKinds' => InCall /\ s2c'[i].at.id = call
            /\ s2c'[i].kind = "ReadyForQuery" =>
                 /\ phase' = "ready"
                 /\ \A j \in 1..Len(out') : out'[j].kind = "Flush"
                 /\ \A j \in (i + 1)..Len(s2c') : s2c'[j].kind \in QuietKinds'
    BY <1>2 DEF InInv
  <1>4. CASE i \in 1..Len(s2c)
    <2>1. s2c'[i] = s2c[i] BY <1>1, <1>4
    <2>2. s2c'[i].kind \notin QuietKinds' => InCall /\ s2c'[i].at.id = call
      BY <2>1, <1>3, <1>4 DEF InInv
    <2>3. ASSUME s2c'[i].kind = "ReadyForQuery"
          PROVE  /\ phase' = "ready"
                 /\ \A j \in 1..Len(out') : out'[j].kind = "Flush"
                 /\ \A j \in (i + 1)..Len(s2c') : s2c'[j].kind \in QuietKinds'
      <3>1. kind \in QuietKinds' /\ phase' = phase /\ UNCHANGED out BY <2>1, <2>3, <1>4
      <3>2. /\ phase = "ready" /\ \A j \in 1..Len(out) : out[j].kind = "Flush"
            /\ \A j \in (i + 1)..Len(s2c) : s2c[j].kind \in QuietKinds
        BY <2>1, <2>3, <1>4 DEF InInv
      <3>3. ASSUME NEW j \in (i + 1)..Len(s2c') PROVE s2c'[j].kind \in QuietKinds'
        BY <3>1, <3>2, <1>1, <1>3
      <3> QED BY <3>1, <3>2, <3>3
    <2> QED BY <2>2, <2>3
  <1>5. CASE i = Len(s2c) + 1
    <2>1. (i + 1)..Len(s2c') = {} BY <1>1, <1>5
    <2> QED BY <1>1, <1>5, <2>1
  <1> QED BY <1>1, <1>4, <1>5

\* The client reads a message, and the call goes on.
LEMMA InInvDecode ==
  ASSUME NEW kinds, InType, InInv, Decode(kinds), UNCHANGED <<out, phase, up, call>>,
         InCall => InCall'
  PROVE  InInv'
  <1>1. /\ Len(s2c) \in Nat /\ Len(s2c) > 0 /\ Len(s2c') = Len(s2c) - 1
        /\ \A i \in 1..Len(s2c') : s2c'[i] = s2c[i + 1]
    BY DecodeShifts
  <1>2. QuietKinds' = QuietKinds BY DEF QuietKinds
  <1> SUFFICES ASSUME NEW i \in 1..Len(s2c')
      PROVE /\ s2c'[i].kind \notin QuietKinds => InCall' /\ s2c'[i].at.id = call
            /\ s2c'[i].kind = "ReadyForQuery" =>
                 /\ phase = "ready"
                 /\ \A j \in 1..Len(out) : out[j].kind = "Flush"
                 /\ \A j \in (i + 1)..Len(s2c') : s2c'[j].kind \in QuietKinds
    BY <1>2 DEF InInv
  <1>3. i + 1 \in 1..Len(s2c) /\ s2c'[i] = s2c[i + 1] BY <1>1
  <1>4. \A j \in (i + 1)..Len(s2c') : j + 1 \in (i + 1 + 1)..Len(s2c) /\ s2c'[j] = s2c[j + 1]
    BY <1>1
  <1> QED BY <1>3, <1>4 DEF InInv

\* The client reads ReadyForQuery: nothing of the call is left.
LEMMA ReadyIsLast ==
  ASSUME InType, InInv, Decode({"ReadyForQuery"}) \/ (Decode(KnownKinds) /\ Msg.kind = "ReadyForQuery"),
         UNCHANGED <<out, phase, at, up>>
  PROVE  OutInv' /\ PhaseInv' /\ InInv' /\ InCall /\ Msg.at.id = call
  <1>1. /\ Len(s2c) \in Nat /\ Len(s2c) > 0 /\ Len(s2c') = Len(s2c) - 1
        /\ \A i \in 1..Len(s2c') : s2c'[i] = s2c[i + 1]
        /\ Msg = s2c[1] /\ Msg.kind = "ReadyForQuery"
    BY DecodeShifts
  <1>2. "ReadyForQuery" \notin QuietKinds BY DEF QuietKinds, AsyncKinds
  <1>3. /\ InCall /\ Msg.at.id = call /\ phase = "ready"
        /\ \A j \in 1..Len(out) : out[j].kind = "Flush"
        /\ \A j \in 2..Len(s2c) : s2c[j].kind \in QuietKinds
    BY <1>1, <1>2 DEF InInv
  <1>4. OutInv' /\ PhaseInv' BY <1>3, OutInvQuiet
  <1>5. QuietKinds' = QuietKinds BY DEF QuietKinds
  <1>6. \A i \in 1..Len(s2c') : s2c'[i].kind \in QuietKinds' BY <1>1, <1>3, <1>5
  <1>7. InInv' BY <1>2, <1>5, <1>6 DEF InInv
  <1> QED BY <1>3, <1>4, <1>7

StreamInv == OutInv /\ PhaseInv /\ InInv

\* The answers of a working server belong to the call in progress.
LEMMA AnswerInv ==
  ASSUME NEW kind \in BackendKinds, NEW progress \in Progress,
         InType, InInv, Answer(kind, progress), UNCHANGED clientVars,
         InCall, progress.id = call,
         phase # "ready" \/ \E i \in 1..Len(out) : out[i].kind # "Flush",
         kind = "ReadyForQuery" => phase' = "ready" /\ \A j \in 1..Len(out') : out'[j].kind = "Flush"
  PROVE  InInv' /\ at' = progress
  <1>1. \A i \in 1..Len(s2c) : s2c[i].kind # "ReadyForQuery" BY DEF InInv
  <1>2. Send(kind, progress, 0) /\ up' = up /\ at' = progress BY DEF Answer
  <1> QED BY <1>1, <1>2, InInvSend

\* What the server finds when it reads a frame of a request.
LEMMA TakeRequest ==
  ASSUME NEW kinds, OutType, OutInv, Take(kinds), "Flush" \notin kinds
  PROVE  /\ Len(out) > 0 /\ out[1].kind \in kinds /\ out[1].id = call
         /\ \E i \in 1..Len(out) : out[i].kind # "Flush"
         /\ InCall <=> out[1].kind \in SyncKinds \cup ExtendedKinds
         /\ out[1].kind \in SyncKinds => \A j \in 1..Len(out') : out'[j].kind = "Flush"
         /\ out[1].kind \in ExtendedKinds => \E j \in 1..Len(out') : out'[j].kind = "Sync"
  <1>1. /\ Len(out) \in Nat /\ Len(out) > 0 /\ Len(out') = Len(out) - 1
        /\ \A i \in 1..Len(out') : out'[i] = out[i + 1]
        /\ out[1].kind \in kinds
    BY TakeShifts
  <1>2. 1 \in 1..Len(out) /\ out[1].kind # "Flush" BY <1>1
  <1>3. out[1].kind \in SyncKinds => \A j \in 1..Len(out') : out'[j].kind = "Flush"
    <2> SUFFICES ASSUME out[1].kind \in SyncKinds, NEW j \in 1..Len(out')
                 PROVE  out'[j].kind = "Flush"
      OBVIOUS
    <2>1. j + 1 \in (1 + 1)..Len(out) /\ out'[j] = out[j + 1] BY <1>1
    <2> QED BY <1>2, <2>1 DEF OutInv
  <1>4. ASSUME out[1].kind \in ExtendedKinds
        PROVE  \E j \in 1..Len(out') : out'[j].kind = "Sync"
    <2>1. PICK j \in (1 + 1)..Len(out) : out[j].kind = "Sync" BY <1>2, <1>4 DEF OutInv
    <2>2. j - 1 \in 1..Len(out') /\ out'[j - 1] = out[j] BY <1>1, <2>1
    <2> QED BY <2>1, <2>2
  <1> QED BY <1>1, <1>2, <1>3, <1>4 DEF OutInv

\* A Sync that the server still has to read, behind the frame it reads now.
LEMMA SyncStays ==
  ASSUME NEW kinds, OutType, Take(kinds), "Sync" \notin kinds,
         \E i \in 1..Len(out) : out[i].kind = "Sync"
  PROVE  \E i \in 1..Len(out') : out'[i].kind = "Sync"
  <1>1. /\ Len(out) \in Nat /\ Len(out') = Len(out) - 1 /\ out[1].kind \in kinds
        /\ \A i \in 1..Len(out') : out'[i] = out[i + 1]
    BY TakeShifts
  <1>2. PICK i \in 1..Len(out) : out[i].kind = "Sync" BY Zenon
  <1>3. i - 1 \in 1..Len(out') /\ out'[i - 1] = out[i] BY <1>1, <1>2
  <1> QED BY <1>2, <1>3

\* Nothing the server does without sending changes what the client is owed.
LEMMA SilentInv ==
  ASSUME NEW kinds, InType, OutType, InInv, Take(kinds), Silent, UNCHANGED clientVars,
         phase' = phase \/ \E i \in 1..Len(out) : out[i].kind # "Flush"
  PROVE  InInv'
  <1> USE DEF clientVars
  <1>1. Len(out) \in Nat /\ Len(out') = Len(out) - 1 /\ \A i \in 1..Len(out') : out'[i] = out[i + 1]
    BY TakeShifts
  <1>2. QuietKinds' = QuietKinds /\ InCall' = InCall /\ s2c' = s2c
    BY DEF Silent, QuietKinds, InCall, Pending
  <1>3. ASSUME \A j \in 1..Len(out) : out[j].kind = "Flush"
        PROVE  \A j \in 1..Len(out') : out'[j].kind = "Flush"
    BY <1>1, <1>3
  <1> QED BY <1>2, <1>3 DEF InInv

\* Every step of the server's answers preserves the parts of SyncInv.
LEMMA ServeInv ==
  ASSUME TypeOK, StreamInv, Serve, UNCHANGED clientVars
  PROVE  StreamInv'
  <1>0. OutType /\ InType /\ FlagType /\ ServerType /\ ClientType /\ OutInv /\ PhaseInv /\ InInv
    BY TypeParts DEF StreamInv
  <1>i. InCall' = InCall /\ call' = call BY DEF InCall, Pending, clientVars
  <1>k. {"RowDescription", "DataRow", "CommandComplete", "EmptyQueryResponse", "ReadyForQuery",
         "ErrorResponse", "ParseComplete", "BindComplete", "NoData", "Unknown"} \subseteq BackendKinds
    BY DEF BackendKinds, KnownKinds
  <1>p. /\ at \in Progress /\ at.set \in Nat /\ at.rows \in Nat /\ at.counted \in Nat /\ call \in Nat
        /\ \A p \in Progress : [p EXCEPT !.set = @ + 1] \in Progress
                               /\ [p EXCEPT !.set = @ + 1].id = p.id
        /\ \A p \in Progress : [p EXCEPT !.rows = @ + 1] \in Progress
                               /\ [p EXCEPT !.rows = @ + 1].id = p.id
        /\ \A s, c \in Nat : [at EXCEPT !.set = s, !.counted = c] \in Progress
                             /\ [at EXCEPT !.set = s, !.counted = c].id = at.id
    <2>1. \A p \in Progress : [p EXCEPT !.set = @ + 1] \in Progress /\ [p EXCEPT !.set = @ + 1].id = p.id
      BY DEF Progress
    <2>2. \A p \in Progress : [p EXCEPT !.rows = @ + 1] \in Progress /\ [p EXCEPT !.rows = @ + 1].id = p.id
      BY DEF Progress
    <2>3. at \in Progress /\ call \in Nat BY <1>0 DEF ServerType, ClientType
    <2>4. \A s, c \in Nat : [at EXCEPT !.set = s, !.counted = c] \in Progress
                            /\ [at EXCEPT !.set = s, !.counted = c].id = at.id
      BY <2>3 DEF Progress
    <2>5. at.set \in Nat /\ at.rows \in Nat /\ at.counted \in Nat BY <2>3 DEF Progress
    <2> QED BY <2>1, <2>2, <2>3, <2>4, <2>5
  <1>c. /\ Current(call) \in Progress /\ Current(call).id = call
        /\ Fresh(call) \in Progress /\ Fresh(call).id = call
    BY <1>p DEF Current, Fresh, Progress
  \* Inside a request, the server only sends.
  <1>s. ASSUME NEW kind \in BackendKinds, NEW progress \in Progress, Answer(kind, progress),
               UNCHANGED writeVars, progress.id = at.id,
               phase \in Phases \ {"ready", "skip"},
               phase = "exec" => phase' \in {"ready", "exec", "skip"},
               phase' \in {"exec", "skip"} => phase = "exec",
               kind = "ReadyForQuery" => phase' = "ready" /\ phase # "exec"
        PROVE  StreamInv'
    <2>1. InCall /\ at.id = call BY <1>0, <1>s DEF PhaseInv, Phases
    <2>2. \A i \in 1..Len(out) : out[i].kind \in SyncKinds => phase = "exec"
      BY <1>0, <1>s DEF OutInv, Phases
    <2>3. phase # "exec" => \A i \in 1..Len(out) : out[i].kind = "Flush"
      BY <1>0, <2>1, <2>2 DEF OutInv, SyncKinds, OutType
    <2>4. InInv' /\ at' = progress BY <1>0, <1>s, <2>1, <2>3, AnswerInv DEF writeVars, Phases
    <2>5. PhaseInv' BY <1>0, <1>i, <1>s, <2>1, <2>4 DEF PhaseInv, writeVars
    <2>6. OutInv' BY <1>0, <1>i, <1>s, <2>2 DEF OutInv, writeVars, clientVars
    <2> QED BY <2>4, <2>5, <2>6 DEF StreamInv
  <1>q. phase \in Phases BY <1>0 DEF ServerType
  <1>1. CASE ReadQuery
    <2>1. /\ Take({"Query"}) /\ phase' = "simple" /\ at' = Fresh(out[1].id) /\ Silent
      BY <1>1 DEF ReadQuery
    <2>2. /\ InCall /\ out[1].id = call /\ \A j \in 1..Len(out') : out'[j].kind = "Flush"
          /\ \E i \in 1..Len(out) : out[i].kind # "Flush"
      BY <1>0, <2>1, TakeRequest DEF SyncKinds
    <2>3. OutInv' BY <1>0, <2>1, <2>2, OutInvTake DEF SyncKinds
    <2>4. PhaseInv' BY <1>i, <1>c, <2>1, <2>2 DEF PhaseInv
    <2>5. InInv' BY <1>0, <2>1, <2>2, SilentInv
    <2> QED BY <2>3, <2>4, <2>5 DEF StreamInv
  <1>2. CASE DescribeRows BY <1>2, <1>s, <1>p, <1>k, <1>q DEF DescribeRows
  <1>3. CASE SendRow
    <2>1. Answer("DataRow", [at EXCEPT !.rows = @ + 1]) /\ UNCHANGED <<phase, writeVars>>
          /\ phase \in {"rows", "exec"}
      BY <1>3 DEF SendRow
    <2> QED BY <2>1, <1>s, <1>p, <1>k, <1>q
  <1>4. CASE CompleteCommand
    <2>1. PICK c \in {at.counted, SetOfStatement} :
            Answer("CommandComplete", [at EXCEPT !.set = SetOfStatement, !.counted = c])
      BY <1>4 DEF CompleteCommand
    <2>0. at.set \in Nat /\ at.counted \in Nat BY <1>p
    <2>2. SetOfStatement \in Nat BY ONLY <2>0 DEF SetOfStatement
    <2>3. c \in Nat BY <2>0, <2>1, <2>2
    <2> DEFINE p == [at EXCEPT !.set = SetOfStatement, !.counted = c]
    <2>4. p \in Progress /\ p.id = at.id BY <2>2, <2>3, <1>p
    <2>5. /\ phase \in {"simple", "rows", "exec"} /\ UNCHANGED writeVars
          /\ phase' = IF phase = "exec" THEN "ready" ELSE "simple"
      BY <1>4 DEF CompleteCommand
    <2>6. Answer("CommandComplete", p) BY <2>1
    <2> HIDE DEF p
    <2> QED BY <2>4, <2>5, <2>6, <1>s, <1>k, <1>q
  <1>5. CASE EmptyQuery BY <1>5, <1>s, <1>p, <1>k, <1>q DEF EmptyQuery
  <1>6. CASE FailStatement BY <1>6, <1>s, <1>p, <1>k, <1>q DEF FailStatement
  <1>7. CASE EndSimpleQuery BY <1>7, <1>s, <1>p, <1>k, <1>q DEF EndSimpleQuery
  <1>8. CASE StartCopy BY <1>8, <1>s, <1>p, <1>k, <1>q DEF StartCopy
  \* The server takes a frame, and sends at once or not at all.
  <1>t. ASSUME NEW kinds, Take(kinds), Silent, UNCHANGED <<phase, at>>,
               "Sync" \notin kinds \/ phase \notin {"exec", "skip"}
        PROVE  StreamInv'
    <2>1. InInv' BY <1>0, <1>t, SilentInv
    <2>2. PhaseInv' BY <1>0, <1>i, <1>t, SyncStays DEF PhaseInv
    <2>3. (\E i \in 1..Len(out') : out'[i].kind \in SyncKinds) => phase \in {"ready", "exec", "skip"}
      <3>1. Len(out) \in Nat /\ Len(out') = Len(out) - 1 /\ \A i \in 1..Len(out') : out'[i] = out[i + 1]
        BY <1>0, <1>t, TakeShifts
      <3>2. \A i \in 1..Len(out') : i + 1 \in 1..Len(out) BY <3>1
      <3> QED BY <1>0, <3>1, <3>2 DEF OutInv
    <2>4. OutInv' BY <1>0, <1>t, <2>3, OutInvTake
    <2> QED BY <2>1, <2>2, <2>4 DEF StreamInv
  <1>9. CASE InterruptCopy
    <2>1. phase = "copy" /\ Take(FrontendKinds \ {"Terminate"}) BY <1>9 DEF InterruptCopy
    <2>2. InCall /\ at.id = call /\ \A i \in 1..Len(out) : out[i].kind \notin SyncKinds
      BY <1>0, <2>1 DEF PhaseInv, OutInv
    <2>3. \A i \in 1..Len(out) : out[i].kind = "Flush"
      BY <1>0, <2>2 DEF OutInv, SyncKinds
    <2>4. Len(out) > 0 BY <1>0, <2>1, TakeShifts
    <2>5. UNCHANGED <<phase, at>> /\ Silent BY <1>9, <2>3, <2>4 DEF InterruptCopy
    <2> QED BY <2>1, <2>5, <1>t
  <1>10. CASE ReadExtended
    <2>1. phase = "ready" /\ Take({"Parse", "Bind", "Describe"}) BY <1>10 DEF ReadExtended
    <2>2. /\ InCall /\ out[1].id = call /\ \E j \in 1..Len(out') : out'[j].kind = "Sync"
          /\ \E i \in 1..Len(out) : out[i].kind # "Flush"
      BY <1>0, <2>1, TakeRequest DEF ExtendedKinds
    <2>3. PICK kind \in BackendKinds \ {"ReadyForQuery"}, p \in Progress :
            Answer(kind, p) /\ p.id = call /\ phase' \in {"ready", "skip"}
      BY <1>10, <1>k, <1>c, <1>p, <2>2 DEF ReadExtended
    <2>4. InInv' /\ at' = p BY <1>0, <2>2, <2>3, AnswerInv
    <2>5. PhaseInv' BY <1>i, <2>2, <2>3, <2>4 DEF PhaseInv
    <2>6. OutInv' BY <1>0, <2>1, <2>3, OutInvTake
    <2> QED BY <2>4, <2>5, <2>6 DEF StreamInv
  <1>11. CASE ReadExecute
    <2>1. Take({"Execute"}) /\ phase' = "exec" /\ at' = Current(out[1].id) /\ Silent
      BY <1>11 DEF ReadExecute
    <2>2. /\ InCall /\ out[1].id = call /\ \E j \in 1..Len(out') : out'[j].kind = "Sync"
          /\ \E i \in 1..Len(out) : out[i].kind # "Flush"
      BY <1>0, <2>1, TakeRequest DEF ExtendedKinds
    <2>3. InInv' BY <1>0, <2>1, <2>2, SilentInv
    <2>4. PhaseInv' BY <1>i, <1>c, <2>1, <2>2 DEF PhaseInv
    <2>5. OutInv' BY <1>0, <2>1, OutInvTake
    <2> QED BY <2>3, <2>4, <2>5 DEF StreamInv
  <1>12. CASE ReadSync
    <2>1. Take({"Sync"}) /\ phase' = "ready" /\ Answer("ReadyForQuery", Current(out[1].id))
      BY <1>12 DEF ReadSync
    <2>2. /\ InCall /\ out[1].id = call /\ \A j \in 1..Len(out') : out'[j].kind = "Flush"
          /\ \E i \in 1..Len(out) : out[i].kind # "Flush"
      BY <1>0, <2>1, TakeRequest DEF SyncKinds
    <2>3. InInv' BY <1>0, <1>c, <1>k, <2>1, <2>2, AnswerInv
    <2>4. PhaseInv' BY <2>1 DEF PhaseInv
    <2>5. OutInv' BY <1>0, <2>1, OutInvTake
    <2> QED BY <2>3, <2>4, <2>5 DEF StreamInv
  <1>13. CASE ReadFlush BY <1>13, <1>t DEF ReadFlush
  <1>14. CASE Discard BY <1>14, <1>t DEF Discard
  <1>15. CASE ReadTerminate
    <2>1. /\ Take({"Terminate"}) /\ UNCHANGED <<phase, at, s2c>> /\ up' = FALSE
      BY <1>15 DEF ReadTerminate
    <2>2. ~InCall
      <3>1. out[1].kind = "Terminate" /\ (InCall <=> out[1].kind \in SyncKinds \cup ExtendedKinds)
        BY <1>0, <2>1, TakeRequest
      <3> QED BY <3>1 DEF SyncKinds, ExtendedKinds
    <2>3. phase = "ready" BY <1>0, <2>2 DEF PhaseInv
    <2>4. QuietKinds \subseteq QuietKinds' /\ "ReadyForQuery" \notin QuietKinds
      BY <2>1 DEF QuietKinds, AsyncKinds
    <2>5. \A i \in 1..Len(s2c) : s2c[i].kind \in QuietKinds BY <1>0, <2>2 DEF InInv
    <2>a. s2c' = s2c /\ "ReadyForQuery" \notin QuietKinds'
      BY <2>1 DEF QuietKinds, AsyncKinds
    <2>b. \A i \in 1..Len(s2c') : s2c'[i].kind \in QuietKinds' BY <2>a, <2>4, <2>5
    <2>8. InInv' BY <2>a, <2>b DEF InInv
    <2>6. PhaseInv' BY <2>1, <2>3 DEF PhaseInv
    <2>7. OutInv' BY <1>0, <2>1, <2>3, OutInvTake
    <2> QED BY <2>8, <2>6, <2>7 DEF StreamInv
  <1> QED
    BY <1>1, <1>2, <1>3, <1>4, <1>5, <1>6, <1>7, <1>8, <1>9, <1>10, <1>11, <1>12, <1>13,
       <1>14, <1>15 DEF Serve

\* Asynchronous frames and the loss of the connection preserve them.
LEMMA EnvironmentInv ==
  ASSUME TypeOK, StreamInv, Environment, UNCHANGED clientVars
  PROVE  StreamInv' /\ (up' => up)
  <1>0. OutType /\ InType /\ FlagType /\ ServerType /\ OutInv /\ PhaseInv /\ InInv
    BY TypeParts DEF StreamInv
  <1>i. InCall' = InCall /\ call' = call /\ pc' = pc BY DEF InCall, Pending, clientVars
  <1>1. UNCHANGED writeVars /\ UNCHANGED <<phase, at>> /\ (up' => up)
    BY DEF Environment, Notify, MakeNoise, Fatal, Lose
  <1>2. OutInv' /\ PhaseInv' BY <1>0, <1>1, <1>i, OutInvKept DEF writeVars
  <1>k. {"NotificationResponse", "ErrorResponse"} \cup NoiseKinds \subseteq BackendKinds
    BY BackendAssumption DEF BackendKinds, KnownKinds
  <1>3. ASSUME NEW kind \in BackendKinds, NEW note \in Nat, Send(kind, at, note),
               kind \in QuietKinds'
        PROVE  InInv'
    <2>1. kind # "ReadyForQuery" BY <1>3 DEF QuietKinds, AsyncKinds
    <2>2. at \in Progress BY <1>0 DEF ServerType
    <2>3. UNCHANGED out BY <1>1 DEF writeVars
    <2> QED BY <1>0, <1>1, <1>3, <2>1, <2>2, <2>3, InInvSend
  <1>4. CASE Notify
    <2>1. Send("NotificationResponse", at, notes + 1) /\ notes + 1 \in Nat
      BY <1>4, <1>0 DEF Notify, ServerType
    <2> QED BY <1>1, <1>2, <1>3, <1>k, <2>1 DEF StreamInv, QuietKinds, AsyncKinds
  <1>5. CASE MakeNoise
    <2>1. PICK kind \in NoiseKinds : Send(kind, at, 0) BY <1>5 DEF MakeNoise
    <2>2. kind \in BackendKinds /\ kind \in QuietKinds'
      BY <1>k, BackendAssumption DEF QuietKinds, AsyncKinds
    <2> QED BY <1>1, <1>2, <1>3, <2>1, <2>2 DEF StreamInv
  <1>6. CASE Fatal
    <2>1. Send("ErrorResponse", at, 0) /\ up' = FALSE BY <1>6 DEF Fatal
    <2>2. "ErrorResponse" \in QuietKinds' BY <2>1 DEF QuietKinds
    <2> QED BY <1>1, <1>2, <1>3, <1>k, <2>1, <2>2 DEF StreamInv
  <1>7. CASE Lose
    <2>1. PICK n \in got..Len(s2c) : s2c' = SubSeq(s2c, 1, n) BY <1>7 DEF Lose
    <2>2. /\ Len(s2c) \in Nat /\ Len(s2c') <= Len(s2c)
          /\ \A i \in 1..Len(s2c') : i \in 1..Len(s2c) /\ s2c'[i] = s2c[i]
      BY <1>0, <2>1 DEF InType
    <2>3. QuietKinds \subseteq QuietKinds' BY <1>7 DEF QuietKinds, Lose
    <2>4. \A i \in 1..Len(s2c') : \A j \in (i + 1)..Len(s2c') : j \in (i + 1)..Len(s2c)
      BY <2>2
    <2>5. InInv' BY <1>0, <1>1, <1>i, <2>2, <2>3, <2>4 DEF InInv, writeVars
    <2> QED BY <1>1, <1>2, <2>5 DEF StreamInv
  <1> QED BY <1>4, <1>5, <1>6, <1>7 DEF Environment

\* The client's own variables, while the server works.
LEMMA DataInvKept ==
  ASSUME LocalInv, AnswerIsOwn, UNCHANGED clientVars, up' => up
  PROVE  LocalInv' /\ AnswerIsOwn'
  BY DEF LocalInv, AnswerIsOwn, clientVars, Pending

\* A call returns what it has gathered.
LEMMA ReturnInv ==
  ASSUME NEW is \in {"ok", "db", "more"}, NEW last \in Progress, ClientType, LocalInv, Return(is, last),
         is = "ok" => last.id = call,
         is = "db" /\ up => last.id = call,
         UNCHANGED <<up, call, clean>>
  PROVE  LocalInv' /\ AnswerIsOwn'
  <1>1. /\ pc' = "idle" /\ acc'.rows = <<>> /\ result'.is = is /\ result'.at = last
        /\ result'.locals = acc
    BY ReturnType DEF Outcomes
  <1>2. \A i \in 1..Len(acc.rows) : acc.rows[i].id = call BY DEF LocalInv
  <1>3. LocalInv' BY <1>1 DEF LocalInv, Pending
  <1>4. AnswerIsOwn' BY <1>1, <1>2 DEF AnswerIsOwn
  <1> QED BY <1>3, <1>4

\* The frames of a new call, behind what earlier calls left.
LEMMA BeginFrames ==
  ASSUME NEW o \in AllOps \ {"poll"}, OutType, ClientType,
         \A i \in 1..Len(out) : out[i].kind = "Flush",
         out' = out \o Frames(o, call + 1), pc' = "send", op' = o, call' = call + 1,
         phase' = "ready"
  PROVE  OutInv'
  <1> DEFINE F == [kind : FrontendKinds, id : Nat]
             fs == Frames(o, call + 1)
  <1>1. /\ Len(Script(o)) \in Nat /\ Len(fs) = Len(Script(o))
        /\ \A i \in 1..Len(fs) : fs[i].kind = Script(o)[i] /\ fs[i].id = call + 1
        /\ fs \in Seq(F)
    <2>1. Len(Script(o)) \in Nat BY DEF Script
    <2>2. call + 1 \in Nat BY DEF ClientType
    <2>3. fs \in Seq(F) BY <2>2, FramesType
    <2> QED BY <2>1, <2>3 DEF Frames
  <1>2. InCall' <=> o # "close" BY DEF InCall, Pending
  <1>3. /\ o # "close" => \A i \in 1..Len(fs) : fs[i].kind # "Flush" =>
                            fs[i].kind \in SyncKinds \cup ExtendedKinds
        /\ o = "close" => \A i \in 1..Len(fs) : fs[i].kind \notin SyncKinds \cup ExtendedKinds
        /\ \A i \in 1..Len(fs) : fs[i].kind \in SyncKinds =>
              \A j \in (i + 1)..Len(fs) : fs[j].kind = "Flush"
        /\ \A i \in 1..Len(fs) : fs[i].kind \in ExtendedKinds =>
              \E j \in (i + 1)..Len(fs) : fs[j].kind = "Sync"
    <2>1. CASE o \in {"query", "execute"}
      BY <1>1, <2>1, SMTT(30) DEF Script, SyncKinds, ExtendedKinds
    <2>2. CASE o = "close" BY <1>1, <2>2 DEF Script, SyncKinds, ExtendedKinds
    <2>3. CASE o = "extended"
      <3>1. Len(fs) = 6 /\ fs[1].kind = "Parse" /\ fs[2].kind = "Bind" /\ fs[3].kind = "Describe"
            /\ fs[4].kind = "Execute" /\ fs[5].kind = "Sync" /\ fs[6].kind = "Flush"
        <4> HIDE DEF fs
        <4>1. Script(o) = <<"Parse", "Bind", "Describe", "Execute", "Sync", "Flush">>
          BY <2>3 DEF Script
        <4>2. Len(fs) = 6 BY <1>1, <4>1
        <4>3. {1, 2, 3, 4, 5, 6} \subseteq 1..Len(fs) BY <4>2
        <4>4. \A i \in {1, 2, 3, 4, 5, 6} : fs[i].kind = Script(o)[i] BY <1>1, <4>3
        <4> QED BY <4>1, <4>2, <4>4
      <3> HIDE DEF fs
      <3>2. \A i \in 1..Len(fs) : i \in {1, 2, 3, 4, 5, 6} BY <3>1
      <3>3. \A i \in 1..Len(fs) : fs[i].kind \in SyncKinds => i = 5
        BY <3>1, <3>2 DEF SyncKinds
      <3>4. \A i \in 1..Len(fs) : fs[i].kind \in ExtendedKinds => i < 5
        BY <3>1, <3>2 DEF ExtendedKinds
      <3>5. 5 \in 1..Len(fs) /\ \A i \in 1..4 : 5 \in (i + 1)..Len(fs) BY <3>1
      <3>6. \A j \in (5 + 1)..Len(fs) : j = 6 BY <3>1
      <3>7. \A i \in 1..Len(fs) : fs[i].kind # "Flush" => fs[i].kind \in SyncKinds \cup ExtendedKinds
        BY <3>1, <3>2 DEF SyncKinds, ExtendedKinds
      <3> QED BY <2>3, <3>1, <3>2, <3>3, <3>4, <3>5, <3>6, <3>7
    <2> QED BY <2>1, <2>2, <2>3 DEF AllOps
  <1>4. out \in Seq(F) BY DEF OutType
  <1> HIDE DEF F, fs
  <1>5. /\ Len(out') = Len(out) + Len(fs) /\ Len(out) \in Nat /\ Len(fs) \in Nat
        /\ \A i \in 1..Len(out) : out'[i] = out[i]
        /\ \A i \in 1..Len(fs) : out'[Len(out) + i] = fs[i]
    BY <1>1, <1>4 DEF fs
  <1>6. \A i \in 1..Len(out') : \/ i \in 1..Len(out) /\ out'[i].kind = "Flush"
                                \/ i - Len(out) \in 1..Len(fs) /\ out'[i] = fs[i - Len(out)]
    BY <1>5
  <1>7. "Flush" \notin SyncKinds \cup ExtendedKinds BY DEF SyncKinds, ExtendedKinds
  <1> SUFFICES ASSUME NEW i \in 1..Len(out'), out'[i].kind # "Flush"
      PROVE /\ out'[i].id = call'
            /\ InCall' <=> out'[i].kind \in SyncKinds \cup ExtendedKinds
            /\ out'[i].kind \in SyncKinds => \A j \in (i + 1)..Len(out') : out'[j].kind = "Flush"
            /\ out'[i].kind \in ExtendedKinds => \E j \in (i + 1)..Len(out') : out'[j].kind = "Sync"
    BY <1>7 DEF OutInv
  <1> DEFINE k == i - Len(out)
  <1>8. k \in 1..Len(fs) /\ out'[i] = fs[k] BY <1>6
  <1>9. out'[i].id = call' /\ (InCall' <=> out'[i].kind \in SyncKinds \cup ExtendedKinds)
    BY <1>1, <1>2, <1>3, <1>8
  <1>10. ASSUME out'[i].kind \in SyncKinds, NEW j \in (i + 1)..Len(out')
         PROVE  out'[j].kind = "Flush"
    <2>1. j - Len(out) \in (k + 1)..Len(fs) /\ out'[j] = fs[j - Len(out)] BY <1>5, <1>6, <1>8, SMTT(30)
    <2> QED BY <1>3, <1>8, <1>10, <2>1
  <1>11. ASSUME out'[i].kind \in ExtendedKinds
         PROVE  \E j \in (i + 1)..Len(out') : out'[j].kind = "Sync"
    <2>1. PICK m \in (k + 1)..Len(fs) : fs[m].kind = "Sync" BY <1>3, <1>8, <1>11
    <2>2. Len(out) + m \in (i + 1)..Len(out') /\ m \in 1..Len(fs) BY <1>5, <1>8, <2>1
    <2>3. out'[Len(out) + m] = fs[m] BY <1>5, <2>2
    <2> QED BY <2>1, <2>2, <2>3
  <1> QED BY <1>9, <1>10, <1>11

\* The client's steps from the beginning of a call to its last send preserve SyncInv.
LEMMA SendingInv ==
  ASSUME TypeOK, StreamInv, LocalInv, AnswerIsOwn, clean,
         SendNext \/ FlushNext \/ SendDone \/ SendFails \/ Application, clean'
  PROVE  StreamInv' /\ LocalInv' /\ AnswerIsOwn'
  <1>0. OutType /\ InType /\ FlagType /\ ServerType /\ ClientType /\ OutInv /\ PhaseInv /\ InInv
    BY TypeParts DEF StreamInv
  <1>q. UNCHANGED up => QuietKinds' = QuietKinds BY DEF QuietKinds
  <1>1. CASE SendNext \/ FlushNext
    <2>1. UNCHANGED <<out, s2c, up, phase, at, clientVars>>
      BY <1>1 DEF SendNext, FlushNext, Encode, Flush, serverVars
    <2>2. InCall' = InCall /\ call' = call /\ pc' = pc BY <2>1 DEF InCall, Pending, clientVars
    <2>3. OutInv' /\ PhaseInv' BY <1>0, <2>1, <2>2, OutInvKept
    <2>4. InInv' BY <1>0, <1>q, <2>1, <2>2 DEF InInv
    <2> QED BY <2>1, <2>3, <2>4, DataInvKept DEF StreamInv
  <1>2. CASE SendDone
    <2>1. /\ UNCHANGED <<out, s2c, up, phase, at, op, call, acc, result, clean>> /\ pc = "send"
          /\ pc' = IF op = "close" THEN "closed" ELSE "read"
      BY <1>2 DEF SendDone, writeVars, serverVars
    <2>2. InCall' = InCall BY <2>1 DEF InCall, Pending
    <2>3. OutInv' /\ PhaseInv' BY <1>0, <2>1, <2>2, OutInvKept
    <2>4. InInv' BY <1>0, <1>q, <2>1, <2>2 DEF InInv
    <2>5. LocalInv' BY <2>1 DEF LocalInv, Pending
    <2>6. AnswerIsOwn' BY <2>1 DEF AnswerIsOwn
    <2> QED BY <2>3, <2>4, <2>5, <2>6 DEF StreamInv
  <1>3. CASE SendFails BY <1>3 DEF SendFails
  <1>4. CASE BeginPoll
    <2>1. /\ UNCHANGED <<out, s2c, up, phase, at, call, acc, clean>> /\ pc = "idle" /\ pc' = "poll"
          /\ result' = NoResult
      BY <1>4 DEF BeginPoll, writeVars, serverVars
    <2>2. InCall' = InCall BY <2>1 DEF InCall, Pending
    <2>3. OutInv' /\ PhaseInv' BY <1>0, <2>1, <2>2, OutInvKept
    <2>4. InInv' BY <1>0, <1>q, <2>1, <2>2 DEF InInv
    <2>5. LocalInv' BY <2>1 DEF LocalInv, Pending
    <2>6. AnswerIsOwn' BY <2>1, ConstantTypes DEF AnswerIsOwn
    <2> QED BY <2>3, <2>4, <2>5, <2>6 DEF StreamInv
  <1>5. CASE \E o \in Ops : Begin(o)
    <2>1. PICK o \in Ops : Begin(o) BY <1>5
    <2>2. /\ UNCHANGED <<s2c, up, phase, at, acc, clean>> /\ pc = "idle" /\ pc' = "send" /\ op' = o
          /\ call' = call + 1 /\ result' = NoResult /\ out' = out \o Frames(o, call + 1)
          /\ o # "poll"
      BY <2>1 DEF Begin, serverVars
    <2>3. ~InCall /\ phase = "ready" /\ call \in Nat
      BY <1>0, <2>2 DEF InCall, Pending, PhaseInv, ClientType
    <2>4. \A i \in 1..Len(out) : out[i].kind = "Flush" BY <1>0, <2>2 DEF OutInv
    <2>5. \A i \in 1..Len(s2c) : s2c[i].kind \in QuietKinds BY <1>0, <2>3 DEF InInv
    <2>6. InInv'
      <3>1. "ReadyForQuery" \notin QuietKinds BY DEF QuietKinds, AsyncKinds
      <3> QED BY <1>q, <2>2, <2>5, <3>1 DEF InInv
    <2>7. PhaseInv' BY <2>2, <2>3 DEF PhaseInv
    <2>8. LocalInv'
      <3>1. acc.rows = <<>> BY <2>2 DEF LocalInv, Pending
      <3> QED BY <2>2, <3>1, ConstantTypes DEF LocalInv, Pending
    <2>9. AnswerIsOwn' BY <2>2, ConstantTypes DEF AnswerIsOwn
    <2>10. OutInv' BY <1>0, <2>2, <2>3, <2>4, BeginFrames, SessionAssumption
    <2> QED BY <2>6, <2>7, <2>8, <2>9, <2>10 DEF StreamInv
  <1>6. CASE DropWhileSending BY <1>6 DEF DropWhileSending
  <1>7. CASE DropWhileReading
    <2>1. /\ UNCHANGED <<out, s2c, up, phase, at, call>> /\ pc = "poll" /\ pc' = "idle"
          /\ acc' = NoLocals /\ result' = NoResult
      BY <1>7 DEF DropWhileReading, writeVars, serverVars
    <2>2. InCall' = InCall BY <2>1 DEF InCall, Pending
    <2>3. OutInv' /\ PhaseInv' BY <1>0, <2>1, <2>2, OutInvKept
    <2>4. InInv' BY <1>0, <1>q, <2>1, <2>2 DEF InInv
    <2>5. LocalInv' BY <2>1, ConstantTypes DEF LocalInv, Pending
    <2>6. AnswerIsOwn' BY <2>1, ConstantTypes DEF AnswerIsOwn
    <2> QED BY <2>3, <2>4, <2>5, <2>6 DEF StreamInv
  <1> QED BY <1>1, <1>2, <1>3, <1>4, <1>5, <1>6, <1>7 DEF Application

\* The client's steps that read an answer preserve SyncInv.
LEMMA ReadingInv ==
  ASSUME TypeOK, StreamInv, LocalInv, AnswerIsOwn, clean, Pump \/ Read \/ Drain \/ Poll, clean'
  PROVE  StreamInv' /\ LocalInv' /\ AnswerIsOwn'
  <1>0. OutType /\ InType /\ FlagType /\ ServerType /\ ClientType /\ OutInv /\ PhaseInv /\ InInv
    BY TypeParts DEF StreamInv
  <1>q. UNCHANGED up => QuietKinds' = QuietKinds BY DEF QuietKinds
  \* A message is decoded and the call goes on.
  <1>d. ASSUME NEW kinds, Decode(kinds), UNCHANGED <<writeVars, up, serverVars, call>>,
               InCall' = InCall, pc' = pc \/ pc' \in {"send", "read", "drain"}
        PROVE  StreamInv'
    <2>1. UNCHANGED <<out, phase, at, up, call>> BY <1>d DEF writeVars, serverVars
    <2>2. InInv' BY <1>0, <1>d, <2>1, InInvDecode
    <2>3. OutInv' /\ PhaseInv' BY <1>0, <1>d, <2>1, OutInvKept
    <2> QED BY <2>2, <2>3 DEF StreamInv
  \* A message belongs to the call in progress, or it answers no call.
  <1>a. ASSUME NEW kinds, Decode(kinds), kinds \cap AsyncKinds = {}, "ErrorResponse" \notin kinds \/ up
        PROVE  InCall /\ Msg.at.id = call
    <2>1. Len(s2c) > 0 /\ Msg = s2c[1] /\ Msg.kind \in kinds /\ Len(s2c) \in Nat
      BY <1>0, <1>a, DecodeShifts
    <2>2. Msg.kind \notin QuietKinds BY <1>a, <2>1 DEF QuietKinds
    <2> QED BY <1>0, <2>1, <2>2 DEF InInv
  <1>m. Yield => Msg.at \in Progress /\ Msg \in BackendFrames
    BY <1>0, YieldType DEF BackendFrames
  <1>1. CASE Pump
    <2>1. UNCHANGED <<writeVars, up, serverVars, clientVars>> BY <1>1 DEF Pump
    <2>2. InCall' = InCall /\ call' = call /\ pc' = pc BY <2>1 DEF InCall, Pending, clientVars
    <2>3. LocalInv' /\ AnswerIsOwn' BY <2>1, DataInvKept
    <2>4. CASE SkipUnknown BY <2>1, <2>2, <2>3, <2>4, <1>d DEF SkipUnknown
    <2>5. CASE UNCHANGED s2c
      <3>1. UNCHANGED <<out, phase, at>> BY <2>1 DEF writeVars, serverVars
      <3>2. OutInv' /\ PhaseInv' BY <1>0, <2>2, <3>1, OutInvKept
      <3>3. InInv' BY <1>0, <1>q, <2>1, <2>2, <2>5, <3>1 DEF InInv
      <3> QED BY <2>3, <3>2, <3>3 DEF StreamInv
    <2> QED BY <1>1, <2>4, <2>5 DEF Pump, Fill, FillEof, NeedMore
  \* The loop of a call receives a message, and goes on with the same rows and result.
  <1>r. ASSUME NEW kinds, Receive(kinds), UNCHANGED <<pc, op, result>>,
               acc'.rows = acc.rows
        PROVE  StreamInv' /\ LocalInv' /\ AnswerIsOwn'
    <2>1. /\ Decode(KnownKinds) /\ UNCHANGED <<writeVars, up, serverVars, call, clean>>
      BY <1>r DEF Receive, Yield
    <2>2. InCall' = InCall BY <1>r DEF InCall, Pending
    <2>3. StreamInv' BY <1>d, <1>r, <2>1, <2>2
    <2>4. LocalInv' BY <1>r, <2>1 DEF LocalInv, Pending
    <2>5. AnswerIsOwn' BY <1>r, <2>1 DEF AnswerIsOwn
    <2> QED BY <2>3, <2>4, <2>5
  <1>l. acc \in Locals /\ result \in Results /\ call \in Nat BY <1>0 DEF ClientType
  <1>2. CASE OnRowDescription
    <2>1. acc'.rows = acc.rows BY <1>2, <1>l DEF OnRowDescription, Locals
    <2> QED BY <1>2, <2>1, <1>r DEF OnRowDescription
  <1>3. CASE OnDataRow
    <2>1. /\ Yield /\ Msg.kind = "DataRow" /\ pc = "read" /\ UNCHANGED <<pc, op, result>>
          /\ UNCHANGED <<writeVars, up, serverVars, call, clean>> /\ Decode(KnownKinds)
      BY <1>3 DEF OnDataRow, Receive, Yield
    <2>2. Decode({"DataRow"}) BY <2>1 DEF Decode, Msg
    <2>3. Msg.at.id = call BY <1>a, <2>2 DEF AsyncKinds
    <2>4. InCall' = InCall BY <2>1 DEF InCall, Pending
    <2>5. StreamInv' BY <1>d, <2>1, <2>4
    <2>6. \A i \in 1..Len(acc'.rows) : acc'.rows[i].id = call
      <3> DEFINE row == RowOf(Msg, acc.columns)
      <3>1. row.id = call BY <2>3 DEF RowOf
      <3>2. row \in Rows BY <1>m, <2>1, <1>l, MsgTypes DEF Locals
      <3>3. acc.rows \in Seq(Rows) BY <1>l DEF Locals
      <3>4. acc'.rows = acc.rows \/ acc'.rows = Append(acc.rows, row)
        BY <1>3, <1>l DEF OnDataRow, Locals
      <3> HIDE DEF row
      <3>5. \A i \in 1..Len(acc.rows) : acc.rows[i].id = call BY DEF LocalInv
      <3>6. CASE acc'.rows = acc.rows BY <2>1, <3>5, <3>6
      <3>7. CASE acc'.rows = Append(acc.rows, row)
        <4>1. /\ Len(acc.rows) \in Nat /\ Len(acc'.rows) = Len(acc.rows) + 1
              /\ \A i \in 1..Len(acc.rows) : acc'.rows[i] = acc.rows[i]
              /\ acc'.rows[Len(acc.rows) + 1] = row
          BY <3>2, <3>3, <3>7
        <4> QED BY <2>1, <3>1, <3>5, <4>1, SMTT(30)
      <3> QED BY <3>4, <3>6, <3>7
    <2>7. LocalInv' BY <2>1, <2>6 DEF LocalInv, Pending
    <2>8. AnswerIsOwn' BY <2>1 DEF AnswerIsOwn
    <2> QED BY <2>5, <2>7, <2>8
  <1>4. CASE OnCommandComplete
    <2>1. acc'.rows = acc.rows BY <1>4, <1>l DEF OnCommandComplete, Locals
    <2> QED BY <1>4, <2>1, <1>r DEF OnCommandComplete
  <1>5. CASE OnReadyForQuery
    <2>1. /\ Yield /\ Decode(KnownKinds) /\ Msg.kind = "ReadyForQuery" /\ Return("ok", Msg.at)
          /\ UNCHANGED <<out, phase, at, up, call, clean>>
      BY <1>5 DEF OnReadyForQuery, Receive, Yield, writeVars, serverVars
    <2>2. OutInv' /\ PhaseInv' /\ InInv' /\ Msg.at.id = call BY <1>0, <2>1, ReadyIsLast
    <2>3. LocalInv' /\ AnswerIsOwn' BY <1>0, <1>m, <2>1, <2>2, ReturnInv
    <2> QED BY <2>2, <2>3 DEF StreamInv
  <1>6. CASE OnErrorResponse
    <2>1. /\ Yield /\ Msg.kind = "ErrorResponse" /\ pc = "read" /\ pc' = "drain"
          /\ result' = [NoResult EXCEPT !.at = Msg.at, !.op = op] /\ UNCHANGED <<op, acc>>
          /\ UNCHANGED <<writeVars, up, serverVars, call, clean>> /\ Decode(KnownKinds)
      BY <1>6 DEF OnErrorResponse, Receive, Yield
    <2>2. up => Msg.at.id = call
      <3>1. Decode({"ErrorResponse"}) BY <2>1 DEF Decode, Msg
      <3> QED BY <1>a, <3>1 DEF AsyncKinds
    <2>3. InCall' = InCall BY <2>1 DEF InCall, Pending
    <2>4. StreamInv' BY <1>d, <2>1, <2>3
    <2>5. result'.at = Msg.at /\ result'.is = "none" /\ result'.locals.rows = <<>>
      BY <2>1 DEF NoResult, NoLocals
    <2>6. LocalInv' BY <2>1, <2>2, <2>5 DEF LocalInv, Pending
    <2>7. AnswerIsOwn' BY <2>5 DEF AnswerIsOwn
    <2> QED BY <2>4, <2>6, <2>7
  <1>7. CASE OnNotification BY <1>7, <1>r DEF OnNotification
  <1>8. CASE OnOther BY <1>8, <1>r DEF OnOther
  <1>9. CASE ReadFails BY <1>9 DEF ReadFails
  <1>10. CASE DrainMessage
    <2>1. /\ Yield /\ pc = "drain" /\ UNCHANGED <<out, phase, at, up, call, clean>>
          /\ Decode(KnownKinds) /\ UNCHANGED <<writeVars, serverVars>>
      BY <1>10 DEF DrainMessage, Yield, writeVars, serverVars
    <2>2. CASE Msg.kind = "ReadyForQuery"
      <3>1. Return("db", result.at) BY <1>10, <2>2 DEF DrainMessage
      <3>2. result.at \in Progress /\ (up => result.at.id = call)
        BY <1>l, <2>1 DEF Results, LocalInv
      <3>3. OutInv' /\ PhaseInv' /\ InInv' BY <1>0, <2>1, <2>2, ReadyIsLast
      <3>4. LocalInv' /\ AnswerIsOwn' BY <1>0, <2>1, <3>1, <3>2, ReturnInv
      <3> QED BY <3>3, <3>4 DEF StreamInv
    <2>3. CASE Msg.kind # "ReadyForQuery"
      <3>1. UNCHANGED <<pc, op, acc, result>> BY <1>10, <2>3 DEF DrainMessage
      <3>2. InCall' = InCall BY <3>1 DEF InCall, Pending
      <3>3. StreamInv' BY <1>d, <2>1, <3>1, <3>2
      <3>4. LocalInv' BY <2>1, <3>1 DEF LocalInv, Pending
      <3>5. AnswerIsOwn' BY <2>1, <3>1 DEF AnswerIsOwn
      <3> QED BY <3>3, <3>4, <3>5
    <2> QED BY <2>2, <2>3
  <1>11. CASE DrainError \/ DrainNone BY <1>11 DEF DrainError, DrainNone
  <1>12. CASE PollMessage
    <2>1. /\ Yield /\ pc = "poll" /\ Return("more", Msg.at) /\ Decode(KnownKinds)
          /\ UNCHANGED <<writeVars, up, serverVars, call, clean>> /\ UNCHANGED <<out, phase, at>>
      BY <1>12 DEF PollMessage, Yield, writeVars, serverVars
    <2>2. pc' = "idle" /\ InCall' = InCall BY <2>1 DEF Return, InCall, Pending
    <2>3. InInv' BY <1>0, <2>1, <2>2, InInvDecode
    <2>4. OutInv' /\ PhaseInv' BY <1>0, <2>1, <2>2, OutInvKept
    <2>5. LocalInv' /\ AnswerIsOwn' BY <1>0, <1>m, <2>1, ReturnInv
    <2> QED BY <2>3, <2>4, <2>5 DEF StreamInv
  <1>13. CASE PollEnds BY <1>13 DEF PollEnds
  <1> QED
    BY <1>1, <1>2, <1>3, <1>4, <1>5, <1>6, <1>7, <1>8, <1>9, <1>10, <1>11, <1>12, <1>13
    DEF Read, Drain, Poll

\* The inductive invariant: on a connection where no call was dropped and the stream met
\* no error, the frames to the server, the server, the frames to the client and the rows
\* gathered so far all belong to the call in progress, and ReadyForQuery is its last frame.
THEOREM SyncCorrect == Spec => []SyncInv
  <1>1. Init => SyncInv
    <2> SUFFICES ASSUME Init PROVE SyncInv OBVIOUS
    <2>1. Len(out) = 0 /\ Len(s2c) = 0 /\ acc.rows = <<>> /\ Len(acc.rows) = 0
          /\ result.locals.rows = <<>> /\ result.is = "none"
      BY ConstantTypes DEF Init, StreamInit
    <2>2. OutInv /\ InInv BY <2>1 DEF OutInv, InInv
    <2>3. PhaseInv BY DEF Init, ServerInit, PhaseInv
    <2>4. LocalInv BY <2>1 DEF Init, LocalInv, Pending
    <2>5. AnswerIsOwn BY <2>1 DEF AnswerIsOwn
    <2> QED BY <2>2, <2>3, <2>4, <2>5 DEF SyncInv
  <1>2. TypeOK /\ SyncInv /\ [Next]_vars => SyncInv'
    <2> SUFFICES ASSUME TypeOK, SyncInv, [Next]_vars, clean'
                 PROVE  OutInv' /\ PhaseInv' /\ InInv' /\ LocalInv' /\ AnswerIsOwn'
      BY DEF SyncInv
    <2>1. clean
      <3>1. CASE ServerStep \/ UNCHANGED vars BY <3>1 DEF ServerStep, vars, clientVars
      <3>2. CASE ClientStep \/ Application
        BY <3>2 DEF ClientStep, Application, SendNext, FlushNext, SendDone, SendFails, Pump,
             Read, Drain, Poll, OnRowDescription, OnDataRow, OnCommandComplete, OnReadyForQuery,
             OnErrorResponse, OnNotification, OnOther, ReadFails, Receive, DrainMessage,
             DrainError, DrainNone, PollMessage, PollEnds, BeginPoll, Begin, DropWhileSending,
             DropWhileReading, clientVars
      <3> QED BY <3>1, <3>2 DEF Next
    <2>2. StreamInv /\ LocalInv /\ AnswerIsOwn BY <2>1 DEF SyncInv, StreamInv
    <2>3. CASE ClientStep
      BY <2>1, <2>2, <2>3, SendingInv, ReadingInv DEF ClientStep, StreamInv
    <2>4. CASE Application BY <2>1, <2>2, <2>4, SendingInv DEF StreamInv
    <2>5. CASE ServerStep
      <3>1. UNCHANGED clientVars /\ (Serve \/ Environment) BY <2>5 DEF ServerStep
      <3>2. CASE Serve
        <4>1. up' => up BY <3>2 DEF Serve, ReadQuery, DescribeRows, SendRow, CompleteCommand,
                EmptyQuery, FailStatement, EndSimpleQuery, StartCopy, InterruptCopy, ReadExtended,
                ReadExecute, ReadSync, ReadFlush, Discard, ReadTerminate, Answer, Silent, Take, Send
        <4> QED BY <2>2, <3>1, <3>2, <4>1, ServeInv, DataInvKept DEF StreamInv
      <3>3. CASE Environment
        BY <2>2, <3>1, <3>3, EnvironmentInv, DataInvKept DEF StreamInv
      <3> QED BY <3>1, <3>2, <3>3
    <2>6. CASE UNCHANGED vars
      <3>1. UNCHANGED <<out, s2c, up, phase, at, clientVars>>
        BY <2>6 DEF vars, writeVars, readVars, serverVars
      <3>2. InCall' = InCall /\ QuietKinds' = QuietKinds /\ pc' = pc /\ call' = call
        BY <3>1 DEF InCall, Pending, QuietKinds, clientVars
      <3>3. OutInv' /\ PhaseInv' BY <2>2, <3>1, <3>2, OutInvKept DEF StreamInv
      <3>4. InInv' BY <2>2, <3>1, <3>2 DEF InInv, StreamInv
      <3> QED BY <2>2, <3>1, <3>3, <3>4, DataInvKept
    <2> QED BY <2>3, <2>4, <2>5, <2>6 DEF Next
  <1> QED BY <1>1, <1>2, TypeCorrect, PTL DEF Spec

\* Between two calls nothing of an earlier request is left anywhere (client.rs: every read
\* loop, and drain_until_ready on the error paths, reads up to its own ReadyForQuery).
THEOREM InSyncCorrect == Spec => []InSync
  <1>1. SyncInv => InSync
    <2> SUFFICES ASSUME SyncInv, clean, up, pc \in {"idle", "poll"}
                 PROVE  /\ phase = "ready"
                        /\ \A i \in 1..Len(out) : out[i].kind = "Flush"
                        /\ \A i \in 1..Len(s2c) : s2c[i].kind \in AsyncKinds
      BY DEF InSync
    <2>1. ~InCall BY DEF InCall, Pending
    <2>2. QuietKinds = AsyncKinds BY DEF QuietKinds
    <2> QED BY <2>1, <2>2 DEF SyncInv, OutInv, PhaseInv, InInv
  <1> QED BY <1>1, SyncCorrect, PTL

\* What a call returns is the server's answer to that call, row by row.
THEOREM AnswerCorrect == Spec => []AnswerIsOwn
  <1>1. SyncInv => AnswerIsOwn BY DEF SyncInv, AnswerIsOwn
  <1> QED BY <1>1, SyncCorrect, PTL

-----------------------------------------------------------------------------
(* Notifications: none is lost by a read loop or forwarded twice, for every number of *)
(* calls, notifications and faults.                                                    *)

\* A frame carries a notification's number exactly if it is one; a number is on its way at
\* most once, and then neither forwarded nor drained; and every number is somewhere.
IsNote(m) == m.kind = "NotificationResponse"
Known     == fwd \cup drained

NotesInv ==
  /\ fwd \cap drained = {} /\ Known \subseteq 1..notes
  /\ \A i \in 1..Len(s2c) :
       /\ s2c[i].note \in (IF IsNote(s2c[i]) THEN 1..notes ELSE {0})
       /\ s2c[i].note \notin Known
       /\ \A j \in 1..Len(s2c) : (IsNote(s2c[i]) /\ s2c[j].note = s2c[i].note) => j = i
  /\ \A n \in 1..notes : n \in Known \/ \E i \in 1..Len(s2c) : s2c[i].note = n

\* A number that is somewhere is on its way once, or not at all.
LEMMA NotesCounted == ASSUME TypeOK, NotesInv, up PROVE NotificationsAccounted
  <1> SUFFICES ASSUME NEW n \in 1..notes
               PROVE  Cardinality({i \in 1..Len(s2c) : s2c[i].note = n}) = (IF n \in Known THEN 0 ELSE 1)
    BY DEF NotificationsAccounted, NotesInv, Known
  <1> DEFINE S == {i \in 1..Len(s2c) : s2c[i].note = n}
  <1>1. notes \in Nat /\ n # 0 BY DEF TypeOK
  <1>2. CASE n \in Known
    <2>1. S = {} BY <1>2 DEF NotesInv
    <2> QED BY <1>2, <2>1, FS_EmptySet
  <1>3. CASE n \notin Known
    <2>1. PICK i \in 1..Len(s2c) : s2c[i].note = n BY <1>3 DEF NotesInv
    <2>2. IsNote(s2c[i]) BY <1>1, <2>1 DEF NotesInv
    <2>3. S = {i} BY <2>1, <2>2 DEF NotesInv
    <2> QED BY <1>3, <2>3, FS_Singleton
  <1> QED BY <1>2, <1>3

\* Nothing moves.
LEMMA NotesKept == ASSUME NotesInv, UNCHANGED <<s2c, fwd, drained, notes>> PROVE NotesInv'
  BY DEF NotesInv, Known

\* The client reads a message: the number of a notification is forwarded or drained.
LEMMA NotesRead ==
  ASSUME NEW kinds, TypeOK, NotesInv, Decode(kinds), UNCHANGED notes,
         NEW N, N = IF IsNote(Msg) THEN {Msg.note} ELSE {},
         (fwd' = fwd \cup N /\ drained' = drained) \/ (fwd' = fwd /\ drained' = drained \cup N)
  PROVE  NotesInv'
  <1>1. /\ Len(s2c) \in Nat /\ Len(s2c) > 0 /\ Len(s2c') = Len(s2c) - 1
        /\ \A i \in 1..Len(s2c') : s2c'[i] = s2c[i + 1]
        /\ Msg = s2c[1]
    BY DecodeShifts, TypeParts
  <1>2. 1 \in 1..Len(s2c) /\ notes \in Nat BY <1>1 DEF TypeOK
  <1>3. \A i \in 1..Len(s2c') : i + 1 \in 1..Len(s2c) /\ s2c'[i] = s2c[i + 1] BY <1>1
  <1>4. \A i \in 1..Len(s2c) : i = 1 \/ (i - 1 \in 1..Len(s2c') /\ s2c'[i - 1] = s2c[i]) BY <1>1
  <1>5. Known' = Known \cup N BY DEF Known
  <1>6. IsNote(Msg) => Msg.note \in 1..notes /\ Msg.note \notin Known BY <1>1, <1>2 DEF NotesInv
  <1>7. fwd' \cap drained' = {} /\ Known' \subseteq 1..notes BY <1>5, <1>6 DEF NotesInv, Known
  <1>8. ASSUME NEW i \in 1..Len(s2c')
        PROVE  /\ s2c'[i].note \in (IF IsNote(s2c'[i]) THEN 1..notes ELSE {0})
               /\ s2c'[i].note \notin Known'
               /\ \A j \in 1..Len(s2c') : (IsNote(s2c'[i]) /\ s2c'[j].note = s2c'[i].note) => j = i
    <2>1. i + 1 \in 1..Len(s2c) /\ s2c'[i] = s2c[i + 1] BY <1>3
    <2>2. /\ s2c[i + 1].note \in (IF IsNote(s2c[i + 1]) THEN 1..notes ELSE {0})
          /\ s2c[i + 1].note \notin Known
          /\ \A j \in 1..Len(s2c) : (IsNote(s2c[i + 1]) /\ s2c[j].note = s2c[i + 1].note) => j = i + 1
      BY <2>1 DEF NotesInv
    <2>3. s2c[i + 1].note \notin N
      <3>1. CASE IsNote(s2c[i + 1])
        <4>1. s2c[1].note # s2c[i + 1].note BY <1>1, <1>2, <2>2, <3>1
        <4> QED BY <1>1, <4>1
      <3>2. CASE ~IsNote(s2c[i + 1])
        <4>1. s2c[i + 1].note = 0 BY <2>2, <3>2
        <4> QED BY <1>2, <1>6, <4>1
      <3> QED BY <3>1, <3>2
    <2>4. ASSUME NEW j \in 1..Len(s2c'), IsNote(s2c'[i]), s2c'[j].note = s2c'[i].note PROVE j = i
      <3>1. j + 1 \in 1..Len(s2c) /\ s2c'[j] = s2c[j + 1] BY <1>3
      <3>2. j + 1 = i + 1 BY <2>1, <2>2, <2>4, <3>1
      <3> QED BY <1>1, <3>2
    <2> QED BY <1>5, <2>1, <2>2, <2>3, <2>4
  <1>9. ASSUME NEW n \in 1..notes PROVE n \in Known' \/ \E i \in 1..Len(s2c') : s2c'[i].note = n
    <2>1. CASE n \in Known BY <1>5, <2>1
    <2>2. ASSUME NEW i \in 1..Len(s2c), s2c[i].note = n
          PROVE  n \in Known' \/ \E k \in 1..Len(s2c') : s2c'[k].note = n
      <3>1. CASE i = 1
        <4>1. IsNote(Msg) /\ Msg.note = n BY <1>1, <1>2, <2>2, <3>1 DEF NotesInv
        <4> QED BY <1>5, <4>1
      <3>2. CASE i # 1 BY <1>4, <2>2, <3>2
      <3> QED BY <3>1, <3>2
    <2> QED BY <2>1, <2>2 DEF NotesInv
  <1> QED BY <1>7, <1>8, <1>9 DEF NotesInv

\* The server sends a frame: the next notification, or none.
LEMMA NotesSent ==
  ASSUME NEW kind \in BackendKinds, NEW progress \in Progress, NEW note \in Nat,
         TypeOK, NotesInv, Send(kind, progress, note), UNCHANGED <<fwd, drained>>,
         \/ kind = "NotificationResponse" /\ note = notes + 1 /\ notes' = notes + 1
         \/ kind # "NotificationResponse" /\ note = 0 /\ notes' = notes
  PROVE  NotesInv'
  <1> DEFINE f == [kind |-> kind, at |-> progress, note |-> note]
             last == Len(s2c) + 1
  <1>1. f \in BackendFrames /\ f.note = note /\ (IsNote(f) <=> kind = "NotificationResponse")
    BY DEF BackendFrames, IsNote
  <1>2. s2c' = Append(s2c, f) BY DEF Send
  <1> HIDE DEF f
  <1>3. /\ Len(s2c) \in Nat /\ Len(s2c') = last /\ s2c'[last] = f
        /\ \A i \in 1..Len(s2c) : s2c'[i] = s2c[i]
    BY <1>1, <1>2 DEF TypeOK
  <1>4. notes \in Nat /\ notes' \in Nat /\ notes <= notes' BY DEF TypeOK
  <1>5. Known' = Known /\ Known \subseteq 1..notes BY DEF Known, NotesInv
  <1>6. \A i \in 1..Len(s2c') : i = last \/ (i \in 1..Len(s2c) /\ s2c'[i] = s2c[i]) BY <1>3
  <1>7. \A i \in 1..Len(s2c) : s2c[i].note \in 0..notes BY <1>4 DEF NotesInv
  <1>8. note \in (IF IsNote(f) THEN 1..notes' ELSE {0}) /\ note \notin Known
        /\ (IsNote(f) => note \notin 0..notes)
    BY <1>1, <1>4, <1>5
  <1>9. ASSUME NEW i \in 1..Len(s2c')
        PROVE  /\ s2c'[i].note \in (IF IsNote(s2c'[i]) THEN 1..notes' ELSE {0})
               /\ s2c'[i].note \notin Known'
               /\ \A j \in 1..Len(s2c') : (IsNote(s2c'[i]) /\ s2c'[j].note = s2c'[i].note) => j = i
    <2>1. CASE i = last
      <3>1. s2c'[i] = f BY <1>3, <2>1
      <3>2. \A j \in 1..Len(s2c') : (IsNote(f) /\ s2c'[j].note = note) => j = last
        BY <1>6, <1>7, <1>8
      <3> QED BY <1>1, <1>5, <1>8, <2>1, <3>1, <3>2
    <2>2. CASE i \in 1..Len(s2c) /\ s2c'[i] = s2c[i]
      <3>1. /\ s2c[i].note \in (IF IsNote(s2c[i]) THEN 1..notes ELSE {0})
            /\ s2c[i].note \notin Known
            /\ \A j \in 1..Len(s2c) : (IsNote(s2c[i]) /\ s2c[j].note = s2c[i].note) => j = i
        BY <2>2 DEF NotesInv
      <3>2. s2c'[i].note \in (IF IsNote(s2c'[i]) THEN 1..notes' ELSE {0}) BY <1>4, <2>2, <3>1
      <3>3. ASSUME NEW j \in 1..Len(s2c'), IsNote(s2c'[i]), s2c'[j].note = s2c'[i].note PROVE j = i
        <4>1. CASE j \in 1..Len(s2c) /\ s2c'[j] = s2c[j] BY <2>2, <3>1, <3>3, <4>1
        <4>2. CASE j = last
          <5>1. s2c[i].note \in 1..notes BY <2>2, <3>1, <3>3
          <5>2. s2c[i].note = note BY <1>1, <1>3, <2>2, <3>3, <4>2
          <5> QED BY <1>4, <1>8, <5>1, <5>2
        <4> QED BY <1>6, <4>1, <4>2
      <3> QED BY <1>5, <2>2, <3>1, <3>2, <3>3
    <2> QED BY <1>6, <2>1, <2>2
  <1>10. ASSUME NEW n \in 1..notes' PROVE n \in Known' \/ \E i \in 1..Len(s2c') : s2c'[i].note = n
    <2>1. CASE n \in 1..notes
      <3>1. CASE n \in Known BY <1>5, <3>1
      <3>2. ASSUME NEW i \in 1..Len(s2c), s2c[i].note = n PROVE \E k \in 1..Len(s2c') : s2c'[k].note = n
        BY <1>3, <3>2
      <3> QED BY <2>1, <3>1, <3>2 DEF NotesInv
    <2>2. CASE n \notin 1..notes
      <3>1. n = note BY <1>4, <2>2
      <3>2. last \in 1..Len(s2c') BY <1>3
      <3> QED BY <1>1, <1>3, <3>1, <3>2
    <2> QED BY <2>1, <2>2
  <1>11. fwd' \cap drained' = {} /\ Known' \subseteq 1..notes' BY <1>4, <1>5 DEF NotesInv
  <1> QED BY <1>9, <1>10, <1>11 DEF NotesInv

\* What is taken is no notification, or nothing is taken.
LEMMA NotesPassed ==
  ASSUME NEW kinds, TypeOK, NotesInv, UNCHANGED <<fwd, drained, notes>>,
         (Decode(kinds) /\ "NotificationResponse" \notin kinds) \/ UNCHANGED s2c
  PROVE  NotesInv'
  <1>1. CASE UNCHANGED s2c BY <1>1, NotesKept
  <1>2. CASE Decode(kinds) /\ "NotificationResponse" \notin kinds
    <2>1. Msg.kind \in kinds BY <1>2, DecodeType, TypeParts
    <2>2. {} = IF IsNote(Msg) THEN {Msg.note} ELSE {} BY <1>2, <2>1 DEF IsNote
    <2>3. fwd' = fwd \cup {} /\ drained' = drained OBVIOUS
    <2> QED BY <1>2, <2>2, <2>3, NotesRead
  <1> QED BY <1>1, <1>2

\* A frame that is no notification is sent, or nothing is.
LEMMA NotesAnswer ==
  ASSUME NEW kind \in BackendKinds, NEW progress \in Progress, kind # "NotificationResponse",
         TypeOK, NotesInv, Send(kind, progress, 0), UNCHANGED <<fwd, drained, notes>>
  PROVE  NotesInv'
  BY NotesSent

\* The server's steps.
LEMMA NotesServe ==
  ASSUME TypeOK, NotesInv, up', Serve, UNCHANGED <<fwd, drained>>
  PROVE  NotesInv'
  <1>0. /\ \A id \in Nat : Fresh(id) \in Progress /\ Current(id) \in Progress
        /\ at \in Progress /\ at.set \in Nat /\ at.counted \in Nat /\ SetOfStatement \in Nat
        /\ \A p \in Progress : [p EXCEPT !.set = @ + 1] \in Progress
        /\ \A p \in Progress : [p EXCEPT !.rows = @ + 1] \in Progress
        /\ \A n, c \in Nat : [at EXCEPT !.set = n, !.counted = c] \in Progress
    <2>1. at \in Progress BY DEF TypeOK
    <2>2. \A id \in Nat : Fresh(id) \in Progress /\ Current(id) \in Progress
      BY <2>1 DEF Fresh, Current, Progress
    <2>3. \A p \in Progress : [p EXCEPT !.set = @ + 1] \in Progress
                             /\ [p EXCEPT !.rows = @ + 1] \in Progress
      BY DEF Progress
    <2>4. \A n, c \in Nat : [at EXCEPT !.set = n, !.counted = c] \in Progress
      BY <2>1 DEF Progress
    <2>5. at.set \in Nat /\ at.counted \in Nat BY <2>1 DEF Progress
    <2>6. SetOfStatement \in Nat BY ONLY <2>5 DEF SetOfStatement
    <2> QED BY <2>1, <2>2, <2>3, <2>4, <2>5, <2>6
  <1> DEFINE AnswerKinds == {"RowDescription", "DataRow", "CommandComplete", "EmptyQueryResponse",
                 "ReadyForQuery", "ErrorResponse", "ParseComplete", "BindComplete", "NoData", "Unknown"}
  <1>a. ASSUME NEW kind \in AnswerKinds, NEW progress \in Progress, Answer(kind, progress)
        PROVE  NotesInv'
    <2>1. kind \in BackendKinds /\ kind # "NotificationResponse" BY DEF BackendKinds, KnownKinds
    <2> HIDE DEF AnswerKinds
    <2>2. Send(kind, progress, 0) /\ UNCHANGED notes BY <1>a DEF Answer
    <2> QED BY <2>1, <2>2, NotesAnswer
  <1>s. ASSUME Silent PROVE NotesInv' BY <1>s, NotesKept DEF Silent
  <1>k. {"RowDescription", "DataRow", "CommandComplete", "EmptyQueryResponse", "ReadyForQuery",
         "ErrorResponse", "ParseComplete", "BindComplete", "NoData", "Unknown"} \subseteq AnswerKinds
    OBVIOUS
  <1> HIDE DEF AnswerKinds
  <1>1. CASE ReadQuery \/ ReadExecute \/ ReadFlush \/ Discard
    BY <1>1, <1>s DEF ReadQuery, ReadExecute, ReadFlush, Discard
  <1>2. CASE DescribeRows \/ SendRow \/ EmptyQuery \/ FailStatement \/ EndSimpleQuery \/ StartCopy
    BY <1>2, <1>0, <1>a, <1>k
    DEF DescribeRows, SendRow, EmptyQuery, FailStatement, EndSimpleQuery, StartCopy
  <1>3. CASE CompleteCommand
    <2>1. PICK c \in {at.counted, SetOfStatement} :
            Answer("CommandComplete", [at EXCEPT !.set = SetOfStatement, !.counted = c])
      BY <1>3 DEF CompleteCommand
    <2> QED BY <2>1, <1>0, <1>a, <1>k
  <1>4. CASE InterruptCopy BY <1>4, <1>0, <1>a, <1>s, <1>k DEF InterruptCopy
  <1>5. CASE ReadExtended \/ ReadSync
    <2>1. \E kinds : Take(kinds) BY <1>5 DEF ReadExtended, ReadSync
    <2>2. out[1] \in [kind : FrontendKinds, id : Nat] BY <2>1, TakeType, TypeParts
    <2>3. Current(out[1].id) \in Progress BY <2>2, <1>0
    <2> QED BY <1>5, <2>3, <1>0, <1>a, <1>k DEF ReadExtended, ReadSync
  <1>6. CASE ReadTerminate BY <1>6 DEF ReadTerminate
  <1> QED BY <1>1, <1>2, <1>3, <1>4, <1>5, <1>6 DEF Serve

\* What happens around the client.
LEMMA NotesEnvironment ==
  ASSUME TypeOK, NotesInv, up', Environment, UNCHANGED <<fwd, drained>>
  PROVE  NotesInv'
  <1>0. at \in Progress /\ notes + 1 \in Nat BY DEF TypeOK
  <1>1. CASE Notify
    <2>1. "NotificationResponse" \in BackendKinds BY DEF BackendKinds, KnownKinds
    <2>2. Send("NotificationResponse", at, notes + 1) /\ notes' = notes + 1 BY <1>1 DEF Notify
    <2> QED BY <1>0, <2>1, <2>2, NotesSent
  <1>2. CASE MakeNoise
    <2>1. PICK kind \in NoiseKinds : Send(kind, at, 0) BY <1>2 DEF MakeNoise
    <2>2. kind \in BackendKinds /\ kind # "NotificationResponse"
      BY BackendAssumption DEF BackendKinds, KnownKinds
    <2>3. UNCHANGED notes BY <1>2 DEF MakeNoise
    <2> QED BY <1>0, <2>1, <2>2, <2>3, NotesAnswer
  <1>3. CASE Fatal \/ Lose BY <1>3 DEF Fatal, Lose
  <1> QED BY <1>1, <1>2, <1>3 DEF Environment

\* The client's steps.
LEMMA NotesRun ==
  ASSUME TypeOK, NotesInv, ClientStep \/ Application
  PROVE  NotesInv'
  <1> USE DEF writeVars, serverVars, clientVars
  <1>e. ASSUME YieldErr \/ YieldNone, UNCHANGED <<fwd, drained, notes>> PROVE NotesInv'
    <2>1. Decode({"Malformed"}) \/ Decode({"Unknown"}) \/ UNCHANGED s2c
      BY <1>e DEF YieldErr, YieldNone
    <2>2. "NotificationResponse" \notin {"Malformed"} /\ "NotificationResponse" \notin {"Unknown"}
      OBVIOUS
    <2> QED BY <1>e, <2>1, <2>2, NotesPassed
  <1>y. ASSUME Yield, UNCHANGED notes, NEW N, N = IF IsNote(Msg) THEN {Msg.note} ELSE {},
               (fwd' = fwd \cup N /\ drained' = drained) \/ (fwd' = fwd /\ drained' = drained \cup N)
        PROVE  NotesInv'
    BY <1>y, NotesRead DEF Yield
  <1>1. CASE SendNext \/ FlushNext \/ SendDone \/ SendFails \/ Application
    <2>1. UNCHANGED <<s2c, fwd, drained, notes>>
      BY <1>1 DEF SendNext, FlushNext, SendDone, SendFails, Application, BeginPoll, Begin,
                  DropWhileSending, DropWhileReading
    <2> QED BY <2>1, NotesKept
  <1>2. CASE Pump
    <2>1. UNCHANGED <<fwd, drained, notes>> /\ (Decode({"Unknown"}) \/ UNCHANGED s2c)
      BY <1>2 DEF Pump, Fill, FillEof, NeedMore, SkipUnknown
    <2> QED BY <2>1, NotesPassed
  <1>3. CASE OnNotification
    <2>1. Yield /\ IsNote(Msg) /\ UNCHANGED notes BY <1>3 DEF OnNotification, Receive, IsNote
    <2> QED BY <1>3, <2>1, <1>y DEF OnNotification
  <1>4. CASE OnRowDescription \/ OnDataRow \/ OnCommandComplete \/ OnReadyForQuery
               \/ OnErrorResponse \/ OnOther
    <2>1. Yield /\ ~IsNote(Msg) /\ UNCHANGED <<fwd, drained, notes>>
      BY <1>4 DEF OnRowDescription, OnDataRow, OnCommandComplete, OnReadyForQuery,
                  OnErrorResponse, OnOther, Receive, IsNote
    <2>2. fwd' = fwd \cup {} /\ drained' = drained BY <2>1
    <2> QED BY <2>1, <2>2, <1>y
  <1>5. CASE DrainMessage BY <1>5, <1>y DEF DrainMessage, IsNote
  <1>6. CASE PollMessage BY <1>6, <1>y DEF PollMessage, IsNote
  <1>7. CASE ReadFails \/ DrainError \/ DrainNone \/ PollEnds
    BY <1>7, <1>e DEF ReadFails, DrainError, DrainNone, PollEnds
  <1> QED BY <1>1, <1>2, <1>3, <1>4, <1>5, <1>6, <1>7 DEF ClientStep, Read, Drain, Poll

\* What the numbers satisfy while the server is there.
NotesUp == up => NotesInv

LEMMA NotesHeld == Spec => []NotesUp
  <1>1. Init => NotesUp BY DEF Init, StreamInit, ServerInit, NotesUp, NotesInv, Known
  <1>2. TypeOK /\ NotesUp /\ [Next]_vars => NotesUp'
    <2> SUFFICES ASSUME TypeOK, NotesUp, [Next]_vars, up' PROVE NotesInv' BY DEF NotesUp
    <2>1. CASE UNCHANGED vars
      <3>1. UNCHANGED <<up, s2c, fwd, drained, notes>>
        BY <2>1 DEF vars, clientVars, serverVars
      <3> QED BY <3>1, NotesKept DEF NotesUp
    <2>2. CASE ClientStep \/ Application
      <3>1. UNCHANGED up
        BY <2>2 DEF ClientStep, Application, SendNext, FlushNext, SendDone, SendFails, Pump,
             Read, Drain, Poll, OnRowDescription, OnDataRow, OnCommandComplete, OnReadyForQuery,
             OnErrorResponse, OnNotification, OnOther, ReadFails, Receive, DrainMessage,
             DrainError, DrainNone, PollMessage, PollEnds, BeginPoll, Begin, DropWhileSending,
             DropWhileReading
      <3> QED BY <2>2, <3>1, NotesRun DEF NotesUp
    <2>3. CASE ServerStep
      <3>1. UNCHANGED <<fwd, drained>> /\ (Serve \/ Environment)
        BY <2>3 DEF ServerStep, clientVars
      <3>2. up
        BY <3>1 DEF Serve, ReadQuery, DescribeRows, SendRow, CompleteCommand, EmptyQuery,
             FailStatement, EndSimpleQuery, StartCopy, InterruptCopy, ReadExtended, ReadExecute,
             ReadSync, ReadFlush, Discard, ReadTerminate, Answer, Silent, Take, Send,
             Environment, Notify, MakeNoise, Fatal, Lose
      <3> QED BY <3>1, <3>2, NotesServe, NotesEnvironment DEF NotesUp
    <2> QED BY <2>1, <2>2, <2>3 DEF Next
  <1> QED BY <1>1, <1>2, TypeCorrect, PTL DEF Spec

\* While the connection is up no read loop of client.rs loses a notification or forwards
\* it twice, for any number of calls, dropped calls, notifications and decode errors.
THEOREM NotesCorrect == Spec => []NotificationsAccounted
  <1>1. TypeOK /\ NotesUp => NotificationsAccounted
    <2>1. ~up => NotificationsAccounted BY DEF NotificationsAccounted
    <2> QED BY <2>1, NotesCounted DEF NotesUp
  <1> QED BY <1>1, NotesHeld, TypeCorrect, PTL
=============================================================================
