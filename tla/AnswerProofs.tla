----------------------------- MODULE AnswerProofs ----------------------------
(***************************************************************************)
(* Proofs about what the calls of a Session return: the whole answer, for   *)
(* every number of calls, statements, rows and faults; and, from that, that *)
(* the calls of a Session implement those of Calls: each call that returns  *)
(* on a connection that lasts returns the one decision of the server.       *)
(***************************************************************************)
EXTENDS SessionProofs

\* What a read loop has gathered from the messages so far: the columns of the latest
\* RowDescription, the number of rows, the count of the last tag that has one.
Tracks == [columns : Columns, rows : Nat, affected : Nat]
NoTrack == [columns |-> NoColumns, rows |-> 0, affected |-> 0]

After(t, kind, p) ==
  [columns  |-> IF kind = "RowDescription" THEN [id |-> p.id, set |-> p.set] ELSE t.columns,
   rows     |-> IF kind = "DataRow" THEN t.rows + 1 ELSE t.rows,
   affected |-> IF kind = "CommandComplete" /\ p.counted = p.set THEN p.set ELSE t.affected]

\* A message fits what precedes it.
Fits(t, kind, p) ==
  /\ kind = "DataRow" => t.columns = [id |-> p.id, set |-> p.set] /\ p.rows = t.rows + 1
  /\ kind = "ReadyForQuery" => p.rows = t.rows /\ p.counted = t.affected

\* The server may send rows of the result set it has described last.
Describing ==
  \/ phase = "rows"
  \/ /\ Current(call).set > 0
     /\ \/ phase = "exec"
        \/ phase = "ready" /\ \E i \in 1..Len(out) : out[i].kind = "Execute"

\* The loop starts from its local variables, goes through the messages on their way, and
\* ends with what the server has done for the call.
Starts(t) ==
  /\ op # "execute" => acc.columns = t.columns /\ Len(acc.rows) = t.rows
  /\ op = "execute" => acc.affected = t.affected

Follows(h) ==
  \A i \in 1..Len(s2c) : /\ Fits(h[i - 1], s2c[i].kind, s2c[i].at)
                         /\ h[i] = After(h[i - 1], s2c[i].kind, s2c[i].at)

Ends(t) ==
  up => /\ Current(call).rows = t.rows /\ Current(call).counted = t.affected
        /\ Describing => t.columns = [id |-> call, set |-> Current(call).set]

Histories  == [0..Len(s2c) -> Tracks]
Foresees(h) == Starts(h[0]) /\ Follows(h) /\ Ends(h[Len(s2c)])
TraceInv   == (InCall /\ pc # "drain") => \E h \in Histories : Foresees(h)

\* The requests of a call are executed once.
OrderInv ==
  /\ at.id <= call
  /\ \A i \in 1..Len(out) : out[i].kind = "Query" => at.id # call
  /\ \A i, j \in 1..Len(out) : (out[i].kind = "Execute" /\ out[j].kind = "Execute") => i = j
  /\ phase = "exec" => \A i \in 1..Len(out) : out[i].kind # "Execute"

RowsInv ==
  /\ pc \notin {"read", "drain"} => acc = NoLocals
  /\ \A i \in 1..Len(acc.rows) :
       acc.rows[i].n = i /\ acc.rows[i].columns = [id |-> acc.rows[i].id, set |-> acc.rows[i].set]

GatherInv == OrderInv /\ RowsInv /\ TraceInv /\ RowsComplete /\ AffectedIsLastCount
CleanInv  == clean => GatherInv

-----------------------------------------------------------------------------
(* Histories *)

\* A message keeps what has been gathered well typed.
LEMMA AfterType ==
  ASSUME NEW t \in Tracks, NEW kind, NEW p \in Progress
  PROVE  After(t, kind, p) \in Tracks
  BY DEF After, Tracks, Columns, Progress

\* The local variables and the messages stay as they are.
LEMMA TraceKept ==
  ASSUME NEW h \in Histories, Foresees(h), UNCHANGED <<s2c, acc>>, (op = "execute") <=> (op' = "execute"),
         NEW e, e = h[Len(s2c)], Ends(e)'
  PROVE  \E g \in Histories' : Foresees(g)'
  <1>1. h \in Histories' BY DEF Histories
  <1>2. Starts(h[0])' /\ Follows(h)' BY DEF Foresees, Starts, Follows
  <1>3. Ends(h[Len(s2c)])' BY DEF Ends
  <1>4. Foresees(h)' BY <1>2, <1>3 DEF Foresees
  <1> QED BY <1>1, <1>4

\* The server sends a message.
LEMMA TraceSend ==
  ASSUME NEW h \in Histories, Foresees(h), NEW t, t = h[Len(s2c)],
         NEW kind \in BackendKinds, NEW p \in Progress, NEW note \in Nat,
         InType, Send(kind, p, note), UNCHANGED <<acc, op>>,
         Fits(t, kind, p), Ends(After(t, kind, p))'
  PROVE  \E g \in Histories' : Foresees(g)'
  <1> DEFINE n == Len(s2c)
  <1>1. /\ n \in Nat /\ Len(s2c') = n + 1
        /\ \A i \in 1..n : s2c'[i] = s2c[i]
        /\ s2c'[n + 1].kind = kind /\ s2c'[n + 1].at = p
    BY SendAppends
  <1>2. \A i \in 0..n : h[i] \in Tracks BY DEF Histories
  <1>3. t \in Tracks BY <1>1, <1>2
  <1>4. After(t, kind, p) \in Tracks BY <1>3, AfterType
  <1>5. PICK g \in [0..(n + 1) -> Tracks] : (\A i \in 0..n : g[i] = h[i]) /\ g[n + 1] = After(t, kind, p)
    <2> DEFINE e == [i \in 0..(n + 1) |-> IF i = n + 1 THEN After(t, kind, p) ELSE h[i]]
    <2>1. e \in [0..(n + 1) -> Tracks] BY <1>1, <1>2, <1>4
    <2>2. (\A i \in 0..n : e[i] = h[i]) /\ e[n + 1] = After(t, kind, p) BY <1>1
    <2> QED BY <2>1, <2>2
  <1>6. g \in Histories' BY <1>1, <1>5 DEF Histories
  <1>7. Starts(g[0])'
    <2>1. g[0] = h[0] BY <1>1, <1>5
    <2> QED BY <2>1 DEF Foresees, Starts
  <1>8. Follows(g)'
    <2> SUFFICES ASSUME NEW i \in 1..(n + 1)
                 PROVE  /\ Fits(g[i - 1], s2c'[i].kind, s2c'[i].at)
                        /\ g[i] = After(g[i - 1], s2c'[i].kind, s2c'[i].at)
      BY <1>1 DEF Follows
    <2>1. CASE i \in 1..n
      <3>1. g[i] = h[i] /\ g[i - 1] = h[i - 1] /\ s2c'[i] = s2c[i] BY <1>1, <1>5, <2>1
      <3> QED BY <2>1, <3>1 DEF Foresees, Follows
    <2>2. CASE i = n + 1
      <3>1. g[i - 1] = t /\ g[i] = After(t, kind, p) BY <1>1, <1>5, <2>2
      <3> QED BY <1>1, <2>2, <3>1
    <2> QED BY <1>1, <2>1, <2>2
  <1>9. Ends(g[Len(s2c)])'
    <2>1. g[Len(s2c')] = After(t, kind, p) BY <1>1, <1>5
    <2> QED BY <2>1 DEF Ends
  <1> QED BY <1>6, <1>7, <1>8, <1>9 DEF Foresees

\* The client takes a message.
LEMMA TraceRead ==
  ASSUME NEW h \in Histories, Foresees(h), NEW kinds, InType, Decode(kinds),
         NEW t, t = After(h[0], Msg.kind, Msg.at), Starts(t)',
         NEW e, e = h[Len(s2c)], Ends(e)'
  PROVE  \E g \in Histories' : Foresees(g)'
  <1> DEFINE n == Len(s2c)
  <1>1. /\ n \in Nat /\ n > 0 /\ Len(s2c') = n - 1
        /\ \A i \in 1..(n - 1) : s2c'[i] = s2c[i + 1]
        /\ Msg = s2c[1]
    BY DecodeShifts
  <1>2. \A i \in 0..n : h[i] \in Tracks BY DEF Histories
  <1>3. PICK g \in [0..(n - 1) -> Tracks] : \A i \in 0..(n - 1) : g[i] = h[i + 1]
    <2> DEFINE f == [i \in 0..(n - 1) |-> h[i + 1]]
    <2>1. f \in [0..(n - 1) -> Tracks] BY <1>1, <1>2
    <2> QED BY <2>1
  <1>4. g \in Histories' BY <1>1, <1>3 DEF Histories
  <1>5. Starts(g[0])'
    <2>1. g[0] = t BY <1>1, <1>3 DEF Foresees, Follows
    <2> QED BY <2>1
  <1>6. Follows(g)'
    <2> SUFFICES ASSUME NEW i \in 1..(n - 1)
                 PROVE  /\ Fits(g[i - 1], s2c'[i].kind, s2c'[i].at)
                        /\ g[i] = After(g[i - 1], s2c'[i].kind, s2c'[i].at)
      BY <1>1 DEF Follows
    <2>1. g[i] = h[i + 1] /\ g[i - 1] = h[(i + 1) - 1] /\ s2c'[i] = s2c[i + 1] BY <1>1, <1>3
    <2>2. i + 1 \in 1..Len(s2c) BY <1>1
    <2> QED BY <2>1, <2>2 DEF Foresees, Follows
  <1>7. Ends(g[Len(s2c)])'
    <2>1. g[Len(s2c')] = e BY <1>1, <1>3
    <2> QED BY <2>1 DEF Ends
  <1> QED BY <1>4, <1>5, <1>6, <1>7 DEF Foresees

\* The connection is cut.
LEMMA TraceCut ==
  ASSUME NEW h \in Histories, Foresees(h), InType, NEW n \in 0..Len(s2c), s2c' = SubSeq(s2c, 1, n),
         UNCHANGED <<acc, op>>, ~up'
  PROVE  \E g \in Histories' : Foresees(g)'
  <1>1. Len(s2c) \in Nat /\ Len(s2c') = n /\ \A i \in 1..n : s2c'[i] = s2c[i] BY DEF InType
  <1>2. PICK g \in [0..n -> Tracks] : \A i \in 0..n : g[i] = h[i]
    <2> DEFINE e == [i \in 0..n |-> h[i]]
    <2>1. e \in [0..n -> Tracks] BY <1>1 DEF Histories
    <2> QED BY <2>1
  <1>3. g \in Histories' BY <1>1, <1>2 DEF Histories
  <1>4. Starts(g[0])'
    <2>1. g[0] = h[0] BY <1>1, <1>2
    <2> QED BY <2>1 DEF Foresees, Starts
  <1>5. Follows(g)'
    <2>1. \A i \in 1..n : g[i] = h[i] /\ g[i - 1] = h[i - 1] /\ i \in 1..Len(s2c) BY <1>1, <1>2
    <2> QED BY <1>1, <2>1 DEF Foresees, Follows
  <1>6. Ends(g[Len(s2c)])' BY DEF Ends
  <1> QED BY <1>3, <1>4, <1>5, <1>6 DEF Foresees

-----------------------------------------------------------------------------
(* The server *)

\* What Current gives, and the records the server makes of it.
LEMMA CurrentFacts ==
  ASSUME TypeOK
  PROVE  /\ at \in Progress /\ at.id \in Nat /\ at.set \in Nat /\ at.rows \in Nat /\ at.counted \in Nat
         /\ call \in Nat /\ Current(call) \in Progress
         /\ Current(call).set \in Nat
         /\ (at.id = call => Current(call) = at)
         /\ (at.id # call => Current(call) = Fresh(call))
         /\ Current(call).id = call
  <1>1. at \in Progress /\ call \in Nat BY DEF TypeOK
  <1>2. Fresh(call) \in Progress /\ Fresh(call).id = call BY <1>1 DEF Fresh, Progress
  <1> QED BY <1>1, <1>2 DEF Current, Progress

\* Only one request is on its way.
LEMMA OneRequest ==
  ASSUME OutInv, TypeOK
  PROVE  /\ (\E i \in 1..Len(out) : out[i].kind = "Query") =>
                \A i \in 1..Len(out) : out[i].kind \notin ExtendedKinds \cup {"Sync"}
         /\ phase \notin {"ready", "exec", "skip"} => \A i \in 1..Len(out) : out[i].kind # "Execute"
  <1>1. Len(out) \in Nat BY DEF TypeOK
  <1>2. ASSUME NEW i \in 1..Len(out), out[i].kind = "Query", NEW j \in 1..Len(out),
               out[j].kind = "Sync"
        PROVE  FALSE
    <2>1. /\ \A k \in (i + 1)..Len(out) : out[k].kind = "Flush"
          /\ \A k \in (j + 1)..Len(out) : out[k].kind = "Flush"
      BY <1>2 DEF OutInv, SyncKinds
    <2>2. i = j \/ j \in (i + 1)..Len(out) \/ i \in (j + 1)..Len(out) BY <1>1
    <2> QED BY <1>2, <2>1, <2>2
  <1>3. ASSUME NEW j \in 1..Len(out), out[j].kind \in ExtendedKinds
        PROVE  \E k \in 1..Len(out) : out[k].kind = "Sync"
    <2>1. PICK k \in (j + 1)..Len(out) : out[k].kind = "Sync" BY <1>3 DEF OutInv
    <2>2. k \in 1..Len(out) BY <1>1
    <2> QED BY <2>1, <2>2
  <1>4. "Execute" \in ExtendedKinds /\ "Sync" \in SyncKinds BY DEF ExtendedKinds, SyncKinds
  <1>5. ASSUME NEW i \in 1..Len(out), out[i].kind = "Query", NEW j \in 1..Len(out)
        PROVE  out[j].kind \notin ExtendedKinds \cup {"Sync"}
    BY <1>2, <1>3, <1>5
  <1>6. ASSUME phase \notin {"ready", "exec", "skip"}, NEW j \in 1..Len(out), out[j].kind = "Execute"
        PROVE  FALSE
    <2>1. PICK k \in 1..Len(out) : out[k].kind = "Sync" BY <1>3, <1>4, <1>6
    <2> QED BY <1>4, <1>6, <2>1 DEF OutInv
  <1> QED BY <1>5, <1>6

\* The server's steps, seen by the loop that reads their answers.
LEMMA ServeTrace ==
  ASSUME TypeOK, StreamInv, OrderInv, TraceInv, Serve, UNCHANGED clientVars
  PROVE  TraceInv'
  <1> USE DEF clientVars
  <1> SUFFICES ASSUME InCall, pc # "drain" PROVE \E g \in Histories' : Foresees(g)'
    BY DEF TraceInv, InCall, Pending
  <1>1. PICK h \in Histories : Foresees(h) BY DEF TraceInv
  <1>2. PICK t : t = h[Len(s2c)] OBVIOUS
  <1>3. OutType /\ InType /\ OutInv /\ PhaseInv /\ InInv BY TypeParts DEF StreamInv
  <1>4. t \in Tracks
    <2>1. Len(s2c) \in 0..Len(s2c) BY <1>3 DEF InType
    <2> QED BY <1>2, <2>1 DEF Histories
  <1>5. up => /\ Current(call).rows = t.rows /\ Current(call).counted = t.affected
              /\ Describing => t.columns = [id |-> call, set |-> Current(call).set]
    BY <1>1, <1>2 DEF Foresees, Ends
  \* The server answers, or goes on in silence.
  <1>a. ASSUME NEW kind \in BackendKinds, NEW p \in Progress, Answer(kind, p),
               Fits(t, kind, p), Ends(After(t, kind, p))'
        PROVE  \E g \in Histories' : Foresees(g)'
    <2>1. Send(kind, p, 0) BY <1>a DEF Answer
    <2> QED BY <1>1, <1>2, <1>3, <1>a, <2>1, TraceSend
  <1>b. ASSUME Silent, Ends(t)' PROVE \E g \in Histories' : Foresees(g)'
    BY <1>1, <1>2, <1>b, TraceKept DEF Silent
  \* Only the progress and what is described matter at the end.
  <1>e. ASSUME NEW u \in Tracks, Current(call)'.rows = u.rows, Current(call)'.counted = u.affected,
               Describing' => u.columns = [id |-> call, set |-> Current(call)'.set]
        PROVE  Ends(u)'
    BY <1>e DEF Ends
  <1>f. ASSUME at'.id = call PROVE Current(call)' = at' BY <1>f DEF Current
  <1>c. /\ at \in Progress /\ at.id \in Nat /\ at.set \in Nat /\ at.rows \in Nat /\ at.counted \in Nat
        /\ call \in Nat /\ Current(call) \in Progress /\ Current(call).set \in Nat
        /\ (at.id = call => Current(call) = at)
        /\ (at.id # call => Current(call) = Fresh(call)) /\ Current(call).id = call
    BY CurrentFacts
  <1>k. {"RowDescription", "DataRow", "CommandComplete", "EmptyQueryResponse", "ReadyForQuery",
         "ErrorResponse", "ParseComplete", "BindComplete", "NoData", "Unknown"} \subseteq BackendKinds
    BY DEF BackendKinds, KnownKinds
  \* Most messages change nothing of what the loop gathers.
  <1>n. ASSUME NEW kind, kind \notin {"RowDescription", "DataRow", "CommandComplete"}, NEW p \in Progress
        PROVE  /\ After(t, kind, p) = t
               /\ kind # "ReadyForQuery" => Fits(t, kind, p)
    BY <1>n, <1>4 DEF After, Fits, Tracks
  \* A frame of the call in progress.
  <1>q. ASSUME NEW kinds, Take(kinds), "Flush" \notin kinds
        PROVE  /\ out[1].id = call /\ out[1].kind \in kinds
               /\ \A i \in 1..Len(out') : \E j \in 1..Len(out) : out'[i] = out[j]
    <2>1. out[1].id = call /\ out[1].kind \in kinds BY <1>3, <1>q, TakeRequest
    <2>2. \A i \in 1..Len(out') : i + 1 \in 1..Len(out) /\ out'[i] = out[i + 1]
      BY <1>3, <1>q, TakeShifts
    <2> QED BY <2>1, <2>2
  <1>6. CASE ReadQuery
    <2>1. Take({"Query"}) /\ Silent /\ up /\ phase' = "simple" /\ at' = Fresh(out[1].id)
      BY <1>6 DEF ReadQuery, Take
    <2>2. out[1].id = call /\ 1 \in 1..Len(out) /\ out[1].kind = "Query"
      BY <1>3, <1>q, <2>1, TakeShifts
    <2>3. at.id # call BY <2>2 DEF OrderInv
    <2>4. Current(call)' = Fresh(call) /\ Current(call) = Fresh(call)
      BY <1>c, <2>1, <2>2, <2>3 DEF Current, Fresh
    <2>5. ~Describing' BY <2>1, <2>4 DEF Describing, Fresh
    <2>6. Ends(t)' BY <1>4, <1>5, <1>e, <2>1, <2>4, <2>5
    <2> QED BY <1>b, <2>1, <2>6
  <1>7. CASE DescribeRows
    <2>0. PICK p : p = [at EXCEPT !.set = @ + 1] OBVIOUS
    <2>1. phase = "simple" /\ phase' = "rows" /\ Answer("RowDescription", p) /\ up /\ at' = p
      BY <1>7, <2>0 DEF DescribeRows, Answer, Send
    <2>2. at.id = call BY <1>3, <2>1 DEF PhaseInv
    <2>3. /\ p \in Progress /\ p.id = call /\ p.rows = at.rows /\ p.counted = at.counted
          /\ p.set = at.set + 1
      BY <1>c, <2>0, <2>2 DEF Progress
    <2>4. Current(call)' = p /\ Current(call) = at BY <1>c, <1>f, <2>1, <2>2, <2>3
    <2>5. After(t, "RowDescription", p) = [t EXCEPT !.columns = [id |-> call, set |-> p.set]]
      BY <1>4, <2>3 DEF After, Tracks
    <2>6. After(t, "RowDescription", p) \in Tracks BY <1>4, <2>3, AfterType
    <2>7. Ends(After(t, "RowDescription", p))' BY <1>4, <1>5, <1>e, <2>1, <2>3, <2>4, <2>5, <2>6 DEF Tracks
    <2>8. Fits(t, "RowDescription", p) BY DEF Fits
    <2> QED BY <1>a, <1>k, <2>1, <2>3, <2>7, <2>8
  <1>8. CASE SendRow
    <2>0. PICK p : p = [at EXCEPT !.rows = @ + 1] OBVIOUS
    <2>1. /\ phase = "rows" \/ (phase = "exec" /\ at.set > 0)
          /\ Answer("DataRow", p) /\ up /\ at' = p /\ phase' = phase
      BY <1>8, <2>0 DEF SendRow, Answer, Send
    <2>2. at.id = call BY <1>3, <2>1 DEF PhaseInv
    <2>3. /\ p \in Progress /\ p.id = call /\ p.rows = at.rows + 1 /\ p.counted = at.counted
          /\ p.set = at.set
      BY <1>c, <2>0, <2>2 DEF Progress
    <2>4. Current(call)' = p /\ Current(call) = at BY <1>c, <1>f, <2>1, <2>2, <2>3
    <2>5. Describing BY <2>1, <2>4 DEF Describing
    <2>6. t.columns = [id |-> p.id, set |-> p.set] /\ p.rows = t.rows + 1
      BY <1>5, <2>1, <2>3, <2>4, <2>5
    <2>7. After(t, "DataRow", p) = [t EXCEPT !.rows = t.rows + 1] BY <1>4 DEF After, Tracks
    <2>8. After(t, "DataRow", p) \in Tracks BY <1>4, <2>3, AfterType
    <2>9. Ends(After(t, "DataRow", p))'
      BY <1>4, <1>5, <1>e, <2>1, <2>3, <2>4, <2>6, <2>7, <2>8 DEF Tracks
    <2>10. Fits(t, "DataRow", p) BY <2>6 DEF Fits
    <2> QED BY <1>a, <1>k, <2>1, <2>3, <2>9, <2>10
  <1>9. CASE CompleteCommand
    <2> DEFINE s == SetOfStatement
    <2>1. PICK c \in {at.counted, s} :
            Answer("CommandComplete", [at EXCEPT !.set = s, !.counted = c])
      BY <1>9 DEF CompleteCommand
    <2>2. s \in Nat BY <1>c DEF SetOfStatement
    <2> HIDE DEF s
    <2>0. PICK p : p = [at EXCEPT !.set = s, !.counted = c] OBVIOUS
    <2>3. /\ phase \in {"simple", "rows", "exec"} /\ phase' = (IF phase = "exec" THEN "ready" ELSE "simple")
          /\ UNCHANGED out /\ up /\ at' = p
      BY <1>9, <2>0, <2>1 DEF CompleteCommand, writeVars, Answer, Send
    <2>4. at.id = call BY <1>3, <2>3 DEF PhaseInv
    <2>5. p \in Progress /\ p.id = call /\ p.rows = at.rows /\ p.counted = c /\ p.set = s
      BY <1>c, <2>0, <2>1, <2>2, <2>4 DEF Progress
    <2>6. Answer("CommandComplete", p) BY <2>0, <2>1
    <2>7. Current(call)' = p /\ Current(call) = at BY <1>c, <1>f, <2>3, <2>4, <2>5
    <2>8. ~Describing'
      <3>1. phase' # "rows" /\ phase' # "exec" BY <2>3
      <3>2. phase' = "ready" => \A i \in 1..Len(out') : out'[i].kind # "Execute"
        BY <2>3 DEF OrderInv
      <3> QED BY <3>1, <3>2 DEF Describing
    <2>9. After(t, "CommandComplete", p) = [t EXCEPT !.affected = c]
      BY <1>4, <1>5, <2>1, <2>3, <2>5, <2>7 DEF After, Tracks
    <2>10. After(t, "CommandComplete", p) \in Tracks BY <1>4, <2>5, AfterType
    <2>11. Ends(After(t, "CommandComplete", p))'
      BY <1>4, <1>5, <1>e, <2>3, <2>5, <2>7, <2>8, <2>9, <2>10 DEF Tracks
    <2>12. Fits(t, "CommandComplete", p) BY DEF Fits
    <2> QED BY <1>a, <1>k, <2>5, <2>6, <2>11, <2>12
  \* A message that changes nothing of what the loop gathers, and no progress either.
  <1>m. ASSUME NEW kind \in BackendKinds, NEW p \in Progress, Answer(kind, p), p.id = call,
               kind \notin {"RowDescription", "DataRow", "CommandComplete"},
               up, p.rows = Current(call).rows, p.counted = Current(call).counted,
               Describing' => p.set = Current(call).set /\ Describing
        PROVE  \E g \in Histories' : Foresees(g)'
    <2>1. at' = p BY <1>m DEF Answer
    <2>2. Current(call)' = p BY <1>f, <1>m, <2>1
    <2>3. After(t, kind, p) = t /\ (kind # "ReadyForQuery" => Fits(t, kind, p)) BY <1>m, <1>n
    <2>4. Fits(t, kind, p) BY <1>5, <1>m, <2>3 DEF Fits
    <2>5. Ends(t)' BY <1>4, <1>5, <1>e, <1>m, <2>2
    <2>6. Ends(After(t, kind, p))' BY <2>3, <2>5
    <2> QED BY <1>a, <1>m, <2>4, <2>6
  <1>10. CASE EmptyQuery
    <2>1. /\ phase \in {"simple", "exec"} /\ phase' = (IF phase = "exec" THEN "ready" ELSE "done")
          /\ Answer("EmptyQueryResponse", at) /\ UNCHANGED out /\ up
      BY <1>10 DEF EmptyQuery, Answer, Send, writeVars
    <2>2. at.id = call /\ Current(call) = at BY <1>3, <1>c, <2>1 DEF PhaseInv
    <2>3. phase' = "ready" => \A i \in 1..Len(out') : out'[i].kind # "Execute" BY <2>1 DEF OrderInv
    <2>4. ~Describing' BY <2>1, <2>3 DEF Describing
    <2> QED BY <1>c, <1>k, <1>m, <2>1, <2>2, <2>4
  <1>11. CASE FailStatement
    <2>1. /\ phase \in {"simple", "rows", "exec"} /\ phase' \in {"skip", "done"}
          /\ Answer("ErrorResponse", at) /\ up
      BY <1>11 DEF FailStatement, Answer, Send
    <2>2. at.id = call /\ Current(call) = at BY <1>3, <1>c, <2>1 DEF PhaseInv
    <2>3. ~Describing' BY <2>1 DEF Describing
    <2> QED BY <1>c, <1>k, <1>m, <2>1, <2>2, <2>3
  <1>12. CASE EndSimpleQuery
    <2>1. phase \in {"done", "simple"} /\ phase' = "ready" /\ Answer("ReadyForQuery", at)
          /\ UNCHANGED out /\ up
      BY <1>12 DEF EndSimpleQuery, Answer, Send, writeVars
    <2>2. at.id = call /\ Current(call) = at BY <1>3, <1>c, <2>1 DEF PhaseInv
    <2>3. \A i \in 1..Len(out') : out'[i].kind # "Execute" BY <1>3, <2>1, OneRequest
    <2>4. ~Describing' BY <2>1, <2>3 DEF Describing
    <2> QED BY <1>c, <1>k, <1>m, <2>1, <2>2, <2>4
  <1>13. CASE StartCopy
    <2>0. PICK p : p = [at EXCEPT !.set = @ + 1] OBVIOUS
    <2>1. phase = "simple" /\ phase' = "copy" /\ Answer("Unknown", p) /\ up
      BY <1>13, <2>0 DEF StartCopy, Answer, Send
    <2>2. at.id = call /\ Current(call) = at BY <1>3, <1>c, <2>1 DEF PhaseInv
    <2>3. p \in Progress /\ p.id = call /\ p.rows = at.rows /\ p.counted = at.counted
      BY <1>c, <2>0, <2>2 DEF Progress
    <2>4. ~Describing' BY <2>1 DEF Describing
    <2> QED BY <1>k, <1>m, <2>1, <2>2, <2>3, <2>4
  <1>14. CASE InterruptCopy
    <2>1. phase = "copy" /\ up BY <1>14 DEF InterruptCopy, Take
    <2>2. at.id = call /\ Current(call) = at BY <1>3, <1>c, <2>1 DEF PhaseInv
    <2>3. CASE UNCHANGED <<phase, at>> /\ Silent
      <3>1. Current(call)' = Current(call) /\ ~Describing' BY <2>1, <2>3 DEF Current, Describing
      <3>2. Ends(t)' BY <1>4, <1>5, <1>e, <2>1, <3>1
      <3> QED BY <1>b, <2>3, <3>2
    <2>4. CASE phase' = "done" /\ Answer("ErrorResponse", at)
      <3>1. ~Describing' BY <2>4 DEF Describing
      <3> QED BY <1>c, <1>k, <1>m, <2>1, <2>2, <2>4, <3>1
    <2> QED BY <1>14, <2>3, <2>4 DEF InterruptCopy
  <1>15. CASE ReadExtended
    <2>1. Take({"Parse", "Bind", "Describe"}) /\ phase = "ready" /\ up BY <1>15 DEF ReadExtended, Take
    <2>2. out[1].id = call /\ \A i \in 1..Len(out') : \E j \in 1..Len(out) : out'[i] = out[j]
      BY <1>q, <2>1
    <2>3. PICK p : p = Current(call) OBVIOUS
    <2>4. p \in Progress /\ p.id = call /\ p.set \in Nat BY <1>c, <2>3
    <2>5. ASSUME Describing', Current(call)'.set = p.set PROVE Describing
      <3>1. CASE phase' = "ready" BY <2>1, <2>2, <2>3, <2>5, <3>1 DEF Describing
      <3>2. CASE phase' = "skip" BY <2>5, <3>2 DEF Describing
      <3> QED BY <1>15, <3>1, <3>2 DEF ReadExtended
    <2>6. ASSUME NEW kind \in {"ParseComplete", "BindComplete", "NoData", "ErrorResponse"}, Answer(kind, p)
          PROVE  \E g \in Histories' : Foresees(g)'
      <3>1. at' = p BY <2>6 DEF Answer
      <3>2. Current(call)' = p BY <1>f, <2>4, <3>1
      <3> QED BY <1>k, <1>m, <2>1, <2>3, <2>4, <2>5, <2>6, <3>2
    <2>7. ASSUME NEW q, q = [p EXCEPT !.set = @ + 1], Answer("RowDescription", q)
          PROVE  \E g \in Histories' : Foresees(g)'
      <3>1. q \in Progress /\ q.id = call /\ q.rows = p.rows /\ q.counted = p.counted
        BY <2>4, <2>7 DEF Progress
      <3>2. at' = q BY <2>7 DEF Answer
      <3>3. Current(call)' = q BY <1>f, <3>1, <3>2
      <3>4. After(t, "RowDescription", q) = [t EXCEPT !.columns = [id |-> call, set |-> q.set]]
        BY <1>4, <3>1 DEF After, Tracks
      <3>5. After(t, "RowDescription", q) \in Tracks BY <1>4, <3>1, AfterType
      <3>6. Ends(After(t, "RowDescription", q))'
        BY <1>4, <1>5, <1>e, <2>1, <2>3, <3>1, <3>3, <3>4, <3>5 DEF Tracks
      <3>7. Fits(t, "RowDescription", q) BY DEF Fits
      <3> QED BY <1>a, <1>k, <2>7, <3>1, <3>6, <3>7
    <2> QED BY <1>15, <2>2, <2>3, <2>6, <2>7 DEF ReadExtended
  <1>16. CASE ReadExecute
    <2>1. Take({"Execute"}) /\ phase = "ready" /\ up /\ Silent /\ phase' = "exec" /\ at' = Current(out[1].id)
      BY <1>16 DEF ReadExecute, Take
    <2>2. out[1].id = call /\ 1 \in 1..Len(out) /\ out[1].kind = "Execute"
      BY <1>3, <1>q, <2>1, TakeShifts
    <2>3. Current(call)' = Current(call) BY <1>c, <1>f, <2>1, <2>2
    <2>4. Describing' => Describing BY <2>1, <2>2, <2>3 DEF Describing
    <2>5. Ends(t)' BY <1>4, <1>5, <1>e, <2>1, <2>3, <2>4
    <2> QED BY <1>b, <2>1, <2>5
  <1>17. CASE ReadSync
    <2>1. Take({"Sync"}) /\ phase' = "ready" /\ up /\ Answer("ReadyForQuery", Current(out[1].id))
      BY <1>17 DEF ReadSync, Take
    <2>2. out[1].id = call BY <1>q, <2>1
    <2>3. \A j \in 1..Len(out') : out'[j].kind = "Flush"
      <3>1. out[1].kind = "Sync" BY <1>q, <2>1
      <3> QED BY <1>3, <2>1, <3>1, TakeRequest DEF SyncKinds
    <2>4. ~Describing' BY <2>1, <2>3 DEF Describing
    <2> QED BY <1>c, <1>k, <1>m, <2>1, <2>2, <2>4
  <1>18. CASE ReadFlush \/ Discard
    <2>1. /\ \E kinds : Take(kinds) /\ Silent /\ UNCHANGED <<phase, at>> /\ up /\ phase \in {"ready", "skip"}
      BY <1>18 DEF ReadFlush, Discard, Take
    <2>2. \A i \in 1..Len(out') : i + 1 \in 1..Len(out) /\ out'[i] = out[i + 1]
      BY <1>3, <2>1, TakeShifts
    <2>3. Current(call)' = Current(call) BY <2>1 DEF Current
    <2>4. Describing' => Describing BY <2>1, <2>2, <2>3 DEF Describing
    <2>5. Ends(t)' BY <1>4, <1>5, <1>e, <2>1, <2>3, <2>4
    <2> QED BY <1>b, <2>1, <2>5
  <1>19. CASE ReadTerminate
    <2>1. ~up' /\ UNCHANGED s2c BY <1>19 DEF ReadTerminate
    <2>2. Ends(t)' BY <2>1 DEF Ends
    <2> QED BY <1>1, <1>2, <2>1, <2>2, TraceKept
  <1> QED
    BY <1>6, <1>7, <1>8, <1>9, <1>10, <1>11, <1>12, <1>13, <1>14, <1>15, <1>16, <1>17, <1>18, <1>19
    DEF Serve

\* What happens around the client.
LEMMA EnvironmentTrace ==
  ASSUME TypeOK, StreamInv, TraceInv, Environment, UNCHANGED clientVars
  PROVE  TraceInv'
  <1> USE DEF clientVars
  <1> SUFFICES ASSUME InCall, pc # "drain" PROVE \E g \in Histories' : Foresees(g)'
    BY DEF TraceInv, InCall, Pending
  <1>1. PICK h \in Histories : Foresees(h) BY DEF TraceInv
  <1>2. PICK t : t = h[Len(s2c)] OBVIOUS
  <1>3. InType /\ at \in Progress /\ notes \in Nat BY TypeParts DEF TypeOK
  <1>4. t \in Tracks
    <2>1. Len(s2c) \in 0..Len(s2c) BY <1>3 DEF InType
    <2> QED BY <1>2, <2>1 DEF Histories
  <1>k. {"NotificationResponse", "ErrorResponse"} \cup NoiseKinds \subseteq BackendKinds
        /\ NoiseKinds \cap {"RowDescription", "DataRow", "CommandComplete", "ReadyForQuery"} = {}
    BY BackendAssumption DEF BackendKinds, KnownKinds
  <1>5. ASSUME NEW kind \in BackendKinds, NEW note \in Nat, Send(kind, at, note),
               kind \notin {"RowDescription", "DataRow", "CommandComplete", "ReadyForQuery"},
               UNCHANGED <<out, phase, at>>, up' => up
        PROVE  \E g \in Histories' : Foresees(g)'
    <2>1. After(t, kind, at) = t /\ Fits(t, kind, at) BY <1>4, <1>5 DEF After, Fits, Tracks
    <2>2. Current(call)' = Current(call) /\ Describing' = Describing BY <1>5 DEF Current, Describing
    <2>3. Ends(t)' BY <1>1, <1>2, <1>5, <2>2 DEF Foresees, Ends
    <2>4. PICK p : p = at OBVIOUS
    <2>5. p \in Progress /\ Send(kind, p, note) /\ Fits(t, kind, p) /\ After(t, kind, p) = t
      BY <1>3, <1>5, <2>1, <2>4
    <2>6. Ends(After(t, kind, p))' BY <2>3, <2>5
    <2> QED BY <1>1, <1>2, <1>3, <2>5, <2>6, TraceSend
  <1>6. CASE Notify
    <2>1. Send("NotificationResponse", at, notes + 1) /\ UNCHANGED <<out, phase, at, up>>
      BY <1>6 DEF Notify, writeVars
    <2> QED BY <1>3, <1>5, <1>k, <2>1
  <1>7. CASE MakeNoise
    <2>1. PICK kind \in NoiseKinds : Send(kind, at, 0) BY <1>7 DEF MakeNoise
    <2>2. UNCHANGED <<out, phase, at, up>> BY <1>7 DEF MakeNoise, writeVars
    <2> QED BY <1>5, <1>k, <2>1, <2>2
  <1>8. CASE Fatal
    <2>1. Send("ErrorResponse", at, 0) /\ UNCHANGED <<out, phase, at>> /\ ~up'
      BY <1>8 DEF Fatal, writeVars
    <2> QED BY <1>5, <1>k, <2>1
  <1>9. CASE Lose
    <2>1. PICK n \in got..Len(s2c) : s2c' = SubSeq(s2c, 1, n) BY <1>9 DEF Lose
    <2>2. n \in 0..Len(s2c) /\ ~up' BY <1>3, <1>9, <2>1 DEF Lose, InType
    <2> QED BY <1>1, <1>3, <2>1, <2>2, TraceCut
  <1> QED BY <1>6, <1>7, <1>8, <1>9 DEF Environment

\* The server executes each request of a call once.
LEMMA ServeOrder ==
  ASSUME TypeOK, StreamInv, OrderInv, Serve, UNCHANGED clientVars
  PROVE  OrderInv'
  <1> USE DEF clientVars
  <1>1. OutType /\ OutInv /\ PhaseInv BY TypeParts DEF StreamInv
  \* The frames stay, and so does the progress, or it is of the call in progress.
  <1>2. ASSUME UNCHANGED out, phase # "ready", at'.id = at.id, phase' # "exec" PROVE OrderInv'
    BY <1>2 DEF OrderInv
  \* A frame is taken.
  <1>t. ASSUME NEW kinds, Take(kinds)
        PROVE  /\ Len(out) \in Nat /\ Len(out) > 0 /\ Len(out') = Len(out) - 1 /\ out[1].kind \in kinds
               /\ \A i \in 1..Len(out') : i + 1 \in 1..Len(out) /\ out'[i] = out[i + 1]
    BY <1>1, <1>t, TakeShifts
  <1>3. ASSUME NEW kinds, Take(kinds), UNCHANGED at, phase' # "exec" PROVE OrderInv'
    <2>1. \A i \in 1..Len(out') : i + 1 \in 1..Len(out) /\ out'[i] = out[i + 1] BY <1>3, <1>t
    <2>2. \A i \in 1..Len(out') : out'[i].kind = "Query" => at'.id # call
      BY <1>3, <2>1 DEF OrderInv
    <2>3. \A i, j \in 1..Len(out') : (out'[i].kind = "Execute" /\ out'[j].kind = "Execute") => i = j
      <3> SUFFICES ASSUME NEW i \in 1..Len(out'), NEW j \in 1..Len(out'),
                          out'[i].kind = "Execute", out'[j].kind = "Execute"
                   PROVE  i = j
        OBVIOUS
      <3>1. i + 1 = j + 1 BY <2>1 DEF OrderInv
      <3> QED BY <3>1
    <2> QED BY <1>3, <2>2, <2>3 DEF OrderInv
  \* A frame of the call in progress is taken, and the progress becomes the call's.
  <1>4. ASSUME NEW kinds, Take(kinds), "Flush" \notin kinds, kinds \subseteq ExtendedKinds \cup SyncKinds,
               at'.id = call,
               phase' = "exec" => kinds = {"Execute"}
        PROVE  OrderInv'
    <2>1. /\ \A i \in 1..Len(out') : i + 1 \in 1..Len(out) /\ out'[i] = out[i + 1]
          /\ out[1].kind \in kinds /\ 1 \in 1..Len(out)
      BY <1>4, <1>t
    <2>2. ASSUME NEW i \in 1..Len(out'), out'[i].kind = "Query" PROVE FALSE
      <3>1. i + 1 \in 1..Len(out) /\ out[i + 1].kind = "Query" BY <2>1, <2>2
      <3>2. out[1].kind \notin ExtendedKinds \cup {"Sync"} BY <1>1, <2>1, <3>1, OneRequest
      <3>3. out[1].kind = "Query" BY <1>4, <2>1, <3>2 DEF SyncKinds
      <3>4. out'[i].kind = "Flush" BY <1>1, <1>4, <3>3, TakeRequest DEF SyncKinds
      <3> QED BY <2>2, <3>4
    <2>3. \A i, j \in 1..Len(out') : (out'[i].kind = "Execute" /\ out'[j].kind = "Execute") => i = j
      <3> SUFFICES ASSUME NEW i \in 1..Len(out'), NEW j \in 1..Len(out'),
                          out'[i].kind = "Execute", out'[j].kind = "Execute"
                   PROVE  i = j
        OBVIOUS
      <3>1. i + 1 = j + 1 BY <2>1 DEF OrderInv
      <3> QED BY <3>1
    <2>4. ASSUME phase' = "exec", NEW i \in 1..Len(out'), out'[i].kind = "Execute" PROVE FALSE
      <3>1. out[1].kind = "Execute" /\ out[i + 1].kind = "Execute" /\ i + 1 \in 1..Len(out)
        BY <1>4, <2>1, <2>4
      <3>2. i + 1 = 1 BY <2>1, <3>1 DEF OrderInv
      <3> QED BY <3>2
    <2>5. at'.id <= call
      <3>1. call \in Nat BY DEF TypeOK
      <3> QED BY <1>4, <3>1
    <2> QED BY <2>2, <2>3, <2>4, <2>5 DEF OrderInv
  <1>5. ASSUME NEW id, id = call PROVE Fresh(id).id = call /\ Current(id).id = call
    BY <1>5 DEF Fresh, Current
  <1>6. CASE DescribeRows \/ StartCopy \/ EndSimpleQuery \/ FailStatement
    <2>1. \A p : p = [at EXCEPT !.set = @ + 1] => p.id = at.id BY CurrentFacts DEF Progress
    <2>2. CASE DescribeRows \/ StartCopy
      BY <1>2, <2>1, <2>2 DEF DescribeRows, StartCopy, Answer, writeVars
    <2>3. CASE EndSimpleQuery \/ FailStatement
      BY <1>2, <2>3 DEF EndSimpleQuery, FailStatement, Answer, writeVars
    <2> QED BY <1>6, <2>2, <2>3
  <1>7. CASE EmptyQuery BY <1>2, <1>7 DEF EmptyQuery, Answer, writeVars
  <1>8. CASE CompleteCommand
    <2>1. PICK c \in {at.counted, SetOfStatement} :
            Answer("CommandComplete", [at EXCEPT !.set = SetOfStatement, !.counted = c])
      BY <1>8 DEF CompleteCommand
    <2>2. at'.id = at.id BY <2>1 DEF Answer
    <2> QED BY <1>2, <1>8, <2>2 DEF CompleteCommand, writeVars
  <1>9. CASE SendRow
    <2>1. /\ UNCHANGED <<out, phase>> /\ at'.id = at.id /\ phase # "ready"
      BY <1>9 DEF SendRow, Answer, writeVars
    <2> QED BY <2>1 DEF OrderInv
  <1>10. CASE ReadQuery
    <2>1. Take({"Query"}) /\ at' = Fresh(out[1].id) /\ phase' = "simple" BY <1>10 DEF ReadQuery
    <2>2. out[1].id = call BY <1>1, <2>1, TakeRequest
    <2> QED BY <1>4, <1>5, <2>1, <2>2 DEF SyncKinds
  <1>11. CASE ReadExecute
    <2>1. Take({"Execute"}) /\ at' = Current(out[1].id) BY <1>11 DEF ReadExecute
    <2>2. out[1].id = call BY <1>1, <2>1, TakeRequest
    <2> QED BY <1>4, <1>5, <2>1, <2>2 DEF ExtendedKinds
  <1>12. CASE ReadSync
    <2>1. Take({"Sync"}) /\ at' = Current(out[1].id) /\ phase' = "ready" BY <1>12 DEF ReadSync, Answer
    <2>2. out[1].id = call BY <1>1, <2>1, TakeRequest
    <2> QED BY <1>4, <1>5, <2>1, <2>2 DEF SyncKinds
  <1>13. CASE ReadExtended
    <2>0. PICK p : p = Current(out[1].id) OBVIOUS
    <2>1. Take({"Parse", "Bind", "Describe"}) /\ phase' \in {"ready", "skip"}
          /\ (at' = p \/ at' = [p EXCEPT !.set = @ + 1])
      BY <1>13, <2>0 DEF ReadExtended, Answer
    <2>2. out[1].id = call BY <1>1, <2>1, TakeRequest
    <2>3. p \in Progress /\ p.id = call BY <2>0, <2>2, CurrentFacts
    <2>4. at'.id = call BY <2>1, <2>3 DEF Progress
    <2> QED BY <1>4, <2>1, <2>4 DEF ExtendedKinds
  <1>14. CASE InterruptCopy
    <2>1. Take(FrontendKinds \ {"Terminate"}) /\ UNCHANGED at /\ phase' # "exec"
      BY <1>14 DEF InterruptCopy, Answer
    <2> QED BY <1>3, <2>1
  <1>15. CASE ReadFlush \/ Discard \/ ReadTerminate
    <2>1. (\E kinds : Take(kinds)) /\ UNCHANGED at /\ phase' # "exec"
      BY <1>15 DEF ReadFlush, Discard, ReadTerminate
    <2> QED BY <1>3, <2>1
  <1> QED BY <1>6, <1>7, <1>8, <1>9, <1>10, <1>11, <1>12, <1>13, <1>14, <1>15 DEF Serve

-----------------------------------------------------------------------------
(* The client *)

\* What a returning call leaves behind.
LEMMA ReturnAnswer ==
  ASSUME NEW is \in {"ok", "db", "more"}, NEW last \in Progress, ClientType, RowsInv, Return(is, last),
         (is = "ok" /\ op \in {"query", "extended"}) => last.rows = Len(acc.rows),
         (is = "ok" /\ op = "execute") => last.counted = acc.affected
  PROVE  RowsInv' /\ RowsComplete' /\ AffectedIsLastCount' /\ TraceInv'
  <1>1. /\ pc' = "idle" /\ acc' = NoLocals /\ result'.is = is /\ result'.at = last /\ result'.op = op
        /\ result'.locals = acc
    BY ReturnType DEF Return, Outcomes
  <1>2. RowsInv' BY <1>1 DEF RowsInv, NoLocals
  <1>3. RowsComplete' BY <1>1 DEF RowsComplete, RowsInv
  <1>4. AffectedIsLastCount' BY <1>1 DEF AffectedIsLastCount
  <1>5. TraceInv' BY <1>1 DEF TraceInv, InCall, Pending
  <1> QED BY <1>2, <1>3, <1>4, <1>5

\* The frames of a new call hold one Execute, or one Query.
LEMMA BeginOrder ==
  ASSUME TypeOK, OrderInv, NEW o \in AllOps \ {"poll"}, out' = out \o Frames(o, call + 1),
         call' = call + 1, phase = "ready", UNCHANGED <<phase, at>>,
         \A i \in 1..Len(out) : out[i].kind = "Flush"
  PROVE  OrderInv'
  <1> DEFINE F == [kind : FrontendKinds, id : Nat]
             fs == Frames(o, call + 1)
  <1>1. call \in Nat /\ out \in Seq(F) BY DEF TypeOK
  <1>2. fs \in Seq(F) /\ Len(fs) = Len(Script(o)) /\ \A i \in 1..Len(fs) : fs[i].kind = Script(o)[i]
    <2>0. call + 1 \in Nat BY <1>1
    <2>1. fs \in Seq(F) BY <2>0, FramesType
    <2>2. Len(Script(o)) \in Nat BY DEF Script
    <2> QED BY <2>1, <2>2 DEF Frames
  <1>3. \A i, j \in 1..Len(fs) : (fs[i].kind = "Execute" /\ fs[j].kind = "Execute") => i = j
    <2>1. \A i \in 1..Len(Script(o)) : Script(o)[i] = "Execute" => i = 4
      <3>1. CASE o = "extended" BY <3>1 DEF Script
      <3>2. CASE o # "extended" BY <3>2 DEF Script, AllOps
      <3> QED BY <3>1, <3>2
    <2> QED BY <1>2, <2>1
  <1> HIDE DEF F, fs
  <1>4. /\ Len(out) \in Nat /\ Len(fs) \in Nat /\ Len(out') = Len(out) + Len(fs)
        /\ \A i \in 1..Len(out') : \/ out'[i].kind = "Flush"
                                   \/ i - Len(out) \in 1..Len(fs) /\ out'[i] = fs[i - Len(out)]
    BY <1>1, <1>2 DEF fs
  <1>5. at'.id < call'
    <2>1. at.id \in Nat BY CurrentFacts
    <2> QED BY <1>1, <2>1 DEF OrderInv
  <1>6. ASSUME NEW i \in 1..Len(out'), NEW j \in 1..Len(out'),
               out'[i].kind = "Execute", out'[j].kind = "Execute"
        PROVE  i = j
    <2>1. /\ i - Len(out) \in 1..Len(fs) /\ out'[i] = fs[i - Len(out)]
          /\ j - Len(out) \in 1..Len(fs) /\ out'[j] = fs[j - Len(out)]
      BY <1>4, <1>6
    <2>2. i - Len(out) = j - Len(out) BY <1>3, <1>6, <2>1
    <2> QED BY <1>4, <2>2
  <1>7. call' \in Nat /\ at'.id \in Nat BY <1>1, CurrentFacts
  <1> QED BY <1>5, <1>6, <1>7 DEF OrderInv

\* A new call finds nothing of its answer on the way.
LEMMA BeginTrace ==
  ASSUME TypeOK, OrderInv, InType', \A i \in 1..Len(s2c) : s2c[i].kind \in QuietKinds,
         phase = "ready", UNCHANGED <<s2c, phase, at>>, call' = call + 1, acc' = NoLocals
  PROVE  TraceInv'
  <1>1. NoTrack \in Tracks BY ConstantTypes DEF NoTrack, Tracks, NoColumns, Columns
  <1>2. PICK h \in [0..Len(s2c) -> Tracks] : \A i \in 0..Len(s2c) : h[i] = NoTrack
    <2> DEFINE e == [i \in 0..Len(s2c) |-> NoTrack]
    <2>1. e \in [0..Len(s2c) -> Tracks] BY <1>1
    <2> QED BY <2>1
  <1>3. h \in Histories' BY <1>2 DEF Histories
  <1>4. Len(s2c) \in Nat /\ Len(s2c') = Len(s2c) BY DEF TypeOK
  <1>5. Starts(h[0])' BY <1>2, <1>4 DEF Starts, NoTrack, NoLocals
  <1>6. Follows(h)'
    <2>1. \A i \in 1..Len(s2c) :
            s2c[i].kind \notin {"RowDescription", "DataRow", "CommandComplete", "ReadyForQuery"}
      BY DEF QuietKinds, AsyncKinds
    <2>2. \A i \in 1..Len(s2c) : h[i] = NoTrack /\ h[i - 1] = NoTrack BY <1>2, <1>4
    <2> QED BY <1>4, <2>1, <2>2 DEF Follows, Fits, After, NoTrack
  <1>7. Ends(h[Len(s2c)])'
    <2>1. at.id \in Nat /\ call \in Nat BY CurrentFacts
    <2>2. at'.id # call' BY <2>1 DEF OrderInv
    <2>3. Current(call)' = Fresh(call)' BY <2>2 DEF Current
    <2>4. Current(call)'.rows = 0 /\ Current(call)'.counted = 0 /\ Current(call)'.set = 0
      BY <2>3 DEF Fresh
    <2>5. ~Describing' BY <2>4 DEF Describing
    <2>6. h[Len(s2c')] = NoTrack BY <1>2, <1>4
    <2> QED BY <2>4, <2>5, <2>6 DEF Ends, NoTrack
  <1> QED BY <1>3, <1>5, <1>6, <1>7 DEF TraceInv, Foresees

\* The client's steps, on a connection without dropped calls and stream errors.
LEMMA ClientAnswer ==
  ASSUME TypeOK, StreamInv, LocalInv, GatherInv, clean, clean', ClientStep \/ Application
  PROVE  GatherInv'
  <1>0. /\ OutType /\ InType /\ ClientType /\ OutInv /\ PhaseInv /\ InInv
        /\ acc \in Locals /\ result \in Results /\ call \in Nat
        /\ OrderInv /\ RowsInv /\ TraceInv /\ RowsComplete /\ AffectedIsLastCount
    BY TypeParts DEF StreamInv, GatherInv, TypeOK
  <1>o. UNCHANGED <<out, phase, at, call>> => OrderInv' BY <1>0 DEF OrderInv
  <1>c. UNCHANGED result => RowsComplete' /\ AffectedIsLastCount'
    BY <1>0 DEF RowsComplete, AffectedIsLastCount
  <1>n. result' = NoResult => RowsComplete' /\ AffectedIsLastCount'
    BY ConstantTypes DEF RowsComplete, AffectedIsLastCount
  <1>e. ASSUME NEW h, Ends(h), UNCHANGED <<out, up, phase, at, call>> PROVE Ends(h)'
    <2>1. Current(call)' = Current(call) /\ Describing' = Describing BY <1>e DEF Current, Describing
    <2> QED BY <1>e, <2>1 DEF Ends
  \* No message is taken.
  <1>k. ASSUME UNCHANGED <<out, s2c, up, phase, at, call, acc>>, (op = "execute") <=> (op' = "execute"),
               (InCall' /\ pc' # "drain") => (InCall /\ pc # "drain")
        PROVE  TraceInv'
    <2> SUFFICES ASSUME InCall, pc # "drain" PROVE \E g \in Histories' : Foresees(g)'
      BY <1>k DEF TraceInv
    <2>1. PICK h \in Histories : Foresees(h) BY <1>0 DEF TraceInv
    <2>2. PICK e : e = h[Len(s2c)] OBVIOUS
    <2>3. Ends(e)' BY <1>e, <1>k, <2>1, <2>2 DEF Foresees
    <2> QED BY <1>k, <2>1, <2>2, <2>3, TraceKept
  <1>1. CASE SendNext \/ FlushNext
    <2>1. UNCHANGED <<out, s2c, up, phase, at, clientVars>>
      BY <1>1 DEF SendNext, FlushNext, Encode, Flush, serverVars
    <2>2. UNCHANGED <<pc, op, call, acc, result>> BY <2>1 DEF clientVars
    <2>3. InCall' = InCall BY <2>2 DEF InCall, Pending
    <2>4. TraceInv' BY <1>k, <2>1, <2>2, <2>3
    <2>5. RowsInv' BY <1>0, <2>2 DEF RowsInv
    <2> QED BY <1>o, <1>c, <2>1, <2>2, <2>4, <2>5 DEF GatherInv
  <1>2. CASE SendDone
    <2>1. /\ UNCHANGED <<out, s2c, up, phase, at, op, call, acc, result>> /\ pc = "send"
          /\ pc' = IF op = "close" THEN "closed" ELSE "read"
      BY <1>2 DEF SendDone, writeVars, serverVars
    <2>2. InCall' => InCall BY <2>1 DEF InCall, Pending
    <2>3. TraceInv' BY <1>k, <2>1, <2>2
    <2>4. RowsInv' BY <1>0, <2>1 DEF RowsInv
    <2> QED BY <1>o, <1>c, <2>1, <2>3, <2>4 DEF GatherInv
  <1>3. CASE BeginPoll
    <2>1. /\ UNCHANGED <<out, s2c, up, phase, at, call, acc>> /\ pc = "idle" /\ pc' = "poll"
          /\ result' = NoResult
      BY <1>3 DEF BeginPoll, writeVars, serverVars
    <2>2. TraceInv' BY <2>1 DEF TraceInv, InCall, Pending
    <2>3. RowsInv' BY <1>0, <2>1 DEF RowsInv
    <2> QED BY <1>o, <1>n, <2>1, <2>2, <2>3 DEF GatherInv
  <1>4. CASE \E o \in Ops : Begin(o)
    <2>1. PICK o \in Ops : Begin(o) BY <1>4
    <2>2. /\ UNCHANGED <<s2c, phase, at, acc>> /\ pc = "idle" /\ pc' = "send" /\ op' = o
          /\ call' = call + 1 /\ result' = NoResult /\ out' = out \o Frames(o, call + 1)
          /\ o \in AllOps \ {"poll"} /\ UNCHANGED got
      BY <2>1, SessionAssumption DEF Begin, serverVars, readVars
    <2>3. ~InCall /\ phase = "ready" BY <1>0, <2>2 DEF InCall, Pending, PhaseInv
    <2>4. \A i \in 1..Len(out) : out[i].kind = "Flush" BY <1>0, <2>2 DEF OutInv
    <2>5. \A i \in 1..Len(s2c) : s2c[i].kind \in QuietKinds BY <1>0, <2>3 DEF InInv
    <2>6. acc' = NoLocals BY <1>0, <2>2 DEF RowsInv
    <2>7. InType' BY <1>0, <2>2 DEF InType
    <2>8. OrderInv' BY <1>0, <2>2, <2>3, <2>4, BeginOrder
    <2>9. TraceInv' BY <1>0, <2>2, <2>3, <2>5, <2>6, <2>7, BeginTrace
    <2>10. RowsInv' BY <2>6 DEF RowsInv, NoLocals
    <2> QED BY <1>n, <2>2, <2>8, <2>9, <2>10 DEF GatherInv
  <1>5. CASE DropWhileReading
    <2>1. /\ UNCHANGED <<out, s2c, up, phase, at, call>> /\ pc' = "idle"
          /\ acc' = NoLocals /\ result' = NoResult
      BY <1>5 DEF DropWhileReading, writeVars, serverVars
    <2>2. TraceInv' BY <2>1 DEF TraceInv, InCall, Pending
    <2>3. RowsInv' BY <2>1 DEF RowsInv, NoLocals
    <2> QED BY <1>o, <1>n, <2>1, <2>2, <2>3 DEF GatherInv
  \* A message is taken.
  <1>d. ASSUME NEW kinds, Decode(kinds), UNCHANGED <<out, up, phase, at, call, op>>,
               InCall, pc # "drain",
               NEW h \in Histories, Foresees(h), Starts(h[0]),
               NEW t, t = After(h[0], Msg.kind, Msg.at), Starts(t)'
        PROVE  TraceInv'
    <2>1. PICK e : e = h[Len(s2c)] OBVIOUS
    <2>2. Ends(e)' BY <1>e, <1>d, <2>1 DEF Foresees
    <2> QED BY <1>0, <1>d, <2>1, <2>2, TraceRead DEF TraceInv
  <1>h. ASSUME NEW kinds, Decode(kinds), InCall, pc # "drain"
        PROVE  \E h \in Histories : Foresees(h) /\ Starts(h[0]) /\ h[0] \in Tracks /\ Fits(h[0], Msg.kind, Msg.at)
    <2>1. PICK h \in Histories : Foresees(h) BY <1>0, <1>h DEF TraceInv
    <2>2. 1 \in 1..Len(s2c) /\ 0 \in 0..Len(s2c) /\ Msg = s2c[1] BY <1>0, <1>h, DecodeShifts
    <2> QED BY <2>1, <2>2 DEF Foresees, Follows, Histories
  <1>u. ASSUME NEW kinds, Decode(kinds), UNCHANGED <<out, up, phase, at, call, op, acc, pc, result>>,
               kinds \cap {"RowDescription", "DataRow", "CommandComplete"} = {}
        PROVE  GatherInv'
    <2>1. TraceInv'
      <3>1. CASE InCall /\ pc # "drain"
        <4>1. PICK h \in Histories : Foresees(h) /\ Starts(h[0]) /\ h[0] \in Tracks BY <1>h, <1>u, <3>1
        <4>2. Msg.kind \in kinds BY <1>0, <1>u, DecodeShifts
        <4>3. PICK t : t = h[0] OBVIOUS
        <4>4. t = After(h[0], Msg.kind, Msg.at) BY <1>u, <4>1, <4>2, <4>3 DEF After, Tracks
        <4>5. Starts(t)' BY <1>u, <4>1, <4>3 DEF Starts
        <4> QED BY <1>d, <1>u, <3>1, <4>1, <4>4, <4>5
      <3>2. CASE ~(InCall /\ pc # "drain") BY <1>u, <3>2 DEF TraceInv, InCall, Pending
      <3> QED BY <3>1, <3>2
    <2>2. RowsInv' BY <1>0, <1>u DEF RowsInv
    <2> QED BY <1>o, <1>c, <1>u, <2>1, <2>2 DEF GatherInv
  <1>6. CASE Pump
    <2>1. /\ UNCHANGED <<out, up, phase, at, call, op, acc, pc, result>>
          /\ Decode({"Unknown"}) \/ UNCHANGED s2c
      BY <1>6 DEF Pump, Fill, FillEof, NeedMore, SkipUnknown, writeVars, serverVars, clientVars
    <2>2. CASE Decode({"Unknown"}) BY <1>u, <2>1, <2>2
    <2>3. CASE UNCHANGED s2c
      <3>1. InCall' = InCall BY <2>1 DEF InCall, Pending
      <3>2. TraceInv' BY <1>k, <2>1, <2>3, <3>1
      <3>3. RowsInv' BY <1>0, <2>1 DEF RowsInv
      <3> QED BY <1>o, <1>c, <2>1, <3>2, <3>3 DEF GatherInv
    <2> QED BY <2>1, <2>2, <2>3
  \* The loop receives a message of an answer.
  <1>r. ASSUME NEW kinds, Receive(kinds)
        PROVE  /\ Decode(KnownKinds) /\ Decode(kinds) /\ pc = "read" /\ Msg.kind \in kinds
               /\ UNCHANGED <<out, up, phase, at, call>>
               /\ Msg \in BackendFrames
               /\ Msg.kind \in {"RowDescription", "DataRow", "CommandComplete", "ReadyForQuery"} => InCall
    <2>1. Yield /\ Msg.kind \in kinds /\ pc = "read" /\ UNCHANGED <<out, up, phase, at, call>>
      BY <1>r DEF Receive, writeVars, serverVars
    <2>2. Decode(KnownKinds) /\ Decode(kinds) BY <2>1 DEF Yield, Decode, Msg
    <2>3. Msg \in BackendFrames BY <1>0, <2>1, YieldType
    <2>4. Msg.kind \in {"RowDescription", "DataRow", "CommandComplete", "ReadyForQuery"} => InCall
      <3>1. 1 \in 1..Len(s2c) /\ Msg = s2c[1] BY <1>0, <2>2, DecodeShifts
      <3> QED BY <1>0, <3>1 DEF InInv, QuietKinds, AsyncKinds
    <2> QED BY <2>1, <2>2, <2>3, <2>4
  <1>m. ASSUME Msg \in BackendFrames
        PROVE  /\ Msg.at \in Progress /\ ColumnsOf(Msg) = [id |-> Msg.at.id, set |-> Msg.at.set]
               /\ RowOf(Msg, acc.columns) \in Rows
    BY <1>0, <1>m, MsgTypes DEF ColumnsOf, Locals
  <1>7. CASE OnRowDescription
    <2>1. Receive({"RowDescription"}) /\ UNCHANGED <<pc, op, result>>
          /\ acc' = IF op = "execute" THEN acc ELSE [acc EXCEPT !.columns = ColumnsOf(Msg)]
      BY <1>7 DEF OnRowDescription
    <2>2. InCall /\ pc = "read" /\ Msg.kind = "RowDescription" /\ Msg \in BackendFrames BY <1>r, <2>1
    <2>3. PICK h \in Histories : Foresees(h) /\ Starts(h[0]) /\ h[0] \in Tracks
      BY <1>h, <1>r, <2>1, <2>2
    <2>4. PICK t : t = After(h[0], Msg.kind, Msg.at) OBVIOUS
    <2>5. /\ t.columns = ColumnsOf(Msg) /\ t.rows = h[0].rows /\ t.affected = h[0].affected
      BY <1>m, <2>2, <2>4 DEF After
    <2>6. op # "execute" => acc'.columns = ColumnsOf(Msg) BY <1>0, <2>1 DEF Locals
    <2>7. acc'.rows = acc.rows /\ acc'.affected = acc.affected BY <1>0, <2>1 DEF Locals
    <2>8. Starts(t)' BY <2>1, <2>3, <2>5, <2>6, <2>7 DEF Starts
    <2>9. TraceInv' BY <1>d, <1>r, <2>1, <2>2, <2>3, <2>4, <2>8
    <2>10. RowsInv' BY <1>0, <2>1, <2>2, <2>7 DEF RowsInv
    <2> QED BY <1>o, <1>c, <1>r, <2>1, <2>9, <2>10 DEF GatherInv
  <1>8. CASE OnDataRow
    <2>1. Receive({"DataRow"}) /\ UNCHANGED <<pc, op, result>>
          /\ acc' = IF op = "execute" THEN acc ELSE [acc EXCEPT !.rows = Append(@, RowOf(Msg, acc.columns))]
      BY <1>8 DEF OnDataRow
    <2>2. InCall /\ pc = "read" /\ Msg.kind = "DataRow" /\ Msg \in BackendFrames BY <1>r, <2>1
    <2>3. PICK h \in Histories : Foresees(h) /\ Starts(h[0]) /\ h[0] \in Tracks /\ Fits(h[0], Msg.kind, Msg.at)
      BY <1>h, <1>r, <2>1, <2>2
    <2>4. PICK t : t = After(h[0], Msg.kind, Msg.at) OBVIOUS
    <2>5. t.columns = h[0].columns /\ t.rows = h[0].rows + 1 /\ t.affected = h[0].affected
      BY <2>2, <2>4 DEF After
    <2>6. acc'.columns = acc.columns /\ acc'.affected = acc.affected BY <1>0, <2>1 DEF Locals
    <2>7. PICK row : row = RowOf(Msg, acc.columns) OBVIOUS
    <2>8. row \in Rows BY <1>m, <2>2, <2>7
    <2>9. acc.rows \in Seq(Rows) BY <1>0 DEF Locals
    <2>10. IF op = "execute" THEN acc'.rows = acc.rows ELSE acc'.rows = Append(acc.rows, row)
      BY <1>0, <2>1, <2>7 DEF Locals
    <2>11. CASE op = "execute"
      <3>1. Starts(t)' BY <2>1, <2>3, <2>5, <2>6, <2>11 DEF Starts
      <3>2. TraceInv' BY <1>d, <1>r, <2>1, <2>2, <2>3, <2>4, <3>1
      <3>3. RowsInv' BY <1>0, <2>1, <2>2, <2>10, <2>11 DEF RowsInv
      <3> QED BY <1>o, <1>c, <1>r, <2>1, <3>2, <3>3 DEF GatherInv
    <2>12. CASE op # "execute"
      <3>1. /\ Len(acc.rows) \in Nat /\ Len(acc'.rows) = Len(acc.rows) + 1
            /\ \A i \in 1..Len(acc.rows) : acc'.rows[i] = acc.rows[i]
            /\ acc'.rows[Len(acc.rows) + 1] = row
        BY <2>8, <2>9, <2>10, <2>12
      <3>2. Starts(t)' BY <2>1, <2>3, <2>5, <2>6, <2>12, <3>1 DEF Starts
      <3>3. TraceInv' BY <1>d, <1>r, <2>1, <2>2, <2>3, <2>4, <3>2
      <3>4. row.n = Len(acc.rows) + 1 /\ row.columns = [id |-> row.id, set |-> row.set]
        BY <2>2, <2>3, <2>7, <2>12 DEF RowOf, Fits, Starts
      <3>5. RowsInv' BY <1>0, <2>1, <2>2, <3>1, <3>4 DEF RowsInv
      <3> QED BY <1>o, <1>c, <1>r, <2>1, <3>3, <3>5 DEF GatherInv
    <2> QED BY <2>11, <2>12
  <1>9. CASE OnCommandComplete
    <2>1. Receive({"CommandComplete"}) /\ UNCHANGED <<pc, op, result>>
          /\ acc' = IF op = "execute" /\ Msg.at.counted = Msg.at.set
                      THEN [acc EXCEPT !.affected = Msg.at.set] ELSE acc
      BY <1>9 DEF OnCommandComplete
    <2>2. InCall /\ pc = "read" /\ Msg.kind = "CommandComplete" /\ Msg \in BackendFrames BY <1>r, <2>1
    <2>3. PICK h \in Histories : Foresees(h) /\ Starts(h[0]) /\ h[0] \in Tracks
      BY <1>h, <1>r, <2>1, <2>2
    <2>4. PICK t : t = After(h[0], Msg.kind, Msg.at) OBVIOUS
    <2>5. /\ t.columns = h[0].columns /\ t.rows = h[0].rows
          /\ t.affected = IF Msg.at.counted = Msg.at.set THEN Msg.at.set ELSE h[0].affected
      BY <2>2, <2>4 DEF After
    <2>6. acc'.rows = acc.rows /\ acc'.columns = acc.columns BY <1>0, <2>1 DEF Locals
    <2>7. op = "execute" => acc'.affected = IF Msg.at.counted = Msg.at.set THEN Msg.at.set ELSE acc.affected
      BY <1>0, <2>1 DEF Locals
    <2>8. Starts(t)' BY <2>1, <2>3, <2>5, <2>6, <2>7 DEF Starts
    <2>9. TraceInv' BY <1>d, <1>r, <2>1, <2>2, <2>3, <2>4, <2>8
    <2>10. RowsInv' BY <1>0, <2>1, <2>2, <2>6 DEF RowsInv
    <2> QED BY <1>o, <1>c, <1>r, <2>1, <2>9, <2>10 DEF GatherInv
  <1>10. CASE OnReadyForQuery
    <2>1. Receive({"ReadyForQuery"}) /\ Return("ok", Msg.at) BY <1>10 DEF OnReadyForQuery
    <2>2. InCall /\ pc = "read" /\ Msg.kind = "ReadyForQuery" /\ Msg \in BackendFrames BY <1>r, <2>1
    <2>3. PICK h \in Histories : Starts(h[0]) /\ Fits(h[0], Msg.kind, Msg.at)
      BY <1>h, <1>r, <2>1, <2>2
    <2>4. /\ op # "execute" => Msg.at.rows = Len(acc.rows)
          /\ op = "execute" => Msg.at.counted = acc.affected
      BY <2>2, <2>3 DEF Starts, Fits
    <2> QED BY <1>0, <1>m, <1>o, <1>r, <2>1, <2>2, <2>4, ReturnAnswer DEF GatherInv
  <1>11. CASE OnErrorResponse
    <2>1. Receive({"ErrorResponse"}) /\ pc' = "drain" /\ UNCHANGED <<op, acc>> /\ result'.is = "none"
      BY <1>11 DEF OnErrorResponse, NoResult
    <2>2. RowsInv' /\ TraceInv' BY <1>0, <2>1 DEF RowsInv, TraceInv
    <2>3. RowsComplete' /\ AffectedIsLastCount' BY <2>1 DEF RowsComplete, AffectedIsLastCount
    <2> QED BY <1>o, <1>r, <2>1, <2>2, <2>3 DEF GatherInv
  <1>12. CASE OnNotification
    <2>1. Receive({"NotificationResponse"}) /\ UNCHANGED <<pc, op, acc, result>>
      BY <1>12 DEF OnNotification
    <2> QED BY <1>r, <1>u, <2>1
  <1>13. CASE OnOther
    <2>1. Receive({"ParseComplete", "BindComplete", "NoData", "EmptyQueryResponse", "NoticeResponse"})
          /\ UNCHANGED <<pc, op, acc, result>>
      BY <1>13 DEF OnOther
    <2> QED BY <1>r, <1>u, <2>1
  <1>14. CASE DrainMessage
    <2>1. /\ Decode(KnownKinds) /\ pc = "drain" /\ UNCHANGED <<out, up, phase, at, call, clean>>
      BY <1>14 DEF DrainMessage, Yield, writeVars, serverVars
    <2>2. CASE Msg.kind = "ReadyForQuery"
      <3>1. Return("db", result.at) BY <1>14, <2>2 DEF DrainMessage
      <3>2. result.at \in Progress BY <1>0 DEF Results
      <3> QED BY <1>0, <1>o, <2>1, <3>1, <3>2, ReturnAnswer DEF GatherInv
    <2>3. CASE Msg.kind # "ReadyForQuery"
      <3>1. UNCHANGED <<pc, op, acc, result>> BY <1>14, <2>3 DEF DrainMessage
      <3>2. RowsInv' /\ TraceInv' BY <1>0, <2>1, <3>1 DEF RowsInv, TraceInv
      <3> QED BY <1>o, <1>c, <2>1, <3>1, <3>2 DEF GatherInv
    <2> QED BY <2>2, <2>3
  <1>15. CASE PollMessage
    <2>1. /\ Yield /\ Return("more", Msg.at) /\ UNCHANGED <<out, phase, at, call>>
      BY <1>15 DEF PollMessage, writeVars, serverVars
    <2>2. Msg.at \in Progress BY <1>0, <1>m, <2>1, YieldType
    <2> QED BY <1>0, <1>o, <2>1, <2>2, ReturnAnswer DEF GatherInv
  <1>16. CASE SendFails \/ ReadFails \/ DrainError \/ DrainNone \/ PollEnds \/ DropWhileSending
    BY <1>16 DEF SendFails, ReadFails, DrainError, DrainNone, PollEnds, DropWhileSending
  <1> QED
    BY <1>1, <1>2, <1>3, <1>4, <1>5, <1>6, <1>7, <1>8, <1>9, <1>10, <1>11, <1>12, <1>13, <1>14, <1>15, <1>16
    DEF ClientStep, Application, Read, Drain, Poll

-----------------------------------------------------------------------------
(* The theorems *)

\* On a clean connection, what the loop of the call in progress has gathered, the messages
\* on their way and what the server has done for the call continue each other.
LEMMA CleanCorrect == Spec => []CleanInv
  <1>1. Init => CleanInv
    <2> SUFFICES ASSUME Init PROVE GatherInv BY DEF CleanInv
    <2>1. /\ out = <<>> /\ s2c = <<>> /\ phase = "ready" /\ at = Fresh(0) /\ call = 0 /\ pc = "idle"
          /\ acc = NoLocals /\ result = NoResult
      BY DEF Init, StreamInit, ServerInit
    <2>2. OrderInv BY <2>1 DEF OrderInv, Fresh
    <2>3. RowsInv BY <2>1 DEF RowsInv, NoLocals
    <2>4. TraceInv BY <2>1 DEF TraceInv, InCall, Pending
    <2>5. RowsComplete /\ AffectedIsLastCount
      BY <2>1 DEF RowsComplete, AffectedIsLastCount, NoResult
    <2> QED BY <2>2, <2>3, <2>4, <2>5 DEF GatherInv
  <1>2. TypeOK /\ SyncInv /\ CleanInv /\ [Next]_vars => CleanInv'
    <2> SUFFICES ASSUME TypeOK, SyncInv, CleanInv, [Next]_vars, clean' PROVE GatherInv'
      BY DEF CleanInv
    <2>1. clean
      <3>1. CASE ServerStep \/ UNCHANGED vars BY <3>1 DEF ServerStep, vars, clientVars
      <3>2. CASE ClientStep \/ Application
        BY <3>2 DEF ClientStep, Application, SendNext, FlushNext, SendDone, SendFails, Pump,
             Read, Drain, Poll, OnRowDescription, OnDataRow, OnCommandComplete, OnReadyForQuery,
             OnErrorResponse, OnNotification, OnOther, ReadFails, Receive, DrainMessage,
             DrainError, DrainNone, PollMessage, PollEnds, BeginPoll, Begin, DropWhileSending,
             DropWhileReading, clientVars
      <3> QED BY <3>1, <3>2 DEF Next
    <2>2. GatherInv /\ StreamInv /\ LocalInv BY <2>1 DEF CleanInv, SyncInv, StreamInv
    <2>3. CASE ClientStep \/ Application BY <2>1, <2>2, <2>3, ClientAnswer
    <2>4. CASE ServerStep
      <3>1. UNCHANGED clientVars /\ (Serve \/ Environment) BY <2>4 DEF ServerStep
      <3>2. RowsInv' /\ RowsComplete' /\ AffectedIsLastCount'
        BY <2>2, <3>1 DEF GatherInv, RowsInv, RowsComplete, AffectedIsLastCount, clientVars
      <3>3. TraceInv' BY <2>2, <3>1, ServeTrace, EnvironmentTrace DEF GatherInv
      <3>4. OrderInv'
        <4>1. CASE Serve BY <2>2, <3>1, <4>1, ServeOrder DEF GatherInv
        <4>2. CASE Environment
          <5>1. UNCHANGED <<out, phase, at, call>>
            BY <3>1, <4>2 DEF Environment, Notify, MakeNoise, Fatal, Lose, writeVars, clientVars
          <5> QED BY <2>2, <5>1 DEF GatherInv, OrderInv
        <4> QED BY <3>1, <4>1, <4>2
      <3> QED BY <3>2, <3>3, <3>4 DEF GatherInv
    <2>5. CASE UNCHANGED vars
      <3>1. UNCHANGED <<out, s2c, up, phase, at, pc, op, call, acc, result, clean>>
        BY <2>5 DEF vars, writeVars, readVars, serverVars, clientVars
      <3>2. OrderInv' /\ RowsInv' /\ RowsComplete' /\ AffectedIsLastCount'
        BY <2>2, <3>1 DEF GatherInv, OrderInv, RowsInv, RowsComplete, AffectedIsLastCount
      <3>3. TraceInv'
        BY <2>2, <3>1 DEF GatherInv, TraceInv, InCall, Pending, Histories, Foresees, Starts, Follows,
                          Ends, Describing, Current
      <3> QED BY <3>2, <3>3 DEF GatherInv
    <2> QED BY <2>3, <2>4, <2>5 DEF Next
  <1> QED BY <1>1, <1>2, TypeCorrect, SyncCorrect, PTL DEF Spec

\* Ok of query and query_extended carries every row of the answer, once and in order, with
\* the columns of its own result set (query_simple, read_extended_results in client.rs).
THEOREM RowsCorrect == Spec => []RowsComplete
  <1>1. CleanInv => RowsComplete BY DEF CleanInv, GatherInv, RowsComplete
  <1> QED BY <1>1, CleanCorrect, PTL

\* Ok of execute carries the count of the last tag that has one (execute_simple).
THEOREM AffectedCorrect == Spec => []AffectedIsLastCount
  <1>1. CleanInv => AffectedIsLastCount BY DEF CleanInv, GatherInv, AffectedIsLastCount
  <1> QED BY <1>1, CleanCorrect, PTL

-----------------------------------------------------------------------------
(* The calls of a Session implement Calls *)

\* What Session substitutes for the variables of Calls.
Status  == IF Over THEN "over" ELSE IF ~InCall THEN "idle" ELSE IF Ready = {} THEN "asked" ELSE "decided"
Decided == IF ~Over /\ InCall /\ Ready # {} THEN Decision ELSE NoAnswer
Handed  == IF ~Over /\ ~InCall /\ result.is \in {"ok", "db"} THEN Given ELSE NoAnswer

\* The steps of Calls, in these terms.
LEMMA Simulates ==
  ASSUME \/ UNCHANGED <<Status, call, Decided, Handed>>
         \/ Status = "idle" /\ Status' = "asked" /\ call' = call + 1 /\ Handed' = NoAnswer /\ UNCHANGED Decided
         \/ /\ Status = "asked" /\ Status' = "decided" /\ Decided' \in Promise!Answers /\ Decided'.id = call
            /\ UNCHANGED <<call, Handed>>
         \/ /\ Status = "decided" /\ Status' = "idle" /\ Handed' = Decided /\ Decided' = NoAnswer
            /\ UNCHANGED call
         \/ Status = "idle" /\ Handed' = NoAnswer /\ UNCHANGED <<Status, call, Decided>>
         \/ Status' = "over" /\ call' \in {call, call + 1} /\ Decided' = NoAnswer /\ Handed' = NoAnswer
  PROVE  [Promise!Next]_(Promise!vars)
  BY DEF Status, Decided, Handed, NoAnswer, Promise!Next, Promise!vars, Promise!Begin, Promise!Decide,
         Promise!Return, Promise!Poll, Promise!End, Promise!Nothing

\* Calls begins as Session does.
LEMMA SimulatesInit == Init => Promise!Init
  BY DEF Init, StreamInit, ServerInit, Promise!Init, Promise!Nothing, NoAnswer, Over, InCall, Pending,
         NoResult


-----------------------------------------------------------------------------
(* What the two sides do *)

\* A connection does not become clean again.
LEMMA CleanStays == ASSUME [Next]_vars, clean' PROVE clean
  <1>1. CASE ServerStep \/ UNCHANGED vars BY <1>1 DEF ServerStep, vars, clientVars
  <1>2. CASE ClientStep \/ Application
    BY <1>2 DEF ClientStep, Application, SendNext, FlushNext, SendDone, SendFails, Pump,
         Read, Drain, Poll, OnRowDescription, OnDataRow, OnCommandComplete, OnReadyForQuery,
         OnErrorResponse, OnNotification, OnOther, ReadFails, Receive, DrainMessage,
         DrainError, DrainNone, PollMessage, PollEnds, BeginPoll, Begin, DropWhileSending,
         DropWhileReading, clientVars
  <1> QED BY <1>1, <1>2 DEF Next

\* close is a call that is only sent.
CloseInv == op = "close" => pc \in {"send", "closed"}

\* The ways of a client on a clean connection.
Idles ==
  /\ UNCHANGED <<s2c, call, op, result>> /\ pc # "closed"
  /\ pc' = pc \/ (pc = "send" /\ pc' = "read" /\ op # "close")
Closes == op = "close" /\ pc' = "closed" /\ UNCHANGED <<op, call>>
Begins ==
  /\ pc = "idle" /\ pc' = "send" /\ op' # "poll" /\ call' = call + 1
  /\ result' = NoResult /\ UNCHANGED s2c
Polls ==
  /\ {pc, pc'} \subseteq {"idle", "poll"} /\ UNCHANGED call /\ op' # "close"
  /\ result'.is \notin {"ok", "db"}
TakesOne ==
  /\ \E kinds : Decode(kinds) /\ Msg.kind # "ReadyForQuery"
  /\ UNCHANGED <<call, op>> /\ pc \in {"read", "drain", "poll"}
  /\ \/ pc' = pc /\ UNCHANGED result /\ (Msg.kind = "ErrorResponse" => pc = "drain")
     \/ pc = "read" /\ pc' = "drain" /\ Msg.kind = "ErrorResponse" /\ result'.at = Msg.at
Returns ==
  /\ \E kinds : Decode(kinds) /\ Msg.kind = "ReadyForQuery"
  /\ pc \in {"read", "drain"} /\ pc' = "idle" /\ op' = "none" /\ UNCHANGED call
  /\ result' = [is |-> IF pc = "read" THEN "ok" ELSE "db", op |-> op,
                at |-> IF pc = "read" THEN Msg.at ELSE result.at, locals |-> acc]

LEMMA ClientEffect ==
  ASSUME TypeOK, clean, clean', CloseInv, ClientStep \/ Application
  PROVE  UNCHANGED up /\ (Idles \/ Closes \/ Begins \/ Polls \/ TakesOne \/ Returns)
  <1>0. InType BY TypeParts
  <1>1. CASE SendNext \/ FlushNext
    BY <1>1 DEF SendNext, FlushNext, clientVars, Idles
  <1>2. CASE SendDone BY <1>2 DEF SendDone, Idles, Closes
  <1>3. CASE BeginPoll BY <1>3 DEF BeginPoll, Polls, NoResult
  <1>4. CASE \E o \in Ops : Begin(o) BY <1>4 DEF Begin, Begins
  <1>5. CASE DropWhileReading BY <1>5 DEF DropWhileReading, Polls, NoResult
  <1>6. CASE Pump
    <2>1. UNCHANGED <<pc, op, call, result, up>> /\ pc \in {"read", "drain", "poll"}
          /\ (Decode({"Unknown"}) \/ UNCHANGED s2c)
      BY <1>6 DEF Pump, Fill, FillEof, NeedMore, SkipUnknown, clientVars
    <2>2. Decode({"Unknown"}) => Msg.kind = "Unknown" BY <1>0, DecodeShifts
    <2> QED BY <2>1, <2>2 DEF Idles, TakesOne
  <1>r. ASSUME NEW kinds, Receive(kinds)
        PROVE  Decode(KnownKinds) /\ pc = "read" /\ Msg.kind \in kinds /\ UNCHANGED <<up, call>>
    BY <1>r DEF Receive, Yield
  <1>7. CASE OnRowDescription BY <1>7, <1>r DEF OnRowDescription, TakesOne
  <1>8. CASE OnDataRow BY <1>8, <1>r DEF OnDataRow, TakesOne
  <1>9. CASE OnCommandComplete BY <1>9, <1>r DEF OnCommandComplete, TakesOne
  <1>10. CASE OnReadyForQuery
    <2>1. Receive({"ReadyForQuery"}) /\ Return("ok", Msg.at) BY <1>10 DEF OnReadyForQuery
    <2> QED BY <1>r, <2>1 DEF Return, Returns
  <1>11. CASE OnErrorResponse
    <2>1. Receive({"ErrorResponse"}) /\ pc' = "drain" /\ UNCHANGED op /\ result'.at = Msg.at
      BY <1>11 DEF OnErrorResponse, NoResult
    <2> QED BY <1>r, <2>1 DEF TakesOne
  <1>12. CASE OnNotification BY <1>12, <1>r DEF OnNotification, TakesOne
  <1>13. CASE OnOther
    <2>1. Receive({"ParseComplete", "BindComplete", "NoData", "EmptyQueryResponse", "NoticeResponse"})
          /\ UNCHANGED <<pc, op, result>>
      BY <1>13 DEF OnOther
    <2> QED BY <1>r, <2>1 DEF TakesOne
  <1>14. CASE DrainMessage
    <2>1. Decode(KnownKinds) /\ pc = "drain" /\ UNCHANGED <<up, call>> BY <1>14 DEF DrainMessage, Yield
    <2>2. CASE Msg.kind = "ReadyForQuery" BY <1>14, <2>1, <2>2 DEF DrainMessage, Return, Returns
    <2>3. CASE Msg.kind # "ReadyForQuery" BY <1>14, <2>1, <2>3 DEF DrainMessage, TakesOne
    <2> QED BY <2>2, <2>3
  <1>15. CASE PollMessage BY <1>15 DEF PollMessage, Return, Polls
  <1>16. CASE SendFails \/ ReadFails \/ DrainError \/ DrainNone \/ PollEnds \/ DropWhileSending
    BY <1>16 DEF SendFails, ReadFails, DrainError, DrainNone, PollEnds, DropWhileSending
  <1> QED
    BY <1>1, <1>2, <1>3, <1>4, <1>5, <1>6, <1>7, <1>8, <1>9, <1>10, <1>11, <1>12, <1>13, <1>14, <1>15, <1>16
    DEF ClientStep, Application, Read, Drain, Poll

\* A frame of this kind is sent.
Sends(kinds) ==
  /\ Len(s2c) \in Nat /\ Len(s2c') = Len(s2c) + 1
  /\ \A i \in 1..Len(s2c) : s2c'[i] = s2c[i]
  /\ s2c'[Len(s2c) + 1].kind \in kinds

LEMMA ServerEffect ==
  ASSUME TypeOK, Serve \/ Environment
  PROVE  /\ up
         /\ \/ UNCHANGED s2c
            \/ Sends(BackendKinds \ {"ReadyForQuery"})
            \/ Sends({"ReadyForQuery"}) /\ up'
            \/ ~up' /\ \E n \in 0..Len(s2c) : s2c' = SubSeq(s2c, 1, n)
  <1>0. InType /\ at \in Progress BY TypeParts DEF TypeOK
  <1>s. ASSUME NEW kind, NEW progress, NEW note, Send(kind, progress, note)
        PROVE  up /\ Sends({kind})
    <2> DEFINE f == [kind |-> kind, at |-> progress, note |-> note]
    <2>1. s2c' = Append(s2c, f) /\ up /\ f.kind = kind BY <1>s DEF Send
    <2> HIDE DEF f
    <2> QED BY <1>0, <2>1 DEF Sends, InType
  <1>a. ASSUME NEW kind \in BackendKinds \ {"ReadyForQuery"}, NEW progress, Answer(kind, progress)
        PROVE  up /\ Sends(BackendKinds \ {"ReadyForQuery"})
    <2>1. Send(kind, progress, 0) BY <1>a DEF Answer
    <2>2. up /\ Sends({kind}) BY <1>s, <2>1
    <2> QED BY <2>2 DEF Sends
  <1>k. {"RowDescription", "DataRow", "CommandComplete", "EmptyQueryResponse", "ErrorResponse",
         "ParseComplete", "BindComplete", "NoData", "Unknown", "NotificationResponse"} \cup NoiseKinds
           \subseteq BackendKinds \ {"ReadyForQuery"}
    BY BackendAssumption DEF BackendKinds, KnownKinds
  <1>1. CASE DescribeRows BY <1>1, <1>a, <1>k DEF DescribeRows
  <1>2. CASE SendRow BY <1>2, <1>a, <1>k DEF SendRow
  <1>3. CASE CompleteCommand BY <1>3, <1>a, <1>k DEF CompleteCommand
  <1>4. CASE EmptyQuery BY <1>4, <1>a, <1>k DEF EmptyQuery
  <1>5. CASE FailStatement BY <1>5, <1>a, <1>k DEF FailStatement
  <1>6. CASE EndSimpleQuery
    <2>1. Send("ReadyForQuery", at, 0) /\ UNCHANGED up BY <1>6 DEF EndSimpleQuery, Answer
    <2> QED BY <1>s, <2>1
  <1>7. CASE StartCopy BY <1>7, <1>a, <1>k DEF StartCopy
  <1>8. CASE InterruptCopy
    <2>1. up BY <1>8 DEF InterruptCopy, Take
    <2>2. UNCHANGED s2c \/ Answer("ErrorResponse", at) BY <1>8 DEF InterruptCopy, Silent
    <2> QED BY <1>a, <1>k, <2>1, <2>2
  <1>9. CASE ReadExtended BY <1>9, <1>a, <1>k DEF ReadExtended
  <1>10. CASE ReadSync
    <2>1. Send("ReadyForQuery", Current(out[1].id), 0) /\ UNCHANGED up BY <1>10 DEF ReadSync, Answer
    <2> QED BY <1>s, <2>1
  <1>11. CASE ReadQuery \/ ReadExecute \/ ReadFlush \/ Discard \/ ReadTerminate
    BY <1>11 DEF ReadQuery, ReadExecute, ReadFlush, Discard, ReadTerminate, Take, Silent
  <1>12. CASE Notify
    <2>1. Send("NotificationResponse", at, notes + 1) BY <1>12 DEF Notify
    <2>2. up /\ Sends({"NotificationResponse"}) BY <1>s, <2>1
    <2> QED BY <1>k, <2>2 DEF Sends
  <1>13. CASE MakeNoise
    <2>1. PICK kind \in NoiseKinds : Send(kind, at, 0) BY <1>13 DEF MakeNoise
    <2>2. up /\ Sends({kind}) BY <1>s, <2>1
    <2> QED BY <1>k, <2>2 DEF Sends
  <1>14. CASE Fatal
    <2>1. Send("ErrorResponse", at, 0) BY <1>14 DEF Fatal
    <2>2. up /\ Sends({"ErrorResponse"}) BY <1>s, <2>1
    <2> QED BY <1>k, <2>2 DEF Sends
  <1>15. CASE Lose BY <1>0, <1>15 DEF Lose, InType
  <1> QED
    BY <1>1, <1>2, <1>3, <1>4, <1>5, <1>6, <1>7, <1>8, <1>9, <1>10, <1>11, <1>12, <1>13, <1>14, <1>15
    DEF Serve, Environment

-----------------------------------------------------------------------------
(* The end of an answer *)

\* Each loop gathers what it returns, and an error before the end of the answer is one of
\* the answer.
ShapeInv == (op = "execute" => acc.rows = <<>>) /\ (op # "execute" => acc.affected = 0)
ErrorInv ==
  \A j \in Ready : /\ pc = "drain" => result.at.id = call
                   /\ \A i \in 1..j : s2c[i].kind = "ErrorResponse" => s2c[i].at.id = call
HandInv == clean => CloseInv /\ ShapeInv /\ ErrorInv

\* There is one ReadyForQuery at most, that of the call in progress.
LEMMA ReadyFacts ==
  ASSUME TypeOK, SyncInv, clean
  PROVE  /\ \A i \in Ready : InCall /\ s2c[i].at.id = call /\ i \in 1..Len(s2c) /\ i \in Nat
         /\ \A i, j \in Ready : i = j
         /\ Len(s2c) \in Nat
  <1>1. InInv /\ Len(s2c) \in Nat BY DEF SyncInv, TypeOK
  <1>2. "ReadyForQuery" \notin QuietKinds BY DEF QuietKinds, AsyncKinds
  <1>3. ASSUME NEW i \in Ready, NEW j \in Ready PROVE i = j
    <2>1. i \in 1..Len(s2c) /\ j \in 1..Len(s2c) /\ s2c[i].kind = "ReadyForQuery" /\ s2c[j].kind = "ReadyForQuery"
      BY DEF Ready
    <2>2. j \notin (i + 1)..Len(s2c) /\ i \notin (j + 1)..Len(s2c) BY <1>1, <1>2, <2>1 DEF InInv
    <2> QED BY <1>1, <2>1, <2>2
  <1> QED BY <1>1, <1>2, <1>3 DEF Ready, InInv

OneReady ==
  /\ \A i \in Ready : InCall /\ s2c[i].at.id = call /\ i \in 1..Len(s2c) /\ i \in Nat
  /\ \A i, j \in Ready : i = j
  /\ Len(s2c) \in Nat

LEMMA ReadyIsOne == ASSUME TypeOK, SyncInv, clean PROVE OneReady
  BY ReadyFacts DEF OneReady

\* Outside a call there is none.
LEMMA ErrorsNone == ASSUME TypeOK, SyncInv, clean, ~InCall PROVE ErrorInv
  BY ReadyFacts DEF ErrorInv

\* Taking a message moves the end of the answer one place forward.
LEMMA ReadyMoves ==
  ASSUME NEW kinds, InType, Decode(kinds)
  PROVE  /\ \A i \in Ready : i # 1 => i - 1 \in Ready' /\ i \in 1..Len(s2c)
         /\ \A i \in Ready' : i + 1 \in Ready /\ i \in 1..Len(s2c')
         /\ 1 \in Ready <=> Msg.kind = "ReadyForQuery"
         /\ \A i \in 1..Len(s2c') : s2c'[i] = s2c[i + 1]
         /\ Msg = s2c[1] /\ Len(s2c) \in Nat /\ Len(s2c) > 0 /\ Len(s2c') = Len(s2c) - 1
  BY DecodeShifts DEF Ready

\* Sending another message leaves it in place.
LEMMA ReadyStays ==
  ASSUME Sends(BackendKinds \ {"ReadyForQuery"})
  PROVE  Ready' = Ready
  <1>1. /\ Len(s2c) \in Nat /\ Len(s2c') = Len(s2c) + 1
        /\ \A i \in 1..Len(s2c) : s2c'[i] = s2c[i]
        /\ s2c'[Len(s2c) + 1].kind # "ReadyForQuery"
    BY DEF Sends
  <1>2. \A i \in 1..Len(s2c') : i \in 1..Len(s2c) \/ i = Len(s2c) + 1 BY <1>1
  <1>3. \A i \in 1..Len(s2c) : i \in 1..Len(s2c') BY <1>1
  <1> QED BY <1>1, <1>2, <1>3 DEF Ready

LEMMA ShapeNext ==
  ASSUME TypeOK, SyncInv, CleanInv, clean, clean', CloseInv, ShapeInv, [Next]_vars
  PROVE  ShapeInv'
  <1>0. acc \in Locals /\ RowsInv /\ NoLocals.rows = <<>> /\ NoLocals.affected = 0
    BY DEF TypeOK, CleanInv, GatherInv, NoLocals
  <1>1. ASSUME acc' = NoLocals PROVE ShapeInv' BY <1>0, <1>1 DEF ShapeInv
  <1>2. ASSUME acc' = acc, op' = op PROVE ShapeInv' BY <1>2 DEF ShapeInv
  <1>3. CASE ServerStep \/ UNCHANGED vars BY <1>2, <1>3 DEF ServerStep, vars, clientVars
  <1>4. CASE SendNext \/ FlushNext \/ Pump BY <1>2, <1>4 DEF SendNext, FlushNext, Pump, clientVars
  <1>5. CASE SendDone BY <1>2, <1>5 DEF SendDone
  <1>6. CASE BeginPoll \/ \E o \in Ops : Begin(o)
    BY <1>0, <1>1, <1>6 DEF BeginPoll, Begin, RowsInv
  <1>7. CASE DropWhileReading BY <1>1, <1>7 DEF DropWhileReading
  <1>8. CASE OnRowDescription BY <1>0, <1>8 DEF OnRowDescription, ShapeInv, Locals
  <1>9. CASE OnDataRow BY <1>0, <1>9 DEF OnDataRow, ShapeInv, Locals
  <1>10. CASE OnCommandComplete BY <1>0, <1>10 DEF OnCommandComplete, ShapeInv, Locals
  <1>11. CASE OnReadyForQuery \/ PollMessage BY <1>1, <1>11 DEF OnReadyForQuery, PollMessage, Return
  <1>12. CASE OnErrorResponse \/ OnNotification \/ OnOther
    BY <1>2, <1>12 DEF OnErrorResponse, OnNotification, OnOther
  <1>13. CASE DrainMessage BY <1>1, <1>2, <1>13 DEF DrainMessage, Return
  <1>14. CASE SendFails \/ ReadFails \/ DrainError \/ DrainNone \/ PollEnds \/ DropWhileSending
    BY <1>14 DEF SendFails, ReadFails, DrainError, DrainNone, PollEnds, DropWhileSending
  <1> QED
    BY <1>3, <1>4, <1>5, <1>6, <1>7, <1>8, <1>9, <1>10, <1>11, <1>12, <1>13, <1>14
    DEF Next, ClientStep, Application, Read, Drain, Poll

\* While the server is there this is so already.
LEMMA ErrorsOwn ==
  ASSUME TypeOK, SyncInv, clean, up
  PROVE  ErrorInv
  <1>1. InInv /\ LocalInv /\ Len(s2c) \in Nat BY DEF SyncInv, TypeOK
  <1>2. "ErrorResponse" \notin QuietKinds BY DEF QuietKinds, AsyncKinds
  <1>3. \A j \in Ready : j \in 1..Len(s2c) BY DEF Ready
  <1>4. \A j \in Ready : \A i \in 1..j : i \in 1..Len(s2c) BY <1>1, <1>3
  <1>5. pc = "drain" => result.at.id = call BY <1>1 DEF LocalInv
  <1>6. \A i \in 1..Len(s2c) : s2c[i].kind = "ErrorResponse" => s2c[i].at.id = call
    BY <1>1, <1>2 DEF InInv
  <1> QED BY <1>4, <1>5, <1>6 DEF ErrorInv

LEMMA ErrorNext ==
  ASSUME TypeOK, TypeOK', SyncInv, SyncInv', clean, clean', CloseInv, ErrorInv, [Next]_vars
  PROVE  ErrorInv'
  <1>0. InType /\ Len(s2c) \in Nat BY TypeParts, SMTT(30) DEF TypeOK
  <1>k. ASSUME UNCHANGED <<s2c, call>>, pc' = "drain" => (pc = "drain" /\ UNCHANGED result) PROVE ErrorInv'
    BY <1>k DEF ErrorInv, Ready
  <1>1. CASE ServerStep
    <2>1. up /\ UNCHANGED clientVars BY <1>1, ServerEffect DEF ServerStep
    <2>2. UNCHANGED <<pc, call, result>> BY <2>1 DEF clientVars
    <2>3. CASE UNCHANGED s2c BY <1>k, <2>2, <2>3
    <2>4. CASE Sends(BackendKinds \ {"ReadyForQuery"})
      <3>1. Ready' = Ready BY <2>4, ReadyStays
      <3>2. \A j \in Ready : \A i \in 1..j : i \in 1..Len(s2c) BY <1>0 DEF Ready
      <3>3. \A i \in 1..Len(s2c) : s2c'[i] = s2c[i] BY <2>4 DEF Sends
      <3> QED BY <2>2, <3>1, <3>2, <3>3 DEF ErrorInv
    <2>5. CASE up' BY <2>5, ErrorsOwn, PTL
    <2>6. CASE ~up' /\ \E n \in 0..Len(s2c) : s2c' = SubSeq(s2c, 1, n)
      <3>1. PICK n \in 0..Len(s2c) : s2c' = SubSeq(s2c, 1, n) BY <2>6
      <3>2. Len(s2c') = n /\ \A i \in 1..n : s2c'[i] = s2c[i] /\ i \in 1..Len(s2c) BY <1>0, <3>1 DEF InType
      <3>3. \A j \in Ready' : j \in Ready /\ \A i \in 1..j : s2c'[i] = s2c[i] BY <3>2 DEF Ready
      <3> QED BY <2>2, <3>3 DEF ErrorInv
    <2> QED BY <1>1, <2>3, <2>4, <2>5, <2>6, ServerEffect DEF ServerStep
  <1>2. CASE ClientStep \/ Application
    <2>1. Idles \/ Closes \/ Begins \/ Polls \/ TakesOne \/ Returns BY <1>2, ClientEffect
    <2>2. CASE Idles BY <1>k, <2>2 DEF Idles
    <2>3. CASE TakesOne
      <3>1. PICK kinds : Decode(kinds) /\ Msg.kind # "ReadyForQuery" BY <2>3 DEF TakesOne
      <3>2. \A j \in Ready' : j + 1 \in Ready /\ \A i \in 1..j : i + 1 \in 1..(j + 1) /\ s2c'[i] = s2c[i + 1]
        BY <1>0, <3>1, ReadyMoves
      <3>3. \A j \in Ready' : 1 \in 1..(j + 1) BY <1>0, <3>1, ReadyMoves
      <3>4. Msg = s2c[1] BY DEF Msg
      <3> QED BY <2>3, <3>2, <3>3, <3>4 DEF TakesOne, ErrorInv
    <2>4. CASE Begins
      <3>1. ~InCall BY <2>4 DEF Begins, InCall, Pending
      <3>2. Ready = {} BY <3>1, ReadyFacts
      <3>3. Ready' = {} BY <2>4, <3>2 DEF Begins, Ready
      <3> QED BY <3>3 DEF ErrorInv
    <2>5. CASE Closes \/ Polls \/ Returns
      <3>1. ~InCall' BY <2>5 DEF Closes, Polls, Returns, InCall, Pending
      <3> QED BY <3>1, ErrorsNone, PTL
    <2> QED BY <2>1, <2>2, <2>3, <2>4, <2>5
  <1>3. CASE UNCHANGED vars BY <1>3, <1>k DEF vars, clientVars
  <1> QED BY <1>1, <1>2, <1>3 DEF Next

\* On a clean connection every call's answer is in order.
LEMMA HandCorrect == Spec => []HandInv
  <1>1. Init => HandInv
    <2> SUFFICES ASSUME Init PROVE CloseInv /\ ShapeInv /\ ErrorInv BY DEF HandInv
    <2>1. s2c = <<>> /\ op = "none" /\ acc = NoLocals BY DEF Init, StreamInit
    <2>2. Ready = {} BY <2>1 DEF Ready
    <2> QED BY <2>1, <2>2 DEF CloseInv, ShapeInv, ErrorInv, NoLocals
  <1>2. TypeOK /\ TypeOK' /\ SyncInv /\ SyncInv' /\ CleanInv /\ HandInv /\ [Next]_vars => HandInv'
    <2> SUFFICES ASSUME TypeOK, TypeOK', SyncInv, SyncInv', CleanInv, HandInv, [Next]_vars, clean'
                 PROVE  CloseInv' /\ ShapeInv' /\ ErrorInv'
      BY DEF HandInv
    <2>1. clean BY CleanStays
    <2>2. CloseInv /\ ShapeInv /\ ErrorInv BY <2>1 DEF HandInv
    <2>3. CloseInv'
      <3>1. CASE ClientStep \/ Application
        <4>1. Idles \/ Closes \/ Begins \/ Polls \/ TakesOne \/ Returns BY <2>1, <2>2, <3>1, ClientEffect
        <4> QED BY <2>2, <4>1 DEF CloseInv, Idles, Closes, Begins, Polls, TakesOne, Returns
      <3>2. CASE ServerStep \/ UNCHANGED vars
        BY <2>2, <3>2 DEF ServerStep, vars, clientVars, CloseInv
      <3> QED BY <3>1, <3>2 DEF Next
    <2> QED BY <2>1, <2>2, <2>3, ShapeNext, ErrorNext
  <1> QED BY <1>1, <1>2, TypeCorrect, SyncCorrect, CleanCorrect, PTL DEF Spec

-----------------------------------------------------------------------------
(* Every step of a Session is a step of Calls, or none. *)

\* What the call will return, when the end of its answer is the e-th message.
DecisionAt(e) ==
  LET is == IF pc = "drain" \/ (\E i \in 1..e : s2c[i].kind = "ErrorResponse") THEN "db" ELSE "ok"
  IN [id |-> s2c[e].at.id, is |-> is,
      rows |-> IF is = "ok" /\ op # "execute" THEN s2c[e].at.rows ELSE 0,
      affected |-> IF is = "ok" /\ op = "execute" THEN s2c[e].at.counted ELSE 0]

DecisionFits == \A e : Ready = {e} => Decision = DecisionAt(e)

LEMMA DecisionIs == DecisionFits
  <1> SUFFICES ASSUME NEW e, Ready = {e} PROVE Decision = DecisionAt(e) BY DEF DecisionFits
  <1>1. (CHOOSE i \in Ready : TRUE) = e OBVIOUS
  <1> QED BY <1>1 DEF Decision, DecisionAt

\* A connection that is over for the calls stays so.
LEMMA OverStays ==
  ASSUME TypeOK, SyncInv, HandInv, [Next]_vars, ~Over'
  PROVE  ~Over
  <1>1. clean' /\ op' # "close" /\ pc' # "closed" /\ (up' \/ ~InCall' \/ Ready' # {}) BY DEF Over
  <1>2. clean BY <1>1, CleanStays
  <1>3. CloseInv BY <1>2 DEF HandInv
  <1>4. CASE ClientStep \/ Application
    <2>1. UNCHANGED up /\ (Idles \/ Closes \/ Begins \/ Polls \/ TakesOne \/ Returns)
      BY <1>1, <1>2, <1>3, <1>4, ClientEffect
    <2>2. CASE Idles
      <3>1. Ready' = Ready /\ (InCall' <=> InCall) BY <2>2 DEF Idles, Ready, InCall, Pending
      <3> QED BY <1>1, <1>2, <2>1, <2>2, <3>1 DEF Over, Idles
    <2>3. CASE Closes BY <1>1, <2>3 DEF Closes
    <2>4. CASE Begins \/ Polls BY <1>2, <1>3, <2>4 DEF Begins, Polls, Over, InCall, Pending, CloseInv
    <2>5. CASE TakesOne
      <3>1. PICK kinds : Decode(kinds) BY <2>5 DEF TakesOne
      <3>2. InType BY TypeParts
      <3>3. Ready' # {} => Ready # {} BY <3>1, <3>2, ReadyMoves
      <3>4. pc # "closed" /\ op # "close" /\ (InCall' <=> InCall)
        BY <1>3, <2>5 DEF TakesOne, CloseInv, InCall, Pending
      <3> QED BY <1>1, <1>2, <2>1, <3>3, <3>4 DEF Over
    <2>6. CASE Returns
      <3>1. PICK kinds : Decode(kinds) /\ Msg.kind = "ReadyForQuery" BY <2>6 DEF Returns
      <3>2. InType BY TypeParts
      <3>3. Ready # {} BY <3>1, <3>2, ReadyMoves
      <3> QED BY <1>2, <1>3, <2>6, <3>3 DEF Returns, CloseInv, Over
    <2> QED BY <2>1, <2>2, <2>3, <2>4, <2>5, <2>6
  <1>5. CASE ServerStep
    <2>1. up /\ UNCHANGED clientVars BY <1>5, ServerEffect DEF ServerStep
    <2> QED BY <1>1, <1>2, <2>1 DEF clientVars, Over
  <1>6. CASE UNCHANGED vars
    <2>1. UNCHANGED <<s2c, up, pc, op, clean>> BY <1>6 DEF vars, clientVars
    <2> QED BY <2>1 DEF Over, InCall, Pending, Ready
  <1> QED BY <1>4, <1>5, <1>6 DEF Next

\* The step that Calls takes when the client takes one, or when the server does.
Stutters == UNCHANGED <<Status, call, Decided, Handed>>
Asks     == Status = "idle" /\ Status' = "asked" /\ call' = call + 1 /\ Handed' = NoAnswer /\ UNCHANGED Decided
Decides  == /\ Status = "asked" /\ Status' = "decided" /\ Decided' \in Promise!Answers /\ Decided'.id = call
            /\ UNCHANGED <<call, Handed>>
Hands    == /\ Status = "decided" /\ Status' = "idle" /\ Handed' = Decided /\ Decided' = NoAnswer
            /\ UNCHANGED call
Forgets  == Status = "idle" /\ Handed' = NoAnswer /\ UNCHANGED <<Status, call, Decided>>

\* Taking a message that is not the end of the answer decides nothing.
LEMMA TakesOneStutters ==
  ASSUME InType, OneReady, OneReady', ~Over, ~Over', TakesOne
  PROVE  Stutters
  <1>1. clean /\ pc # "closed" /\ op # "close" /\ pc \in {"read", "drain", "poll"} /\ UNCHANGED <<call, op>>
    BY DEF Over, TakesOne
  <1>2. PICK kinds : Decode(kinds) /\ Msg.kind # "ReadyForQuery" BY DEF TakesOne
  <1>3. /\ \A i \in Ready : i # 1 => i - 1 \in Ready' /\ i \in 1..Len(s2c)
        /\ \A i \in Ready' : i + 1 \in Ready /\ i \in 1..Len(s2c')
        /\ 1 \notin Ready
        /\ \A i \in 1..Len(s2c') : s2c'[i] = s2c[i + 1]
        /\ Msg = s2c[1] /\ Len(s2c) \in Nat /\ Len(s2c) > 0 /\ Len(s2c') = Len(s2c) - 1
    BY <1>2, ReadyMoves
  <1>4. InCall' <=> InCall BY <1>1 DEF TakesOne, InCall, Pending
  <1>5. Ready' = {} <=> Ready = {} BY <1>3
  <1>6. ASSUME NEW e \in Ready PROVE Decision' = Decision
    <2>1. Ready = {e} /\ e \in Nat /\ e # 1 /\ e \in 1..Len(s2c) BY <1>3, <1>6 DEF OneReady
    <2>2. PICK f : f = e - 1 OBVIOUS
    <2>3. f \in Ready' /\ f \in 1..Len(s2c') /\ f + 1 = e BY <1>3, <2>1, <2>2
    <2>4. Ready' = {f} BY <2>3 DEF OneReady
    <2>5. s2c'[f] = s2c[e] BY <1>3, <2>3
    <2>6. (pc = "drain" \/ \E i \in 1..e : s2c[i].kind = "ErrorResponse")
            <=> (pc' = "drain" \/ \E i \in 1..f : s2c'[i].kind = "ErrorResponse")
      <3>1. ASSUME NEW i \in 1..e, s2c[i].kind = "ErrorResponse"
            PROVE  pc' = "drain" \/ \E j \in 1..f : s2c'[j].kind = "ErrorResponse"
        <4>1. CASE i = 1 BY <1>3, <3>1, <4>1 DEF TakesOne
        <4>2. CASE i # 1
          <5>1. i - 1 \in 1..f /\ i - 1 \in 1..Len(s2c') /\ (i - 1) + 1 = i BY <2>1, <2>3, <4>2
          <5>2. s2c'[i - 1] = s2c[i] BY <1>3, <5>1
          <5> QED BY <3>1, <5>1, <5>2
        <4> QED BY <4>1, <4>2
      <3>2. ASSUME NEW i \in 1..f, s2c'[i].kind = "ErrorResponse"
            PROVE  \E j \in 1..e : s2c[j].kind = "ErrorResponse"
        <4>1. i + 1 \in 1..e /\ i \in 1..Len(s2c') BY <2>1, <2>3
        <4>2. s2c'[i] = s2c[i + 1] BY <1>3, <4>1
        <4> QED BY <3>2, <4>1, <4>2
      <3>3. pc = "drain" => pc' = "drain" BY DEF TakesOne
      <3>4. pc' = "drain" => pc = "drain" \/ \E i \in 1..e : s2c[i].kind = "ErrorResponse"
        <4>1. 1 \in 1..e BY <2>1
        <4> QED BY <1>3, <4>1 DEF TakesOne
      <3> QED BY <3>1, <3>2, <3>3, <3>4
    <2>7. Decision = DecisionAt(e) BY <2>1, DecisionIs DEF DecisionFits
    <2>8. Decision' = DecisionAt(f)'
      <3>1. DecisionFits' BY DecisionIs, PTL
      <3> QED BY <2>4, <3>1 DEF DecisionFits
    <2> QED BY <1>1, <2>5, <2>6, <2>7, <2>8 DEF DecisionAt
  <1>7. UNCHANGED Status BY <1>4, <1>5 DEF Status
  <1>8. UNCHANGED Decided BY <1>4, <1>5, <1>6 DEF Decided
  <1>9. UNCHANGED Handed
    <2>1. CASE InCall BY <1>4, <2>1 DEF Handed
    <2>2. CASE ~InCall
      <3>1. UNCHANGED result BY <1>1, <2>2 DEF TakesOne, InCall, Pending
      <3> QED BY <1>4, <3>1 DEF Handed, Given
    <2> QED BY <2>1, <2>2
  <1> QED BY <1>1, <1>7, <1>8, <1>9 DEF Stutters

\* Taking the end of the answer hands over what was decided.
LEMMA ReturnsHands ==
  ASSUME TypeOK, OneReady, OneReady', CleanInv, ShapeInv, ErrorInv, ~Over, ~Over', Returns
  PROVE  Hands
  <1>1. /\ clean /\ InType /\ pc \in {"read", "drain"} /\ pc' = "idle" /\ UNCHANGED call
        /\ result' = [is |-> IF pc = "read" THEN "ok" ELSE "db", op |-> op,
                      at |-> IF pc = "read" THEN Msg.at ELSE result.at, locals |-> acc]
    BY TypeParts DEF Over, Returns
  <1>2. PICK kinds : Decode(kinds) /\ Msg.kind = "ReadyForQuery" BY DEF Returns
  <1>3. 1 \in Ready /\ Msg = s2c[1] BY <1>1, <1>2, ReadyMoves
  <1>4. Ready = {1} /\ InCall /\ s2c[1].at.id = call /\ 1 \in 1..Len(s2c) BY <1>3 DEF OneReady
  <1>5. ~InCall' BY <1>1 DEF InCall, Pending
  <1>6. \A i \in 1..1 : s2c[i].kind # "ErrorResponse"
    <2>1. s2c[1].kind = "ReadyForQuery" BY <1>2, <1>3
    <2>2. \A i \in 1..1 : i = 1 OBVIOUS
    <2> QED BY <2>1, <2>2
  <1>7. Decision = DecisionAt(1) BY <1>4, DecisionIs DEF DecisionFits
  <1>8. Given' = Decision
    <2>1. CASE pc = "read"
      <3>1. /\ result'.is = "ok" /\ result'.at = s2c[1].at /\ result'.locals = acc
            /\ pc # "drain"
        BY <1>1, <1>3, <2>1
      <3>2. PICK h \in Histories : Foresees(h)
        BY <1>1, <1>4, <2>1 DEF CleanInv, GatherInv, TraceInv
      <3>3. Fits(h[0], "ReadyForQuery", s2c[1].at)
        <4>1. Fits(h[1 - 1], s2c[1].kind, s2c[1].at) BY <1>4, <3>2 DEF Foresees, Follows
        <4> QED BY <1>2, <1>3, <4>1
      <3>4. IF op = "execute" THEN acc.affected = s2c[1].at.counted ELSE Len(acc.rows) = s2c[1].at.rows
        BY <3>2, <3>3 DEF Foresees, Starts, Fits
      <3>5. IF op = "execute" THEN Len(acc.rows) = 0 ELSE acc.affected = 0 BY DEF ShapeInv
      <3>6. Given' = [id |-> s2c[1].at.id, is |-> "ok", rows |-> Len(acc.rows), affected |-> acc.affected]
        BY <3>1 DEF Given
      <3>7. Decision = [id |-> s2c[1].at.id, is |-> "ok",
                        rows |-> IF op # "execute" THEN s2c[1].at.rows ELSE 0,
                        affected |-> IF op = "execute" THEN s2c[1].at.counted ELSE 0]
        BY <1>6, <1>7, <3>1 DEF DecisionAt
      <3> QED BY <3>4, <3>5, <3>6, <3>7
    <2>2. CASE pc = "drain"
      <3>1. result'.is = "db" /\ result'.at = result.at BY <1>1, <2>2
      <3>2. result.at.id = call BY <1>3, <2>2 DEF ErrorInv
      <3> QED BY <1>4, <1>7, <2>2, <3>1, <3>2 DEF Given, DecisionAt
    <2> QED BY <1>1, <2>1, <2>2
  <1>9. result'.is \in {"ok", "db"} BY <1>1
  <1> QED BY <1>1, <1>4, <1>5, <1>8, <1>9 DEF Hands, Status, Decided, Handed

\* The client's steps.
LEMMA ClientSimulates ==
  ASSUME TypeOK, TypeOK', SyncInv, SyncInv', CleanInv, HandInv, ~Over, ~Over',
         ClientStep \/ Application
  PROVE  Stutters \/ Asks \/ Hands \/ Forgets
  <1>1. clean /\ clean' /\ pc # "closed" /\ op # "close" /\ pc' # "closed" /\ op' # "close" BY DEF Over
  <1>2. CloseInv /\ ShapeInv /\ ErrorInv /\ InType BY <1>1, TypeParts DEF HandInv
  <1>3. Idles \/ Closes \/ Begins \/ Polls \/ TakesOne \/ Returns BY <1>1, <1>2, ClientEffect
  <1>4. OneReady BY <1>1, ReadyIsOne
  <1>5. OneReady' BY <1>1, ReadyIsOne, PTL
  <1>6. CASE Closes BY <1>1, <1>6 DEF Closes
  <1>7. CASE Begins
    <2>1. ~InCall /\ InCall' BY <1>1, <1>7 DEF Begins, InCall, Pending
    <2>2. Ready = {} BY <1>4, <2>1 DEF OneReady
    <2>3. Ready' = {} BY <1>7, <2>2 DEF Begins, Ready
    <2> QED BY <1>7, <2>1, <2>2, <2>3 DEF Begins, Asks, Status, Decided, Handed
  <1>8. CASE Polls
    <2>1. ~InCall /\ ~InCall' BY <1>8 DEF Polls, InCall, Pending
    <2> QED BY <1>8, <2>1 DEF Polls, Forgets, Status, Decided, Handed
  <1>9. CASE Idles
    <2>1. InCall' <=> InCall BY <1>9 DEF Idles, InCall, Pending
    <2>2. Ready' = Ready /\ UNCHANGED <<s2c, call, op, result>> BY <1>9 DEF Idles, Ready
    <2>3. pc' = "drain" <=> pc = "drain" BY <1>9 DEF Idles
    <2>4. Decision' = Decision BY <2>2, <2>3 DEF Decision
    <2>5. Given' = Given BY <2>2 DEF Given
    <2> QED BY <2>1, <2>2, <2>4, <2>5 DEF Stutters, Status, Decided, Handed
  <1> QED BY <1>2, <1>3, <1>4, <1>5, <1>6, <1>7, <1>8, <1>9, TakesOneStutters, ReturnsHands

\* The server's steps.
LEMMA ServerSimulates ==
  ASSUME TypeOK, TypeOK', SyncInv, SyncInv', ~Over, ~Over', ServerStep
  PROVE  Stutters \/ Decides
  <1>1. up /\ clean /\ clean' /\ UNCHANGED <<pc, op, call, result>>
    BY ServerEffect DEF Over, ServerStep, clientVars
  <1>2. (InCall' <=> InCall) /\ UNCHANGED Handed BY <1>1 DEF InCall, Pending, Handed, Given
  <1>3. OneReady BY <1>1, ReadyIsOne
  <1>4. OneReady' BY <1>1, ReadyIsOne, PTL
  \* The end of the answer, and what precedes it, stay.
  <1>k. ASSUME Ready' = Ready, \A i \in 1..Len(s2c) : s2c'[i] = s2c[i] \/ \A e \in Ready : i > e
        PROVE  Stutters
    <2>1. ASSUME NEW e \in Ready PROVE Decision' = Decision
      <3>1. Ready = {e} /\ e \in 1..Len(s2c) BY <1>3, <2>1 DEF OneReady
      <3>2. \A i \in 1..e : s2c'[i] = s2c[i] BY <1>k, <2>1, <3>1, <1>3 DEF OneReady
      <3>3. e \in 1..e BY <3>1, <1>3 DEF OneReady
      <3>4. s2c'[e] = s2c[e] BY <3>2, <3>3
      <3>5. (\E i \in 1..e : s2c'[i].kind = "ErrorResponse") <=> (\E i \in 1..e : s2c[i].kind = "ErrorResponse")
        BY <3>2
      <3>6. Decision = DecisionAt(e) BY <3>1, DecisionIs DEF DecisionFits
      <3>7. Decision' = DecisionAt(e)'
        <4>1. DecisionFits' BY DecisionIs, PTL
        <4> QED BY <1>k, <3>1, <4>1 DEF DecisionFits
      <3> QED BY <1>1, <3>4, <3>5, <3>6, <3>7 DEF DecisionAt
    <2> QED BY <1>1, <1>2, <1>k, <2>1 DEF Stutters, Status, Decided
  <1>5. CASE UNCHANGED s2c
    <2>1. Ready' = Ready BY <1>5 DEF Ready
    <2> QED BY <1>5, <1>k, <2>1
  <1>6. CASE Sends(BackendKinds \ {"ReadyForQuery"})
    <2>1. \A i \in 1..Len(s2c) : s2c'[i] = s2c[i] BY <1>6 DEF Sends
    <2> QED BY <1>6, <1>k, <2>1, ReadyStays
  <1>7. CASE Sends({"ReadyForQuery"}) /\ up'
    <2>1. /\ Len(s2c) \in Nat /\ Len(s2c') = Len(s2c) + 1
          /\ \A i \in 1..Len(s2c) : s2c'[i] = s2c[i]
          /\ s2c'[Len(s2c) + 1].kind = "ReadyForQuery"
      BY <1>7 DEF Sends
    <2>2. PICK f : f = Len(s2c) + 1 OBVIOUS
    <2>3. f \in Ready' BY <2>1, <2>2 DEF Ready
    <2>4. Ready' = {f} /\ InCall /\ s2c'[f].at.id = call /\ f \in 1..Len(s2c')
      BY <1>1, <1>2, <1>4, <2>3 DEF OneReady
    <2>5. Ready = {}
      <3>1. ASSUME NEW e \in Ready PROVE FALSE
        <4>1. e \in 1..Len(s2c) /\ e \in Nat BY <1>3 DEF OneReady
        <4>2. e \in Ready' BY <2>1, <4>1 DEF Ready
        <4> QED BY <2>1, <2>2, <2>4, <4>1, <4>2
      <3> QED BY <3>1
    <2>6. Decision' = DecisionAt(f)'
      <3>1. DecisionFits' BY DecisionIs, PTL
      <3> QED BY <2>4, <3>1 DEF DecisionFits
    <2>7. s2c'[f].at \in Progress /\ call \in Nat
      <3>1. s2c' \in Seq(BackendFrames) /\ call \in Nat BY DEF TypeOK
      <3>2. s2c'[f] \in BackendFrames BY <2>4, <3>1
      <3> QED BY <3>1, <3>2 DEF BackendFrames
    <2>8. DecisionAt(f)' \in Promise!Answers /\ DecisionAt(f)'.id = call
      BY <2>4, <2>7 DEF DecisionAt, Progress, Promise!Answers
    <2>9. Decided' = Decision' BY <1>2, <2>4 DEF Decided
    <2> QED BY <1>1, <1>2, <2>4, <2>5, <2>6, <2>8, <2>9 DEF Decides, Status
  <1>8. CASE ~up' /\ \E n \in 0..Len(s2c) : s2c' = SubSeq(s2c, 1, n)
    <2>1. PICK n \in 0..Len(s2c) : s2c' = SubSeq(s2c, 1, n) BY <1>8
    <2>2. /\ Len(s2c) \in Nat /\ Len(s2c') = n
          /\ \A i \in 1..n : s2c'[i] = s2c[i] /\ i \in 1..Len(s2c)
      BY <2>1, TypeParts DEF InType
    <2>3. CASE ~InCall BY <1>1, <1>2, <2>3 DEF Stutters, Status, Decided
    <2>4. CASE InCall
      <3>1. PICK e : e \in Ready' BY <1>2, <1>8, <2>4 DEF Over
      <3>2. e \in 1..n /\ e \in Ready BY <2>2, <3>1 DEF Ready
      <3>3. Ready = {e} /\ Ready' = {e} BY <1>3, <1>4, <3>1, <3>2 DEF OneReady
      <3>4. \A i \in 1..Len(s2c) : s2c'[i] = s2c[i] \/ i > e BY <2>2, <3>2
      <3> QED BY <1>k, <3>3, <3>4
    <2> QED BY <2>3, <2>4
  <1> QED BY <1>5, <1>6, <1>7, <1>8, ServerEffect DEF ServerStep

\* Once it is over it is over.
LEMMA OverEnds ==
  ASSUME TypeOK, [Next]_vars, Over'
  PROVE  Status' = "over" /\ call' \in {call, call + 1} /\ Decided' = NoAnswer /\ Handed' = NoAnswer
  <1>1. call' \in {call, call + 1}
    <2>1. CASE ServerStep \/ UNCHANGED vars BY <2>1 DEF ServerStep, vars, clientVars
    <2>2. CASE ClientStep \/ Application
      BY <2>2 DEF ClientStep, Application, SendNext, FlushNext, SendDone, SendFails, Pump,
           Read, Drain, Poll, OnRowDescription, OnDataRow, OnCommandComplete, OnReadyForQuery,
           OnErrorResponse, OnNotification, OnOther, ReadFails, Receive, DrainMessage,
           DrainError, DrainNone, PollMessage, PollEnds, BeginPoll, Begin, DropWhileSending,
           DropWhileReading, clientVars
    <2> QED BY <2>1, <2>2 DEF Next
  <1> QED BY <1>1 DEF Status, Decided, Handed

\* Whatever calls, faults and dropped futures a session sees: a call that returns on a
\* connection that lasts returns the server's one decision about it (the calls of
\* client.rs implement Calls).
THEOREM CallsCorrect == Spec => KeepsPromise
  <1>1. TypeOK /\ TypeOK' /\ SyncInv /\ SyncInv' /\ CleanInv /\ HandInv /\ [Next]_vars
          => [Promise!Next]_(Promise!vars)
    <2> SUFFICES ASSUME TypeOK, TypeOK', SyncInv, SyncInv', CleanInv, HandInv, [Next]_vars
                 PROVE  [Promise!Next]_(Promise!vars)
      OBVIOUS
    <2>1. CASE Over' BY <2>1, OverEnds, Simulates
    <2>2. CASE ~Over'
      <3>1. ~Over BY <2>2, OverStays
      <3>2. CASE ClientStep \/ Application
        <4>1. Stutters \/ Asks \/ Hands \/ Forgets BY <2>2, <3>1, <3>2, ClientSimulates
        <4> QED BY <4>1, Simulates DEF Stutters, Asks, Hands, Forgets
      <3>3. CASE ServerStep
        <4>1. Stutters \/ Decides BY <2>2, <3>1, <3>3, ServerSimulates
        <4> QED BY <4>1, Simulates DEF Stutters, Decides
      <3>4. CASE UNCHANGED vars
        <4>1. UNCHANGED <<s2c, up, pc, op, call, result, clean>> BY <3>4 DEF vars, clientVars
        <4>2. UNCHANGED <<Status, call, Decided, Handed>>
          BY <4>1 DEF Status, Decided, Handed, Over, InCall, Pending, Ready, Decision, Given
        <4> QED BY <4>2, Simulates
      <3> QED BY <3>2, <3>3, <3>4 DEF Next
    <2> QED BY <2>1, <2>2
  <1> QED BY <1>1, SimulatesInit, TypeCorrect, SyncCorrect, CleanCorrect, HandCorrect, PTL
      DEF Spec, KeepsPromise, Promise!Spec
=============================================================================
