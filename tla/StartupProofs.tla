---------------------------- MODULE StartupProofs ----------------------------
(***************************************************************************)
(* Proofs about Startup, for every number of parameters and notices.        *)
(***************************************************************************)
EXTENDS Startup, TLAPS

-----------------------------------------------------------------------------
(* The inductive invariant *)

\* Before TLS is settled the stream is plain, and it is asked for only if the mode allows.
SslInv ==
  /\ pc \in {"tcp", "ssl", "tls"} => ~tls
  /\ pc \in {"ssl", "tls"} => cfg.ssl # "disable"
  /\ pc \in {"tcp", "ssl"} => answer = "none"
  /\ pc = "tls" => answer = "S"
  /\ SslModeKept

\* SCRAM-SHA-256 leads back to the loop only over a final message that was accepted.
ScramInv ==
  /\ pc \in {"tcp", "ssl", "tls", "startup"} => mechanism = "none"
  /\ pc \in {"loop", "connected"} =>
       (mechanism = "SCRAM-SHA-256" => auth = "done" /\ final \in {"match", "neither"})

\* The server's state while a message of the client is on its way.
Waits(kind) ==
  CASE kind = "SSLRequest" -> "ssl"
    [] kind = "Startup" -> "startup"
    [] kind \in {"Password", "WrongProof"} -> "verdict"
    [] kind = "SASLInitialResponse" -> "sasl first"
    [] kind = "SASLResponse" -> "sasl final"

\* Messages that make the client send something, or go on, and the state in which the
\* server waits for that.
Asks == {"S", "N", "CleartextPassword", "Md5Password", "GaussdbSha256", "Sasl", "SaslContinue",
         "ReadyForQuery"}

WaitsAfter(kind) ==
  CASE kind \in {"S", "N"} -> "startup"
    [] kind = "Sasl" -> "sasl first"
    [] kind = "SaslContinue" -> "sasl final"
    [] kind = "ReadyForQuery" -> "ready"
    [] OTHER -> "verdict"

\* Client and server take turns: with a message of the client on its way there are only
\* notices in the other direction, and a message that asks for one is last but for
\* notices, and first too, unless it is ReadyForQuery.
ClientTurn ==
  c2s # <<>> =>
    /\ Len(c2s) = 1 /\ srv = Waits(c2s[1])
    /\ \A i \in 1..Len(s2c) : s2c[i].kind = "NoticeResponse"

ServerTurn ==
  \A i \in 1..Len(s2c) : s2c[i].kind \in Asks =>
    /\ srv = WaitsAfter(s2c[i].kind)
    /\ s2c[i].kind \in {"S", "N"} => Len(s2c) = 1
    /\ \A j \in 1..Len(s2c) :
         j > i \/ (j < i /\ s2c[i].kind # "ReadyForQuery") => s2c[j].kind = "NoticeResponse"

\* Nothing is on its way before the connection, before the TLS answer, and before the
\* startup message.
EarlyTurn ==
  /\ pc = "tcp" => c2s = <<>> /\ s2c = <<>> /\ srv \in {"listen", "refuse", "unreachable"}
  /\ srv = "ssl" => s2c = <<>>
  /\ pc \in {"tls", "startup"} => c2s = <<>> /\ s2c = <<>> /\ srv = "startup"

TurnInv == ClientTurn /\ ServerTurn /\ EarlyTurn /\ HandsOverInSync

\* What the loop must not miss comes after the end of the authentication, which the last
\* arm of the GaussDB exchange is still to read.
HandOver == {"ParameterStatus", "BackendKeyData", "ReadyForQuery"}
Finals   == {"SaslFinal", "AuthenticationOk"}

AuthOver == up /\ srv \in {"params", "ready"}

InFinal == pc = "sasl final"

AuthInv ==
  InFinal =>
    /\ \A i \in 1..Len(s2c) :
         s2c[i].kind \in HandOver => \E j \in 1..(i - 1) : s2c[j].kind \in Finals
    /\ AuthOver => \E j \in 1..Len(s2c) : s2c[j].kind \in Finals

\* The parameters that were kept and those on their way are 1..sent in order, without a
\* gap, and complete while the server is there or its ReadyForQuery on its way.
IsParameter(i, n) == s2c[i].kind = "ParameterStatus" /\ s2c[i].body = n

IsKept == Len(params) <= sent /\ \A n \in 1..Len(params) : params[n] = n

Comes ==
  \A i \in 1..Len(s2c) : s2c[i].kind = "ParameterStatus" =>
    /\ s2c[i].body \in (Len(params) + 1)..sent
    /\ \A n \in (Len(params) + 1)..s2c[i].body : \E j \in 1..i : IsParameter(j, n)
    /\ \A j \in 1..Len(s2c) :
         (s2c[j].kind = "ParameterStatus" /\ j > i) => s2c[j].body > s2c[i].body

IsReported == up \/ \E i \in 1..Len(s2c) : s2c[i].kind = "ReadyForQuery"

IsComplete ==
  IsReported =>
    \A n \in (Len(params) + 1)..sent : \E j \in 1..Len(s2c) : IsParameter(j, n)

ParamsInv == IsKept /\ Comes /\ IsComplete

KeyInv ==
  \A i \in 1..Len(s2c) :
    /\ s2c[i].kind = "BackendKeyData" => s2c[i].body = 1
    /\ s2c[i].kind = "ReadyForQuery" => key = 1 \/ \E j \in 1..(i - 1) : s2c[j].kind = "BackendKeyData"

DataInv == (pc # "failed" => ParamsInv /\ KeyInv) /\ KeepsServerData /\ params \in Seq(Nat)

-----------------------------------------------------------------------------
(* The kinds of stream *)

\* The server's steps change nothing of the client's.
LEMMA ServerLeaves == ASSUME Server \/ Notice \/ Hang \/ Lose PROVE UNCHANGED <<given, clientVars>>
  <1>1. CASE AnswerSsl BY <1>1 DEF AnswerSsl, Tell
  <1>2. CASE AskForPassword BY <1>2 DEF AskForPassword, Tell
  <1>3. CASE Verdict BY <1>3 DEF Verdict, Reject, Tell
  <1>4. CASE SaslContinue BY <1>4 DEF SaslContinue, Reject, Tell
  <1>5. CASE SaslVerdict BY <1>5 DEF SaslVerdict, Reject, Tell
  <1>6. CASE SendParameter \/ FinishStartup BY <1>6 DEF SendParameter, FinishStartup, Tell
  <1>7. CASE Notice \/ Hang \/ Lose BY <1>7 DEF Notice, Hang, Lose
  <1> QED BY <1>1, <1>2, <1>3, <1>4, <1>5, <1>6, <1>7 DEF Server

\* No step changes the configuration, and each one before the loop keeps to the mode.
LEMMA SslNext == ASSUME SslInv, [Next]_vars PROVE SslInv'
  <1> USE DEF SslInv, SslModeKept, Verifies, given, saslVars, clientVars, serverVars
  <1>1. CASE TcpConnect BY <1>1 DEF TcpConnect, GoTo
  <1>2. CASE TcpFails BY <1>2 DEF TcpFails, Fail
  <1>3. CASE SslYes BY <1>3 DEF SslYes, SslByte, GoTo, Fail
  <1>4. CASE SslNo BY <1>4 DEF SslNo, SslByte, GoTo, Fail
  <1>5. CASE SslOther BY <1>5 DEF SslOther, SslByte, Fail
  <1>6. CASE TlsHandshake BY <1>6 DEF TlsHandshake, GoTo, Fail
  <1>7. CASE SendStartup BY <1>7 DEF SendStartup, GoTo
  <1>8. CASE LoopPassword \/ LoopParameter \/ LoopKeyData \/ LoopOther
    <2>1. UNCHANGED <<cfg, pc, tls, answer>>
      BY <1>8 DEF LoopPassword, LoopParameter, LoopKeyData, LoopOther, Receive
    <2> QED BY <2>1
  <1>9. CASE LoopReady BY <1>9 DEF LoopReady, Receive, GoTo
  <1>10. CASE LoopBadChallenge \/ LoopError
    <2>1. pc' = "failed" BY <1>10 DEF LoopBadChallenge, LoopError, Fail
    <2> QED BY <2>1
  <1>11. CASE LoopSasl BY <1>11 DEF LoopSasl, Receive, GoTo, Fail
  <1>12. CASE SaslFirst BY <1>12 DEF SaslFirst, Receive, GoTo, Fail
  <1>13. CASE SaslFinal \/ SaslFinalOther
    BY <1>13 DEF SaslFinal, SaslFinalOther, Receive, GoTo, Fail
  <1>14. CASE StreamEnds \/ SendFails BY <1>14 DEF StreamEnds, SendFails, Gone, GoTo, Fail
  <1>15. CASE Server \/ Notice \/ Hang \/ Lose
    <2>1. UNCHANGED <<cfg, pc, tls, answer>>
      BY <1>15, ServerLeaves
    <2> QED BY <2>1
  <1>16. CASE UNCHANGED vars BY <1>16 DEF vars
  <1> QED BY <1>1, <1>2, <1>3, <1>4, <1>5, <1>6, <1>7, <1>8, <1>11, <1>12, <1>13, <1>14, <1>15, <1>16, <1>9,
           <1>10
        DEF Next, Client

\* connect goes on encrypted exactly when the server answered S: always with require, never
\* with disable, and past a verified certificate with verify-ca and verify-full. It says
\* nothing of prefer and the verify modes at a server that answered N: they go on in
\* plaintext (connection.rs:57-63, 144-227).
THEOREM SslModeCorrect == Spec => []SslModeKept
  <1>1. Init => SslInv BY DEF Init, SslInv, SslModeKept
  <1> QED BY <1>1, SslNext, PTL DEF Spec, SslInv

-----------------------------------------------------------------------------
(* What is on its way *)

Kinds == MessageKinds \cup {"S", "N", "E"}
Says  == {"SSLRequest", "Startup", "Password", "WrongProof", "SASLInitialResponse", "SASLResponse"}

SaslFinals == {"match", "mismatch", "e=", "neither"}

Messages ==
  [kind : Kinds \ {"SaslFinal"}, body : Nat \cup {Decode(r) : r \in Requests}]
    \cup [kind : {"SaslFinal"}, body : SaslFinals]

WireType ==
  /\ s2c \in Seq(Messages) /\ c2s \in Seq(Says)
  /\ challenge \in Requests /\ sent \in Nat

AuthKinds == {"AuthenticationOk", "CleartextPassword", "Md5Password", "GaussdbSha256", "Sasl", "unsupported"}

LEMMA DecodeKind == ASSUME NEW r PROVE Decode(r).kind \in AuthKinds
  BY DEF Decode, AuthKinds

\* The rest, a part and a longer form of a sequence.
LEMMA TailFacts ==
  ASSUME NEW S, NEW q \in Seq(S), q # <<>>
  PROVE  /\ Tail(q) \in Seq(S) /\ Len(Tail(q)) = Len(q) - 1 /\ 1 \in 1..Len(q)
         /\ \A i \in 1..Len(Tail(q)) : Tail(q)[i] = q[i + 1] /\ i + 1 \in 1..Len(q)
         /\ \A i \in 1..Len(q) : i # 1 => q[i] = Tail(q)[i - 1] /\ i - 1 \in 1..Len(Tail(q))
  OBVIOUS

LEMMA PartFacts ==
  ASSUME NEW S, NEW q \in Seq(S), NEW n \in 0..Len(q)
  PROVE  /\ SubSeq(q, 1, n) \in Seq(S) /\ Len(SubSeq(q, 1, n)) = n
         /\ \A i \in 1..n : SubSeq(q, 1, n)[i] = q[i] /\ i \in 1..Len(q)
  OBVIOUS

LEMMA LongerFacts ==
  ASSUME NEW S, NEW q \in Seq(S), NEW e \in S, NEW f \in S
  PROVE  /\ Append(q, e) \in Seq(S) /\ q \o <<e>> = Append(q, e)
         /\ q \o <<e, f>> = Append(Append(q, e), f)
         /\ Len(Append(q, e)) = Len(q) + 1 /\ Append(q, e)[Len(q) + 1] = e
         /\ \A i \in 1..Len(q) : Append(q, e)[i] = q[i]
  OBVIOUS

\* A step of the client, and one of the server, keep the messages well formed.
LEMMA ClientWire ==
  ASSUME WireType, UNCHANGED <<challenge, sent>>, NEW k \in Says,
         s2c' = s2c \/ (s2c # <<>> /\ s2c' = Tail(s2c)), c2s' = c2s \/ c2s' = Append(c2s, k)
  PROVE  WireType'
  <1>1. s2c' \in Seq(Messages)
    <2>1. CASE s2c' = s2c BY <2>1 DEF WireType
    <2>2. CASE s2c # <<>> /\ s2c' = Tail(s2c) BY <2>2, TailFacts DEF WireType
    <2> QED BY <2>1, <2>2
  <1>2. c2s' \in Seq(Says)
    <2>1. CASE c2s' = c2s BY <2>1 DEF WireType
    <2>2. CASE c2s' = Append(c2s, k) BY <2>2, LongerFacts DEF WireType
    <2> QED BY <2>1, <2>2
  <1>3. challenge' \in Requests /\ sent' \in Nat BY DEF WireType
  <1> QED BY <1>1, <1>2, <1>3 DEF WireType

LEMMA ServerWire ==
  ASSUME WireType, UNCHANGED challenge, sent' \in Nat,
         NEW m \in Messages, NEW n \in Messages, NEW z \in 0..Len(s2c),
         c2s' = c2s \/ (c2s # <<>> /\ c2s' = Tail(c2s)),
         s2c' \in {s2c, Append(s2c, m), s2c \o <<m>>, s2c \o <<m, n>>, SubSeq(s2c, 1, z)}
  PROVE  WireType'
  <1>1. s2c' \in Seq(Messages)
    <2>1. s2c \in Seq(Messages) BY DEF WireType
    <2>2. Append(s2c, m) \in Seq(Messages) /\ s2c \o <<m>> = Append(s2c, m) BY <2>1, LongerFacts
    <2>3. s2c \o <<m, n>> \in Seq(Messages) BY <2>1, <2>2, LongerFacts
    <2>4. SubSeq(s2c, 1, z) \in Seq(Messages) BY <2>1, PartFacts
    <2> QED BY <2>1, <2>2, <2>3, <2>4
  <1>2. c2s' \in Seq(Says)
    <2>1. CASE c2s' = c2s BY <2>1 DEF WireType
    <2>2. CASE c2s # <<>> /\ c2s' = Tail(c2s) BY <2>2, TailFacts DEF WireType
    <2> QED BY <2>1, <2>2
  <1>3. challenge' \in Requests BY DEF WireType
  <1> QED BY <1>1, <1>2, <1>3 DEF WireType

\* Messages as the server makes them.
LEMMA MadeMessages ==
  /\ \A k \in Kinds \ {"SaslFinal"} : M(k) \in Messages
  /\ \A k \in Kinds \ {"SaslFinal"}, n \in Nat : [kind |-> k, body |-> n] \in Messages
  /\ \A body \in SaslFinals : [kind |-> "SaslFinal", body |-> body] \in Messages
  /\ challenge \in Requests =>
       [kind |-> Decode(challenge).kind, body |-> Decode(challenge)] \in Messages
  <1>1. \A k \in Kinds \ {"SaslFinal"}, n \in Nat : [kind |-> k, body |-> n] \in Messages
    BY DEF Messages
  <1>2. \A k \in Kinds \ {"SaslFinal"} : M(k) \in Messages BY <1>1 DEF M
  <1>4. \A body \in SaslFinals : [kind |-> "SaslFinal", body |-> body] \in Messages
    BY DEF Messages
  <1>3. ASSUME challenge \in Requests
        PROVE  [kind |-> Decode(challenge).kind, body |-> Decode(challenge)] \in Messages
    <2>1. Decode(challenge).kind \in Kinds \ {"SaslFinal"}
      BY DecodeKind DEF AuthKinds, Kinds, MessageKinds
    <2>2. Decode(challenge) \in Nat \cup {Decode(r) : r \in Requests} BY <1>3
    <2> QED BY <2>1, <2>2 DEF Messages
  <1> QED BY <1>1, <1>2, <1>3, <1>4

\* Every step keeps the messages well formed.
LEMMA WireNext == ASSUME WireType, [Next]_vars PROVE WireType'
  <1>1. CASE Client
    <2> USE DEF given, serverVars, clientVars, Says
    <2>1. CASE TcpConnect BY <2>1, ClientWire DEF TcpConnect, Say
    <2>2. CASE TcpFails \/ TlsHandshake \/ SendFails
      BY <2>2, ClientWire DEF TcpFails, TlsHandshake, SendFails, Fail
    <2>3. CASE SslYes \/ SslNo \/ SslOther BY <2>3, ClientWire DEF SslYes, SslNo, SslOther, SslByte, Fail
    <2>4. CASE SendStartup BY <2>4, ClientWire DEF SendStartup, Say
    <2>5. CASE LoopPassword
      <3>1. c2s' \in {Append(c2s, "WrongProof"), Append(c2s, "Password")} BY <2>5 DEF LoopPassword, Say
      <3> QED BY <2>5, <3>1, ClientWire DEF LoopPassword, Receive
    <2>6. CASE LoopBadChallenge \/ LoopParameter \/ LoopKeyData \/ LoopReady \/ LoopOther
      BY <2>6, ClientWire DEF LoopBadChallenge, LoopParameter, LoopKeyData, LoopReady, LoopOther, Receive, Fail
    <2>7. CASE LoopError BY <2>7, ClientWire DEF LoopError, Receive, Fail
    <2>8. CASE LoopSasl BY <2>8, ClientWire DEF LoopSasl, Receive, Fail, Say
    <2>9. CASE SaslFirst BY <2>9, ClientWire DEF SaslFirst, Receive, Fail, Say
    <2>10. CASE SaslFinal \/ SaslFinalOther BY <2>10, ClientWire DEF SaslFinal, SaslFinalOther, Receive, Fail
    <2>11. CASE StreamEnds BY <2>11, ClientWire DEF StreamEnds, Gone, Fail
    <2> QED BY <1>1, <2>1, <2>2, <2>3, <2>4, <2>5, <2>6, <2>7, <2>8, <2>9, <2>10, <2>11 DEF Client
  <1>2. CASE Server \/ Notice \/ Hang \/ Lose
    <2> USE DEF given, Tell, Hears, Reject, Kinds, MessageKinds
    <2>1. M("E") \in Messages /\ 0 \in 0..Len(s2c) /\ sent \in Nat /\ sent + 1 \in Nat
      BY MadeMessages DEF WireType
    <2>2. CASE AnswerSsl
      <3>1. PICK b \in {"S", "N", "E"} : s2c' = s2c \o <<M(b)>> BY <2>2 DEF AnswerSsl
      <3>2. M(b) \in Messages BY MadeMessages
      <3> QED BY <2>1, <2>2, <3>1, <3>2, ServerWire DEF AnswerSsl
    <2>3. CASE AskForPassword
      <3>1. PICK m \in Messages : s2c' = s2c \o <<m>> BY <2>3, MadeMessages DEF AskForPassword, WireType
      <3> QED BY <2>1, <2>3, <3>1, ServerWire DEF AskForPassword
    <2>4. CASE Verdict
      <3>1. PICK m \in Messages : s2c' = s2c \o <<m>> BY <2>4, MadeMessages DEF Verdict
      <3> QED BY <2>1, <2>4, <3>1, ServerWire DEF Verdict
    <2>5. CASE SaslContinue
      <3>1. PICK m \in Messages : s2c' = s2c \o <<m>> BY <2>5, MadeMessages DEF SaslContinue, Bodies
      <3> QED BY <2>1, <2>5, <3>1, ServerWire DEF SaslContinue
    <2>6. CASE SaslVerdict
      <3>1. PICK m \in Messages, n \in Messages : s2c' = s2c \o <<m>> \/ s2c' = s2c \o <<m, n>>
        BY <2>6, MadeMessages DEF SaslVerdict, FinalBodies, SaslFinals
      <3> QED BY <2>1, <2>6, <3>1, ServerWire DEF SaslVerdict
    <2>7. CASE SendParameter
      <3>1. PICK m \in Messages : s2c' = Append(s2c, m) BY <2>1, <2>7, MadeMessages DEF SendParameter
      <3> QED BY <2>1, <2>7, <3>1, ServerWire DEF SendParameter
    <2>8. CASE FinishStartup
      <3>1. PICK m \in Messages, n \in Messages : s2c' = s2c \o <<m, n>>
        BY <2>8, MadeMessages DEF FinishStartup
      <3> QED BY <2>1, <2>8, <3>1, ServerWire DEF FinishStartup
    <2>9. CASE Notice
      <3>1. PICK m \in Messages : s2c' = Append(s2c, m) BY <2>9, MadeMessages DEF Notice
      <3> QED BY <2>1, <2>9, <3>1, ServerWire DEF Notice
    <2>10. CASE Hang BY <2>1, <2>10, ServerWire DEF Hang
    <2>11. CASE Lose
      <3>1. PICK z \in 0..Len(s2c) : s2c' = SubSeq(s2c, 1, z) BY <2>11 DEF Lose
      <3> QED BY <2>1, <2>11, <3>1, ServerWire DEF Lose
    <2> QED BY <1>2, <2>2, <2>3, <2>4, <2>5, <2>6, <2>7, <2>8, <2>9, <2>10, <2>11 DEF Server
  <1>3. CASE UNCHANGED vars BY <1>3 DEF vars, given, clientVars, serverVars, WireType
  <1> QED BY <1>1, <1>2, <1>3 DEF Next

\* A final message that process_server_final accepts.
LEMMA FinalBody ==
  ASSUME WireType, s2c # <<>>, Kind \in {"SaslFinal"}, s2c[1].body \notin {"mismatch", "e="}
  PROVE  s2c[1].body \in {"match", "neither"}
  <1>1. s2c[1] \in Messages BY DEF WireType
  <1> QED BY <1>1 DEF Messages, SaslFinals, Kind

\* Only the answers of the server move the SCRAM exchange on.
LEMMA ScramNext == ASSUME WireType, ScramInv, [Next]_vars PROVE ScramInv'
  <1> USE DEF ScramInv, given, saslVars, clientVars, serverVars
  <1>1. CASE TcpConnect \/ TcpFails \/ TlsHandshake \/ SendStartup
    BY <1>1 DEF TcpConnect, TcpFails, TlsHandshake, SendStartup, GoTo, Fail
  <1>2. CASE SslYes \/ SslNo \/ SslOther BY <1>2 DEF SslYes, SslNo, SslOther, SslByte, GoTo, Fail
  <1>3. CASE LoopPassword \/ LoopBadChallenge \/ LoopParameter \/ LoopKeyData \/ LoopReady
               \/ LoopError \/ LoopOther
    BY <1>3 DEF LoopPassword, LoopBadChallenge, LoopParameter, LoopKeyData, LoopReady,
                LoopError, LoopOther, Receive, GoTo, Fail
  <1>4. CASE LoopSasl BY <1>4 DEF LoopSasl, Receive, GoTo, Fail
  <1>5. CASE SaslFirst BY <1>5 DEF SaslFirst, Receive, GoTo, Fail
  <1>6. CASE SaslFinal \/ SaslFinalOther
    BY <1>6, FinalBody DEF SaslFinal, SaslFinalOther, Receive, GoTo, Fail
  <1>7. CASE StreamEnds \/ SendFails BY <1>7 DEF StreamEnds, SendFails, Gone, GoTo, Fail
  <1>8. CASE Server \/ Notice \/ Hang \/ Lose BY <1>8, ServerLeaves
  <1>9. CASE UNCHANGED vars BY <1>9 DEF vars
  <1> QED BY <1>1, <1>2, <1>3, <1>4, <1>5, <1>6, <1>7, <1>8, <1>9 DEF Next, Client

\* A SCRAM-SHA-256 exchange gives a Connection only over a final message that
\* process_server_final accepted: its signature is the expected one, or it has neither a
\* signature nor an error (connection.rs:258-292, auth.rs:193-217).
THEOREM ScramCorrect == Spec => []ScramIsFinished
  <1>1. Init => WireType /\ ScramInv BY DEF Init, WireType, ScramInv
  <1>2. ScramInv => ScramIsFinished BY DEF ScramInv, ScramIsFinished
  <1> QED BY <1>1, <1>2, WireNext, ScramNext, PTL DEF Spec

-----------------------------------------------------------------------------
(* The turns of client and server *)

\* A message that was read leaves the turns as they were.
LEMMA Consumed ==
  ASSUME WireType, TurnInv, s2c # <<>>, s2c' = Tail(s2c), UNCHANGED <<srv, c2s>>
  PROVE  ClientTurn' /\ ServerTurn' /\ (srv' = "ssl" => s2c' = <<>>)
  <1>1. /\ s2c \in Seq(Messages) /\ Len(s2c') = Len(s2c) - 1
        /\ \A i \in 1..Len(s2c') : s2c'[i] = s2c[i + 1] /\ i + 1 \in 1..Len(s2c)
    BY TailFacts DEF WireType
  <1>2. Len(s2c) \in Nat BY <1>1
  <1>3. ClientTurn' BY <1>1 DEF TurnInv, ClientTurn
  <1>4. ServerTurn' BY <1>1, <1>2 DEF TurnInv, ServerTurn
  <1>5. srv' # "ssl" BY DEF TurnInv, EarlyTurn
  <1> QED BY <1>3, <1>4, <1>5

\* A message that asks for something, and its answer, end a turn.
LEMMA Answered ==
  ASSUME WireType, TurnInv, s2c # <<>>, s2c' = Tail(s2c), UNCHANGED srv,
         s2c[1].kind \in Asks, s2c[1].kind # "ReadyForQuery",
         NEW k \in Says, c2s' = Append(c2s, k), Waits(k) = WaitsAfter(s2c[1].kind)
  PROVE  ClientTurn' /\ ServerTurn' /\ (srv' = "ssl" => s2c' = <<>>)
  <1>1. /\ s2c \in Seq(Messages) /\ Len(s2c') = Len(s2c) - 1 /\ 1 \in 1..Len(s2c)
        /\ \A i \in 1..Len(s2c') : s2c'[i] = s2c[i + 1] /\ i + 1 \in 1..Len(s2c)
    BY TailFacts DEF WireType
  <1>2. Len(s2c) \in Nat BY <1>1
  <1>3. /\ srv = WaitsAfter(s2c[1].kind)
        /\ \A j \in 1..Len(s2c) : j > 1 => s2c[j].kind = "NoticeResponse"
    BY <1>1 DEF TurnInv, ServerTurn
  <1>4. c2s = <<>> BY <1>1 DEF TurnInv, ClientTurn, Asks
  <1>5. Len(c2s') = 1 /\ c2s'[1] = k BY <1>4
  <1>6. \A i \in 1..Len(s2c') : s2c'[i].kind = "NoticeResponse" BY <1>1, <1>2, <1>3
  <1>7. ClientTurn' BY <1>3, <1>5, <1>6 DEF ClientTurn
  <1>8. ServerTurn' BY <1>6 DEF ServerTurn, Asks
  <1>9. srv' # "ssl" BY DEF TurnInv, EarlyTurn
  <1> QED BY <1>7, <1>8, <1>9

\* With the same messages on their way and the same server, only pc matters.
LEMMA Unmoved ==
  ASSUME TurnInv, UNCHANGED <<c2s, s2c, srv>>
  PROVE  ClientTurn' /\ ServerTurn' /\ (srv' = "ssl" => s2c' = <<>>)
  BY DEF TurnInv, ClientTurn, ServerTurn, EarlyTurn

\* After these, nothing depends on pc.
LEMMA Settled ==
  ASSUME ClientTurn', ServerTurn', srv' = "ssl" => s2c' = <<>>,
         pc' \in {"ssl", "loop", "sasl first", "sasl final", "failed"}
  PROVE  TurnInv'
  BY DEF TurnInv, EarlyTurn, HandsOverInSync

\* The first words of the client, which nothing else is on its way with.
LEMMA Spoken ==
  ASSUME NEW k, c2s' = <<k>>, s2c' = <<>>, srv' = Waits(k), pc' \in {"ssl", "loop"}
  PROVE  TurnInv'
  <1>1. Len(c2s') = 1 /\ c2s'[1] = k /\ Len(s2c') = 0 OBVIOUS
  <1>2. ClientTurn' BY <1>1 DEF ClientTurn
  <1>3. ServerTurn' BY <1>1 DEF ServerTurn
  <1> QED BY <1>2, <1>3, Settled

\* Every step of the client keeps the turns.
LEMMA ClientTurns == ASSUME WireType, TurnInv, Client PROVE TurnInv'
  <1> USE DEF given, serverVars, clientVars
  <1>1. CASE TcpConnect
    <2>1. c2s = <<>> /\ s2c = <<>> BY <1>1 DEF TcpConnect, TurnInv, EarlyTurn
    <2>2. CASE cfg.ssl = "disable"
      <3>1. UNCHANGED <<c2s, s2c>> /\ srv' = "startup" /\ pc' = "startup"
        BY <1>1, <2>2 DEF TcpConnect, GoTo
      <3> QED BY <2>1, <3>1 DEF TurnInv, ClientTurn, ServerTurn, EarlyTurn, HandsOverInSync
    <2>3. CASE cfg.ssl # "disable"
      <3>1. c2s' = <<"SSLRequest">> /\ s2c' = <<>> /\ srv' = "ssl" /\ pc' = "ssl"
        BY <1>1, <2>1, <2>3 DEF TcpConnect, GoTo, Say
      <3>2. Waits("SSLRequest") = "ssl" BY DEF Waits
      <3> QED BY <3>1, <3>2, Spoken
    <2> QED BY <2>2, <2>3
  <1>2. CASE TcpFails \/ SendFails BY <1>2, Unmoved, Settled DEF TcpFails, SendFails, Fail
  <1>3. CASE TlsHandshake
    <2>1. UNCHANGED <<c2s, s2c, srv>> /\ pc = "tls" /\ pc' \in {"startup", "failed"}
      BY <1>3 DEF TlsHandshake, GoTo, Fail
    <2> QED BY <2>1, Unmoved DEF TurnInv, EarlyTurn, HandsOverInSync
  <1>4. CASE SslYes \/ SslNo
    <2>1. /\ s2c # <<>> /\ s2c' = Tail(s2c) /\ UNCHANGED <<srv, c2s>>
          /\ s2c[1].kind \in {"S", "N"} /\ pc' \in {"tls", "startup", "failed"}
      BY <1>4 DEF SslYes, SslNo, SslByte, GoTo, Fail
    <2>2. 1 \in 1..Len(s2c) /\ Len(s2c') = Len(s2c) - 1 /\ s2c' \in Seq(Messages)
      BY <2>1, TailFacts DEF WireType
    <2>3. Len(s2c) = 1 /\ srv = "startup" BY <2>1, <2>2 DEF TurnInv, ServerTurn, Asks, WaitsAfter
    <2>4. c2s = <<>> BY <2>1, <2>2 DEF TurnInv, ClientTurn
    <2>5. s2c' = <<>> BY <2>2, <2>3
    <2>6. ClientTurn' /\ ServerTurn' BY <2>1, Consumed
    <2> QED BY <2>1, <2>3, <2>4, <2>5, <2>6 DEF TurnInv, EarlyTurn, HandsOverInSync
  <1>5. CASE SendStartup
    <2>1. c2s = <<>> /\ s2c = <<>> /\ srv = "startup" BY <1>5 DEF SendStartup, TurnInv, EarlyTurn
    <2>2. c2s' = <<"Startup">> /\ s2c' = <<>> /\ srv' = "startup" /\ pc' = "loop"
      BY <1>5, <2>1 DEF SendStartup, GoTo, Say
    <2>3. Waits("Startup") = "startup" BY DEF Waits
    <2> QED BY <2>2, <2>3, Spoken
  <1>6. CASE LoopPassword
    <2>1. /\ s2c # <<>> /\ s2c' = Tail(s2c) /\ UNCHANGED srv /\ pc' = "loop"
          /\ s2c[1].kind \in {"CleartextPassword", "Md5Password", "GaussdbSha256"}
      BY <1>6 DEF LoopPassword, Receive, Kind
    <2>2. PICK k \in {"Password", "WrongProof"} : c2s' = Append(c2s, k) BY <1>6 DEF LoopPassword, Say
    <2>3. Waits(k) = WaitsAfter(s2c[1].kind) BY <2>1 DEF Waits, WaitsAfter
    <2> QED BY <2>1, <2>2, <2>3, Answered, Settled DEF Asks, Says
  <1>7. CASE LoopBadChallenge \/ LoopParameter \/ LoopKeyData \/ LoopOther \/ SslOther
    <2>1. s2c # <<>> /\ s2c' = Tail(s2c) /\ UNCHANGED <<srv, c2s>> /\ pc' \in {"loop", "failed"}
      BY <1>7 DEF LoopBadChallenge, LoopParameter, LoopKeyData, LoopOther, SslOther, SslByte,
                  Receive, Fail
    <2> QED BY <2>1, Consumed, Settled
  <1>8. CASE LoopError
    <2>1. s2c # <<>> /\ s2c' = Tail(s2c) /\ UNCHANGED <<srv, c2s>> /\ pc' = "failed"
      BY <1>8 DEF LoopError, Receive, Fail
    <2> QED BY <2>1, Consumed, Settled
  <1>9. CASE LoopReady
    <2>1. /\ s2c # <<>> /\ s2c' = Tail(s2c) /\ UNCHANGED <<srv, c2s>> /\ pc' = "connected"
          /\ s2c[1].kind = "ReadyForQuery"
      BY <1>9 DEF LoopReady, Receive, GoTo, Kind
    <2>2. /\ 1 \in 1..Len(s2c) /\ Len(s2c') = Len(s2c) - 1 /\ Len(s2c) \in Nat
          /\ \A i \in 1..Len(s2c') : s2c'[i] = s2c[i + 1] /\ i + 1 \in 1..Len(s2c)
      BY <2>1, TailFacts DEF WireType
    <2>3. /\ srv = "ready"
          /\ \A j \in 1..Len(s2c) : j > 1 => s2c[j].kind = "NoticeResponse"
      BY <2>1, <2>2 DEF TurnInv, ServerTurn, Asks, WaitsAfter
    <2>4. c2s = <<>> BY <2>1, <2>2 DEF TurnInv, ClientTurn
    <2>5. \A i \in 1..Len(s2c') : s2c'[i].kind = "NoticeResponse" BY <2>2, <2>3
    <2>6. ClientTurn' /\ ServerTurn' BY <2>1, Consumed
    <2> QED BY <2>1, <2>3, <2>4, <2>5, <2>6 DEF TurnInv, EarlyTurn, HandsOverInSync
  <1>10. CASE LoopSasl
    <2>1. s2c # <<>> /\ s2c' = Tail(s2c) /\ UNCHANGED srv /\ s2c[1].kind = "Sasl"
      BY <1>10 DEF LoopSasl, Receive, Kind
    <2>2. CASE pc' = "failed" /\ UNCHANGED c2s BY <2>1, <2>2, Consumed, Settled
    <2>3. CASE pc' = "sasl first" /\ c2s' = Append(c2s, "SASLInitialResponse")
      BY <2>1, <2>3, Answered, Settled DEF Asks, Says, Waits, WaitsAfter
    <2> QED BY <1>10, <2>2, <2>3 DEF LoopSasl, Fail, GoTo, Say
  <1>11. CASE SaslFirst
    <2>1. s2c # <<>> /\ s2c' = Tail(s2c) /\ UNCHANGED srv BY <1>11 DEF SaslFirst, Receive
    <2>2. CASE pc' = "failed" /\ UNCHANGED c2s BY <2>1, <2>2, Consumed, Settled
    <2>3. CASE s2c[1].kind = "SaslContinue" /\ pc' = "sasl final" /\ c2s' = Append(c2s, "SASLResponse")
      BY <2>1, <2>3, Answered, Settled DEF Asks, Says, Waits, WaitsAfter
    <2> QED BY <1>11, <2>2, <2>3 DEF SaslFirst, Receive, Kind, Fail, GoTo, Say
  <1>12. CASE SaslFinal \/ SaslFinalOther
    <2>1. s2c # <<>> /\ s2c' = Tail(s2c) /\ UNCHANGED <<srv, c2s>> /\ pc' \in {"loop", "failed"}
      BY <1>12 DEF SaslFinal, SaslFinalOther, Receive, GoTo, Fail
    <2> QED BY <2>1, Consumed, Settled
  <1>13. CASE StreamEnds
    <2>1. UNCHANGED <<c2s, s2c, srv>> /\ pc' \in {"loop", "failed"}
      BY <1>13 DEF StreamEnds, Gone, GoTo, Fail
    <2> QED BY <2>1, Unmoved, Settled
  <1> QED BY <1>1, <1>2, <1>3, <1>4, <1>5, <1>6, <1>7, <1>8, <1>9, <1>10, <1>11, <1>12, <1>13 DEF Client

\* The server answers what it heard: only its last message may ask for something.
LEMMA Heard ==
  ASSUME WireType, TurnInv, c2s # <<>>, c2s' = Tail(c2s), UNCHANGED pc, srv' # "ssl",
         Len(s2c') \in Nat,
         \A i \in 1..Len(s2c') : s2c'[i].kind \in Asks =>
           /\ i = Len(s2c') /\ srv' = WaitsAfter(s2c'[i].kind)
           /\ s2c'[i].kind \in {"S", "N"} => i = 1
           /\ \A j \in 1..(i - 1) : s2c'[j].kind = "NoticeResponse"
  PROVE  TurnInv'
  <1>1. c2s \in Seq(Says) /\ Len(c2s) = 1 BY DEF WireType, TurnInv, ClientTurn
  <1>2. c2s' = <<>> BY <1>1
  <1>3. ClientTurn' BY <1>2 DEF ClientTurn
  <1>4. ServerTurn'
    <2> SUFFICES ASSUME NEW i \in 1..Len(s2c'), s2c'[i].kind \in Asks
                 PROVE  /\ srv' = WaitsAfter(s2c'[i].kind)
                        /\ s2c'[i].kind \in {"S", "N"} => Len(s2c') = 1
                        /\ \A j \in 1..Len(s2c') : j > i \/ j < i => s2c'[j].kind = "NoticeResponse"
      BY DEF ServerTurn
    <2>1. i = Len(s2c') /\ srv' = WaitsAfter(s2c'[i].kind) OBVIOUS
    <2>2. s2c'[i].kind \in {"S", "N"} => Len(s2c') = 1 BY <2>1
    <2>3. \A j \in 1..(i - 1) : s2c'[j].kind = "NoticeResponse" OBVIOUS
    <2>4. \A j \in 1..Len(s2c') : j > i \/ j < i => j \in 1..(i - 1) BY <2>1
    <2> QED BY <2>1, <2>2, <2>3, <2>4
  <1>5. pc' \notin {"tcp", "tls", "startup", "connected"} BY DEF TurnInv, EarlyTurn, HandsOverInSync
  <1> QED BY <1>3, <1>4, <1>5 DEF TurnInv, EarlyTurn, HandsOverInSync

\* One message, or two that ask for nothing.
LEMMA HeardOne ==
  ASSUME WireType, TurnInv, c2s # <<>>, c2s' = Tail(c2s), UNCHANGED pc, srv' # "ssl",
         NEW m \in Messages, s2c' = s2c \o <<m>>,
         m.kind \in Asks => srv' = WaitsAfter(m.kind), m.kind \in {"S", "N"} => s2c = <<>>
  PROVE  TurnInv'
  <1>1. /\ Len(s2c) \in Nat /\ Len(s2c') = Len(s2c) + 1 /\ s2c'[Len(s2c) + 1] = m
        /\ \A i \in 1..Len(s2c) : s2c'[i] = s2c[i]
    BY LongerFacts DEF WireType
  <1>2. \A i \in 1..Len(s2c) : s2c'[i].kind = "NoticeResponse" BY <1>1 DEF TurnInv, ClientTurn
  <1>3. "NoticeResponse" \notin Asks BY DEF Asks
  <1>4. s2c = <<>> => Len(s2c) = 0 OBVIOUS
  <1>5. \A i \in 1..Len(s2c') : s2c'[i].kind \in Asks => i = Len(s2c') /\ s2c'[i] = m
    BY <1>1, <1>2, <1>3
  <1>6. \A i \in 1..Len(s2c') : s2c'[i].kind \in Asks =>
          \A j \in 1..(i - 1) : s2c'[j].kind = "NoticeResponse"
    BY <1>1, <1>2, <1>5
  <1>7. \A i \in 1..Len(s2c') : s2c'[i].kind \in {"S", "N"} => i = 1
    <2>1. ASSUME NEW i \in 1..Len(s2c'), s2c'[i].kind \in {"S", "N"} PROVE i = 1
      <3>1. s2c'[i].kind \in Asks BY <2>1 DEF Asks
      <3>2. i = Len(s2c') /\ s2c'[i] = m BY <1>5, <3>1
      <3>3. m.kind \in Asks /\ m.kind \in {"S", "N"} BY <2>1, <3>1, <3>2
      <3>4. s2c = <<>> BY <3>3
      <3> QED BY <1>1, <1>4, <3>2, <3>4
    <2> QED BY <2>1
  <1>8. \A i \in 1..Len(s2c') : s2c'[i].kind \in Asks => srv' = WaitsAfter(s2c'[i].kind)
    BY <1>5
  <1>9. Len(s2c') \in Nat BY <1>1
  <1> QED BY <1>5, <1>6, <1>7, <1>8, <1>9, Heard

LEMMA HeardTwo ==
  ASSUME WireType, TurnInv, c2s # <<>>, c2s' = Tail(c2s), UNCHANGED pc, srv' # "ssl",
         NEW m \in Messages, NEW n \in Messages, s2c' = s2c \o <<m, n>>,
         m.kind \notin Asks, n.kind \notin Asks
  PROVE  TurnInv'
  <1>1. /\ Len(s2c) \in Nat /\ Len(s2c') = Len(s2c) + 2
        /\ s2c'[Len(s2c) + 1] = m /\ s2c'[Len(s2c) + 2] = n
        /\ \A i \in 1..Len(s2c) : s2c'[i] = s2c[i]
    BY DEF WireType
  <1>2. \A i \in 1..Len(s2c) : s2c'[i].kind = "NoticeResponse" BY <1>1 DEF TurnInv, ClientTurn
  <1>3. "NoticeResponse" \notin Asks BY DEF Asks
  <1>4. \A i \in 1..Len(s2c') : s2c'[i].kind \notin Asks BY <1>1, <1>2, <1>3
  <1> QED BY <1>1, <1>4, Heard

\* The server goes on by itself: what it sends is not a question, or ends the startup.
LEMMA ServerTurns == ASSUME WireType, TurnInv, Server PROVE TurnInv'
  <1> USE DEF given, clientVars, Hears, Tell, Reject
  <1>1. CASE AnswerSsl
    <2>1. PICK b \in {"S", "N", "E"} : s2c' = s2c \o <<M(b)>> BY <1>1 DEF AnswerSsl
    <2>2. M(b) \in Messages /\ M(b).kind = b BY MadeMessages DEF M, Kinds
    <2>3. c2s # <<>> /\ c2s' = Tail(c2s) /\ UNCHANGED pc /\ srv' = "startup" BY <1>1 DEF AnswerSsl
    <2>4. s2c = <<>> BY <1>1 DEF AnswerSsl, TurnInv, EarlyTurn
    <2>5. b \in Asks => srv' = WaitsAfter(b) BY <2>3 DEF Asks, WaitsAfter
    <2> QED BY <2>1, <2>2, <2>3, <2>4, <2>5, HeardOne
  <1>2. CASE AskForPassword
    <2> DEFINE m == [kind |-> Decode(challenge).kind, body |-> Decode(challenge)]
    <2>1. m \in Messages /\ m.kind \in AuthKinds BY MadeMessages, DecodeKind DEF WireType
    <2>2. c2s # <<>> /\ c2s' = Tail(c2s) /\ UNCHANGED pc /\ s2c' = s2c \o <<m>>
      BY <1>2 DEF AskForPassword
    <2>3. srv' = CASE m.kind = "AuthenticationOk" -> "params"
                   [] m.kind = "Sasl" -> "sasl first"
                   [] OTHER -> "verdict"
      BY <1>2 DEF AskForPassword
    <2> HIDE DEF m
    <2>4. srv' # "ssl" BY <2>3
    <2>5. m.kind \in Asks => srv' = WaitsAfter(m.kind) BY <2>1, <2>3 DEF AuthKinds, Asks, WaitsAfter
    <2>6. m.kind \notin {"S", "N"} BY <2>1 DEF AuthKinds
    <2> QED BY <2>1, <2>2, <2>4, <2>5, <2>6, HeardOne
  <1>3. CASE Verdict
    <2>1. PICK k \in {"AuthenticationOk", "ErrorResponse"} : s2c' = s2c \o <<M(k)>>
      BY <1>3 DEF Verdict
    <2>2. M(k) \in Messages /\ M(k).kind \notin Asks \cup {"S", "N"}
      BY MadeMessages DEF M, Kinds, MessageKinds, Asks
    <2>3. c2s # <<>> /\ c2s' = Tail(c2s) /\ UNCHANGED pc /\ srv' # "ssl" BY <1>3 DEF Verdict
    <2> QED BY <2>1, <2>2, <2>3, HeardOne
  <1>4. CASE SaslContinue
    <2>1. c2s # <<>> /\ c2s' = Tail(c2s) /\ UNCHANGED pc /\ srv' \in {"sasl final", "closed"}
      BY <1>4 DEF SaslContinue
    <2>2. CASE s2c' = s2c \o <<M("ErrorResponse")>>
      <3>1. /\ M("ErrorResponse") \in Messages
            /\ M("ErrorResponse").kind \notin Asks \cup {"S", "N"}
        BY MadeMessages DEF M, Kinds, MessageKinds, Asks
      <3> QED BY <2>1, <2>2, <3>1, HeardOne
    <2>3. ASSUME NEW good \in {0, 1}, srv' = "sasl final",
                 s2c' = s2c \o <<[kind |-> "SaslContinue", body |-> good]>>
          PROVE  TurnInv'
      <3>1. [kind |-> "SaslContinue", body |-> good] \in Messages
        BY MadeMessages DEF Kinds, MessageKinds
      <3>2. srv' = WaitsAfter("SaslContinue") BY <2>3 DEF WaitsAfter
      <3> QED BY <2>1, <2>3, <3>1, <3>2, HeardOne
    <2> QED BY <1>4, <2>2, <2>3 DEF SaslContinue, Bodies
  <1>5. CASE SaslVerdict
    <2>1. c2s # <<>> /\ c2s' = Tail(c2s) /\ UNCHANGED pc /\ srv' \in {"params", "closed"}
      BY <1>5 DEF SaslVerdict
    <2>2. \A k \in {"AuthenticationOk", "ErrorResponse"} :
            M(k) \in Messages /\ M(k).kind \notin Asks \cup {"S", "N"}
      BY MadeMessages DEF M, Kinds, MessageKinds, Asks
    <2>3. CASE \E k \in {"AuthenticationOk", "ErrorResponse"} : s2c' = s2c \o <<M(k)>>
      BY <2>1, <2>2, <2>3, HeardOne
    <2>4. ASSUME NEW body \in SaslFinals,
                 s2c' = s2c \o <<[kind |-> "SaslFinal", body |-> body], M("AuthenticationOk")>>
          PROVE  TurnInv'
      <3>1. [kind |-> "SaslFinal", body |-> body] \in Messages
        BY MadeMessages
      <3>2. [kind |-> "SaslFinal", body |-> body].kind \notin Asks BY DEF Asks
      <3> QED BY <2>1, <2>2, <2>4, <3>1, <3>2, HeardTwo
    <2> QED BY <1>5, <2>3, <2>4 DEF SaslVerdict, FinalBodies, SaslFinals
  <1>6. CASE SendParameter \/ FinishStartup
    <2>1. srv = "params" /\ UNCHANGED <<pc, c2s>> /\ srv' \in {"params", "ready"}
      BY <1>6 DEF SendParameter, FinishStartup
    <2>2. c2s = <<>>
      <3>1. ASSUME c2s # <<>> PROVE FALSE
        <4>1. c2s[1] \in Says BY <3>1 DEF WireType
        <4>2. Waits(c2s[1]) # "params" BY <4>1 DEF Says, Waits
        <4> QED BY <2>1, <3>1, <4>2 DEF TurnInv, ClientTurn
      <3> QED BY <3>1
    <2>3. \A i \in 1..Len(s2c) : s2c[i].kind \notin Asks BY <2>1 DEF TurnInv, ServerTurn, WaitsAfter
    <2>4. Len(s2c) \in Nat BY DEF WireType
    <2>5. ServerTurn'
      <3>1. CASE SendParameter
        <4>1. PICK m \in Messages : s2c' = Append(s2c, m) /\ m.kind = "ParameterStatus"
          BY <3>1, MadeMessages DEF SendParameter, WireType, Kinds, MessageKinds
        <4>2. Len(s2c') = Len(s2c) + 1 /\ s2c'[Len(s2c) + 1].kind = "ParameterStatus"
              /\ \A i \in 1..Len(s2c) : s2c'[i] = s2c[i]
          BY <4>1, LongerFacts DEF WireType
        <4>3. \A i \in 1..Len(s2c') : s2c'[i].kind \notin Asks BY <2>3, <2>4, <4>2 DEF Asks
        <4> QED BY <4>3 DEF ServerTurn
      <3>2. CASE FinishStartup
        <4> DEFINE k == [kind |-> "BackendKeyData", body |-> 1]
                   r == M("ReadyForQuery")
        <4>1. s2c' = s2c \o <<k, r>> /\ srv' = "ready" /\ r.kind = "ReadyForQuery"
          BY <3>2 DEF FinishStartup, M
        <4>2. k.kind \notin Asks BY DEF Asks
        <4>3. k \in Messages /\ r \in Messages BY MadeMessages DEF Kinds, MessageKinds
        <4> HIDE DEF k, r
        <4>4. /\ Len(s2c') = Len(s2c) + 2 /\ s2c'[Len(s2c) + 1] = k /\ s2c'[Len(s2c) + 2] = r
              /\ \A i \in 1..Len(s2c) : s2c'[i] = s2c[i]
          BY <4>1, <4>3 DEF WireType
        <4>5. \A i \in 1..Len(s2c') : s2c'[i].kind \in Asks =>
                i = Len(s2c') /\ s2c'[i].kind = "ReadyForQuery"
          BY <2>3, <2>4, <4>1, <4>2, <4>4
        <4>6. srv' = WaitsAfter("ReadyForQuery") BY <4>1 DEF WaitsAfter
        <4> QED BY <4>5, <4>6 DEF ServerTurn
      <3> QED BY <1>6, <3>1, <3>2
    <2>6. pc' \notin {"tcp", "tls", "startup", "connected"}
      BY <2>1 DEF TurnInv, EarlyTurn, HandsOverInSync
    <2> QED BY <2>1, <2>2, <2>5, <2>6 DEF TurnInv, ClientTurn, EarlyTurn, HandsOverInSync
  <1> QED BY <1>1, <1>2, <1>3, <1>4, <1>5, <1>6 DEF Server

\* A notice changes no turn, and neither does the loss of what was sent last.
LEMMA NoticeTurns == ASSUME WireType, TurnInv, Notice PROVE TurnInv'
  <1>1. srv \in {"verdict", "sasl first", "sasl final", "params", "ready"} /\ UNCHANGED <<pc, srv, c2s>>
    BY DEF Notice, clientVars
  <1>2. M("NoticeResponse") \in Messages /\ M("NoticeResponse").kind = "NoticeResponse"
    BY MadeMessages DEF M, Kinds, MessageKinds
  <1>3. s2c' = Append(s2c, M("NoticeResponse")) BY DEF Notice
  <1>4. /\ Len(s2c) \in Nat /\ Len(s2c') = Len(s2c) + 1
        /\ s2c'[Len(s2c) + 1].kind = "NoticeResponse"
        /\ \A i \in 1..Len(s2c) : s2c'[i] = s2c[i]
    BY <1>2, <1>3, LongerFacts DEF WireType
  <1>5. \A i \in 1..Len(s2c') : i \in 1..Len(s2c) \/ s2c'[i].kind = "NoticeResponse" BY <1>4
  <1>6. ClientTurn' BY <1>1, <1>4, <1>5 DEF TurnInv, ClientTurn
  <1>7. \A i \in 1..Len(s2c) : s2c[i].kind \notin {"S", "N"}
    BY <1>1 DEF TurnInv, ServerTurn, Asks, WaitsAfter
  <1>8. "NoticeResponse" \notin Asks BY DEF Asks
  <1>9. ServerTurn'
    <2> SUFFICES ASSUME NEW i \in 1..Len(s2c'), s2c'[i].kind \in Asks
                 PROVE  /\ srv' = WaitsAfter(s2c'[i].kind)
                        /\ s2c'[i].kind \notin {"S", "N"}
                        /\ \A j \in 1..Len(s2c') :
                             (j > i \/ (j < i /\ s2c'[i].kind # "ReadyForQuery"))
                               => s2c'[j].kind = "NoticeResponse"
      BY DEF ServerTurn
    <2>1. i \in 1..Len(s2c) /\ s2c'[i] = s2c[i] BY <1>4, <1>8, <1>5
    <2>2. /\ srv = WaitsAfter(s2c[i].kind) /\ s2c[i].kind \notin {"S", "N"}
          /\ \A j \in 1..Len(s2c) :
               (j > i \/ (j < i /\ s2c[i].kind # "ReadyForQuery")) => s2c[j].kind = "NoticeResponse"
      BY <1>7, <2>1 DEF TurnInv, ServerTurn
    <2> QED BY <1>1, <1>4, <1>5, <2>1, <2>2
  <1>10. HandsOverInSync' BY <1>1, <1>4 DEF TurnInv, HandsOverInSync
  <1> QED BY <1>1, <1>6, <1>9, <1>10 DEF TurnInv, EarlyTurn

LEMMA LoseTurns == ASSUME WireType, TurnInv, Lose PROVE TurnInv'
  <1>1. UNCHANGED <<pc, srv, c2s>> BY DEF Lose, clientVars
  <1>2. PICK n \in 0..Len(s2c) : s2c' = SubSeq(s2c, 1, n) BY DEF Lose
  <1>3. /\ Len(s2c) \in Nat /\ s2c' \in Seq(Messages) /\ Len(s2c') = n
        /\ \A i \in 1..n : s2c'[i] = s2c[i] /\ i \in 1..Len(s2c)
    BY <1>2, PartFacts DEF WireType
  <1>4. ClientTurn' BY <1>1, <1>3 DEF TurnInv, ClientTurn
  <1>5. ServerTurn' BY <1>1, <1>3 DEF TurnInv, ServerTurn
  <1>6. s2c = <<>> => s2c' = <<>> BY <1>3
  <1>7. EarlyTurn' BY <1>1, <1>6 DEF TurnInv, EarlyTurn
  <1>8. HandsOverInSync' BY <1>1, <1>3 DEF TurnInv, HandsOverInSync
  <1> QED BY <1>4, <1>5, <1>7, <1>8 DEF TurnInv

LEMMA TurnNext == ASSUME WireType, TurnInv, [Next]_vars PROVE TurnInv'
  <1>1. CASE Hang \/ UNCHANGED vars
    <2>1. UNCHANGED <<pc, srv, c2s, s2c>> BY <1>1 DEF Hang, vars, clientVars, serverVars
    <2> QED BY <2>1 DEF TurnInv, ClientTurn, ServerTurn, EarlyTurn, HandsOverInSync
  <1> QED BY <1>1, ClientTurns, ServerTurns, NoticeTurns, LoseTurns DEF Next

\* What connect hands to the Client is in step with the server: nothing but notices is left
\* of the startup, in either direction (connection.rs:84-131).
THEOREM HandsOverCorrect == Spec => []HandsOverInSync
  <1>1. Init => WireType /\ TurnInv
    BY DEF Init, WireType, TurnInv, ClientTurn, ServerTurn, EarlyTurn, HandsOverInSync
  <1>2. TurnInv => HandsOverInSync BY DEF TurnInv
  <1> QED BY <1>1, <1>2, WireNext, TurnNext, PTL DEF Spec

-----------------------------------------------------------------------------
(* What the server reported *)

\* Something is added to what is on its way.
Grows ==
  /\ Len(s2c) \in Nat /\ Len(s2c') \in Nat /\ Len(s2c) <= Len(s2c')
  /\ \A i \in 1..Len(s2c) : s2c'[i] = s2c[i]

Added == (Len(s2c) + 1)..Len(s2c')

LEMMA GrowsOne ==
  ASSUME WireType, NEW m \in Messages, s2c' = s2c \o <<m>> \/ s2c' = Append(s2c, m)
  PROVE  Grows /\ Len(s2c') = Len(s2c) + 1 /\ s2c'[Len(s2c) + 1] = m
  BY LongerFacts DEF WireType, Grows

LEMMA GrowsTwo ==
  ASSUME WireType, NEW m \in Messages, NEW n \in Messages, s2c' = s2c \o <<m, n>>
  PROVE  /\ Grows /\ Len(s2c') = Len(s2c) + 2
         /\ s2c'[Len(s2c) + 1] = m /\ s2c'[Len(s2c) + 2] = n
  BY DEF WireType, Grows

\* Until the authentication is over, nothing of what the loop must not miss is sent, and
\* its end is sent when it is over.
LEMMA ServerGrows ==
  ASSUME WireType, AnswerSsl \/ AskForPassword \/ Verdict \/ SaslContinue \/ SaslVerdict \/ Notice
  PROVE  /\ Grows /\ \A i \in Added : s2c'[i].kind \notin HandOver
         /\ srv' \in {"params", "ready"} =>
              srv \in {"params", "ready"} \/ \E j \in Added : s2c'[j].kind \in Finals
         /\ up' => up
         /\ UNCHANGED <<pc, key, params, sent>>
  <1> USE DEF given, clientVars, Hears, Tell, Reject
  <1>1. UNCHANGED <<pc, key, params, sent>> /\ (up' => up)
    BY DEF AnswerSsl, AskForPassword, Verdict, SaslContinue, SaslVerdict, Notice
  <1>2. ASSUME NEW m \in Messages, s2c' = s2c \o <<m>> \/ s2c' = Append(s2c, m), m.kind \notin HandOver,
               srv' \in {"params", "ready"} => srv \in {"params", "ready"} \/ m.kind \in Finals
        PROVE  /\ Grows /\ \A i \in Added : s2c'[i].kind \notin HandOver
               /\ srv' \in {"params", "ready"} =>
                    srv \in {"params", "ready"} \/ \E j \in Added : s2c'[j].kind \in Finals
    <2>1. Grows /\ Len(s2c') = Len(s2c) + 1 /\ s2c'[Len(s2c) + 1] = m BY <1>2, GrowsOne
    <2>2. Added = {Len(s2c) + 1} BY <2>1 DEF Added, Grows
    <2> QED BY <1>2, <2>1, <2>2
  <1>3. \A k \in Kinds \ HandOver : k # "SaslFinal" => M(k) \in Messages /\ M(k).kind = k
    BY MadeMessages DEF M
  <1>4. {"S", "N", "E", "AuthenticationOk", "ErrorResponse", "NoticeResponse"} \subseteq Kinds \ HandOver
    BY DEF Kinds, MessageKinds, HandOver
  <1>5. CASE AnswerSsl
    <2>1. PICK b \in {"S", "N", "E"} : s2c' = s2c \o <<M(b)>> BY <1>5 DEF AnswerSsl
    <2>2. srv' = "startup" BY <1>5 DEF AnswerSsl
    <2>3. b \in Kinds \ HandOver BY <1>4
    <2> QED BY <1>1, <1>2, <1>3, <2>1, <2>2, <2>3
  <1>6. CASE AskForPassword
    <2> DEFINE m == [kind |-> Decode(challenge).kind, body |-> Decode(challenge)]
    <2>1. m \in Messages /\ m.kind \in AuthKinds BY MadeMessages, DecodeKind DEF WireType
    <2>2. s2c' = s2c \o <<m>>
          /\ srv' = CASE m.kind = "AuthenticationOk" -> "params"
                      [] m.kind = "Sasl" -> "sasl first"
                      [] OTHER -> "verdict"
      BY <1>6 DEF AskForPassword
    <2> HIDE DEF m
    <2>3. m.kind \notin HandOver BY <2>1 DEF AuthKinds, HandOver
    <2>4. srv' \in {"params", "ready"} => m.kind \in Finals BY <2>2 DEF Finals
    <2> QED BY <1>1, <1>2, <2>1, <2>2, <2>3, <2>4
  <1>7. CASE Verdict
    <2>1. CASE s2c' = s2c \o <<M("AuthenticationOk")>>
      BY <1>1, <1>2, <1>3, <1>4, <2>1 DEF Finals
    <2>2. CASE s2c' = s2c \o <<M("ErrorResponse")>> /\ srv' = "closed"
      BY <1>1, <1>2, <1>3, <1>4, <2>2
    <2> QED BY <1>7, <2>1, <2>2 DEF Verdict
  <1>8. CASE SaslContinue
    <2>1. CASE s2c' = s2c \o <<M("ErrorResponse")>> /\ srv' = "closed"
      BY <1>1, <1>2, <1>3, <1>4, <2>1
    <2>2. ASSUME NEW good \in {0, 1}, srv' = "sasl final",
                 s2c' = s2c \o <<[kind |-> "SaslContinue", body |-> good]>>
          PROVE  /\ Grows /\ \A i \in Added : s2c'[i].kind \notin HandOver
                 /\ srv' \in {"params", "ready"} =>
                      srv \in {"params", "ready"} \/ \E j \in Added : s2c'[j].kind \in Finals
      <3>1. [kind |-> "SaslContinue", body |-> good] \in Messages
        BY MadeMessages DEF Kinds, MessageKinds
      <3>2. [kind |-> "SaslContinue", body |-> good].kind \notin HandOver BY DEF HandOver
      <3> QED BY <1>2, <2>2, <3>1, <3>2
    <2> QED BY <1>1, <1>8, <2>1, <2>2 DEF SaslContinue, Bodies
  <1>9. CASE SaslVerdict
    <2>1. CASE s2c' = s2c \o <<M("AuthenticationOk")>>
      BY <1>1, <1>2, <1>3, <1>4, <2>1 DEF Finals
    <2>2. CASE s2c' = s2c \o <<M("ErrorResponse")>> /\ srv' = "closed"
      BY <1>1, <1>2, <1>3, <1>4, <2>2
    <2>3. ASSUME NEW body \in SaslFinals,
                 s2c' = s2c \o <<[kind |-> "SaslFinal", body |-> body], M("AuthenticationOk")>>
          PROVE  /\ Grows /\ \A i \in Added : s2c'[i].kind \notin HandOver
                 /\ srv' \in {"params", "ready"} =>
                      srv \in {"params", "ready"} \/ \E j \in Added : s2c'[j].kind \in Finals
      <3> DEFINE f == [kind |-> "SaslFinal", body |-> body]
      <3>1. f \in Messages /\ f.kind \notin HandOver
        BY MadeMessages DEF HandOver
      <3>2. M("AuthenticationOk") \in Messages /\ M("AuthenticationOk").kind = "AuthenticationOk"
        BY <1>3, <1>4
      <3> HIDE DEF f
      <3>3. Grows /\ Len(s2c') = Len(s2c) + 2 /\ s2c'[Len(s2c) + 1] = f
            /\ s2c'[Len(s2c) + 2] = M("AuthenticationOk")
        BY <2>3, <3>1, <3>2, GrowsTwo DEF f
      <3>4. Added = {Len(s2c) + 1, Len(s2c) + 2} BY <3>3 DEF Added, Grows
      <3>5. s2c'[Len(s2c) + 2].kind \in Finals BY <3>2, <3>3 DEF Finals
      <3>6. s2c'[Len(s2c) + 2].kind \notin HandOver BY <3>2, <3>3 DEF HandOver
      <3> QED BY <3>1, <3>3, <3>4, <3>5, <3>6
    <2> QED BY <1>1, <1>9, <2>1, <2>2, <2>3 DEF SaslVerdict, FinalBodies, SaslFinals
  <1>10. CASE Notice
    <2>1. s2c' = Append(s2c, M("NoticeResponse")) /\ UNCHANGED srv BY <1>10 DEF Notice
    <2> QED BY <1>1, <1>2, <1>3, <1>4, <2>1
  <1> QED BY <1>5, <1>6, <1>7, <1>8, <1>9, <1>10

\* The parameters and the end of the startup.
LEMMA ParameterGrows ==
  ASSUME WireType, SendParameter
  PROVE  /\ Grows /\ Len(s2c') = Len(s2c) + 1
         /\ s2c'[Len(s2c) + 1].kind = "ParameterStatus" /\ s2c'[Len(s2c) + 1].body = sent + 1
         /\ sent' = sent + 1 /\ up /\ srv = "params" /\ UNCHANGED <<srv, up, pc, key, params>>
  <1>1. [kind |-> "ParameterStatus", body |-> sent + 1] \in Messages
    BY MadeMessages DEF WireType, Kinds, MessageKinds
  <1>2. s2c' = Append(s2c, [kind |-> "ParameterStatus", body |-> sent + 1]) BY DEF SendParameter
  <1>3. /\ Grows /\ Len(s2c') = Len(s2c) + 1
        /\ s2c'[Len(s2c) + 1] = [kind |-> "ParameterStatus", body |-> sent + 1]
    BY <1>1, <1>2, GrowsOne
  <1> QED BY <1>3 DEF SendParameter, clientVars

LEMMA FinishGrows ==
  ASSUME WireType, FinishStartup
  PROVE  /\ Grows /\ Len(s2c') = Len(s2c) + 2
         /\ s2c'[Len(s2c) + 1].kind = "BackendKeyData" /\ s2c'[Len(s2c) + 1].body = 1
         /\ s2c'[Len(s2c) + 2].kind = "ReadyForQuery"
         /\ up /\ srv = "params" /\ UNCHANGED <<up, sent, pc, key, params>>
  <1>1. /\ [kind |-> "BackendKeyData", body |-> 1] \in Messages
        /\ M("ReadyForQuery") \in Messages /\ M("ReadyForQuery").kind = "ReadyForQuery"
    BY MadeMessages DEF Kinds, MessageKinds, M
  <1>2. s2c' = s2c \o <<[kind |-> "BackendKeyData", body |-> 1], M("ReadyForQuery")>>
    BY DEF FinishStartup, Tell
  <1>3. /\ Grows /\ Len(s2c') = Len(s2c) + 2
        /\ s2c'[Len(s2c) + 1] = [kind |-> "BackendKeyData", body |-> 1]
        /\ s2c'[Len(s2c) + 2] = M("ReadyForQuery")
    BY <1>1, <1>2, GrowsTwo
  <1> QED BY <1>1, <1>3 DEF FinishStartup, Tell, clientVars

\* What is added is of the loop only when the final message was sent.
LEMMA AuthGrows ==
  ASSUME WireType, AuthInv, Grows, InFinal' = InFinal,
         \A i \in Added : s2c'[i].kind \in HandOver => AuthOver,
         AuthOver' => AuthOver \/ \E j \in Added : s2c'[j].kind \in Finals
  PROVE  AuthInv'
  <1> SUFFICES ASSUME InFinal' PROVE AuthInv' BY DEF AuthInv
  <1>1. \A i \in 1..Len(s2c') : i \in Added \/ (i \in 1..Len(s2c) /\ s2c'[i] = s2c[i])
    BY DEF Grows, Added
  <1>2. \A i \in 1..Len(s2c) : i \in 1..Len(s2c') /\ s2c'[i] = s2c[i] BY DEF Grows
  <1>3. ASSUME NEW i \in 1..Len(s2c'), s2c'[i].kind \in HandOver
        PROVE  \E j \in 1..(i - 1) : s2c'[j].kind \in Finals
    <2>1. CASE i \in Added
      <3>1. PICK j \in 1..Len(s2c) : s2c[j].kind \in Finals BY <1>3, <2>1 DEF AuthInv
      <3>2. j \in 1..(i - 1) BY <2>1, <3>1 DEF Added, Grows
      <3> QED BY <1>2, <3>1, <3>2
    <2>2. CASE i \in 1..Len(s2c)
      <3>1. PICK j \in 1..(i - 1) : s2c[j].kind \in Finals BY <1>2, <1>3, <2>2 DEF AuthInv
      <3>2. j \in 1..Len(s2c) BY <2>2, <3>1 DEF Grows
      <3> QED BY <1>2, <3>1, <3>2
    <2> QED BY <1>1, <1>3, <2>1, <2>2
  <1>4. ASSUME AuthOver'
        PROVE  \E j \in 1..Len(s2c') : s2c'[j].kind \in Finals
    <2>1. CASE AuthOver
      BY <1>2, <1>4, <2>1 DEF AuthInv
    <2>2. CASE \E j \in Added : s2c'[j].kind \in Finals
      BY <2>2 DEF Added, Grows
    <2> QED BY <1>4, <2>1, <2>2
  <1> QED BY <1>3, <1>4 DEF AuthInv

\* The final message comes before what the loop must not miss.
LEMMA AuthNext == ASSUME WireType, TurnInv, AuthInv, [Next]_vars PROVE AuthInv'
  <1> USE DEF given, saslVars, clientVars, serverVars
  <1>1. CASE AnswerSsl \/ AskForPassword \/ Verdict \/ SaslContinue \/ SaslVerdict \/ Notice
    <2>1. InFinal' = InFinal BY <1>1, ServerGrows DEF InFinal
    <2>2. AuthOver' => AuthOver \/ \E j \in Added : s2c'[j].kind \in Finals
      BY <1>1, ServerGrows DEF AuthOver
    <2> QED BY <1>1, <2>2, <2>1, ServerGrows, AuthGrows
  <1>2. CASE SendParameter
    <2>1. InFinal' = InFinal BY <1>2, ParameterGrows DEF InFinal
    <2>2. AuthOver BY <1>2, ParameterGrows DEF AuthOver
    <2> QED BY <1>2, <2>2, <2>1, ParameterGrows, AuthGrows
  <1>3. CASE FinishStartup
    <2>1. InFinal' = InFinal BY <1>3, FinishGrows DEF InFinal
    <2>2. AuthOver BY <1>3, FinishGrows DEF AuthOver
    <2> QED BY <1>3, <2>2, <2>1, FinishGrows, AuthGrows
  <1>4. CASE Lose
    <2>1. InFinal' = InFinal /\ ~AuthOver' BY <1>4 DEF Lose, AuthOver, InFinal
    <2>2. PICK n \in 0..Len(s2c) : s2c' = SubSeq(s2c, 1, n) BY <1>4 DEF Lose
    <2>3. /\ Len(s2c) \in Nat /\ Len(s2c') = n
          /\ \A i \in 1..n : s2c'[i] = s2c[i] /\ i \in 1..Len(s2c)
      BY <2>2, PartFacts DEF WireType
    <2>4. ASSUME InFinal, NEW i \in 1..Len(s2c'), s2c'[i].kind \in HandOver
          PROVE  \E j \in 1..(i - 1) : s2c'[j].kind \in Finals
      <3>1. PICK j \in 1..(i - 1) : s2c[j].kind \in Finals BY <2>3, <2>4 DEF AuthInv
      <3>2. j \in 1..n BY <2>3
      <3> QED BY <2>3, <3>1, <3>2
    <2> QED BY <2>1, <2>4 DEF AuthInv
  <1>5. CASE Hang \/ UNCHANGED vars
    <2>1. UNCHANGED <<pc, srv, up, s2c>> BY <1>5 DEF Hang, vars
    <2>2. AuthOver' = AuthOver /\ InFinal' = InFinal BY <2>1 DEF AuthOver, InFinal
    <2> QED BY <2>1, <2>2 DEF AuthInv
  <1>6. CASE SaslFirst
    <2>1. CASE pc' # "sasl final" BY <2>1 DEF AuthInv, InFinal
    <2>2. CASE pc' = "sasl final"
      <3>1. s2c # <<>> /\ s2c[1].kind = "SaslContinue" /\ s2c' = Tail(s2c) /\ UNCHANGED srv
        BY <1>6, <2>2 DEF SaslFirst, Receive, Kind, Fail
      <3>2. /\ 1 \in 1..Len(s2c) /\ Len(s2c) \in Nat /\ Len(s2c') = Len(s2c) - 1
            /\ \A i \in 1..Len(s2c') : s2c'[i] = s2c[i + 1] /\ i + 1 \in 1..Len(s2c)
        BY <3>1, TailFacts DEF WireType
      <3>3. srv = "sasl final" BY <3>1, <3>2 DEF TurnInv, ServerTurn, Asks, WaitsAfter
      <3>4. ~AuthOver' BY <3>1, <3>3 DEF AuthOver
      <3>5. \A j \in 1..Len(s2c) : j > 1 => s2c[j].kind = "NoticeResponse"
        BY <3>1, <3>2 DEF TurnInv, ServerTurn, Asks
      <3>6. \A i \in 1..Len(s2c') : s2c'[i].kind = "NoticeResponse" BY <3>2, <3>5
      <3> QED BY <3>6, <3>4 DEF AuthInv, HandOver
    <2> QED BY <2>1, <2>2
  <1>7. CASE Client /\ ~SaslFirst
    <2>1. pc' # "sasl final"
      <3>1. CASE TcpConnect \/ TcpFails \/ SslYes \/ SslNo \/ SslOther \/ TlsHandshake \/ SendStartup
        BY <3>1 DEF TcpConnect, TcpFails, SslYes, SslNo, SslOther, SslByte, TlsHandshake, SendStartup,
                    GoTo, Fail
      <3>2. CASE LoopPassword \/ LoopBadChallenge \/ LoopSasl \/ LoopParameter \/ LoopKeyData
                   \/ LoopReady \/ LoopError \/ LoopOther
        BY <3>2 DEF LoopPassword, LoopBadChallenge, LoopSasl, LoopParameter, LoopKeyData, LoopReady,
                    LoopError, LoopOther, Receive, GoTo, Fail
      <3>3. CASE SaslFinal \/ SaslFinalOther \/ StreamEnds \/ SendFails
        BY <3>3 DEF SaslFinal, SaslFinalOther, StreamEnds, SendFails, Receive, Gone, GoTo, Fail
      <3> QED BY <1>7, <3>1, <3>2, <3>3 DEF Client
    <2> QED BY <2>1 DEF AuthInv, InFinal
  <1> QED BY <1>1, <1>2, <1>3, <1>4, <1>5, <1>6, <1>7 DEF Next, Server

\* The loop reads a message that is not a parameter and does not end it.
LEMMA DataRead ==
  ASSUME WireType, ParamsInv, KeyInv, params \in Seq(Nat), s2c # <<>>, s2c' = Tail(s2c),
         UNCHANGED <<up, params, sent>>, s2c[1].kind \notin {"ParameterStatus", "ReadyForQuery"},
         key' = 1 \/ (key' = key /\ s2c[1].kind # "BackendKeyData")
  PROVE  ParamsInv' /\ KeyInv'
  <1>1. /\ Len(s2c) \in Nat /\ Len(s2c') = Len(s2c) - 1 /\ 1 \in 1..Len(s2c)
        /\ \A i \in 1..Len(s2c') : s2c'[i] = s2c[i + 1] /\ i + 1 \in 1..Len(s2c)
        /\ \A i \in 1..Len(s2c) : i # 1 => s2c[i] = s2c'[i - 1] /\ i - 1 \in 1..Len(s2c')
    BY TailFacts DEF WireType
  <1>2. Len(params) \in Nat /\ sent \in Nat BY DEF WireType
  <1>3. IsKept' BY DEF ParamsInv, IsKept
  <1>4. \A i \in 1..Len(s2c), n \in Nat : IsParameter(i, n) => i - 1 \in 1..Len(s2c') /\ IsParameter(i - 1, n)'
    BY <1>1 DEF IsParameter
  <1>5. Comes'
    <2> SUFFICES ASSUME NEW i \in 1..Len(s2c'), s2c'[i].kind = "ParameterStatus"
                 PROVE  /\ s2c'[i].body \in (Len(params) + 1)..sent
                        /\ \A n \in (Len(params) + 1)..s2c'[i].body : \E j \in 1..i : IsParameter(j, n)'
                        /\ \A j \in 1..Len(s2c') :
                             (s2c'[j].kind = "ParameterStatus" /\ j > i) => s2c'[j].body > s2c'[i].body
      BY DEF Comes
    <2>1. i + 1 \in 1..Len(s2c) /\ s2c[i + 1] = s2c'[i] BY <1>1
    <2>2. /\ s2c[i + 1].body \in (Len(params) + 1)..sent
          /\ \A n \in (Len(params) + 1)..s2c[i + 1].body : \E j \in 1..(i + 1) : IsParameter(j, n)
          /\ \A j \in 1..Len(s2c) :
               (s2c[j].kind = "ParameterStatus" /\ j > i + 1) => s2c[j].body > s2c[i + 1].body
      BY <2>1 DEF ParamsInv, Comes
    <2>3. ASSUME NEW n \in (Len(params) + 1)..s2c'[i].body PROVE \E j \in 1..i : IsParameter(j, n)'
      <3>1. PICK j \in 1..(i + 1) : IsParameter(j, n) BY <2>1, <2>2
      <3>2. j \in 1..Len(s2c) /\ n \in Nat BY <1>2, <2>1, <2>2
      <3>3. j - 1 \in 1..i /\ IsParameter(j - 1, n)' BY <1>4, <3>1, <3>2
      <3> QED BY <3>3
    <2>4. ASSUME NEW j \in 1..Len(s2c'), s2c'[j].kind = "ParameterStatus", j > i
          PROVE  s2c'[j].body > s2c'[i].body
      <3>1. j + 1 \in 1..Len(s2c) /\ s2c[j + 1] = s2c'[j] /\ j + 1 > i + 1 BY <1>1, <2>4
      <3> QED BY <2>1, <2>2, <2>4, <3>1
    <2> QED BY <2>1, <2>2, <2>3, <2>4
  <1>6. IsComplete'
    <2>1. IsReported' => IsReported BY <1>1 DEF IsReported
    <2>2. ASSUME IsReported, NEW n \in (Len(params) + 1)..sent
          PROVE  \E j \in 1..Len(s2c') : IsParameter(j, n)'
      <3>1. PICK j \in 1..Len(s2c) : IsParameter(j, n) BY <2>2 DEF ParamsInv, IsComplete
      <3>2. n \in Nat BY <1>2
      <3> QED BY <1>4, <3>1, <3>2
    <2> QED BY <2>1, <2>2 DEF IsComplete
  <1>7. KeyInv'
    <2> SUFFICES ASSUME NEW i \in 1..Len(s2c')
                 PROVE  /\ s2c'[i].kind = "BackendKeyData" => s2c'[i].body = 1
                        /\ s2c'[i].kind = "ReadyForQuery" =>
                             key' = 1 \/ \E j \in 1..(i - 1) : s2c'[j].kind = "BackendKeyData"
      BY DEF KeyInv
    <2>1. i + 1 \in 1..Len(s2c) /\ s2c[i + 1] = s2c'[i] BY <1>1
    <2>2. ASSUME s2c'[i].kind = "ReadyForQuery", key' # 1
          PROVE  \E j \in 1..(i - 1) : s2c'[j].kind = "BackendKeyData"
      <3>1. PICK j \in 1..i : s2c[j].kind = "BackendKeyData" BY <2>1, <2>2 DEF KeyInv
      <3>2. j # 1 BY <2>2, <3>1
      <3>3. j - 1 \in 1..(i - 1) /\ s2c'[j - 1] = s2c[j] BY <1>1, <2>1, <3>2
      <3> QED BY <3>1, <3>3
    <2> QED BY <2>1, <2>2 DEF KeyInv
  <1> QED BY <1>3, <1>5, <1>6, <1>7 DEF ParamsInv

\* The loop keeps the next parameter.
LEMMA DataKept ==
  ASSUME WireType, ParamsInv, KeyInv, params \in Seq(Nat), s2c # <<>>, s2c' = Tail(s2c),
         UNCHANGED <<up, key, sent>>, s2c[1].kind = "ParameterStatus", params' = Append(params, s2c[1].body)
  PROVE  ParamsInv' /\ KeyInv' /\ params' \in Seq(Nat)
  <1>1. /\ Len(s2c) \in Nat /\ Len(s2c') = Len(s2c) - 1 /\ 1 \in 1..Len(s2c)
        /\ \A i \in 1..Len(s2c') : s2c'[i] = s2c[i + 1] /\ i + 1 \in 1..Len(s2c)
        /\ \A i \in 1..Len(s2c) : i # 1 => s2c[i] = s2c'[i - 1] /\ i - 1 \in 1..Len(s2c')
    BY TailFacts DEF WireType
  <1>2. Len(params) \in Nat /\ sent \in Nat BY DEF WireType
  <1> DEFINE next == Len(params) + 1
  <1>3. s2c[1].body = next /\ next <= sent
    <2>1. /\ s2c[1].body \in next..sent
          /\ \A n \in next..s2c[1].body : \E j \in 1..1 : IsParameter(j, n)
      BY <1>1 DEF ParamsInv, Comes
    <2>2. next \in next..s2c[1].body BY <1>2, <2>1
    <2>3. IsParameter(1, next) BY <2>1, <2>2
    <2> QED BY <1>2, <2>1, <2>3 DEF IsParameter
  <1>4. /\ params' \in Seq(Nat) /\ Len(params') = next /\ params'[next] = next
        /\ \A n \in 1..Len(params) : params'[n] = params[n]
    BY <1>2, <1>3
  <1>5. IsKept' BY <1>2, <1>3, <1>4 DEF ParamsInv, IsKept
  <1>6. \A i \in 1..Len(s2c), n \in Nat :
          (IsParameter(i, n) /\ n > next) => i - 1 \in 1..Len(s2c') /\ IsParameter(i - 1, n)'
    BY <1>1, <1>2, <1>3 DEF IsParameter
  <1>7. Comes'
    <2> SUFFICES ASSUME NEW i \in 1..Len(s2c'), s2c'[i].kind = "ParameterStatus"
                 PROVE  /\ s2c'[i].body \in (next + 1)..sent
                        /\ \A n \in (next + 1)..s2c'[i].body : \E j \in 1..i : IsParameter(j, n)'
                        /\ \A j \in 1..Len(s2c') :
                             (s2c'[j].kind = "ParameterStatus" /\ j > i) => s2c'[j].body > s2c'[i].body
      BY <1>4 DEF Comes
    <2>1. i + 1 \in 1..Len(s2c) /\ s2c[i + 1] = s2c'[i] BY <1>1
    <2>2. /\ s2c[i + 1].body \in next..sent
          /\ \A n \in next..s2c[i + 1].body : \E j \in 1..(i + 1) : IsParameter(j, n)
          /\ \A j \in 1..Len(s2c) :
               (s2c[j].kind = "ParameterStatus" /\ j > i + 1) => s2c[j].body > s2c[i + 1].body
      BY <2>1 DEF ParamsInv, Comes
    <2>3. s2c[i + 1].body > next
      <3>1. \A j \in 1..Len(s2c) :
              (s2c[j].kind = "ParameterStatus" /\ j > 1) => s2c[j].body > s2c[1].body
        BY <1>1 DEF ParamsInv, Comes
      <3> QED BY <1>3, <2>1, <3>1
    <2>4. ASSUME NEW n \in (next + 1)..s2c'[i].body PROVE \E j \in 1..i : IsParameter(j, n)'
      <3>1. n \in next..s2c[i + 1].body BY <1>2, <2>1, <2>2
      <3>2. PICK j \in 1..(i + 1) : IsParameter(j, n) BY <2>2, <3>1
      <3>3. j \in 1..Len(s2c) /\ n \in Nat /\ n > next BY <1>2, <2>1, <2>2
      <3>4. j - 1 \in 1..i /\ IsParameter(j - 1, n)' BY <1>6, <3>2, <3>3
      <3> QED BY <3>4
    <2>5. ASSUME NEW j \in 1..Len(s2c'), s2c'[j].kind = "ParameterStatus", j > i
          PROVE  s2c'[j].body > s2c'[i].body
      <3>1. j + 1 \in 1..Len(s2c) /\ s2c[j + 1] = s2c'[j] /\ j + 1 > i + 1 BY <1>1, <2>5
      <3> QED BY <2>1, <2>2, <2>5, <3>1
    <2>6. s2c'[i].body \in (next + 1)..sent BY <1>2, <2>1, <2>2, <2>3
    <2> QED BY <2>4, <2>5, <2>6
  <1>8. IsComplete'
    <2>1. IsReported' => IsReported BY <1>1 DEF IsReported
    <2>2. ASSUME IsReported, NEW n \in (next + 1)..sent
          PROVE  \E j \in 1..Len(s2c') : IsParameter(j, n)'
      <3>1. n \in next..sent BY <1>2
      <3>2. PICK j \in 1..Len(s2c) : IsParameter(j, n) BY <2>2, <3>1 DEF ParamsInv, IsComplete
      <3>3. n \in Nat /\ n > next BY <1>2
      <3> QED BY <1>6, <3>2, <3>3
    <2> QED BY <1>4, <2>1, <2>2 DEF IsComplete
  <1>9. KeyInv'
    <2> SUFFICES ASSUME NEW i \in 1..Len(s2c')
                 PROVE  /\ s2c'[i].kind = "BackendKeyData" => s2c'[i].body = 1
                        /\ s2c'[i].kind = "ReadyForQuery" =>
                             key' = 1 \/ \E j \in 1..(i - 1) : s2c'[j].kind = "BackendKeyData"
      BY DEF KeyInv
    <2>1. i + 1 \in 1..Len(s2c) /\ s2c[i + 1] = s2c'[i] BY <1>1
    <2>2. ASSUME s2c'[i].kind = "ReadyForQuery", key # 1
          PROVE  \E j \in 1..(i - 1) : s2c'[j].kind = "BackendKeyData"
      <3>1. PICK j \in 1..i : s2c[j].kind = "BackendKeyData" BY <2>1, <2>2 DEF KeyInv
      <3>2. j # 1 BY <2>2, <3>1
      <3>3. j - 1 \in 1..(i - 1) /\ s2c'[j - 1] = s2c[j] BY <1>1, <2>1, <3>2
      <3> QED BY <3>1, <3>3
    <2> QED BY <2>1, <2>2 DEF KeyInv
  <1> QED BY <1>4, <1>5, <1>7, <1>8, <1>9 DEF ParamsInv

\* The loop ends: the key and every parameter are there.
LEMMA DataReady ==
  ASSUME WireType, TurnInv, ParamsInv, KeyInv, params \in Seq(Nat), s2c # <<>>, s2c' = Tail(s2c),
         UNCHANGED <<up, key, params, sent>>, s2c[1].kind = "ReadyForQuery"
  PROVE  ParamsInv' /\ KeyInv' /\ key = 1 /\ params = [i \in 1..sent |-> i]
  <1>1. /\ Len(s2c) \in Nat /\ Len(s2c') = Len(s2c) - 1 /\ 1 \in 1..Len(s2c)
        /\ \A i \in 1..Len(s2c') : s2c'[i] = s2c[i + 1] /\ i + 1 \in 1..Len(s2c)
    BY TailFacts DEF WireType
  <1>2. Len(params) \in Nat /\ sent \in Nat BY DEF WireType
  <1>3. key = 1 BY <1>1 DEF KeyInv
  <1>4. \A j \in 1..Len(s2c) : j > 1 => s2c[j].kind = "NoticeResponse"
    BY <1>1 DEF TurnInv, ServerTurn, Asks
  <1>5. \A j \in 1..Len(s2c) : s2c[j].kind # "ParameterStatus" BY <1>1, <1>4
  <1>6. \A n \in (Len(params) + 1)..sent : FALSE
    <2>1. IsReported BY <1>1 DEF IsReported
    <2> QED BY <1>5, <2>1 DEF ParamsInv, IsComplete, IsParameter
  <1>7. Len(params) = sent
    <2>1. Len(params) <= sent BY DEF ParamsInv, IsKept
    <2>2. ~(Len(params) < sent)
      <3>1. ASSUME Len(params) < sent PROVE FALSE
        <4>1. Len(params) + 1 \in (Len(params) + 1)..sent BY <1>2, <3>1
        <4> QED BY <1>6, <4>1
      <3> QED BY <3>1
    <2> QED BY <1>2, <2>1, <2>2
  <1>8. params = [i \in 1..sent |-> i] BY <1>7 DEF ParamsInv, IsKept
  <1>9. \A i \in 1..Len(s2c') : s2c'[i].kind = "NoticeResponse" BY <1>1, <1>4
  <1>10. ParamsInv'
    <2>1. IsKept' BY DEF ParamsInv, IsKept
    <2>2. Comes' BY <1>9 DEF Comes
    <2>3. IsComplete' BY <1>6 DEF IsComplete
    <2> QED BY <2>1, <2>2, <2>3 DEF ParamsInv
  <1>11. KeyInv' BY <1>9 DEF KeyInv
  <1> QED BY <1>3, <1>8, <1>10, <1>11

\* The server adds something else than a parameter, after the parameters if it is the end.
LEMMA DataGrows ==
  ASSUME WireType, ParamsInv, KeyInv, params \in Seq(Nat), Grows, UNCHANGED <<key, params, sent>>,
         \A i \in Added : s2c'[i].kind # "ParameterStatus",
         \A i \in Added : s2c'[i].kind = "BackendKeyData" => s2c'[i].body = 1,
         \A i \in Added : s2c'[i].kind = "ReadyForQuery" =>
           \E j \in 1..(i - 1) : s2c'[j].kind = "BackendKeyData",
         IsReported' => IsReported
  PROVE  ParamsInv' /\ KeyInv'
  <1>1. /\ \A i \in 1..Len(s2c') : i \in Added \/ (i \in 1..Len(s2c) /\ s2c'[i] = s2c[i])
        /\ \A i \in 1..Len(s2c) : i \in 1..Len(s2c') /\ s2c'[i] = s2c[i]
    BY DEF Grows, Added
  <1>2. IsKept' BY DEF ParamsInv, IsKept
  <1>3. \A i \in 1..Len(s2c), n \in Nat : IsParameter(i, n) => IsParameter(i, n)'
    BY <1>1 DEF IsParameter
  <1>4. Comes'
    <2> SUFFICES ASSUME NEW i \in 1..Len(s2c'), s2c'[i].kind = "ParameterStatus"
                 PROVE  /\ s2c'[i].body \in (Len(params) + 1)..sent
                        /\ \A n \in (Len(params) + 1)..s2c'[i].body : \E j \in 1..i : IsParameter(j, n)'
                        /\ \A j \in 1..Len(s2c') :
                             (s2c'[j].kind = "ParameterStatus" /\ j > i) => s2c'[j].body > s2c'[i].body
      BY DEF Comes
    <2>1. i \in 1..Len(s2c) /\ s2c'[i] = s2c[i] BY <1>1
    <2>2. /\ s2c[i].body \in (Len(params) + 1)..sent
          /\ \A n \in (Len(params) + 1)..s2c[i].body : \E j \in 1..i : IsParameter(j, n)
          /\ \A j \in 1..Len(s2c) :
               (s2c[j].kind = "ParameterStatus" /\ j > i) => s2c[j].body > s2c[i].body
      BY <2>1 DEF ParamsInv, Comes
    <2>3. ASSUME NEW n \in (Len(params) + 1)..s2c'[i].body PROVE \E j \in 1..i : IsParameter(j, n)'
      <3>1. PICK j \in 1..i : IsParameter(j, n) BY <2>1, <2>2
      <3>2. j \in 1..Len(s2c) /\ n \in Nat BY <2>1, <2>2 DEF Grows, WireType
      <3> QED BY <1>3, <3>1, <3>2
    <2>4. ASSUME NEW j \in 1..Len(s2c'), s2c'[j].kind = "ParameterStatus", j > i
          PROVE  s2c'[j].body > s2c'[i].body
      <3>1. j \in 1..Len(s2c) /\ s2c[j] = s2c'[j] BY <1>1, <2>4
      <3> QED BY <2>1, <2>2, <2>4, <3>1
    <2> QED BY <2>1, <2>2, <2>3, <2>4
  <1>5. IsComplete'
    <2>1. ASSUME IsReported, NEW n \in (Len(params) + 1)..sent
          PROVE  \E j \in 1..Len(s2c') : IsParameter(j, n)'
      <3>1. PICK j \in 1..Len(s2c) : IsParameter(j, n) BY <2>1 DEF ParamsInv, IsComplete
      <3>2. n \in Nat BY DEF WireType
      <3> QED BY <1>1, <1>3, <3>1, <3>2
    <2> QED BY <2>1 DEF IsComplete
  <1>6. KeyInv'
    <2> SUFFICES ASSUME NEW i \in 1..Len(s2c')
                 PROVE  /\ s2c'[i].kind = "BackendKeyData" => s2c'[i].body = 1
                        /\ s2c'[i].kind = "ReadyForQuery" =>
                             key' = 1 \/ \E j \in 1..(i - 1) : s2c'[j].kind = "BackendKeyData"
      BY DEF KeyInv
    <2>1. CASE i \in Added BY <2>1
    <2>2. CASE i \in 1..Len(s2c) /\ s2c'[i] = s2c[i]
      <3>1. \A j \in 1..(i - 1) : s2c'[j] = s2c[j] BY <1>1, <2>2 DEF Grows
      <3> QED BY <2>2, <3>1 DEF KeyInv
    <2> QED BY <1>1, <2>1, <2>2
  <1> QED BY <1>2, <1>4, <1>5, <1>6 DEF ParamsInv

\* The server reports the next parameter.
LEMMA DataSent ==
  ASSUME WireType, ParamsInv, KeyInv, params \in Seq(Nat), IsReported, Grows,
         UNCHANGED <<key, params>>, sent' = sent + 1, Len(s2c') = Len(s2c) + 1,
         s2c'[Len(s2c) + 1].kind = "ParameterStatus", s2c'[Len(s2c) + 1].body = sent + 1
  PROVE  ParamsInv' /\ KeyInv'
  <1> DEFINE last == Len(s2c) + 1
  <1>1. Len(params) \in Nat /\ sent \in Nat /\ Len(s2c) \in Nat /\ Len(params) <= sent
    BY DEF WireType, ParamsInv, IsKept
  <1>2. /\ \A i \in 1..Len(s2c') : i = last \/ (i \in 1..Len(s2c) /\ s2c'[i] = s2c[i])
        /\ \A i \in 1..Len(s2c) : i \in 1..Len(s2c') /\ s2c'[i] = s2c[i]
        /\ last \in 1..Len(s2c')
    BY <1>1 DEF Grows
  <1>3. IsKept' BY <1>1 DEF ParamsInv, IsKept
  <1>4. /\ \A i \in 1..Len(s2c), n \in Nat : IsParameter(i, n) => IsParameter(i, n)'
        /\ \A i \in Nat, n \in Nat : (i = last /\ n = sent + 1) => IsParameter(i, n)'
    BY <1>2 DEF IsParameter
  <1>5. \A n \in (Len(params) + 1)..(sent + 1) : \E j \in 1..Len(s2c') : IsParameter(j, n)'
    <2> TAKE n \in (Len(params) + 1)..(sent + 1)
    <2>1. CASE n = sent + 1 BY <1>1, <1>2, <1>4, <2>1
    <2>2. CASE n \in (Len(params) + 1)..sent
      <3>1. PICK j \in 1..Len(s2c) : IsParameter(j, n) BY <2>2 DEF ParamsInv, IsComplete
      <3>2. n \in Nat BY <1>1
      <3> QED BY <1>2, <1>4, <3>1, <3>2
    <2> QED BY <1>1, <2>1, <2>2
  <1>6. Comes'
    <2> SUFFICES ASSUME NEW i \in 1..Len(s2c'), s2c'[i].kind = "ParameterStatus"
                 PROVE  /\ s2c'[i].body \in (Len(params) + 1)..(sent + 1)
                        /\ \A n \in (Len(params) + 1)..s2c'[i].body : \E j \in 1..i : IsParameter(j, n)'
                        /\ \A j \in 1..Len(s2c') :
                             (s2c'[j].kind = "ParameterStatus" /\ j > i) => s2c'[j].body > s2c'[i].body
      BY DEF Comes
    <2>1. CASE i = last
      <3>1. s2c'[i].body \in (Len(params) + 1)..(sent + 1) BY <1>1, <2>1
      <3>2. \A j \in 1..Len(s2c') : ~(j > i) BY <1>1, <2>1
      <3> QED BY <1>5, <2>1, <3>1, <3>2
    <2>2. CASE i \in 1..Len(s2c) /\ s2c'[i] = s2c[i]
      <3>1. /\ s2c[i].body \in (Len(params) + 1)..sent
            /\ \A n \in (Len(params) + 1)..s2c[i].body : \E j \in 1..i : IsParameter(j, n)
            /\ \A j \in 1..Len(s2c) :
                 (s2c[j].kind = "ParameterStatus" /\ j > i) => s2c[j].body > s2c[i].body
        BY <2>2 DEF ParamsInv, Comes
      <3>2. ASSUME NEW n \in (Len(params) + 1)..s2c'[i].body PROVE \E j \in 1..i : IsParameter(j, n)'
        <4>1. PICK j \in 1..i : IsParameter(j, n) BY <2>2, <3>1
        <4>2. j \in 1..Len(s2c) /\ n \in Nat BY <1>1, <2>2, <3>1
        <4> QED BY <1>4, <4>1, <4>2
      <3>3. ASSUME NEW j \in 1..Len(s2c'), s2c'[j].kind = "ParameterStatus", j > i
            PROVE  s2c'[j].body > s2c'[i].body
        <4>1. CASE j = last BY <1>1, <2>2, <3>1, <4>1
        <4>2. CASE j \in 1..Len(s2c) /\ s2c'[j] = s2c[j] BY <2>2, <3>1, <3>3, <4>2
        <4> QED BY <1>2, <4>1, <4>2
      <3> QED BY <1>1, <2>2, <3>1, <3>2, <3>3
    <2> QED BY <1>2, <2>1, <2>2
  <1>7. IsComplete' BY <1>5 DEF IsComplete
  <1>8. KeyInv'
    <2> SUFFICES ASSUME NEW i \in 1..Len(s2c')
                 PROVE  /\ s2c'[i].kind = "BackendKeyData" => s2c'[i].body = 1
                        /\ s2c'[i].kind = "ReadyForQuery" =>
                             key' = 1 \/ \E j \in 1..(i - 1) : s2c'[j].kind = "BackendKeyData"
      BY DEF KeyInv
    <2>1. CASE i = last BY <2>1
    <2>2. CASE i \in 1..Len(s2c) /\ s2c'[i] = s2c[i]
      <3>1. \A j \in 1..(i - 1) : s2c'[j] = s2c[j] BY <1>1, <1>2, <2>2
      <3> QED BY <2>2, <3>1 DEF KeyInv
    <2> QED BY <1>2, <2>1, <2>2
  <1> QED BY <1>3, <1>6, <1>7, <1>8 DEF ParamsInv

\* The last of what was sent is lost: with ReadyForQuery still there, all before it is.
LEMMA DataLost ==
  ASSUME WireType, TurnInv, ParamsInv, KeyInv, params \in Seq(Nat), UNCHANGED <<key, params, sent>>,
         NEW z \in 0..Len(s2c), s2c' = SubSeq(s2c, 1, z), ~up'
  PROVE  ParamsInv' /\ KeyInv'
  <1>1. /\ Len(s2c) \in Nat /\ Len(s2c') = z
        /\ \A i \in 1..z : s2c'[i] = s2c[i] /\ i \in 1..Len(s2c)
    BY PartFacts DEF WireType
  <1>2. IsKept' BY DEF ParamsInv, IsKept
  <1>3. \A i \in 1..z, n \in Nat : IsParameter(i, n) => IsParameter(i, n)'
    BY <1>1 DEF IsParameter
  <1>4. Comes'
    <2> SUFFICES ASSUME NEW i \in 1..Len(s2c'), s2c'[i].kind = "ParameterStatus"
                 PROVE  /\ s2c'[i].body \in (Len(params) + 1)..sent
                        /\ \A n \in (Len(params) + 1)..s2c'[i].body : \E j \in 1..i : IsParameter(j, n)'
                        /\ \A j \in 1..Len(s2c') :
                             (s2c'[j].kind = "ParameterStatus" /\ j > i) => s2c'[j].body > s2c'[i].body
      BY DEF Comes
    <2>1. i \in 1..Len(s2c) /\ s2c'[i] = s2c[i] BY <1>1
    <2>2. /\ s2c[i].body \in (Len(params) + 1)..sent
          /\ \A n \in (Len(params) + 1)..s2c[i].body : \E j \in 1..i : IsParameter(j, n)
          /\ \A j \in 1..Len(s2c) :
               (s2c[j].kind = "ParameterStatus" /\ j > i) => s2c[j].body > s2c[i].body
      BY <2>1 DEF ParamsInv, Comes
    <2>3. ASSUME NEW n \in (Len(params) + 1)..s2c'[i].body PROVE \E j \in 1..i : IsParameter(j, n)'
      <3>1. PICK j \in 1..i : IsParameter(j, n) BY <2>1, <2>2
      <3>2. j \in 1..z /\ n \in Nat BY <1>1, <2>1, <2>2, SMTT(30) DEF WireType
      <3> QED BY <1>3, <3>1, <3>2
    <2>4. ASSUME NEW j \in 1..Len(s2c'), s2c'[j].kind = "ParameterStatus", j > i
          PROVE  s2c'[j].body > s2c'[i].body
      BY <1>1, <2>1, <2>2, <2>4
    <2> QED BY <2>1, <2>2, <2>3, <2>4
  <1>5. IsComplete'
    <2>1. ASSUME IsReported', NEW n \in (Len(params) + 1)..sent
          PROVE  \E j \in 1..Len(s2c') : IsParameter(j, n)'
      <3>1. PICK r \in 1..z : s2c[r].kind = "ReadyForQuery" BY <1>1, <2>1 DEF IsReported
      <3>2. r \in 1..Len(s2c) BY <1>1
      <3>3. IsReported BY <3>1, <3>2 DEF IsReported
      <3>4. PICK j \in 1..Len(s2c) : IsParameter(j, n) BY <3>3 DEF ParamsInv, IsComplete
      <3>5. \A i \in 1..Len(s2c) : i > r => s2c[i].kind = "NoticeResponse"
        BY <3>1, <3>2 DEF TurnInv, ServerTurn, Asks
      <3>6. ~(j > r) BY <3>4, <3>5 DEF IsParameter
      <3>7. j \in 1..z /\ n \in Nat BY <1>1, <3>2, <3>6 DEF WireType
      <3> QED BY <1>1, <1>3, <3>4, <3>7
    <2> QED BY <2>1 DEF IsComplete
  <1>6. KeyInv'
    <2> SUFFICES ASSUME NEW i \in 1..Len(s2c')
                 PROVE  /\ s2c'[i].kind = "BackendKeyData" => s2c'[i].body = 1
                        /\ s2c'[i].kind = "ReadyForQuery" =>
                             key' = 1 \/ \E j \in 1..(i - 1) : s2c'[j].kind = "BackendKeyData"
      BY DEF KeyInv
    <2>1. i \in 1..Len(s2c) /\ s2c'[i] = s2c[i] /\ \A j \in 1..(i - 1) : s2c'[j] = s2c[j]
      BY <1>1
    <2> QED BY <2>1 DEF KeyInv
  <1> QED BY <1>2, <1>4, <1>5, <1>6 DEF ParamsInv

LEMMA DataUnmoved ==
  ASSUME ParamsInv, KeyInv, UNCHANGED <<s2c, params, key, sent, up>> PROVE ParamsInv' /\ KeyInv'
  <1>1. \A i, n : IsParameter(i, n)' <=> IsParameter(i, n) BY DEF IsParameter
  <1>2. IsKept' BY DEF ParamsInv, IsKept
  <1>3. Comes' BY <1>1 DEF ParamsInv, Comes
  <1>4. IsReported' <=> IsReported BY DEF IsReported
  <1>5. IsComplete' BY <1>1, <1>4 DEF ParamsInv, IsComplete
  <1>6. KeyInv' BY DEF KeyInv
  <1> QED BY <1>2, <1>3, <1>5, <1>6 DEF ParamsInv

\* A failed connect keeps nothing.
LEMMA DataFails == ASSUME DataInv, pc' = "failed", UNCHANGED params PROVE DataInv'
  BY DEF DataInv, KeepsServerData

\* A step of connect that takes nothing from the stream.
LEMMA DataStays ==
  ASSUME DataInv, pc # "failed", pc' # "connected", UNCHANGED <<s2c, params, key, sent, up>>
  PROVE  DataInv'
  BY DataUnmoved DEF DataInv, KeepsServerData

\* A step of connect that takes a message which is not a parameter and does not end the loop.
LEMMA DataTaken ==
  ASSUME WireType, DataInv, pc # "failed", pc' # "connected", s2c # <<>>, s2c' = Tail(s2c),
         UNCHANGED <<params, sent, up>>,
         s2c[1].kind \notin {"ParameterStatus", "ReadyForQuery"},
         key' = 1 \/ (key' = key /\ s2c[1].kind # "BackendKeyData")
  PROVE  DataInv'
  BY DataRead DEF DataInv, KeepsServerData

LEMMA DataClient == ASSUME WireType, TurnInv, AuthInv, DataInv, Client PROVE DataInv'
  <1> USE DEF given, saslVars, serverVars, clientVars
  <1>1. CASE TcpConnect \/ SendStartup
    <2>1. pc # "failed" /\ pc' # "connected" /\ UNCHANGED <<s2c, params, key, sent, up>>
      BY <1>1 DEF TcpConnect, SendStartup, GoTo
    <2> QED BY <2>1, DataStays
  <1>2. CASE TcpFails \/ SendFails BY <1>2, DataFails DEF TcpFails, SendFails, Fail
  <1>3. CASE TlsHandshake \/ StreamEnds
    <2>1. pc # "failed" /\ pc' # "connected" /\ UNCHANGED <<s2c, params, key, sent, up>>
      BY <1>3 DEF TlsHandshake, StreamEnds, Gone, GoTo, Fail
    <2> QED BY <2>1, DataStays
  <1>4. CASE SslYes \/ SslNo
    <2>1. pc = "ssl" /\ pc' # "connected" /\ UNCHANGED <<params, key, sent, up>>
          /\ s2c # <<>> /\ s2c' = Tail(s2c) /\ s2c[1].kind \in {"S", "N"}
      BY <1>4 DEF SslYes, SslNo, SslByte, GoTo, Fail
    <2> QED BY <2>1, DataTaken
  <1>5. CASE SslOther \/ LoopBadChallenge \/ LoopError
    BY <1>5, DataFails DEF SslOther, LoopBadChallenge, LoopError, Fail
  <1>6. CASE LoopPassword \/ LoopSasl \/ LoopOther
    <2>1. pc = "loop" /\ pc' # "connected" /\ UNCHANGED <<params, key, sent, up>>
          /\ s2c # <<>> /\ s2c' = Tail(s2c)
          /\ s2c[1].kind \in {"CleartextPassword", "Md5Password", "GaussdbSha256", "Sasl",
                             "AuthenticationOk", "NoticeResponse", "SaslContinue", "SaslFinal"}
      BY <1>6 DEF LoopPassword, LoopSasl, LoopOther, Receive, Kind, GoTo, Fail
    <2> QED BY <2>1, DataTaken
  <1>7. CASE LoopKeyData
    <2>1. pc = "loop" /\ pc' = "loop" /\ UNCHANGED <<params, sent, up>>
          /\ s2c # <<>> /\ s2c' = Tail(s2c) /\ s2c[1].kind = "BackendKeyData" /\ key' = s2c[1].body
      BY <1>7 DEF LoopKeyData, Receive, Kind
    <2>2. 1 \in 1..Len(s2c) BY <2>1, TailFacts DEF WireType
    <2>3. key' = 1 BY <2>1, <2>2 DEF DataInv, KeyInv
    <2> QED BY <2>1, <2>3, DataTaken
  <1>8. CASE LoopParameter
    <2>1. pc = "loop" /\ pc' = "loop" /\ UNCHANGED <<key, sent, up>>
          /\ s2c # <<>> /\ s2c' = Tail(s2c) /\ s2c[1].kind = "ParameterStatus"
          /\ params' = Append(params, s2c[1].body)
      BY <1>8 DEF LoopParameter, Receive, Kind
    <2> QED BY <2>1, DataKept DEF DataInv, KeepsServerData
  <1>9. CASE LoopReady
    <2>1. pc = "loop" /\ UNCHANGED <<key, params, sent, up>>
          /\ s2c # <<>> /\ s2c' = Tail(s2c) /\ s2c[1].kind = "ReadyForQuery"
      BY <1>9 DEF LoopReady, Receive, Kind
    <2> QED BY <2>1, DataReady DEF DataInv, KeepsServerData
  <1>10. CASE SaslFirst
    <2>1. pc = "sasl first" /\ pc' # "connected" /\ UNCHANGED <<key, params, sent, up>>
          /\ s2c # <<>> /\ s2c' = Tail(s2c) /\ (pc' = "failed" \/ s2c[1].kind = "SaslContinue")
      BY <1>10 DEF SaslFirst, Receive, Kind, GoTo, Fail
    <2> QED BY <2>1, DataFails, DataTaken
  <1>11. CASE SaslFinal \/ SaslFinalOther
    <2>1. pc = "sasl final" /\ pc' # "connected" /\ UNCHANGED <<key, params, sent, up>>
          /\ s2c # <<>> /\ s2c' = Tail(s2c)
      BY <1>11 DEF SaslFinal, SaslFinalOther, Receive, GoTo, Fail
    <2>2. 1 \in 1..Len(s2c) BY <2>1, TailFacts DEF WireType
    <2>3. InFinal BY <2>1 DEF InFinal
    <2>4. \A j \in 1..(1 - 1) : FALSE OBVIOUS
    <2>5. s2c[1].kind \notin HandOver BY <2>2, <2>3, <2>4 DEF AuthInv
    <2> QED BY <2>1, <2>5, DataTaken DEF HandOver
  <1> QED BY <1>1, <1>2, <1>3, <1>4, <1>5, <1>6, <1>7, <1>8, <1>9, <1>10, <1>11 DEF Client

LEMMA DataNext == ASSUME WireType, TurnInv, AuthInv, DataInv, [Next]_vars PROVE DataInv'
  <1> USE DEF given, clientVars, serverVars
  <1>1. ASSUME UNCHANGED <<pc, key, params>>,
               pc # "failed" => ParamsInv' /\ KeyInv', pc = "connected" => sent' = sent
        PROVE  DataInv'
    BY <1>1 DEF DataInv, KeepsServerData
  <1>2. CASE AnswerSsl \/ AskForPassword \/ Verdict \/ SaslContinue \/ SaslVerdict \/ Notice
    <2>1. UNCHANGED <<pc, key, params, sent>> /\ Grows /\ (up' => up)
          /\ \A i \in Added : s2c'[i].kind \notin HandOver
      BY <1>2, ServerGrows
    <2>2. \A i \in Added :
            s2c'[i].kind # "ParameterStatus" /\ s2c'[i].kind # "BackendKeyData"
              /\ s2c'[i].kind # "ReadyForQuery"
      BY <2>1 DEF HandOver
    <2>3. IsReported' => IsReported BY <2>1, <2>2 DEF IsReported, Grows, Added
    <2>4. pc # "failed" => ParamsInv' /\ KeyInv' BY <2>1, <2>2, <2>3, DataGrows DEF DataInv
    <2> QED BY <1>1, <2>1, <2>4
  <1>3. CASE SendParameter
    <2>1. IsReported BY <1>3, ParameterGrows DEF IsReported
    <2>2. pc # "failed" => ParamsInv' /\ KeyInv' BY <1>3, <2>1, ParameterGrows, DataSent DEF DataInv
    <2>3. pc # "connected" BY <1>3, ParameterGrows DEF TurnInv, HandsOverInSync
    <2> QED BY <1>1, <1>3, <2>2, <2>3, ParameterGrows
  <1>4. CASE FinishStartup
    <2>1. /\ Grows /\ Len(s2c') = Len(s2c) + 2
          /\ s2c'[Len(s2c) + 1].kind = "BackendKeyData" /\ s2c'[Len(s2c) + 1].body = 1
          /\ s2c'[Len(s2c) + 2].kind = "ReadyForQuery"
          /\ up /\ UNCHANGED <<up, sent, pc, key, params>>
      BY <1>4, FinishGrows
    <2>2. IsReported BY <2>1 DEF IsReported
    <2>3. Added = {Len(s2c) + 1, Len(s2c) + 2} /\ Len(s2c) \in Nat BY <2>1 DEF Added, Grows
    <2>4. Len(s2c) + 1 \in 1..(Len(s2c) + 2 - 1) BY <2>3
    <2>5. \A i \in Added : s2c'[i].kind = "ReadyForQuery" =>
            \E j \in 1..(i - 1) : s2c'[j].kind = "BackendKeyData"
      BY <2>1, <2>3, <2>4
    <2>6. \A i \in Added : s2c'[i].kind # "ParameterStatus" BY <2>1, <2>3
    <2>7. \A i \in Added : s2c'[i].kind = "BackendKeyData" => s2c'[i].body = 1 BY <2>1, <2>3
    <2>8. pc # "failed" => ParamsInv' /\ KeyInv'
      BY <2>1, <2>2, <2>5, <2>6, <2>7, DataGrows DEF DataInv
    <2> QED BY <1>1, <2>1, <2>8
  <1>5. CASE Lose
    <2>1. UNCHANGED <<pc, key, params, sent>> /\ ~up' BY <1>5 DEF Lose
    <2>2. PICK z \in 0..Len(s2c) : s2c' = SubSeq(s2c, 1, z) BY <1>5 DEF Lose
    <2>3. pc # "failed" => ParamsInv' /\ KeyInv' BY <2>1, <2>2, DataLost DEF DataInv
    <2> QED BY <1>1, <2>1, <2>3
  <1>6. CASE Hang \/ UNCHANGED vars
    <2>1. UNCHANGED <<pc, s2c, params, key, sent, up>> BY <1>6 DEF Hang, vars
    <2>2. pc # "failed" => ParamsInv' /\ KeyInv' BY <2>1, DataUnmoved DEF DataInv
    <2> QED BY <1>1, <2>1, <2>2
  <1> QED BY <1>2, <1>3, <1>4, <1>5, <1>6, DataClient DEF Next, Server

\* The connection knows its cancel key and every parameter the server reported, in order,
\* whichever exchange consumed the messages before them (connection.rs:84-131, 294-345).
THEOREM ServerDataCorrect == Spec => []KeepsServerData
  <1>1. Init => WireType /\ TurnInv
    BY DEF Init, WireType, TurnInv, ClientTurn, ServerTurn, EarlyTurn, HandsOverInSync
  <1>2. Init => AuthInv BY DEF Init, AuthInv, InFinal
  <1>3. Init => DataInv
    BY DEF Init, DataInv, KeepsServerData, ParamsInv, IsKept, Comes, IsComplete, KeyInv
  <1>4. DataInv => KeepsServerData BY DEF DataInv
  <1> QED BY <1>1, <1>2, <1>3, <1>4, WireNext, TurnNext, AuthNext, DataNext, PTL DEF Spec

-----------------------------------------------------------------------------
(* Type correctness *)

ClientType ==
  /\ tls \in BOOLEAN
  /\ pc \in {"tcp", "ssl", "tls", "startup", "loop", "sasl first", "sasl final", "connected", "failed"}
  /\ auth \in {"none", "first", "final", "done"} /\ key \in {0, 1}
  /\ answer \in {"none", "S", "N", "E"} /\ final \in {"none", "match", "neither"}

ParamsType == params \in Seq(1..MaxParams)

ServerType ==
  /\ cfg \in Configs /\ challenge \in Requests /\ faulty \in BOOLEAN
  /\ up \in BOOLEAN /\ silent \in BOOLEAN /\ notices \in 0..MaxNotices /\ sent \in 0..MaxParams

\* The client keeps only what the messages can hold.
LEMMA ClientTypeNext == ASSUME WireType, DataInv, ClientType, [Next]_vars PROVE ClientType'
  <1> USE DEF given, saslVars, clientVars, serverVars, ClientType
  <1>1. CASE TcpConnect \/ TcpFails \/ TlsHandshake \/ SendStartup
    BY <1>1 DEF TcpConnect, TcpFails, TlsHandshake, SendStartup, GoTo, Fail
  <1>2. CASE SslYes \/ SslNo \/ SslOther BY <1>2 DEF SslYes, SslNo, SslOther, SslByte, GoTo, Fail
  <1>3. CASE LoopPassword \/ LoopBadChallenge \/ LoopParameter \/ LoopReady \/ LoopError \/ LoopOther
    BY <1>3 DEF LoopPassword, LoopBadChallenge, LoopParameter, LoopReady, LoopError, LoopOther,
                Receive, GoTo, Fail
  <1>4. CASE LoopKeyData
    <2>1. pc = "loop" /\ s2c # <<>> /\ s2c[1].kind = "BackendKeyData" /\ key' = s2c[1].body
          /\ UNCHANGED <<tls, pc, auth, answer, final>>
      BY <1>4 DEF LoopKeyData, Receive, Kind
    <2>2. 1 \in 1..Len(s2c) BY <2>1, TailFacts DEF WireType
    <2>3. key' = 1 BY <2>1, <2>2 DEF DataInv, KeyInv
    <2> QED BY <2>1, <2>3
  <1>5. CASE LoopSasl BY <1>5 DEF LoopSasl, Receive, GoTo, Fail
  <1>6. CASE SaslFirst BY <1>6 DEF SaslFirst, Receive, GoTo, Fail
  <1>7. CASE SaslFinal \/ SaslFinalOther
    BY <1>7, FinalBody DEF SaslFinal, SaslFinalOther, Receive, GoTo, Fail
  <1>8. CASE StreamEnds \/ SendFails BY <1>8 DEF StreamEnds, SendFails, Gone, GoTo, Fail
  <1>9. CASE Server \/ Notice \/ Hang \/ Lose BY <1>9, ServerLeaves
  <1>10. CASE UNCHANGED vars BY <1>10 DEF vars
  <1> QED BY <1>1, <1>2, <1>3, <1>4, <1>5, <1>6, <1>7, <1>8, <1>9, <1>10 DEF Next, Client

\* Only the server changes what is its own.
LEMMA ClientLeaves == ASSUME Client PROVE UNCHANGED <<given, up, silent, sent, notices>>
  <1> USE DEF serverVars
  <1>1. CASE TcpConnect \/ TcpFails \/ TlsHandshake \/ SendStartup \/ StreamEnds \/ SendFails
    BY <1>1 DEF TcpConnect, TcpFails, TlsHandshake, SendStartup, StreamEnds, Gone, SendFails
  <1>2. CASE SslYes \/ SslNo \/ SslOther BY <1>2 DEF SslYes, SslNo, SslOther, SslByte
  <1>3. CASE LoopPassword \/ LoopBadChallenge \/ LoopSasl \/ LoopParameter \/ LoopKeyData \/ LoopReady
               \/ LoopError \/ LoopOther
    BY <1>3 DEF LoopPassword, LoopBadChallenge, LoopSasl, LoopParameter, LoopKeyData, LoopReady,
                LoopError, LoopOther, Receive
  <1>4. CASE SaslFirst \/ SaslFinal \/ SaslFinalOther
    BY <1>4 DEF SaslFirst, SaslFinal, SaslFinalOther, Receive
  <1> QED BY <1>1, <1>2, <1>3, <1>4 DEF Client

LEMMA ServerTypeNext == ASSUME ServerType, [Next]_vars PROVE ServerType'
  <1> USE DEF ServerType, given, serverVars
  <1>1. CASE Client
    <2>1. UNCHANGED <<cfg, challenge, faulty, up, silent, sent, notices>> BY <1>1, ClientLeaves
    <2> QED BY <2>1
  <1>2. CASE AnswerSsl \/ AskForPassword \/ FinishStartup
    <2>1. UNCHANGED <<cfg, challenge, faulty, up, silent, sent, notices>>
      BY <1>2 DEF AnswerSsl, AskForPassword, FinishStartup, Tell
    <2> QED BY <2>1
  <1>3. CASE Verdict \/ SaslContinue \/ SaslVerdict
    <2>1. UNCHANGED <<cfg, challenge, faulty, silent, sent, notices>> /\ up' \in {up, FALSE}
      BY <1>3 DEF Verdict, SaslContinue, SaslVerdict, Reject, Tell
    <2> QED BY <2>1
  <1>4. CASE SendParameter
    <2>1. sent < MaxParams /\ sent' = sent + 1 /\ UNCHANGED <<cfg, challenge, faulty, up, silent, notices>>
      BY <1>4 DEF SendParameter
    <2> QED BY <2>1, StartupAssumption
  <1>5. CASE Notice
    <2>1. notices < MaxNotices /\ notices' = notices + 1
          /\ UNCHANGED <<cfg, challenge, faulty, up, silent, sent>>
      BY <1>5 DEF Notice
    <2> QED BY <2>1, StartupAssumption
  <1>6. CASE Hang
    <2>1. silent' = TRUE /\ UNCHANGED <<cfg, challenge, faulty, up, sent, notices>> BY <1>6 DEF Hang
    <2> QED BY <2>1
  <1>7. CASE Lose
    <2>1. up' = FALSE /\ UNCHANGED <<cfg, challenge, faulty, silent, sent, notices>> BY <1>7 DEF Lose
    <2> QED BY <2>1
  <1>8. CASE UNCHANGED vars
    <2>1. UNCHANGED <<cfg, challenge, faulty, up, silent, sent, notices>> BY <1>8 DEF vars
    <2> QED BY <2>1
  <1> QED BY <1>1, <1>2, <1>3, <1>4, <1>5, <1>6, <1>7, <1>8 DEF Next, Server

\* The parameters that are kept were sent.
LEMMA ParamsTypeNext ==
  ASSUME WireType, DataInv, ServerType, ParamsType, [Next]_vars
  PROVE  ParamsType'
  <1> USE DEF ParamsType, given, saslVars, clientVars, serverVars
  <1>1. CASE LoopParameter
    <2>1. pc = "loop" /\ s2c # <<>> /\ s2c[1].kind = "ParameterStatus"
          /\ params' = Append(params, s2c[1].body)
      BY <1>1 DEF LoopParameter, Receive, Kind
    <2>2. 1 \in 1..Len(s2c) BY <2>1, TailFacts DEF WireType
    <2>3. s2c[1].body \in (Len(params) + 1)..sent BY <2>1, <2>2 DEF DataInv, ParamsInv, Comes
    <2>4. s2c[1].body \in 1..MaxParams BY <2>3, StartupAssumption DEF ServerType
    <2> QED BY <2>1, <2>4
  <1>2. CASE Client /\ ~LoopParameter
    <2>1. CASE TcpConnect \/ TcpFails \/ SslYes \/ SslNo \/ SslOther \/ TlsHandshake \/ SendStartup
      BY <2>1 DEF TcpConnect, TcpFails, SslYes, SslNo, SslOther, SslByte, TlsHandshake, SendStartup,
                  GoTo, Fail
    <2>2. CASE LoopPassword \/ LoopBadChallenge \/ LoopSasl \/ LoopKeyData \/ LoopReady \/ LoopError
                 \/ LoopOther
      BY <2>2 DEF LoopPassword, LoopBadChallenge, LoopSasl, LoopKeyData, LoopReady, LoopError, LoopOther,
                  Receive, GoTo, Fail
    <2>3. CASE SaslFirst \/ SaslFinal \/ SaslFinalOther
      BY <2>3 DEF SaslFirst, SaslFinal, SaslFinalOther, Receive, GoTo, Fail
    <2>4. CASE StreamEnds \/ SendFails BY <2>4 DEF StreamEnds, SendFails, Gone, GoTo, Fail
    <2> QED BY <1>2, <2>1, <2>2, <2>3, <2>4 DEF Client
  <1>3. CASE Server \/ Notice \/ Hang \/ Lose BY <1>3, ServerLeaves
  <1>4. CASE UNCHANGED vars BY <1>4 DEF vars
  <1> QED BY <1>1, <1>2, <1>3, <1>4 DEF Next

\* Every variable keeps its type: the states of connect and of GaussAuthState, the key and
\* the parameters (connection.rs:30-131, auth.rs:15-40).
THEOREM TypeCorrect == Spec => []TypeOK
  <1>1. Init => WireType /\ TurnInv
    BY DEF Init, WireType, TurnInv, ClientTurn, ServerTurn, EarlyTurn, HandsOverInSync
  <1>2. Init => AuthInv BY DEF Init, AuthInv, InFinal
  <1>3. Init => DataInv
    BY DEF Init, DataInv, KeepsServerData, ParamsInv, IsKept, Comes, IsComplete, KeyInv
  <1>4. Init => ClientType BY DEF Init, ClientType
  <1>5. Init => ServerType
    <2>1. 0 \in 0..MaxParams /\ 0 \in 0..MaxNotices BY StartupAssumption
    <2> QED BY <2>1 DEF Init, ServerType
  <1>6. Init => ParamsType BY DEF Init, ParamsType
  <1>7. ClientType /\ ServerType /\ ParamsType => TypeOK
    <2>1. ASSUME ClientType, ServerType PROVE {faulty, tls, up, silent} \subseteq BOOLEAN
      BY <2>1 DEF ClientType, ServerType
    <2> QED BY <2>1 DEF ClientType, ServerType, ParamsType, TypeOK
  <1> QED BY <1>1, <1>2, <1>3, <1>4, <1>5, <1>6, <1>7, WireNext, TurnNext, AuthNext, DataNext,
             ClientTypeNext, ServerTypeNext, ParamsTypeNext, PTL DEF Spec

=============================================================================
