------------------------------ MODULE Startup -------------------------------
(***************************************************************************)
(* Connection::connect (src/connection.rs): TCP, the TLS negotiation, the   *)
(* startup loop and the authentication exchanges inside it, with the state  *)
(* machine of src/auth.rs and the challenges as src/codec.rs decodes them.  *)
(*                                                                         *)
(* Messages arrive one at a time: what Framed does with them is Framed's    *)
(* subject. Keys, salts and proofs are known by what they were made from: a  *)
(* GaussDB proof is right when password and iteration count are, a SASL one  *)
(* when the password is. Which mechanism it was announced as (always         *)
(* SCRAM-SHA-256) matters only to a server that goes by that name.           *)
(***************************************************************************)
EXTENDS Naturals, Sequences

CONSTANTS
  MaxParams,   \* bound: ParameterStatus messages
  MaxNotices   \* bound: NoticeResponses

ASSUME StartupAssumption == MaxParams \in Nat /\ MaxNotices \in Nat

VARIABLES
  cfg,        \* Config: ssl_mode, whether connect_timeout is set, password is right; whether
              \* the crate was built with the "tls" feature, and whether verification
              \* accepts the server's certificate
  challenge,  \* how the server authenticates
  faulty,     \* whether network and server may fail
  pc,         \* where connect is
  err,        \* the Err it returned
  tls,        \* the stream is encrypted
  answer,     \* history: the byte the server answered SSLRequest with ("none": not read)
  mechanism,  \* the SASL mechanism chosen
  announced,  \* the one named in SASLInitialResponse
  auth,       \* GaussAuthState: "none", "first", "final", "done"
  final,      \* history: the SaslFinal that process_server_final accepted ("none": none)
  key,        \* process_id and secret_key: number of the BackendKeyData (0: none)
  params,     \* parameters
  srv,        \* the server: what it waits for or does next
  up, silent, \* it holds the connection; it has stopped answering
  sent,       \* ParameterStatus sent
  notices,    \* NoticeResponses sent
  c2s, s2c    \* messages on their way

given      == <<cfg, challenge, faulty>>
saslVars   == <<mechanism, announced, auth, final>>
clientVars == <<pc, err, tls, answer, saslVars, key, params>>
serverVars == <<srv, up, silent, sent, notices>>
vars == <<given, clientVars, serverVars, c2s, s2c>>

SslModes == {"disable", "prefer", "require", "verify-ca", "verify-full"}
Verifying == {"verify-ca", "verify-full"}

\* Where no certificate is verified, "trusted" tells nothing apart.
Configs ==
  {c \in [ssl : SslModes, timeout : BOOLEAN, password : BOOLEAN, tlsFeature : BOOLEAN, trusted : BOOLEAN] :
     c.trusted \/ (c.ssl \in Verifying /\ c.tlsFeature)}

-----------------------------------------------------------------------------
(* Authentication requests. "type" is the code on the wire; for SASL (10),  *)
(* "zero" says that the body starts with a zero byte (the GaussDB form, with *)
(* its "stored" method and "rest" bytes), else "names" are the mechanisms.   *)
(* "count" is the iteration count of the server's stored password; "strict"  *)
(* says that the server holds a SASL proof to the mechanism it was announced *)
(* as.                                                                       *)

Request ==
  [type : Nat, zero : BOOLEAN, stored : Nat, rest : Nat, names : SUBSET STRING, count : Nat,
   strict : BOOLEAN]

Plain(type) ==
  [type |-> type, zero |-> FALSE, stored |-> 0, rest |-> 0, names |-> {}, count |-> 0, strict |-> FALSE]
Sasl(names) == [Plain(10) EXCEPT !.names = names]
Strict(request) == [request EXCEPT !.strict = TRUE]
Gauss(stored, rest, count) ==
  [Plain(10) EXCEPT !.zero = TRUE, !.stored = stored, !.rest = rest, !.count = count]

\* What servers send (external): 72 bytes of random code and token, then a signature of
\* 64, an iteration count of 4, both, or none (which means 10000). A server that sends a
\* signature but no count uses one of the counts that detect_iteration tries.
Requests ==
  {Plain(0), Plain(3), Plain(5), Plain(7)}
    \cup {Sasl({"SCRAM-SHA-256"}), Sasl({"SHA256", "SCRAM-SHA-256"}), Sasl({"PLAIN"})}
    \cup {Gauss(2, 72, 10000), Gauss(2, 76, 5000), Gauss(0, 76, 10000)}
    \cup {Gauss(2, 136, 10000), Gauss(2, 136, 2048), Gauss(2, 140, 5000), Gauss(2, 140, 2048)}
    \cup {Gauss(2, 0, 10000), Gauss(3, 8, 10000), Gauss(1, 0, 10000)}
    \cup {Strict(Sasl({"SHA256", "SCRAM-SHA-256"})), Strict(Sasl({"SHA256"}))}

\* decode_auth. "unsupported" is the decode error.
Decode(r) ==
  LET m(kind) == [kind |-> kind, names |-> {}, signed |-> FALSE, iteration |-> 0]
  IN CASE r.type = 0 -> m("AuthenticationOk")
       [] r.type = 3 -> m("CleartextPassword")
       [] r.type = 5 -> m("Md5Password")
       [] r.type = 10 /\ r.zero /\ r.stored \in {0, 2} /\ r.rest >= 72 ->
            [m("GaussdbSha256") EXCEPT
               !.signed = r.rest - 72 >= 64,
               !.iteration = IF r.rest - 72 = 4 \/ r.rest - 72 >= 68 THEN r.count ELSE 10000]
       [] r.type = 10 /\ r.zero /\ (r.stored \notin {0, 2} \/ r.rest < 72) ->
            [m("Sasl") EXCEPT !.names = IF r.stored = 2 THEN {"SHA256"}
                                        ELSE IF r.stored = 3 THEN {"MD5_SHA256"} ELSE {"unknown"}]
       [] r.type = 10 /\ ~r.zero -> [m("Sasl") EXCEPT !.names = r.names]
       [] OTHER -> m("unsupported")

\* Mutant: the announced count is not read when there is a signature.
TrustDefaultCount(m, count, rightPassword) == IF m.signed THEN 10000 ELSE m.iteration

\* detect_iteration: with the right password, a candidate count reproduces the server's
\* signature exactly when it is the count of the stored password.
IterationUsed(m, count, rightPassword) ==
  IF m.signed /\ rightPassword /\ count \in {10000, 2048} THEN count ELSE m.iteration

-----------------------------------------------------------------------------
Init ==
  /\ cfg \in Configs /\ challenge \in Requests /\ faulty \in BOOLEAN
  /\ pc = "tcp" /\ err = "none" /\ tls = FALSE /\ answer = "none"
  /\ mechanism = "none" /\ announced = "none" /\ auth = "none" /\ final = "none"
  /\ key = 0 /\ params = <<>>
  /\ srv \in {"listen"} \cup (IF faulty THEN {"refuse", "unreachable"} ELSE {})
  /\ up = TRUE /\ silent = FALSE /\ sent = 0 /\ notices = 0
  /\ c2s = <<>> /\ s2c = <<>>

\* What PgCodec makes of a server's messages; "unsupported" is a decode error.
MessageKinds ==
  {"AuthenticationOk", "CleartextPassword", "Md5Password", "GaussdbSha256", "Sasl", "SaslContinue",
   "SaslFinal", "unsupported", "ParameterStatus", "BackendKeyData", "ReadyForQuery",
   "ErrorResponse", "NoticeResponse"}

M(kind) == [kind |-> kind, body |-> 0]

\* connect goes on at "next".
GoTo(next) == pc' = next /\ UNCHANGED err

\* connect returns Err(e).
Fail(e) == pc' = "failed" /\ err' = e /\ UNCHANGED <<tls, saslVars, key, params, c2s>>

Say(kind) == c2s' = Append(c2s, kind)

---- \* The client before the startup loop

\* TcpStream::connect, under the timeout if there is one, and then the SSLRequest.
TcpConnect ==
  /\ pc = "tcp" /\ srv = "listen"
  /\ IF cfg.ssl = "disable"
       THEN GoTo("startup") /\ srv' = "startup" /\ UNCHANGED c2s
       ELSE GoTo("ssl") /\ srv' = "ssl" /\ Say("SSLRequest")
  /\ UNCHANGED <<given, tls, answer, saslVars, key, params, up, silent, sent, notices, s2c>>

TcpFails ==
  /\ pc = "tcp"
  /\ \/ srv = "refuse" /\ Fail("Io")
     \/ cfg.timeout /\ faulty /\ Fail("timed out")
  /\ UNCHANGED <<given, answer, serverVars, s2c>>

\* read_exact of one byte.
SslByte(byte) ==
  /\ pc = "ssl" /\ s2c # <<>> /\ s2c' = Tail(s2c) /\ s2c[1].kind = byte
  /\ answer' = byte
  /\ UNCHANGED <<given, serverVars>>

SslYes ==
  /\ SslByte("S")
  /\ IF cfg.tlsFeature THEN GoTo("tls") /\ UNCHANGED <<tls, saslVars, key, params, c2s>>
     ELSE Fail("TLS required but built without TLS support")

\* Mutant: a refusal is never an error.
SslNoIsFine ==
  /\ SslByte("N")
  /\ GoTo("startup") /\ UNCHANGED <<tls, saslVars, key, params, c2s>>

SslNo ==
  /\ SslByte("N")
  /\ IF cfg.ssl = "require" THEN Fail("TLS required but server refused")
     ELSE GoTo("startup") /\ UNCHANGED <<tls, saslVars, key, params, c2s>>

SslOther == SslByte("E") /\ Fail("Protocol")

\* The certificate is verified for two of the modes only: the others accept any.
Verifies == cfg.ssl \in Verifying

\* The certificate files, which may be unreadable, and the native-tls handshake.
TlsHandshake ==
  /\ pc = "tls" /\ (silent => ~up)
  /\ \/ (faulty \/ (Verifies /\ ~cfg.trusted)) /\ Fail("Tls")
     \/ /\ up /\ (Verifies => cfg.trusted)
        /\ GoTo("startup") /\ tls' = TRUE /\ UNCHANGED <<saslVars, key, params, c2s>>
  /\ UNCHANGED <<given, answer, serverVars, s2c>>

SendStartup ==
  /\ pc = "startup" /\ GoTo("loop") /\ Say("Startup")
  /\ UNCHANGED <<given, tls, answer, saslVars, key, params, serverVars, s2c>>

---- \* The loop

Kind == s2c[1].kind

\* The next message, decoded.
Receive(where, kinds) ==
  /\ pc = where /\ s2c # <<>> /\ Kind \in kinds /\ s2c' = Tail(s2c)
  /\ UNCHANGED <<given, answer, serverVars>>

\* A password message: cleartext, MD5, or the proof of rfc5802_sha256, which is made with
\* the iteration count the client settles on.
LoopPassword ==
  /\ Receive("loop", {"CleartextPassword", "Md5Password", "GaussdbSha256"})
  /\ Say(IF Kind = "GaussdbSha256"
              /\ IterationUsed(s2c[1].body, challenge.count, cfg.password) # challenge.count
         THEN "WrongProof" ELSE "Password")
  /\ UNCHANGED clientVars

\* rfc5802_sha256 fails: the random code or the token is not hexadecimal.
LoopBadChallenge ==
  faulty /\ Receive("loop", {"GaussdbSha256"}) /\ Fail("Authentication")

\* The order of preference of authenticate_sasl.
Chosen(names) ==
  IF "SCRAM-SHA-256" \in names THEN "SCRAM-SHA-256"
  ELSE IF "SHA256" \in names THEN "SHA256"
  ELSE IF "MD5_SHA256" \in names THEN "MD5_SHA256" ELSE "none"

\* authenticate_sasl, up to its first answer. Both exchanges announce SCRAM-SHA-256.
LoopSasl ==
  /\ Receive("loop", {"Sasl"})
  /\ LET chosen == Chosen(s2c[1].body.names) IN
     IF chosen = "none" THEN Fail("Authentication")
     ELSE /\ GoTo("sasl first") /\ Say("SASLInitialResponse")
          /\ mechanism' = chosen /\ announced' = "SCRAM-SHA-256" /\ auth' = "first"
          /\ UNCHANGED <<final, tls, key, params>>

\* Mutant: a later parameter takes the place of the earlier ones.
ReplaceParameter ==
  /\ Receive("loop", {"ParameterStatus"})
  /\ params' = <<s2c[1].body>>
  /\ UNCHANGED <<pc, err, tls, saslVars, key, c2s>>

LoopParameter ==
  /\ Receive("loop", {"ParameterStatus"})
  /\ params' = Append(params, s2c[1].body)
  /\ UNCHANGED <<pc, err, tls, saslVars, key, c2s>>

LoopKeyData ==
  /\ Receive("loop", {"BackendKeyData"})
  /\ key' = s2c[1].body
  /\ UNCHANGED <<pc, err, tls, saslVars, params, c2s>>

\* Mutant: BackendKeyData, the last message but one, ends the loop.
ReadyAtKeyData ==
  /\ Receive("loop", {"ReadyForQuery", "BackendKeyData"})
  /\ GoTo("connected") /\ UNCHANGED <<tls, saslVars, key, params, c2s>>

LoopReady ==
  /\ Receive("loop", {"ReadyForQuery"})
  /\ GoTo("connected") /\ UNCHANGED <<tls, saslVars, key, params, c2s>>

\* "unsupported" is a decode error.
LoopError ==
  \/ Receive("loop", {"ErrorResponse"}) /\ Fail("Database")
  \/ Receive("loop", {"unsupported"}) /\ Fail("Io")

\* Mutant: a notice is kept like a parameter.
KeepNotice ==
  /\ Receive("loop", {"AuthenticationOk", "NoticeResponse", "SaslContinue", "SaslFinal"})
  /\ params' = Append(params, 0)
  /\ UNCHANGED <<pc, err, tls, saslVars, key, c2s>>

LoopOther ==
  /\ Receive("loop", {"AuthenticationOk", "NoticeResponse", "SaslContinue", "SaslFinal"})
  /\ UNCHANGED <<clientVars, c2s>>

---- \* The SASL exchanges

\* process_server_first: a nonce, salt or count that is missing or wrong is an error.
SaslFirst ==
  \/ /\ Receive("sasl first", {"SaslContinue"})
     /\ IF s2c[1].body = 0 THEN Fail("Authentication")
        ELSE /\ GoTo("sasl final") /\ Say("SASLResponse")
             /\ auth' = "final" /\ UNCHANGED <<mechanism, announced, final, tls, key, params>>
  \/ Receive("sasl first", {"ErrorResponse"}) /\ Fail("Authentication")
  \/ Receive("sasl first", MessageKinds \ {"SaslContinue", "ErrorResponse"}) /\ Fail("Protocol")

\* process_server_final: a signature that does not match, or "e=", is an error. What begins
\* with neither "v=" nor "e=" is accepted, with no signature to compare.
SaslFinal ==
  \/ /\ Receive("sasl final", {"SaslFinal"})
     /\ IF s2c[1].body \in {"mismatch", "e="} THEN Fail("Authentication")
        ELSE GoTo("loop") /\ auth' = "done" /\ final' = s2c[1].body
             /\ UNCHANGED <<mechanism, announced, tls, key, params, c2s>>
  \/ Receive("sasl final", {"ErrorResponse"}) /\ Fail("Authentication")

\* Mutant: authenticate_scram_sha256 has the last arm of the other exchange.
ScramLetsPass ==
  /\ Receive("sasl final", MessageKinds \ {"SaslFinal", "ErrorResponse"})
  /\ GoTo("loop") /\ UNCHANGED <<tls, saslVars, key, params, c2s>>

\* Anything else: SCRAM gives up; the GaussDB exchange takes AuthenticationOk, and lets
\* any other message pass, unread.
SaslFinalOther ==
  /\ Receive("sasl final", MessageKinds \ {"SaslFinal", "ErrorResponse"})
  /\ IF mechanism = "SCRAM-SHA-256" THEN Fail("Protocol")
     ELSE GoTo("loop") /\ UNCHANGED <<tls, saslVars, key, params, c2s>>

---- \* The connection is gone

Gone(where) ==
  /\ pc \in where /\ ~up /\ s2c = <<>>
  /\ UNCHANGED <<given, answer, serverVars, s2c>>

\* Mutant: the loop waits on.
NoneIsIgnored ==
  \/ Gone({"ssl"}) /\ Fail("Io")
  \/ Gone({"loop"}) /\ UNCHANGED <<clientVars, c2s>>
  \/ Gone({"sasl first", "sasl final"}) /\ Fail("Protocol")

\* next() is None or an error. The last arm of the GaussDB exchange lets it pass, and the
\* loop then meets it again.
StreamEnds ==
  \/ Gone({"ssl"}) /\ Fail("Io")
  \/ \E e \in {"Protocol", "Io"} : Gone({"loop"}) /\ Fail(e)
  \/ Gone({"sasl first"}) /\ Fail("Protocol")
  \/ /\ Gone({"sasl final"})
     /\ IF mechanism = "SCRAM-SHA-256" THEN Fail("Protocol")
        ELSE GoTo("loop") /\ UNCHANGED <<tls, saslVars, key, params, c2s>>

\* send returns an error. A write to a lost connection may also be accepted.
SendFails ==
  /\ ~up
  /\ \/ pc = "startup"
     \/ /\ pc = "loop" /\ s2c # <<>>
        /\ Kind \in {"CleartextPassword", "Md5Password", "GaussdbSha256"}
               \cup (IF Chosen(Decode(challenge).names) = "none" THEN {} ELSE {"Sasl"})
     \/ pc = "sasl first" /\ s2c # <<>> /\ Kind = "SaslContinue" /\ s2c[1].body # 0
  /\ Fail("Io")
  /\ UNCHANGED <<given, answer, serverVars, s2c>>

-----------------------------------------------------------------------------
(* The server (external) *)

\* It sends these messages, and then does "next".
Tell(messages, next) ==
  /\ up /\ ~silent
  /\ s2c' = s2c \o messages /\ srv' = next
  /\ UNCHANGED <<given, clientVars, silent, sent, notices>>

Hears(kind) == c2s # <<>> /\ c2s[1] = kind /\ c2s' = Tail(c2s)

AnswerSsl ==
  /\ srv = "ssl" /\ Hears("SSLRequest")
  /\ \E byte \in {"S", "N"} \cup (IF faulty THEN {"E"} ELSE {}) : Tell(<<M(byte)>>, "startup")
  /\ UNCHANGED up

AskForPassword ==
  LET m == Decode(challenge)
  IN /\ srv = "startup" /\ Hears("Startup")
     /\ Tell(<<[kind |-> m.kind, body |-> m]>>,
             CASE m.kind = "AuthenticationOk" -> "params"
               [] m.kind = "Sasl" -> "sasl first"
               [] OTHER -> "verdict")
     /\ UNCHANGED up

Reject == Tell(<<M("ErrorResponse")>>, "closed") /\ up' = FALSE

Verdict ==
  /\ srv = "verdict"
  /\ \/ /\ Hears("Password") /\ cfg.password
        /\ Tell(<<M("AuthenticationOk")>>, "params") /\ UNCHANGED up
     \/ Hears("Password") /\ ~cfg.password /\ Reject
     \/ Hears("WrongProof") /\ Reject

\* In a faulty run its nonce, salt or count may be wrong (0), and its final message may
\* hold a wrong signature, an error, or neither of the two.
Bodies == {1} \cup (IF faulty THEN {0} ELSE {})
FinalBodies == {"match"} \cup (IF faulty THEN {"mismatch", "e=", "neither"} ELSE {})

SaslContinue ==
  /\ srv = "sasl first" /\ Hears("SASLInitialResponse")
  /\ \/ /\ \E good \in Bodies : Tell(<<[kind |-> "SaslContinue", body |-> good]>>, "sasl final")
        /\ UNCHANGED up
     \/ faulty /\ Reject

\* A strict server takes no proof that was made for another mechanism than the announced.
Accepts == cfg.password /\ (challenge.strict => mechanism = announced)

\* openGauss may leave out SaslFinal.
SaslVerdict ==
  /\ srv = "sasl final" /\ Hears("SASLResponse")
  /\ \/ /\ Accepts /\ UNCHANGED up
        /\ \/ \E body \in FinalBodies :
                Tell(<<[kind |-> "SaslFinal", body |-> body], M("AuthenticationOk")>>, "params")
           \/ mechanism # "SCRAM-SHA-256" /\ Tell(<<M("AuthenticationOk")>>, "params")
     \/ ~Accepts /\ Reject

SendParameter ==
  /\ srv = "params" /\ sent < MaxParams /\ up /\ ~silent
  /\ s2c' = Append(s2c, [kind |-> "ParameterStatus", body |-> sent + 1])
  /\ sent' = sent + 1
  /\ UNCHANGED <<given, clientVars, srv, up, silent, notices, c2s>>

FinishStartup ==
  /\ srv = "params"
  /\ Tell(<<[kind |-> "BackendKeyData", body |-> 1], M("ReadyForQuery")>>, "ready")
  /\ UNCHANGED <<up, c2s>>

\* A notice, once the startup message was read.
Notice ==
  /\ notices < MaxNotices /\ srv \in {"verdict", "sasl first", "sasl final", "params", "ready"}
  /\ up /\ ~silent
  /\ s2c' = Append(s2c, M("NoticeResponse")) /\ notices' = notices + 1
  /\ UNCHANGED <<given, clientVars, srv, up, silent, sent, c2s>>

\* The server hangs, or is gone with any part of what it sent.
Hang ==
  /\ faulty /\ up /\ ~silent /\ srv \notin {"listen", "refuse", "unreachable"}
  /\ silent' = TRUE
  /\ UNCHANGED <<given, clientVars, srv, up, sent, notices, c2s, s2c>>

Lose ==
  /\ faulty /\ up /\ srv \notin {"listen", "refuse", "unreachable"}
  /\ up' = FALSE
  /\ \E n \in 0..Len(s2c) : s2c' = SubSeq(s2c, 1, n)
  /\ UNCHANGED <<given, clientVars, srv, silent, sent, notices, c2s>>

-----------------------------------------------------------------------------
Client ==
  \/ TcpConnect \/ TcpFails \/ SslYes \/ SslNo \/ SslOther \/ TlsHandshake \/ SendStartup
  \/ LoopPassword \/ LoopBadChallenge \/ LoopSasl \/ LoopParameter \/ LoopKeyData
  \/ LoopReady \/ LoopError \/ LoopOther \/ SaslFirst \/ SaslFinal \/ SaslFinalOther
  \/ StreamEnds \/ SendFails

Server ==
  \/ AnswerSsl \/ AskForPassword \/ Verdict \/ SaslContinue \/ SaslVerdict
  \/ SendParameter \/ FinishStartup

Next == Client \/ Server \/ Notice \/ Hang \/ Lose

Spec == Init /\ [][Next]_vars

\* The executor polls connect; a server that does not hang goes on.
FairSpec == Spec /\ WF_vars(Client) /\ WF_vars(Server)

-----------------------------------------------------------------------------
(* Properties *)

\* Type invariant.
TypeOK ==
  /\ cfg \in Configs /\ challenge \in Requests /\ {faulty, tls, up, silent} \subseteq BOOLEAN
  /\ pc \in {"tcp", "ssl", "tls", "startup", "loop", "sasl first", "sasl final",
             "connected", "failed"}
  /\ answer \in {"none", "S", "N", "E"} /\ final \in {"none", "match", "neither"}
  /\ auth \in {"none", "first", "final", "done"} /\ key \in {0, 1}
  /\ params \in Seq(1..MaxParams) /\ sent \in 0..MaxParams /\ notices \in 0..MaxNotices

\* What connect hands to the Client is the state Session starts from: the server is
\* ready, and nothing but notices is left of the startup, in either direction.
HandsOverInSync ==
  pc = "connected" =>
    /\ srv = "ready" /\ c2s = <<>>
    /\ \A i \in 1..Len(s2c) : s2c[i].kind = "NoticeResponse"

\* The connection knows its cancel key and every parameter the server reported, in order,
\* whichever exchange consumed the messages before them.
KeepsServerData ==
  pc = "connected" => key = 1 /\ params = [i \in 1..sent |-> i]

\* What connect goes on with is what sslmode and the server's answer settled: a stream
\* that is encrypted exactly when the server answered S, always with require, never
\* asked for with disable, and with a verified certificate if a verify mode has TLS.
\* (prefer, verify-ca and verify-full all go on in plaintext when the answer is N.)
SslModeKept ==
  pc \in {"startup", "loop", "sasl first", "sasl final", "connected"} =>
    /\ tls <=> answer = "S"
    /\ cfg.ssl = "require" => tls
    /\ cfg.ssl = "disable" => answer = "none"
    /\ Verifies /\ tls => cfg.trusted

\* A SCRAM-SHA-256 exchange gives a Connection only over a final message of the server that
\* process_server_final accepted: its signature is the expected one, or it has neither a
\* signature nor an error; whatever other messages come between.
ScramIsFinished ==
  (pc = "connected" /\ mechanism = "SCRAM-SHA-256") =>
    auth = "done" /\ final \in {"match", "neither"}

\* Methods the client knows; a strict server must take SCRAM-SHA-256, the one announced.
Supported ==
  LET m == Decode(challenge)
  IN /\ m.kind # "unsupported"
     /\ m.kind = "Sasl" =>
          Chosen(m.names) # "none" /\ (challenge.strict => Chosen(m.names) = "SCRAM-SHA-256")

\* The failures of the TLS negotiation at a server and over a network that work.
TlsFails ==
  \/ answer = "N" /\ cfg.ssl = "require"
  \/ answer = "S" /\ (~cfg.tlsFeature \/ (Verifies /\ ~cfg.trusted))

\* With the right password, a method the client knows, and a network and server that work,
\* connect succeeds, in every sslmode and for every form of the GaussDB challenge, whose
\* iteration count the client settles on. It fails only if TLS is refused and required,
\* if the server agrees to TLS and the crate was built without it (with the default,
\* prefer, too) or a verify mode rejects its certificate, or over a notice in the SASL
\* exchange.
RightPasswordConnects ==
  (cfg.password /\ Supported /\ ~faulty)
    ~> (pc = "connected" \/ TlsFails \/ (notices > 0 /\ Decode(challenge).kind = "Sasl"))

Returned == pc \in {"connected", "failed"}

\* connect returns, unless the server has stopped answering, or an address that does not
\* answer was given without connect_timeout: the timeout covers nothing but TCP.
HangsOnlyIf == <>Returned \/ <>[](silent /\ up) \/ <>[](srv = "unreachable" /\ ~cfg.timeout)

=============================================================================
