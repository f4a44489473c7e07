------------------------------- MODULE Framed -------------------------------
(***************************************************************************)
(* The byte stream between a Connection and the server, as seen through    *)
(* Framed<BoxedStream, PgCodec> (src/codec.rs and tokio-util's Framed).    *)
(*                                                                         *)
(* Each direction is one sequence of frames with cursors into it, so a     *)
(* frame is moved by moving a cursor:                                      *)
(*                                                                         *)
(*   out   frames the server has not read: the first "wr" are accepted by  *)
(*         the socket, those up to "enc" are encoded into the write        *)
(*         buffer, the rest the call in progress has not encoded yet;      *)
(*   s2c   frames the client has not decoded: the first "got" of them are  *)
(*         in the read buffer, the rest are still in the socket.           *)
(*                                                                         *)
(* A frame that is partly in the read buffer counts as still in the        *)
(* socket: decode answers Ok(None) for it (src/codec.rs:78-87).            *)
(***************************************************************************)
EXTENDS Naturals, Sequences

CONSTANTS
  C2SCap,   \* frames the client-to-server socket holds before a large write blocks
  S2CCap    \* frames the server-to-client socket holds before a large write blocks

ASSUME PipesAssumption == C2SCap \in Nat \ {0} /\ S2CCap \in Nat \ {0}

VARIABLES
  out, enc, wr,
  s2c, got,
  is_readable,  \* Framed: the read buffer may hold a frame
  eof,          \* Framed: a read returned 0 bytes
  has_errored,  \* Framed: the last poll returned an error
  up            \* the server holds its end of the connection open

readVars  == <<got, is_readable, eof, has_errored>>
writeVars == <<out, enc, wr>>

FrontendKinds ==
  {"Query", "Parse", "Bind", "Describe", "Execute", "Sync", "Flush", "Terminate"}

\* Frames whose size the application chooses. The others are a few bytes and always fit.
LargeFrontend == {"Query", "Parse", "Bind"}
LargeBackend  == {"RowDescription", "DataRow"}

\* The tags that decode turns into a BackendMessage. NoticeResponse stands also for those
\* that every loop of a session ignores, ParameterStatus among them.
KnownKinds ==
  {"RowDescription", "DataRow", "CommandComplete", "EmptyQueryResponse",
   "ReadyForQuery", "ErrorResponse", "NoticeResponse", "NotificationResponse",
   "ParseComplete", "BindComplete", "NoData"}

\* "Unknown": a tag for which decode has no arm. "Malformed": a body on which decode
\* fails, such as a string without its terminator or an unsupported auth type.
BackendKinds == KnownKinds \cup {"Unknown", "Malformed"}

StreamInit ==
  /\ out = <<>> /\ enc = 0 /\ wr = 0
  /\ s2c = <<>> /\ got = 0
  /\ is_readable = FALSE /\ eof = FALSE /\ has_errored = FALSE
  /\ up = TRUE

-----------------------------------------------------------------------------
(* The write half: SinkExt::send is start_send (encode) and then flush. *)

\* encode of the next frame of the call in progress.
Encode ==
  /\ wr = enc /\ enc < Len(out)
  /\ enc' = enc + 1
  /\ UNCHANGED <<out, wr>>

\* The socket accepts the next encoded frame. Once the peer is gone a write may still
\* be accepted, or fail (WriteError).
Flush ==
  /\ wr < enc
  /\ up => (wr < C2SCap \/ out[wr + 1].kind \notin LargeFrontend)
  /\ wr' = wr + 1
  /\ UNCHANGED <<out, enc>>

\* send returns Err(Io). What was encoded stays in the write buffer.
WriteError ==
  /\ ~up /\ wr < enc
  /\ out' = SubSeq(out, 1, enc)
  /\ UNCHANGED <<enc, wr>>

\* The call's future is dropped inside send(): its later frames are never encoded, the
\* frame being flushed stays in the write buffer and goes out with the next send.
AbandonWrites ==
  /\ wr < enc
  /\ out' = SubSeq(out, 1, enc)
  /\ UNCHANGED <<enc, wr>>

-----------------------------------------------------------------------------
(* The read half: one poll of Framed::next() does Fill, FillEof, NeedMore and   *)
(* SkipUnknown steps until one of Yield, YieldErr, YieldNone returns to the     *)
(* caller, or until the socket has nothing and the poll is pending.             *)

\* A read of the socket: any number of whole frames arrives in the buffer, and perhaps a
\* part of the next. A part alone makes Framed look again at whole frames it already has;
\* without any (got = 0) it changes nothing, and is left out.
Fill ==
  /\ ~has_errored /\ ~is_readable
  /\ got < Len(s2c) \/ (got > 0 /\ ~up /\ ~eof)   \* the part of a frame that was cut off
  /\ got' \in (IF got = 0 THEN 1 ELSE got)..Len(s2c)
  /\ is_readable' = TRUE
  /\ UNCHANGED <<s2c, eof, has_errored>>

\* A read of 0 bytes.
FillEof ==
  /\ ~has_errored /\ ~is_readable /\ got = Len(s2c) /\ ~up /\ ~eof
  /\ eof' = TRUE /\ is_readable' = TRUE
  /\ UNCHANGED <<s2c, got, has_errored>>

\* decode returns Ok(None): the buffer holds no whole frame.
NeedMore ==
  /\ ~has_errored /\ is_readable /\ ~eof /\ got = 0
  /\ is_readable' = FALSE
  /\ UNCHANGED <<s2c, got, eof, has_errored>>

\* Mutant: the frame is removed, but not its length.
KeepLength(kinds) ==
  /\ ~has_errored /\ is_readable /\ got > 0
  /\ s2c[1].kind \in kinds
  /\ s2c' = Tail(s2c) /\ got' = got

\* The head of the buffer is decoded and removed from it.
Decode(kinds) ==
  /\ ~has_errored /\ is_readable /\ got > 0
  /\ s2c[1].kind \in kinds
  /\ s2c' = Tail(s2c) /\ got' = got - 1

\* Mutant: an unknown tag clears the buffer, not just its frame.
ClearBuffer ==
  /\ ~has_errored /\ is_readable /\ ~eof /\ got > 0 /\ s2c[1].kind = "Unknown"
  /\ s2c' = SubSeq(s2c, got + 1, Len(s2c)) /\ got' = 0
  /\ is_readable' = FALSE
  /\ UNCHANGED <<eof, has_errored>>

\* An unknown tag: the frame is consumed but decode returns Ok(None), which Framed
\* takes for an incomplete frame. Frames behind it wait for the next read.
SkipUnknown ==
  /\ Decode({"Unknown"}) /\ ~eof
  /\ is_readable' = FALSE
  /\ UNCHANGED <<eof, has_errored>>

\* The frame the next Yield returns.
Msg == s2c[1]

\* next() returns Some(Ok(Msg)).
Yield ==
  /\ Decode(KnownKinds)
  /\ UNCHANGED <<is_readable, eof, has_errored>>

\* next() returns Some(Err(_)).
YieldErr ==
  /\ \/ \* decode fails
        Decode({"Malformed"})
     \/ \* decode_eof: Ok(None) with bytes left, or perhaps half a frame
        Decode({"Unknown"}) /\ eof
     \/ \* decode_eof: the stream was cut inside a frame
        /\ ~has_errored /\ is_readable /\ eof /\ got = 0
        /\ UNCHANGED <<s2c, got>>
     \/ \* the read fails: connection reset
        /\ ~has_errored /\ ~is_readable /\ ~eof /\ ~up /\ got = Len(s2c)
        /\ UNCHANGED <<s2c, got>>
  /\ has_errored' = TRUE
  /\ UNCHANGED <<is_readable, eof>>

\* next() returns None: after an error once, and at the end of the stream.
YieldNone ==
  /\ \/ has_errored /\ UNCHANGED <<s2c, got>>
     \/ ~has_errored /\ is_readable /\ eof /\ got = 0 /\ UNCHANGED <<s2c, got>>
     \/ Decode({"Unknown"}) /\ eof /\ got = 1
     \/ ~has_errored /\ ~is_readable /\ eof /\ UNCHANGED <<s2c, got>>
  /\ is_readable' = FALSE /\ has_errored' = FALSE
  /\ UNCHANGED eof

\* One step of Framed towards the next message, or the end of one poll.
ReadStep ==
  Fill \/ FillEof \/ NeedMore \/ SkipUnknown \/ Yield \/ YieldErr \/ YieldNone

\* What the far end does to the stream: it writes a frame, or is gone with any part of
\* what was still in the socket.
PeerWrites ==
  /\ up /\ Len(s2c') = Len(s2c) + 1 /\ SubSeq(s2c', 1, Len(s2c)) = s2c
  /\ UNCHANGED <<readVars, up>>

PeerGoes ==
  /\ up /\ up' = FALSE
  /\ \E n \in got..Len(s2c) : s2c' = SubSeq(s2c, 1, n)
  /\ UNCHANGED readVars

\* The read half by itself, for the byte stream of Wire to implement.
ReadHalf ==
  /\ s2c = <<>> /\ got = 0
  /\ is_readable = FALSE /\ eof = FALSE /\ has_errored = FALSE /\ up = TRUE
  /\ [][(ReadStep /\ up' = up) \/ PeerWrites \/ PeerGoes]_<<s2c, readVars, up>>

\* A poll of next() that finds the socket empty. A future can only be dropped while
\* its last poll was pending.
ReadPending == ~is_readable /\ ~has_errored /\ ~eof
=============================================================================
