-------------------------------- MODULE Wire --------------------------------
(***************************************************************************)
(* The bytes below Framed: the server's frames arrive in reads that end    *)
(* anywhere, in the middle of a length field too, and the connection may   *)
(* be cut inside a frame. One action is one turn of the loop in            *)
(* FramedRead::poll_next, with PgCodec::decode (src/codec.rs:77-147) or    *)
(* the provided decode_eof in it.                                          *)
(*                                                                         *)
(* Framed, which counts whole frames, is what this implements.             *)
(***************************************************************************)
EXTENDS Integers, Sequences, FiniteSets

CONSTANTS
  MaxWritten, \* bound: frames the server writes
  Sizes       \* sizes of frames, type byte and length field included

ASSUME WireAssumption ==
  MaxWritten \in Nat /\ Sizes \subseteq {n \in Nat : n >= 5}

VARIABLES
  frames,   \* frames that are not decoded, the last possibly cut off
  arrives,  \* bytes of them that are in the socket or the read buffer, or will be
  buf,      \* bytes in the read buffer
  is_readable, eof, has_errored, up,
  written,  \* frames written so far
  partial,  \* history: the last read brought nothing that Framed shows
  errored   \* history: an error was returned since the stream was seen to end

vars == <<frames, arrives, buf, is_readable, eof, has_errored, up, written, partial, errored>>

Kinds == {"DataRow", "Unknown", "Malformed"}   \* one for each outcome of decode

\* Where each of the frames fs ends, in bytes; the first begins at Ends(fs)[0].
Ends(fs) ==
  LET end[k \in 0..Len(fs)] == IF k = 0 THEN 0 ELSE end[k - 1] + fs[k].size
  IN end

\* How many of them lie wholly within the first b bytes.
Whole(fs, b) == LET end == Ends(fs) IN Cardinality({n \in 1..Len(fs) : end[n] <= b})

Init ==
  /\ frames = <<>> /\ arrives = 0 /\ buf = 0
  /\ is_readable = FALSE /\ eof = FALSE /\ has_errored = FALSE /\ up = TRUE
  /\ written = 0 /\ partial = FALSE /\ errored = FALSE

-----------------------------------------------------------------------------
ServerWrites ==
  /\ up /\ written < MaxWritten
  /\ \E kind \in Kinds, size \in Sizes :
       /\ frames' = Append(frames, [kind |-> kind, size |-> size])
       /\ arrives' = arrives + size
  /\ written' = written + 1
  /\ UNCHANGED <<buf, is_readable, eof, has_errored, up, partial, errored>>

\* The connection is lost with what was behind any byte.
Cut ==
  /\ up /\ up' = FALSE
  /\ arrives' \in buf..arrives
  /\ UNCHANGED <<frames, buf, is_readable, eof, has_errored, written, partial, errored>>

\* A read brings one byte or more.
ReadSome ==
  /\ ~has_errored /\ ~is_readable /\ buf < arrives
  /\ buf' \in (buf + 1)..arrives
  /\ is_readable' = TRUE /\ eof' = FALSE
  /\ partial' = (Whole(frames, buf') = 0)
  /\ UNCHANGED <<frames, arrives, has_errored, up, written, errored>>

\* A read of 0 bytes; the second one in a row ends the stream.
ReadZero ==
  /\ ~has_errored /\ ~is_readable /\ buf = arrives /\ ~up
  /\ IF eof THEN UNCHANGED <<eof, is_readable, errored>>
     ELSE eof' = TRUE /\ is_readable' = TRUE /\ errored' = FALSE
  /\ partial' = FALSE
  /\ UNCHANGED <<frames, arrives, buf, has_errored, up, written>>

ReadError ==
  /\ ~has_errored /\ ~is_readable /\ buf = arrives /\ ~up /\ ~eof
  /\ has_errored' = TRUE /\ errored' = TRUE
  /\ UNCHANGED <<frames, arrives, buf, is_readable, eof, up, written, partial>>

\* After an error next() is None once.
AfterError ==
  /\ has_errored /\ has_errored' = FALSE /\ is_readable' = FALSE
  /\ partial' = FALSE
  /\ UNCHANGED <<frames, arrives, buf, eof, up, written, errored>>

\* Mutant: the length is taken for that of the whole frame, type byte included.
CompleteWithoutType == buf >= 5 /\ frames # <<>> /\ buf >= frames[1].size - 1

\* The buffer holds the length field, and as many bytes as it says.
Complete == buf >= 5 /\ frames # <<>> /\ buf >= frames[1].size

\* Mutant: the length field is consumed, the type byte is not.
ConsumeWithoutType ==
  /\ frames' = Tail(frames)
  /\ buf' = buf - frames[1].size + 1 /\ arrives' = arrives - frames[1].size + 1

Consume ==
  /\ frames' = Tail(frames)
  /\ buf' = buf - frames[1].size /\ arrives' = arrives - frames[1].size

\* Mutant: a decode_eof that takes Ok(None) for the end, whatever is left in the buffer.
EndAnyway ==
  /\ ~has_errored /\ is_readable
  /\ IF Complete THEN Consume ELSE UNCHANGED <<frames, buf, arrives>>
  /\ LET kind == IF Complete THEN frames[1].kind ELSE "None" IN
     /\ has_errored' = (kind = "Malformed") /\ errored' = (errored \/ has_errored')
     /\ is_readable' = (kind \in {"DataRow", "Malformed"})
  /\ partial' = FALSE
  /\ UNCHANGED <<eof, up, written>>

\* decode, and decode_eof, which makes an error of what is left.
TryDecode ==
  /\ ~has_errored /\ is_readable
  /\ IF Complete THEN Consume ELSE UNCHANGED <<frames, buf, arrives>>
  /\ LET kind == IF Complete THEN frames[1].kind ELSE "None" IN
     /\ has_errored' = (kind = "Malformed" \/ (kind \in {"None", "Unknown"} /\ eof /\ buf' > 0))
     /\ is_readable' = (kind \in {"DataRow", "Malformed"} \/ has_errored')
     /\ errored' = (errored \/ has_errored')
  /\ partial' = FALSE
  /\ UNCHANGED <<eof, up, written>>

Next == ServerWrites \/ Cut \/ ReadSome \/ ReadZero \/ ReadError \/ AfterError \/ TryDecode

Spec == Init /\ [][Next]_vars

-----------------------------------------------------------------------------
(* Properties *)

\* Type invariant: the buffer never holds bytes that did not arrive, nor bytes of a frame
\* that was already decoded.
TypeOK ==
  /\ \A k \in DOMAIN frames : frames[k].kind \in Kinds /\ frames[k].size \in Sizes
  /\ buf \in 0..arrives /\ arrives \in 0..Ends(frames)[Len(frames)]
  /\ {is_readable, eof, has_errored, up, partial, errored} \subseteq BOOLEAN

\* A stream that was cut inside a frame is not taken for one that ended behind a frame:
\* when next() ends it with None, nothing is left in the read buffer, or an error was
\* returned between the end and that None, whatever errors came before. A row that was
\* cut off is never a row that did not come.
CutFrameIsError == (eof /\ ~is_readable /\ ~has_errored /\ ~errored) => buf = 0

\* Framed, with the frames that are there as a whole: those that have not been cut off.
F == INSTANCE Framed WITH
       s2c <- SubSeq(frames, 1, Whole(frames, arrives)),
       got <- Whole(frames, buf),
       is_readable <- is_readable /\ ~partial,
       out <- <<>>, enc <- 0, wr <- 0, C2SCap <- 1, S2CCap <- 1

\* Reading bytes in any pieces is reading whole frames as Framed says: a part of a frame
\* is never decoded, and no frame is skipped or decoded twice. (At the end of the stream
\* Framed allows an error and the clean end alike, having no bytes to tell them apart:
\* which of the two it is, CutFrameIsError says.)
ReadsFrames == F!ReadHalf
=============================================================================
