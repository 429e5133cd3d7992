---------------------------- MODULE DotStuffing -----------------------------
(***************************************************************************)
(* How a message body becomes the bytes of the DATA phase: the chunk loop  *)
(* of send_mail_stream with its source (message_body.rs) and its streaming *)
(* stuffer (DotStufferState of protocol.rs), and the one-shot              *)
(* dot_stuff_and_terminate the other send methods use.                     *)
(*                                                                         *)
(* A receiver that follows RFC 5321, section 4.5.2, is run over the bytes  *)
(* as they are produced. Its two last modes are absorbing, so a receiver   *)
(* that lags behind, or never gets the rest, has not seen the end of the   *)
(* data either when this one has not.                                      *)
(***************************************************************************)
EXTENDS Integers, Sequences

CONSTANTS
    BodyBytes, \* the bytes of a body, ".", "CR" and "LF" among them
    Bodies,    \* the messages a caller may send
    Chunk      \* the size of the buffer read_chunk is given

ASSUME BytesAssumption == {".", "CR", "LF"} \subseteq BodyBytes /\ "0" \notin BodyBytes
ASSUME BodiesAssumption == Bodies \subseteq Seq(BodyBytes)
ASSUME ChunkAssumption == Chunk \in Nat \ {0}

VARIABLES
    body,           \* the message of the caller
    pos,            \* SliceBody.pos
    chunk,          \* the bytes of the current chunk that are still to be stuffed
    at_line_start, prev, prev_prev, empty,    \* DotStufferState
    wire,           \* the bytes produced so far
    rcv,            \* the receiver: its mode, and the message it has got
    phase           \* "read", "stuff", "done" or "failed"

source  == <<body, pos, chunk>>
stuffer == <<at_line_start, prev, prev_prev, empty>>
bodyVars == <<body, pos, chunk, at_line_start, prev, prev_prev, empty, wire, rcv, phase>>

CRLF == <<"CR", "LF">>
-----------------------------------------------------------------------------
(* The receiver: "dot" and "dotcr" hold back a leading dot and what may be  *)
(* the end of the data, "over" has been sent something behind that end.     *)
Modes == {"start", "dot", "dotcr", "mid", "cr", "end", "over"}
Got(r, mode, s) == [mode |-> mode, got |-> r.got \o s]
Mode(b) == IF b = "CR" THEN "cr" ELSE "mid"

Receive(r, b) ==
    CASE r.mode = "start" /\ b = "."   -> Got(r, "dot", <<>>)
      [] r.mode = "dot" /\ b = "CR"    -> Got(r, "dotcr", <<>>)
      [] r.mode = "dotcr" /\ b = "LF"  -> Got(r, "end", <<>>)
      [] r.mode = "dotcr" /\ b # "LF"  -> Got(r, Mode(b), <<"CR", b>>)
      [] r.mode = "cr" /\ b = "LF"     -> Got(r, "start", <<b>>)
      [] r.mode \in {"end", "over"}    -> Got(r, "over", <<>>)
      [] OTHER                         -> Got(r, Mode(b), <<b>>)

Receive2(r, b, c) == Receive(Receive(r, b), c)
-----------------------------------------------------------------------------
(* DotStufferState::new, in front of the body. *)
BodyInit ==
    /\ body \in Bodies
    /\ pos = 0
    /\ chunk = <<>>
    /\ at_line_start = TRUE /\ prev = "0" /\ prev_prev = "0" /\ empty = TRUE
    /\ wire = <<>>
    /\ rcv = [mode |-> "start", got |-> <<>>]
    /\ phase = "read"

(* Mutant: every chunk is taken for the start of a line of its own. *)
ChunkStartsLine(n) ==
    /\ phase = "read" /\ pos < Len(body)
    /\ n <= Len(body) - pos
    /\ chunk' = SubSeq(body, pos + 1, pos + n)
    /\ pos' = pos + n
    /\ at_line_start' = TRUE
    /\ phase' = "stuff"
    /\ UNCHANGED <<body, prev, prev_prev, empty, wire, rcv>>

(* read_chunk returns n > 0 bytes, as many as it likes. *)
read_chunk(n) ==
    /\ phase = "read" /\ pos < Len(body)
    /\ n <= Len(body) - pos
    /\ chunk' = SubSeq(body, pos + 1, pos + n)
    /\ pos' = pos + n
    /\ phase' = "stuff"
    /\ UNCHANGED <<body, stuffer, wire, rcv>>

(* read_chunk fails: the loop is left and nothing more is written. *)
read_error ==
    /\ phase = "read"
    /\ phase' = "failed"
    /\ UNCHANGED <<source, stuffer, wire, rcv>>

(* process_chunk, one byte of its loop. *)
process_byte ==
    /\ phase = "stuff" /\ chunk # <<>>
    /\ LET b == Head(chunk)
           stuff == at_line_start /\ b = "."
       IN  /\ wire' = wire \o (IF stuff THEN <<".", b>> ELSE <<b>>)
           /\ rcv' = IF stuff THEN Receive2(rcv, ".", b) ELSE Receive(rcv, b)
           /\ at_line_start' = (prev = "CR" /\ b = "LF")
           /\ prev_prev' = prev
           /\ prev' = b
    /\ chunk' = Tail(chunk)
    /\ UNCHANGED <<body, pos, empty, phase>>

(* process_chunk returns, and its bytes are written. *)
process_chunk ==
    /\ phase = "stuff" /\ chunk = <<>>
    /\ empty' = FALSE
    /\ phase' = "read"
    /\ UNCHANGED <<source, at_line_start, prev, prev_prev, wire, rcv>>

(* Mutant: a bare LF is taken for the end of a line. *)
EndsWithLf == ~empty /\ prev = "LF"

ends_with_crlf == ~empty /\ prev_prev = "CR" /\ prev = "LF"

(* finish, once read_chunk has returned 0. *)
finish ==
    /\ phase = "read" /\ pos = Len(body)
    /\ wire' = wire \o (IF ends_with_crlf THEN <<>> ELSE CRLF) \o <<".", "CR", "LF">>
    /\ LET r == IF ends_with_crlf THEN rcv ELSE Receive2(rcv, "CR", "LF")
       IN  rcv' = Receive2(Receive(r, "."), "CR", "LF")
    /\ phase' = "done"
    /\ UNCHANGED <<source, stuffer>>

BodyStopped == phase \in {"done", "failed"} /\ UNCHANGED bodyVars

BodyNext ==
    \/ \E n \in 1..Chunk : read_chunk(n)
    \/ read_error \/ process_byte \/ process_chunk \/ finish
    \/ BodyStopped

BodySpec == BodyInit /\ [][BodyNext]_bodyVars
-----------------------------------------------------------------------------
EndsWithCrlf(s) == Len(s) > 1 /\ s[Len(s) - 1] = "CR" /\ s[Len(s)] = "LF"

(* The loop of dot_stuff_and_terminate: out after n bytes of b. *)
stuff_loop(b) ==
    LET line_start(n) == n = 1 \/ (n > 2 /\ b[n - 2] = "CR" /\ b[n - 1] = "LF")
        out[n \in 0..Len(b)] ==
            IF n = 0 THEN <<>>
            ELSE out[n - 1] \o (IF line_start(n) /\ b[n] = "." THEN <<".", ".">> ELSE <<b[n]>>)
    IN  out[Len(b)]

(* Mutant: a bare LF is taken for the end of the last line. *)
TerminateAfterLf(b) ==
    LET out == stuff_loop(b)
    IN  out \o (IF out # <<>> /\ out[Len(out)] = "LF" THEN <<>> ELSE CRLF) \o <<".", "CR", "LF">>

dot_stuff_and_terminate(b) ==
    LET out == stuff_loop(b)
    IN  out \o (IF EndsWithCrlf(out) THEN <<>> ELSE CRLF) \o <<".", "CR", "LF">>
-----------------------------------------------------------------------------
Taken == pos - Len(chunk)     \* bytes of the body that have been stuffed

(* Every variable keeps its type. *)
BodyTypeOK ==
    /\ body \in Seq(BodyBytes)
    /\ pos \in 0..Len(body)
    /\ chunk \in Seq(BodyBytes)
    /\ at_line_start \in BOOLEAN /\ empty \in BOOLEAN
    /\ prev \in BodyBytes \cup {"0"} /\ prev_prev \in BodyBytes \cup {"0"}
    /\ wire \in Seq(BodyBytes)
    /\ rcv \in [mode : Modes, got : Seq(BodyBytes)]
    /\ phase \in {"read", "stuff", "done", "failed"}

(* The message as the server is to store it: the caller's, its last line    *)
(* ended.                                                                   *)
Stored == IF EndsWithCrlf(body) THEN body ELSE body \o CRLF

(* However the body is cut into chunks, the receiver reads it as what the   *)
(* caller gave: a dot at the start of a line comes back single, none makes  *)
(* it see the end early, and finish makes it see the end exactly once. A    *)
(* stream whose source fails is never taken for a complete message.         *)
Transparent ==
    /\ phase # "done" => rcv.got = SubSeq(body, 1, Taken) /\ rcv.mode \notin {"end", "over"}
    /\ phase = "done" => rcv = [mode |-> "end", got |-> Stored]

(* "This matches the semantics of dot_stuff_and_terminate exactly."         *)
StreamIsOneShot == phase = "done" => wire = dot_stuff_and_terminate(body)
=============================================================================
