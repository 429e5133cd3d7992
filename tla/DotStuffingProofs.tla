------------------------- MODULE DotStuffingProofs --------------------------
(***************************************************************************)
(* Transparent and StreamIsOneShot for every message, whatever its length  *)
(* and its bytes, and for every way of cutting it into chunks.             *)
(***************************************************************************)
EXTENDS DotStuffing, SequenceTheorems, NaturalsInduction, WellFoundedInduction, TLAPS

(* The chunk at hand is what the source gave last. *)
ChunkIsNext ==
    /\ Len(chunk) <= pos
    /\ \A i \in 1..Len(chunk) : chunk[i] = body[Taken + i]
    /\ phase # "stuff" => chunk = <<>>
    /\ phase = "stuff" => pos > 0
    /\ phase = "read" => (empty <=> pos = 0)
    /\ phase = "done" => pos = Len(body)

(* The stuffer's registers are the last two bytes it was fed. *)
Registers ==
    /\ prev = IF Taken > 0 THEN body[Taken] ELSE "0"
    /\ prev_prev = IF Taken > 1 THEN body[Taken - 1] ELSE "0"
    /\ (at_line_start <=> Taken = 0 \/ (prev_prev = "CR" /\ prev = "LF"))

(* The receiver is where the stuffer believes it to be. *)
Synchronised ==
    /\ phase # "done" =>
          /\ Len(rcv.got) = Taken
          /\ \A i \in 1..Taken : rcv.got[i] = body[i]
          /\ rcv.mode = IF at_line_start THEN "start" ELSE Mode(prev)
    /\ phase = "done" => rcv = [mode |-> "end", got |-> Stored]

IInv == BodyTypeOK /\ ChunkIsNext /\ Registers /\ Synchronised

LEMMA InitIInv == BodyInit => IInv
  <1> SUFFICES ASSUME BodyInit PROVE IInv
    OBVIOUS
  <1>1. /\ body \in Seq(BodyBytes) /\ Len(body) \in Nat
        /\ <<>> \in Seq(BodyBytes) /\ Len(chunk) = 0 /\ Taken = 0
    <2>1. body \in Seq(BodyBytes)
      BY BodiesAssumption DEF BodyInit
    <2>2. <<>> \in Seq(BodyBytes) /\ Len(<<>>) = 0
      OBVIOUS
    <2>3. Len(chunk) = 0 /\ pos = 0
      BY <2>2 DEF BodyInit
    <2>4. Taken = 0
      BY <2>3 DEF Taken
    <2> QED
      BY <2>1, <2>2, <2>3, <2>4
  <1>2. BodyTypeOK
    BY <1>1 DEF BodyInit, BodyTypeOK, Modes
  <1>3. ChunkIsNext /\ Registers
    BY <1>1 DEF BodyInit, ChunkIsNext, Registers
  <1>4. Synchronised
    BY <1>1 DEF BodyInit, Synchronised
  <1> QED
    BY <1>2, <1>3, <1>4 DEF IInv

(* The bytes of a part of a sequence. *)
LEMMA SubSeqBytes ==
  ASSUME NEW S, NEW s \in Seq(S), NEW m \in 1..(Len(s) + 1), NEW n \in (m - 1)..Len(s)
  PROVE  /\ SubSeq(s, m, n) \in Seq(S)
         /\ Len(SubSeq(s, m, n)) = n - m + 1
         /\ \A i \in 1..(n - m + 1) : SubSeq(s, m, n)[i] = s[m + i - 1]
  OBVIOUS

LEMMA ReadChunkStep ==
  ASSUME IInv, NEW n \in 1..Chunk, read_chunk(n)
  PROVE  IInv'
  <1> USE DEF IInv
  <1>1. n \in Nat /\ n > 0 /\ pos \in Nat /\ Len(body) \in Nat /\ pos + n <= Len(body)
    BY ChunkAssumption DEF read_chunk, BodyTypeOK
  <1>2. /\ chunk' \in Seq(BodyBytes) /\ Len(chunk') = n
        /\ \A i \in 1..n : chunk'[i] = body[pos + i]
    <2>1. body \in Seq(BodyBytes) /\ pos + 1 \in 1..(Len(body) + 1) /\ pos + n \in pos..Len(body)
      BY <1>1 DEF BodyTypeOK
    <2> QED
      BY <1>1, <2>1, SubSeqBytes DEF read_chunk
  <1>3. Taken' = Taken /\ Taken = pos
    BY <1>1, <1>2 DEF read_chunk, Taken, ChunkIsNext
  <1>4. BodyTypeOK'
    BY <1>1, <1>2 DEF read_chunk, BodyTypeOK, stuffer
  <1>5. ChunkIsNext'
    BY <1>1, <1>2, <1>3 DEF read_chunk, ChunkIsNext
  <1>6. Registers' /\ Synchronised'
    BY <1>3 DEF read_chunk, Registers, Synchronised, stuffer
  <1> QED
    BY <1>4, <1>5, <1>6

(* One byte of the body, doubled or not, moves the receiver by one byte. *)
LEMMA ByteReceived ==
  ASSUME NEW r, r \in [mode : Modes, got : Seq(BodyBytes)], NEW b \in BodyBytes,
         NEW p \in BodyBytes \cup {"0"}, NEW start \in BOOLEAN,
         r.mode = IF start THEN "start" ELSE Mode(p)
  PROVE  (IF start /\ b = "." THEN Receive2(r, ".", b) ELSE Receive(r, b))
            = [mode |-> IF ~start /\ p = "CR" /\ b = "LF" THEN "start" ELSE Mode(b),
               got  |-> Append(r.got, b)]
  <1>1. r.got \o <<>> = r.got /\ r.got \o <<b>> = Append(r.got, b)
    OBVIOUS
  <1>2. CASE start /\ b = "."
    <2>1. Receive(r, ".") = [mode |-> "dot", got |-> r.got]
      BY <1>1, <1>2 DEF Receive, Got
    <2>2. Receive([mode |-> "dot", got |-> r.got], b) = [mode |-> Mode(b), got |-> Append(r.got, b)]
      BY <1>1, <1>2 DEF Receive, Got
    <2> QED
      BY <1>2, <2>1, <2>2 DEF Receive2
  <1>3. CASE start /\ b # "."
    BY <1>1, <1>3 DEF Receive, Got, Mode
  <1>4. CASE ~start
    BY <1>1, <1>4 DEF Receive, Got, Mode
  <1> QED
    BY <1>2, <1>3, <1>4

LEMMA ProcessByteStep ==
  ASSUME IInv, process_byte
  PROVE  IInv'
  <1> USE DEF IInv
  <1> DEFINE b == Head(chunk)
  <1>1. /\ chunk \in Seq(BodyBytes) /\ chunk # <<>> /\ Len(chunk) \in Nat /\ Len(chunk) > 0
        /\ chunk[1] = b /\ b \in BodyBytes
        /\ Tail(chunk) \in Seq(BodyBytes) /\ Len(Tail(chunk)) = Len(chunk) - 1
        /\ \A i \in 1..(Len(chunk) - 1) : Tail(chunk)[i] = chunk[i + 1]
    BY DEF process_byte, BodyTypeOK
  <1>2. pos \in Nat /\ Taken \in Nat /\ Taken < pos /\ pos <= Len(body) /\ b = body[Taken + 1]
    BY <1>1 DEF BodyTypeOK, ChunkIsNext, Taken
  <1>3. Taken' = Taken + 1
    BY <1>1, <1>2 DEF process_byte, Taken
  <1>4. rcv' = [mode |-> IF ~at_line_start /\ prev = "CR" /\ b = "LF" THEN "start" ELSE Mode(b),
                got  |-> Append(rcv.got, b)]
    <2>1. rcv \in [mode : Modes, got : Seq(BodyBytes)] /\ prev \in BodyBytes \cup {"0"} /\ at_line_start \in BOOLEAN
      BY DEF BodyTypeOK
    <2>2. rcv.mode = IF at_line_start THEN "start" ELSE Mode(prev)
      BY DEF Synchronised, process_byte
    <2>3. rcv' = IF at_line_start /\ b = "." THEN Receive2(rcv, ".", b) ELSE Receive(rcv, b)
      BY DEF process_byte
    <2> QED
      BY <1>1, <2>1, <2>2, <2>3, ByteReceived
  <1>5. BodyTypeOK'
    <2>1. wire' \in Seq(BodyBytes)
      BY <1>1, BytesAssumption DEF process_byte, BodyTypeOK
    <2>2. rcv' \in [mode : Modes, got : Seq(BodyBytes)]
      BY <1>1, <1>4 DEF BodyTypeOK, Modes, Mode
    <2> QED
      BY <1>1, <2>1, <2>2 DEF process_byte, BodyTypeOK
  <1>6. ChunkIsNext'
    <2>1. \A i \in 1..Len(chunk') : chunk'[i] = body'[Taken' + i]
      BY <1>1, <1>2, <1>3 DEF process_byte, ChunkIsNext
    <2> QED
      BY <1>1, <1>2, <2>1 DEF process_byte, ChunkIsNext
  <1>7. Registers'
    <2>1. prev' = body'[Taken'] /\ prev_prev' = prev /\ Taken' > 0
      BY <1>2, <1>3 DEF process_byte
    <2>2. prev_prev' = IF Taken' > 1 THEN body'[Taken' - 1] ELSE "0"
      BY <1>2, <1>3, <2>1 DEF process_byte, Registers
    <2>3. at_line_start' <=> prev_prev' = "CR" /\ prev' = "LF"
      BY DEF process_byte
    <2> QED
      BY <1>2, <1>3, <2>1, <2>2, <2>3 DEF Registers
  <1>8. Synchronised'
    <2>1. Len(rcv.got) = Taken /\ (\A i \in 1..Taken : rcv.got[i] = body[i]) /\ rcv.got \in Seq(BodyBytes)
      BY DEF process_byte, Synchronised, BodyTypeOK
    <2>2. Len(rcv'.got) = Taken' /\ \A i \in 1..Taken' : rcv'.got[i] = body'[i]
      <3>1. rcv'.got = Append(rcv.got, b) /\ body' = body
        BY <1>4 DEF process_byte
      <3>2. /\ Len(Append(rcv.got, b)) = Taken + 1 /\ Append(rcv.got, b)[Taken + 1] = b
            /\ \A i \in 1..Taken : Append(rcv.got, b)[i] = rcv.got[i]
        BY <1>1, <1>2, <2>1
      <3> QED
        BY <1>2, <1>3, <2>1, <3>1, <3>2
    <2>3. rcv'.mode = IF at_line_start' THEN "start" ELSE Mode(prev')
      <3>1. ~(at_line_start /\ prev = "CR")
        BY <1>2 DEF Registers
      <3>2. rcv'.mode = IF ~at_line_start /\ prev = "CR" /\ b = "LF" THEN "start" ELSE Mode(b)
        BY <1>4
      <3>3. (at_line_start' <=> prev = "CR" /\ b = "LF") /\ prev' = b
        BY DEF process_byte
      <3> QED
        BY <3>1, <3>2, <3>3
    <2> QED
      BY <2>2, <2>3 DEF process_byte, Synchronised
  <1> QED
    BY <1>5, <1>6, <1>7, <1>8

(* The terminator, behind a whole line, is the end of the data. *)
LEMMA EndReceived ==
  ASSUME NEW g \in Seq(BodyBytes)
  PROVE  Receive2(Receive([mode |-> "start", got |-> g], "."), "CR", "LF") = [mode |-> "end", got |-> g]
  <1>1. g \o <<>> = g
    OBVIOUS
  <1>2. Receive([mode |-> "start", got |-> g], ".") = [mode |-> "dot", got |-> g]
    BY <1>1 DEF Receive, Got
  <1>3. Receive([mode |-> "dot", got |-> g], "CR") = [mode |-> "dotcr", got |-> g]
    BY <1>1 DEF Receive, Got
  <1>4. Receive([mode |-> "dotcr", got |-> g], "LF") = [mode |-> "end", got |-> g]
    BY <1>1 DEF Receive, Got
  <1> QED
    BY <1>2, <1>3, <1>4 DEF Receive2

LEMMA FinishStep ==
  ASSUME IInv, finish
  PROVE  IInv'
  <1> USE DEF IInv
  <1>1. chunk = <<>> /\ Taken = Len(body) /\ Taken = pos /\ Taken \in Nat /\ body \in Seq(BodyBytes)
    BY DEF finish, ChunkIsNext, Taken, BodyTypeOK
  <1>2. rcv.got = body /\ rcv = [mode |-> rcv.mode, got |-> body]
    <2>1. rcv.got \in Seq(BodyBytes) /\ Len(rcv.got) = Len(body) /\ \A i \in 1..Len(body) : rcv.got[i] = body[i]
      BY <1>1 DEF finish, Synchronised, BodyTypeOK
    <2>2. rcv.got = body
      BY <1>1, <2>1, SeqEqual
    <2> QED
      BY <2>2 DEF BodyTypeOK
  <1>3. ends_with_crlf <=> EndsWithCrlf(body)
    BY <1>1, BytesAssumption DEF finish, ends_with_crlf, EndsWithCrlf, Registers, ChunkIsNext
  <1>4. body \o <<>> = body /\ (body \o <<"CR">>) \o <<"LF">> = body \o CRLF /\ (body \o CRLF) \o <<>> = body \o CRLF
    BY <1>1, BytesAssumption DEF CRLF
  <1>5. rcv' = [mode |-> "end", got |-> Stored]
    <2>1. CASE ends_with_crlf
      <3>1. rcv.mode = "start"
        BY <1>1, <2>1 DEF finish, Synchronised, Registers, ends_with_crlf
      <3> QED
        <4>1. rcv = [mode |-> "start", got |-> body] /\ Stored = body
          BY <1>2, <1>3, <2>1, <3>1 DEF Stored
        <4>2. rcv' = Receive2(Receive(rcv, "."), "CR", "LF")
          BY <2>1 DEF finish
        <4> QED
          BY <1>1, <4>1, <4>2, EndReceived
    <2>2. CASE ~ends_with_crlf
      <3>1. rcv.mode \in {"start", "cr", "mid"}
        BY DEF finish, Synchronised, Mode
      <3>2. Receive2(rcv, "CR", "LF") = [mode |-> "start", got |-> body \o CRLF]
        <4>1. Receive(rcv, "CR") = [mode |-> "cr", got |-> body \o <<"CR">>]
          BY <1>2, <3>1 DEF Receive, Got, Mode
        <4>2. Receive([mode |-> "cr", got |-> body \o <<"CR">>], "LF")
                = [mode |-> "start", got |-> body \o CRLF]
          BY <1>4 DEF Receive, Got
        <4> QED
          BY <4>1, <4>2 DEF Receive2
      <3>3. body \o CRLF \in Seq(BodyBytes)
        BY <1>1, BytesAssumption DEF CRLF
      <3> QED
        BY <1>3, <2>2, <3>2, <3>3, EndReceived DEF finish, Stored
    <2> QED
      BY <2>1, <2>2
  <1>6. BodyTypeOK'
    <2>1. Stored \in Seq(BodyBytes) /\ CRLF \in Seq(BodyBytes) /\ <<".", "CR", "LF">> \in Seq(BodyBytes) /\ <<>> \in Seq(BodyBytes)
      BY <1>1, BytesAssumption DEF Stored, CRLF
    <2>2. wire' \in Seq(BodyBytes)
      BY <2>1 DEF finish, BodyTypeOK
    <2> QED
      BY <1>5, <2>1, <2>2 DEF finish, BodyTypeOK, source, stuffer, Modes
  <1>7. ChunkIsNext' /\ Registers'
    BY <1>1 DEF finish, ChunkIsNext, Registers, Taken, source, stuffer
  <1>8. Synchronised'
    BY <1>5 DEF finish, Synchronised, Stored, source
  <1> QED
    BY <1>6, <1>7, <1>8

LEMMA StepIInv == IInv /\ [BodyNext]_bodyVars => IInv'
  <1> SUFFICES ASSUME IInv, [BodyNext]_bodyVars PROVE IInv'
    OBVIOUS
  <1>1. CASE \E n \in 1..Chunk : read_chunk(n)
    BY <1>1, ReadChunkStep
  <1>2. CASE read_error
    BY <1>2 DEF read_error, IInv, BodyTypeOK, ChunkIsNext, Registers, Synchronised, Taken, source,
       stuffer
  <1>3. CASE process_byte
    BY <1>3, ProcessByteStep
  <1>4. CASE process_chunk
    <2>1. UNCHANGED <<body, pos, chunk, at_line_start, prev, prev_prev, wire, rcv>> /\ Taken' = Taken
      BY <1>4 DEF process_chunk, source, Taken
    <2>2. BodyTypeOK'
      BY <1>4, <2>1 DEF process_chunk, IInv, BodyTypeOK
    <2>3. ChunkIsNext'
      BY <1>4, <2>1 DEF process_chunk, IInv, BodyTypeOK, ChunkIsNext
    <2>4. Registers'
      BY <2>1 DEF IInv, Registers
    <2>5. Synchronised'
      BY <1>4, <2>1 DEF process_chunk, IInv, Synchronised
    <2> QED
      BY <2>2, <2>3, <2>4, <2>5 DEF IInv
  <1>5. CASE finish
    BY <1>5, FinishStep
  <1>6. CASE BodyStopped \/ UNCHANGED bodyVars
    <2>1. UNCHANGED bodyVars
      BY <1>6 DEF BodyStopped
    <2>2. BodyTypeOK' /\ ChunkIsNext'
      BY <2>1 DEF bodyVars, IInv, BodyTypeOK, ChunkIsNext, Taken
    <2>3. Registers'
      BY <2>1 DEF bodyVars, IInv, Registers, Taken
    <2>4. Synchronised'
      BY <2>1 DEF bodyVars, IInv, Synchronised, Taken, Stored
    <2> QED
      BY <2>2, <2>3, <2>4 DEF IInv
  <1> QED
    BY <1>1, <1>2, <1>3, <1>4, <1>5, <1>6 DEF BodyNext

LEMMA IInvTransparent == IInv => Transparent
  <1> SUFFICES ASSUME IInv PROVE Transparent
    OBVIOUS
  <1>1. ASSUME phase # "done"
        PROVE  rcv.got = SubSeq(body, 1, Taken) /\ rcv.mode \notin {"end", "over"}
    <2>1. body \in Seq(BodyBytes) /\ rcv.got \in Seq(BodyBytes) /\ Taken \in Nat /\ Taken <= Len(body)
      BY DEF IInv, BodyTypeOK, ChunkIsNext, Taken
    <2>2. /\ SubSeq(body, 1, Taken) \in Seq(BodyBytes) /\ Len(SubSeq(body, 1, Taken)) = Taken
          /\ \A i \in 1..Taken : SubSeq(body, 1, Taken)[i] = body[i]
      BY <2>1, SubSeqBytes
    <2>3. rcv.got = SubSeq(body, 1, Taken)
      BY <1>1, <2>1, <2>2, SeqEqual DEF IInv, Synchronised
    <2> QED
      BY <1>1, <2>3 DEF IInv, Synchronised, Mode
  <1> QED
    BY <1>1 DEF IInv, Synchronised, Transparent

(* Whatever the message, its bytes, its length and the chunks its source    *)
(* cuts it into (send_mail_stream with DotStufferState): a server that      *)
(* follows RFC 5321 stores exactly it, and sees its end neither early, nor  *)
(* twice, nor at all when the source fails.                                 *)
THEOREM StreamIsTransparent == BodySpec => []Transparent
  <1>1. BodySpec => []IInv
    BY InitIInv, StepIInv, PTL DEF BodySpec
  <1> QED
    BY <1>1, IInvTransparent, PTL
-----------------------------------------------------------------------------
(***************************************************************************)
(* The stream encoder against the one-shot one. The loop of                *)
(* dot_stuff_and_terminate is a recursive function; that it exists is      *)
(* shown by an induction over the length, once, and what it returns        *)
(* follows from the steps of the stream.                                   *)
(***************************************************************************)

(* An induction over the naturals, for a set. *)
LEMMA SetInduction ==
  ASSUME NEW T, 0 \in T, \A k \in T : k + 1 \in T
  PROVE  Nat \subseteq T
  <1> SUFFICES ASSUME Nat \ T # {} PROVE FALSE
    OBVIOUS
  <1>1. PICK i \in Nat \ T : \A j \in Nat \ T : ~(<<j, i>> \in OpToRel(<, Nat))
    BY NatLessThanWellFounded, WFMin
  <1>2. \A j \in Nat \ T : ~(j < i)
    BY <1>1 DEF OpToRel
  <1>3. i # 0 /\ i \in Nat
    BY <1>1
  <1>4. i - 1 \in Nat /\ i - 1 < i /\ (i - 1) + 1 = i
    BY <1>3
  <1>5. i - 1 \in T
    BY <1>2, <1>4
  <1> QED
    BY <1>1, <1>4, <1>5

(* What byte n of the body becomes. *)
Turn(b, n) ==
    IF (n = 1 \/ (n > 2 /\ b[n - 2] = "CR" /\ b[n - 1] = "LF")) /\ b[n] = "."
    THEN <<".", ".">> ELSE <<b[n]>>
Unfolds(b, k, g) == g = [n \in 0..k |-> IF n = 0 THEN <<>> ELSE g[n - 1] \o Turn(b, n)]
Loop(b) == CHOOSE g : Unfolds(b, Len(b), g)

LEMMA LoopExists == ASSUME NEW b, NEW m \in Nat PROVE \E g : Unfolds(b, m, g)
  <1> DEFINE T == {k \in Nat : \E g : Unfolds(b, k, g)}
  <1>1. 0 \in T
    <2> DEFINE g == [n \in 0..0 |-> <<>>]
    <2>1. g = [n \in 0..0 |-> IF n = 0 THEN <<>> ELSE g[n - 1] \o Turn(b, n)]
      OBVIOUS
    <2> HIDE DEF g
    <2> QED
      BY <2>1 DEF Unfolds
  <1>2. ASSUME NEW k \in T PROVE k + 1 \in T
    <2>1. k \in Nat /\ \E g : Unfolds(b, k, g)
      OBVIOUS
    <2>2. PICK g : Unfolds(b, k, g)
      BY <2>1
    <2> DEFINE h == [n \in 0..(k + 1) |-> IF n = k + 1 THEN g[k] \o Turn(b, k + 1) ELSE g[n]]
               F == [n \in 0..(k + 1) |-> IF n = 0 THEN <<>> ELSE h[n - 1] \o Turn(b, n)]
    <2>3. ASSUME NEW n \in 0..(k + 1) PROVE h[n] = F[n]
      <3>1. CASE n = k + 1
        <4>1. n - 1 = k /\ n # 0 /\ k \in 0..(k + 1) /\ k # k + 1
          BY <2>1, <3>1
        <4>2. h[k] = g[k]
          BY <4>1
        <4>3. h[n] = g[k] \o Turn(b, n)
          BY <3>1
        <4>4. F[n] = h[n - 1] \o Turn(b, n)
          BY <4>1
        <4> QED
          BY <4>1, <4>2, <4>3, <4>4
      <3>2. CASE n = 0
        BY <2>1, <2>2, <3>2 DEF Unfolds
      <3>3. CASE n \in 1..k
        <4>1. n # 0 /\ n # k + 1 /\ n \in 0..k /\ n - 1 \in 0..(k + 1) /\ n - 1 # k + 1
          BY <2>1, <3>3
        <4>2. h[n] = g[n] /\ h[n - 1] = g[n - 1]
          BY <4>1
        <4>3. g[n] = g[n - 1] \o Turn(b, n)
          BY <2>2, <4>1 DEF Unfolds
        <4>4. F[n] = h[n - 1] \o Turn(b, n)
          BY <4>1
        <4> QED
          BY <4>2, <4>3, <4>4
      <3> QED
        BY <2>1, <3>1, <3>2, <3>3
    <2>4. h = F
      BY <2>3
    <2>5. Unfolds(b, k + 1, h)
      BY <2>4 DEF Unfolds
    <2> HIDE DEF h
    <2> QED
      BY <2>1, <2>5
  <1> HIDE DEF T
  <1>3. m \in T
    BY <1>1, <1>2, SetInduction
  <1> QED
    BY <1>3 DEF T

(* The loop, turn by turn, and its result. *)
LEMMA LoopTurns ==
  ASSUME NEW b \in Seq(BodyBytes)
  PROVE  /\ Loop(b)[0] = <<>>
         /\ \A n \in 1..Len(b) : Loop(b)[n] = Loop(b)[n - 1] \o Turn(b, n)
         /\ stuff_loop(b) = Loop(b)[Len(b)]
  <1>1. Len(b) \in Nat
    OBVIOUS
  <1>2. Unfolds(b, Len(b), Loop(b))
    BY <1>1, LoopExists DEF Loop
  <1>3. Loop(b) = [n \in 0..Len(b) |-> IF n = 0 THEN <<>> ELSE Loop(b)[n - 1] \o Turn(b, n)]
    BY <1>2 DEF Unfolds
  <1>4. Loop(b)[0] = <<>> /\ \A n \in 1..Len(b) : Loop(b)[n] = Loop(b)[n - 1] \o Turn(b, n)
    <2> DEFINE g == Loop(b)
    <2>1. g = [n \in 0..Len(b) |-> IF n = 0 THEN <<>> ELSE g[n - 1] \o Turn(b, n)]
      BY <1>3
    <2> HIDE DEF g
    <2>2. g[0] = <<>>
      BY <1>1, <2>1
    <2>3. ASSUME NEW n \in 1..Len(b) PROVE g[n] = g[n - 1] \o Turn(b, n)
      <3>1. n \in 0..Len(b) /\ n # 0
        BY <1>1
      <3> QED
        BY <2>1, <3>1
    <2> QED
      BY <2>2, <2>3 DEF g
  <1>5. stuff_loop(b) = Loop(b)[Len(b)]
    BY Zenon DEF stuff_loop, Loop, Unfolds, Turn
  <1> QED
    BY <1>4, <1>5

(* What has been written is what the loop has put out so far, and its last *)
(* bytes are those of the body wherever they could be a line end.          *)
Agrees ==
    /\ phase # "done" =>
          /\ wire = Loop(body)[Taken]
          /\ Taken = 0 => wire = <<>>
          /\ Taken > 0 => Len(wire) > 0 /\ wire[Len(wire)] = prev
          /\ prev = "LF" => IF Taken > 1 THEN Len(wire) > 1 /\ wire[Len(wire) - 1] = prev_prev
                                         ELSE Len(wire) = 1
    /\ StreamIsOneShot

LEMMA ByteAgrees ==
  ASSUME IInv, Agrees, process_byte
  PROVE  Agrees'
  <1> DEFINE b == Head(chunk)
  <1>1. /\ chunk \in Seq(BodyBytes) /\ Len(chunk) \in Nat /\ Len(chunk) > 0 /\ chunk[1] = b
        /\ b \in BodyBytes /\ Len(Tail(chunk)) = Len(chunk) - 1
    BY DEF process_byte, IInv, BodyTypeOK
  <1>2. /\ pos \in Nat /\ Taken \in Nat /\ Taken < pos /\ pos <= Len(body) /\ b = body[Taken + 1]
        /\ body \in Seq(BodyBytes) /\ wire \in Seq(BodyBytes)
    BY <1>1 DEF IInv, BodyTypeOK, ChunkIsNext, Taken
  <1>3. Taken' = Taken + 1 /\ phase = "stuff" /\ phase' = "stuff" /\ body' = body /\ prev' = b /\ prev_prev' = prev
    BY <1>1, <1>2 DEF process_byte, Taken
  <1>4. at_line_start <=> (Taken + 1 = 1 \/ (Taken + 1 > 2 /\ body[Taken - 1] = "CR" /\ body[Taken] = "LF"))
    BY <1>2, BytesAssumption DEF IInv, Registers
  <1>5. wire' = wire \o Turn(body, Taken + 1)
    <2>1. (Taken + 1) - 2 = Taken - 1 /\ (Taken + 1) - 1 = Taken
      BY <1>2
    <2>2. wire' = wire \o (IF at_line_start /\ b = "." THEN <<".", b>> ELSE <<b>>)
      BY DEF process_byte
    <2> QED
      BY <1>2, <1>4, <2>1, <2>2 DEF Turn
  <1>6. wire' = Loop(body)[Taken + 1]
    <2>1. Taken + 1 \in 1..Len(body) /\ (Taken + 1) - 1 = Taken
      BY <1>2
    <2>2. wire = Loop(body)[Taken]
      BY <1>3 DEF Agrees
    <2> QED
      BY <1>2, <1>5, <2>1, <2>2, LoopTurns
  <1>7. /\ Len(wire') > 0 /\ wire'[Len(wire')] = b
        /\ b # "." => Len(wire') = Len(wire) + 1 /\ (Len(wire) > 0 => wire'[Len(wire') - 1] = wire[Len(wire)])
    <2>1. Turn(body, Taken + 1) = <<b>> \/ (Turn(body, Taken + 1) = <<".", ".">> /\ b = ".")
      BY <1>2 DEF Turn
    <2>2. CASE Turn(body, Taken + 1) = <<b>>
      <3>1. Len(wire \o <<b>>) = Len(wire) + 1 /\ (wire \o <<b>>)[Len(wire) + 1] = b
            /\ \A i \in 1..Len(wire) : (wire \o <<b>>)[i] = wire[i]
        BY <1>1, <1>2
      <3>2. wire' = wire \o <<b>> /\ Len(wire) \in Nat
        <4>1. wire' = wire \o <<b>>
          BY <1>5, <2>2, Zenon
        <4>2. Len(wire) \in Nat
          BY <1>2
        <4> QED
          BY <4>1, <4>2
      <3>3. Len(wire') = Len(wire) + 1 /\ wire'[Len(wire')] = b
        BY <3>1, <3>2
      <3>4. Len(wire) > 0 => wire'[Len(wire') - 1] = wire[Len(wire)]
        <4>1. Len(wire') - 1 = Len(wire) /\ (Len(wire) > 0 => Len(wire) \in 1..Len(wire))
          BY <3>2, <3>3
        <4> QED
          BY <3>1, <3>2, <4>1
      <3> QED
        BY <3>2, <3>3, <3>4
    <2>3. CASE Turn(body, Taken + 1) = <<".", ".">> /\ b = "."
      <3>1. Len(wire \o <<".", ".">>) = Len(wire) + 2 /\ (wire \o <<".", ".">>)[Len(wire) + 2] = "."
        BY <1>2
      <3>2. wire' = wire \o <<".", ".">> /\ Len(wire) \in Nat
        <4>1. wire' = wire \o <<".", ".">>
          BY <1>5, <2>3, Zenon
        <4>2. Len(wire) \in Nat
          BY <1>2
        <4> QED
          BY <4>1, <4>2
      <3> QED
        BY <2>3, <3>1, <3>2
    <2> QED
      BY <2>1, <2>2, <2>3
  <1>8. b = "LF" => IF Taken + 1 > 1 THEN Len(wire') > 1 /\ wire'[Len(wire') - 1] = prev ELSE Len(wire') = 1
    <2>1. (Taken = 0 => Len(wire) = 0) /\ (Taken > 0 => Len(wire) > 0 /\ wire[Len(wire)] = prev)
      BY <1>3 DEF Agrees
    <2>2. Len(wire) \in Nat
      BY <1>2
    <2>3. CASE Taken = 0
      BY <1>7, <2>1, <2>2, <2>3
    <2>4. CASE Taken > 0
      <3>1. b = "LF" => b # "."
        OBVIOUS
      <3>2. b = "LF" => Len(wire') > 1 /\ wire'[Len(wire') - 1] = prev
        BY <1>7, <2>1, <2>2, <2>4, <3>1
      <3> QED
        BY <1>2, <2>4, <3>2
    <2> QED
      BY <1>2, <2>3, <2>4
  <1> QED
    BY <1>2, <1>3, <1>6, <1>7, <1>8 DEF Agrees, StreamIsOneShot

LEMMA FinishAgrees ==
  ASSUME IInv, Agrees, finish
  PROVE  Agrees'
  <1>1. /\ Taken = Len(body) /\ Taken = pos /\ Taken \in Nat /\ body \in Seq(BodyBytes) /\ wire \in Seq(BodyBytes)
        /\ phase = "read" /\ phase' = "done" /\ body' = body
    BY DEF finish, IInv, ChunkIsNext, Taken, BodyTypeOK, source
  <1>2. /\ wire = Loop(body)[Taken]
        /\ Taken = 0 => wire = <<>>
        /\ Taken > 0 => Len(wire) > 0 /\ wire[Len(wire)] = prev
        /\ prev = "LF" => IF Taken > 1 THEN Len(wire) > 1 /\ wire[Len(wire) - 1] = prev_prev
                                       ELSE Len(wire) = 1
    BY <1>1 DEF Agrees
  <1>3. wire = stuff_loop(body)
    BY <1>1, <1>2, LoopTurns
  <1>4. ends_with_crlf <=> EndsWithCrlf(wire)
    <2>1. empty <=> Taken = 0
      BY <1>1 DEF IInv, ChunkIsNext
    <2>2. prev_prev = "CR" => Taken > 1
      BY <1>1 DEF IInv, Registers
    <2> QED
      BY <1>1, <1>2, <2>1, <2>2 DEF ends_with_crlf, EndsWithCrlf
  <1>5. wire' = dot_stuff_and_terminate(body)
    BY <1>3, <1>4 DEF finish, dot_stuff_and_terminate
  <1> QED
    BY <1>1, <1>5 DEF Agrees, StreamIsOneShot

LEMMA StepAgrees == IInv /\ Agrees /\ [BodyNext]_bodyVars => Agrees'
  <1> SUFFICES ASSUME IInv, Agrees, [BodyNext]_bodyVars PROVE Agrees'
    OBVIOUS
  <1>1. ASSUME UNCHANGED <<body, prev, prev_prev, wire>>, Taken' = Taken, phase # "done", phase' # "done"
        PROVE  Agrees'
    BY <1>1 DEF Agrees, StreamIsOneShot
  <1>2. CASE \E n \in 1..Chunk : read_chunk(n)
    <2>1. PICK n \in 1..Chunk : read_chunk(n)
      BY <1>2
    <2>2. chunk = <<>> /\ pos \in Nat /\ body \in Seq(BodyBytes) /\ n \in Nat /\ n > 0 /\ pos + n <= Len(body)
      BY <2>1, ChunkAssumption DEF read_chunk, IInv, BodyTypeOK, ChunkIsNext
    <2>3. Len(chunk') = n
      <3>1. pos + 1 \in 1..(Len(body) + 1) /\ pos + n \in pos..Len(body)
        BY <2>2
      <3> QED
        BY <2>1, <2>2, <3>1, SubSeqBytes DEF read_chunk
    <2>4. Taken' = Taken
      BY <2>1, <2>2, <2>3 DEF read_chunk, Taken
    <2> QED
      BY <1>1, <2>1, <2>4 DEF read_chunk, stuffer
  <1>3. CASE read_error
    BY <1>1, <1>3 DEF read_error, source, stuffer, Taken
  <1>4. CASE process_byte
    BY <1>4, ByteAgrees
  <1>5. CASE process_chunk
    BY <1>1, <1>5 DEF process_chunk, source, Taken
  <1>6. CASE finish
    BY <1>6, FinishAgrees
  <1>7. CASE BodyStopped \/ UNCHANGED bodyVars
    BY <1>7 DEF BodyStopped, bodyVars, Agrees, StreamIsOneShot, Taken
  <1> QED
    BY <1>2, <1>3, <1>4, <1>5, <1>6, <1>7 DEF BodyNext

(* Whatever the message and however it is cut, the stream encoder produces *)
(* exactly the bytes of dot_stuff_and_terminate: send_mail and             *)
(* send_mail_stream put the same message on the wire.                      *)
THEOREM StreamMatchesOneShot == BodySpec => []StreamIsOneShot
  <1>1. BodyInit => Agrees
    <2> SUFFICES ASSUME BodyInit PROVE Agrees
      OBVIOUS
    <2>1. body \in Seq(BodyBytes) /\ Taken = 0
      <3>1. pos = 0 /\ Len(chunk) = 0
        BY DEF BodyInit
      <3>2. Taken = 0
        BY <3>1 DEF Taken
      <3>3. body \in Seq(BodyBytes)
        BY BodiesAssumption DEF BodyInit
      <3> QED
        BY <3>2, <3>3
    <2> QED
      BY <2>1, LoopTurns DEF BodyInit, Agrees, StreamIsOneShot
  <1>2. BodySpec => []IInv
    BY InitIInv, StepIInv, PTL DEF BodySpec
  <1>3. BodySpec => []Agrees
    BY <1>1, <1>2, StepAgrees, PTL DEF BodySpec
  <1>4. Agrees => StreamIsOneShot
    BY DEF Agrees
  <1> QED
    BY <1>3, <1>4, PTL
=============================================================================
