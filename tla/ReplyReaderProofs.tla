------------------------- MODULE ReplyReaderProofs --------------------------
(***************************************************************************)
(* The receive buffer is bounded, and what is read through it is what is   *)
(* in the stream, for every stream, every read and every value of the      *)
(* limits.                                                                 *)
(***************************************************************************)
EXTENDS ReplyReader, SequenceTheorems, FiniteSetTheorems, NaturalsInduction,
        WellFoundedInduction, TLAPS

(* BufferBounded alone is not preserved by a read: what makes it so is that *)
(* compact_rx leaves fewer than the threshold of consumed bytes in front.   *)
Compacted == rx_pos < RX_BUF_COMPACT_THRESHOLD
LinesBounded == status = "reading" => lines < MAX_REPLY_LINES

IInv == TypeOK /\ Compacted /\ LinesBounded /\ BufferBounded

(* A non-empty set of naturals has a least element. *)
LEMMA LeastNatural ==
  ASSUME NEW T, T \subseteq Nat, T # {}
  PROVE  \E i \in T : \A j \in T : i <= j
  <1>1. PICK i \in T : \A j \in T : ~(<<j, i>> \in OpToRel(<, Nat))
    BY NatLessThanWellFounded, WFMin
  <1>2. \A j \in T : ~(j < i)
    BY <1>1 DEF OpToRel
  <1>3. \A j \in T : i <= j
    BY <1>2
  <1> QED
    BY <1>3

(* find_crlf finds the first line end behind the position it starts from. *)
LEMMA LeastCrlf ==
  ASSUME NEW buf \in Seq(Bytes), NEW p \in Nat, crlfs(buf, p) # {}
  PROVE  /\ find_crlf(buf, p) \in crlfs(buf, p)
         /\ \A j \in crlfs(buf, p) : find_crlf(buf, p) <= j
         /\ find_crlf(buf, p) \in (p + 1)..(Len(buf) - 1)
  <1>1. crlfs(buf, p) \subseteq Nat /\ crlfs(buf, p) \subseteq (p + 1)..(Len(buf) - 1)
    BY DEF crlfs
  <1>2. \E i \in crlfs(buf, p) : \A j \in crlfs(buf, p) : i <= j
    BY <1>1, LeastNatural
  <1>3. find_crlf(buf, p) \in crlfs(buf, p) /\ \A j \in crlfs(buf, p) : find_crlf(buf, p) <= j
    BY <1>2 DEF find_crlf
  <1> QED
    BY <1>1, <1>3

(* The bytes of a sequence behind position p, up to position q. *)
LEMMA PartOfSeq ==
  ASSUME NEW S, NEW s \in Seq(S), NEW p \in Nat, NEW q \in Nat, p <= q, q <= Len(s)
  PROVE  /\ SubSeq(s, p + 1, q) \in Seq(S)
         /\ Len(SubSeq(s, p + 1, q)) = q - p
         /\ \A i \in 1..(q - p) : SubSeq(s, p + 1, q)[i] = s[p + i]
  OBVIOUS

LEMMA Limits ==
  /\ MAX_REPLY_LINE_LEN \in Nat /\ MAX_REPLY_LINES \in Nat /\ MAX_REPLY_LINES > 0
  /\ RX_BUF_HARD_LIMIT \in Nat
  /\ RX_BUF_COMPACT_THRESHOLD \in Nat /\ RX_BUF_COMPACT_THRESHOLD > 0
  /\ READ_CHUNK \in Nat /\ READ_CHUNK > 0
  BY LimitsAssumption DEF RX_BUF_HARD_LIMIT

LEMMA InitIInv == Init => IInv
  <1> SUFFICES ASSUME Init PROVE IInv
    OBVIOUS
  <1>1. stream \in Seq(Bytes) /\ Len(stream) \in Nat
    BY StreamsAssumption DEF Init
  <1>2. rx_buf \in Seq(Bytes) /\ Len(rx_buf) = 0
    BY DEF Init
  <1>3. replies \in Seq([code : Codes, lines : 1..MAX_REPLY_LINES])
    BY DEF Init
  <1>4. TypeOK
    BY <1>1, <1>2, <1>3, Limits DEF Init, TypeOK, Statuses
  <1>5. Compacted /\ LinesBounded /\ BufferBounded
    BY <1>2, Limits DEF Init, Compacted, LinesBounded, BufferBounded
  <1> QED
    BY <1>4, <1>5 DEF IInv

LEMMA ReadLineStep ==
  ASSUME IInv, read_line
  PROVE  IInv'
  <1> DEFINE end == find_crlf(rx_buf, rx_pos)
             line == SubSeq(rx_buf, rx_pos + 1, end - 1)
  <1>1. /\ rx_buf \in Seq(Bytes) /\ Len(rx_buf) \in Nat /\ rx_pos \in Nat
        /\ lines \in Nat /\ lines < MAX_REPLY_LINES
        /\ replies \in Seq([code : Codes, lines : 1..MAX_REPLY_LINES])
    BY Limits DEF IInv, TypeOK, LinesBounded, read_line
  <1>2. end \in (rx_pos + 1)..(Len(rx_buf) - 1) /\ end \in Nat
    BY <1>1, LeastCrlf DEF read_line, HasLine
  <1>3. /\ rx_buf' \in Seq(Bytes) /\ rx_pos' \in 0..Len(rx_buf')
        /\ rx_pos' < RX_BUF_COMPACT_THRESHOLD /\ Len(rx_buf') <= Len(rx_buf)
    <2>1. compact_rx(end + 1)
      BY DEF read_line
    <2>2. CASE end + 1 >= RX_BUF_COMPACT_THRESHOLD
      <3>1. rx_buf' = SubSeq(rx_buf, end + 2, Len(rx_buf)) /\ rx_pos' = 0
        BY <1>2, <2>1, <2>2 DEF compact_rx
      <3>2. /\ SubSeq(rx_buf, end + 2, Len(rx_buf)) \in Seq(Bytes)
            /\ Len(SubSeq(rx_buf, end + 2, Len(rx_buf))) = Len(rx_buf) - end - 1
        <4> HIDE DEF end
        <4> DEFINE q == end + 1
                   part == SubSeq(rx_buf, q + 1, Len(rx_buf))
        <4>1. /\ rx_buf \in Seq(Bytes) /\ q \in Nat /\ Len(rx_buf) \in Nat /\ q <= Len(rx_buf)
              /\ q + 1 = end + 2 /\ Len(rx_buf) - q = Len(rx_buf) - end - 1
          BY <1>1, <1>2
        <4> HIDE DEF q
        <4>2. part \in Seq(Bytes) /\ Len(part) = Len(rx_buf) - q
          BY <4>1, PartOfSeq
        <4> QED
          BY <4>1, <4>2, Zenon
      <3> HIDE DEF end
      <3>3. rx_buf' \in Seq(Bytes) /\ Len(rx_buf') = Len(rx_buf) - end - 1
        BY <3>1, <3>2, Zenon
      <3>4. Len(rx_buf') \in Nat /\ Len(rx_buf') <= Len(rx_buf)
        BY <1>1, <1>2, <3>3
      <3> QED
        BY <3>1, <3>3, <3>4, Limits
    <2>3. CASE end + 1 < RX_BUF_COMPACT_THRESHOLD
      BY <1>1, <1>2, <2>1, <2>3, Limits DEF compact_rx
    <2> QED
      BY <1>2, <2>2, <2>3, Limits
  <1>4. /\ status' \in Statuses /\ lines' \in 0..MAX_REPLY_LINES
        /\ code' \in Codes \cup {"none"}
        /\ replies' \in Seq([code : Codes, lines : 1..MAX_REPLY_LINES])
        /\ status' = "reading" => lines' < MAX_REPLY_LINES
    <2> HIDE DEF line
    <2>0. WellFormed(line) => line[1] \in Codes
      BY DEF WellFormed
    <2>1. CASE \E err \in Statuses \ {"reading"} : Fails(err)
      BY <1>1, <2>1, Limits DEF Fails, IInv, TypeOK
    <2>2. CASE /\ WellFormed(line) /\ lines' = 0 /\ code' = "none" /\ status' = status
               /\ replies' = Append(replies, [code |-> line[1], lines |-> lines + 1])
      <3>1. [code |-> line[1], lines |-> lines + 1] \in [code : Codes, lines : 1..MAX_REPLY_LINES]
        BY <1>1, <2>0, <2>2, Limits
      <3> QED
        <4>1. replies' \in Seq([code : Codes, lines : 1..MAX_REPLY_LINES])
          BY <1>1, <2>2, <3>1
        <4>2. status' \in Statuses
          BY <2>2 DEF IInv, TypeOK
        <4> QED
          BY <2>2, <4>1, <4>2, Limits
    <2>3. CASE /\ WellFormed(line) /\ lines' = lines + 1 /\ code' = line[1] /\ replies' = replies
               /\ status' = IF lines + 1 >= MAX_REPLY_LINES THEN "Malformed" ELSE "reading"
      BY <1>1, <2>0, <2>3, Limits DEF Statuses
    <2>4. \/ Fails("LineTooLong") \/ Fails("Malformed") \/ Fails("InconsistentMultiline")
          \/ /\ WellFormed(line) /\ lines' = 0 /\ code' = "none" /\ status' = status
             /\ replies' = Append(replies, [code |-> line[1], lines |-> lines + 1])
          \/ /\ WellFormed(line) /\ lines' = lines + 1 /\ code' = line[1] /\ replies' = replies
             /\ status' = IF lines + 1 >= MAX_REPLY_LINES THEN "Malformed" ELSE "reading"
      BY Zenon DEF read_line, read_reply, line
    <2>5. {"LineTooLong", "Malformed", "InconsistentMultiline"} \subseteq Statuses \ {"reading"}
      BY DEF Statuses
    <2> QED
      BY <2>1, <2>2, <2>3, <2>4, <2>5
  <1>5. TypeOK'
    BY <1>3, <1>4 DEF IInv, TypeOK, read_line
  <1>6. BufferBounded'
    <2>1. Len(rx_buf') \in Nat
      BY <1>3
    <2> QED
      BY <1>1, <1>3, <2>1, Limits DEF IInv, BufferBounded
  <1> QED
    BY <1>3, <1>4, <1>5, <1>6 DEF IInv, Compacted, LinesBounded

LEMMA FillBufStep ==
  ASSUME IInv, NEW n \in 1..READ_CHUNK, fill_buf(n)
  PROVE  IInv'
  <1> DEFINE got == SubSeq(stream, sent + 1, sent + n)
  <1>1. /\ rx_buf \in Seq(Bytes) /\ Len(rx_buf) \in Nat /\ rx_pos \in 0..Len(rx_buf)
        /\ stream \in Seq(Bytes) /\ sent \in Nat /\ n \in Nat /\ sent + n <= Len(stream)
    BY Limits DEF IInv, TypeOK, fill_buf
  <1>2. got \in Seq(Bytes) /\ Len(got) = n
    BY <1>1
  <1>3. rx_buf' \in Seq(Bytes) /\ Len(rx_buf') = Len(rx_buf) + n
    BY <1>1, <1>2 DEF fill_buf
  <1>4. Len(rx_buf) - rx_pos <= RX_BUF_HARD_LIMIT /\ rx_pos < RX_BUF_COMPACT_THRESHOLD
    BY DEF fill_buf, Unread, IInv, Compacted
  <1>5. BufferBounded'
    BY <1>1, <1>3, <1>4, Limits DEF BufferBounded
  <1>6. TypeOK'
    BY <1>1, <1>3 DEF IInv, TypeOK, fill_buf
  <1> QED
    BY <1>5, <1>6 DEF IInv, Compacted, LinesBounded, fill_buf

LEMMA StepIInv == IInv /\ [Next]_vars => IInv'
  <1> SUFFICES ASSUME IInv, [Next]_vars PROVE IInv'
    OBVIOUS
  <1>1. CASE read_line
    BY <1>1, ReadLineStep
  <1>2. CASE line_too_long \/ read_ends
    <2>1. /\ UNCHANGED <<stream, sent, rx_buf, rx_pos, lines, code, replies>>
          /\ status' \in Statuses \ {"reading"}
      BY <1>2 DEF line_too_long, read_ends, Fails, Statuses
    <2> QED
      BY <2>1 DEF IInv, TypeOK, Compacted, LinesBounded, BufferBounded
  <1>3. CASE \E n \in 1..READ_CHUNK : fill_buf(n)
    BY <1>3, FillBufStep
  <1>4. CASE Stopped \/ UNCHANGED vars
    BY <1>4 DEF Stopped, vars, IInv, TypeOK, Compacted, LinesBounded, BufferBounded
  <1> QED
    BY <1>1, <1>2, <1>3, <1>4 DEF Next

(* Whatever the server sends and however it is cut into reads, the receive  *)
(* buffer of read_line never outgrows the compaction threshold, the hard    *)
(* limit and one read together.                                             *)
THEOREM BufferStaysBounded == Spec => [](TypeOK /\ BufferBounded)
  <1>1. Spec => []IInv
    BY InitIInv, StepIInv, PTL DEF Spec
  <1>2. IInv => TypeOK /\ BufferBounded
    BY DEF IInv
  <1> QED
    BY <1>1, <1>2, PTL
-----------------------------------------------------------------------------
(***************************************************************************)
(* The buffer adds nothing and loses nothing: what is returned can be read *)
(* off the stream.                                                         *)
(***************************************************************************)

(* Where in the stream the next line begins. *)
Consumed == sent - Unread

(* Whatever the reads, the chunk size and the compactions, a step of the   *)
(* reader is one of a reader that has the whole stream in view: it takes   *)
(* the next line of the stream; or it fails because the line is too long,  *)
(* because the stream is over behind its last line, or because a read      *)
(* fails. For a given stream and position the first three exclude each     *)
(* other, or end alike.                                                    *)
ReadOffTheStream ==
    \/ /\ crlfs(stream, Consumed) # {}
       /\ LET end == find_crlf(stream, Consumed)
          IN  /\ Consumed' = end + 1
              /\ read_reply(SubSeq(stream, Consumed + 1, end - 1))
    \/ /\ \A end \in crlfs(stream, Consumed) : end - 1 - Consumed > MAX_REPLY_LINE_LEN
       /\ Len(stream) - Consumed > RX_BUF_HARD_LIMIT
       /\ Consumed' = Consumed /\ Fails("LineTooLong")
    \/ /\ crlfs(stream, Consumed) = {}
       /\ Len(stream) - Consumed <= RX_BUF_HARD_LIMIT
       /\ Consumed' = Consumed /\ Fails("UnexpectedClose")
    \/ Consumed' = Consumed /\ Fails("Io")

ReadsAreInvisible == [][ReadOffTheStream]_<<Consumed, lines, code, replies, status>>

(* The unread part of the buffer is the stream from Consumed to sent. *)
Window ==
    /\ Unread <= sent
    /\ \A i \in 1..Unread : rx_buf[rx_pos + i] = stream[Consumed + i]

LEMMA Positions ==
  ASSUME IInv, Window
  PROVE  /\ rx_buf \in Seq(Bytes) /\ Len(rx_buf) \in Nat /\ rx_pos \in 0..Len(rx_buf)
         /\ stream \in Seq(Bytes) /\ Len(stream) \in Nat /\ sent \in 0..Len(stream)
         /\ Unread \in Nat /\ Unread = Len(rx_buf) - rx_pos
         /\ Consumed \in Nat /\ Consumed + Unread = sent
  BY DEF IInv, TypeOK, Window, Unread, Consumed

(* A line end is seen in the buffer exactly if it has been read. *)
LEMMA SameEnds ==
  ASSUME IInv, Window, NEW k \in Nat
  PROVE  (rx_pos + k) \in crlfs(rx_buf, rx_pos)
            <=> (Consumed + k) \in crlfs(stream, Consumed) /\ Consumed + k + 1 <= sent
  <1>0. /\ rx_buf \in Seq(Bytes) /\ Len(rx_buf) \in Nat /\ rx_pos \in 0..Len(rx_buf)
        /\ stream \in Seq(Bytes) /\ Len(stream) \in Nat /\ sent \in 0..Len(stream)
        /\ Unread \in Nat /\ Unread = Len(rx_buf) - rx_pos
        /\ Consumed \in Nat /\ Consumed + Unread = sent
    BY Positions
  <1>1. CASE k \in 1..(Unread - 1)
    <2>1. k \in 1..Unread /\ k + 1 \in 1..Unread
      BY <1>1, <1>0
    <2>2. /\ rx_buf[rx_pos + k] = stream[Consumed + k]
          /\ rx_buf[rx_pos + (k + 1)] = stream[Consumed + (k + 1)]
      BY <2>1 DEF Window
    <2>3. rx_pos + (k + 1) = (rx_pos + k) + 1 /\ Consumed + (k + 1) = (Consumed + k) + 1
      BY <1>0
    <2>4. /\ rx_pos + k \in (rx_pos + 1)..(Len(rx_buf) - 1)
          /\ Consumed + k \in (Consumed + 1)..(Len(stream) - 1)
          /\ Consumed + k + 1 <= sent
      BY <1>1, <1>0
    <2> QED
      BY <2>2, <2>3, <2>4 DEF crlfs
  <1>2. CASE k \notin 1..(Unread - 1)
    <2>1. ~(rx_pos + k \in (rx_pos + 1)..(Len(rx_buf) - 1))
      BY <1>2, <1>0
    <2>2. ~(Consumed + k \in (Consumed + 1)..(Len(stream) - 1) /\ Consumed + k + 1 <= sent)
      BY <1>2, <1>0
    <2> QED
      BY <2>1, <2>2 DEF crlfs
  <1> QED
    BY <1>1, <1>2

(* The first line of the buffer is the next line of the stream. *)
LEMMA SameLine ==
  ASSUME IInv, Window, HasLine
  PROVE  LET end == find_crlf(rx_buf, rx_pos)
             e   == find_crlf(stream, Consumed)
         IN  /\ crlfs(stream, Consumed) # {}
             /\ end \in (rx_pos + 1)..(Len(rx_buf) - 1)
             /\ e = Consumed + (end - rx_pos)
             /\ SubSeq(stream, Consumed + 1, e - 1) = SubSeq(rx_buf, rx_pos + 1, end - 1)
  <1>0. /\ rx_buf \in Seq(Bytes) /\ Len(rx_buf) \in Nat /\ rx_pos \in 0..Len(rx_buf)
        /\ stream \in Seq(Bytes) /\ Len(stream) \in Nat /\ sent \in 0..Len(stream)
        /\ Unread \in Nat /\ Unread = Len(rx_buf) - rx_pos
        /\ Consumed \in Nat /\ Consumed + Unread = sent
    BY Positions
  <1> DEFINE end == find_crlf(rx_buf, rx_pos)
             k   == end - rx_pos
             e   == find_crlf(stream, Consumed)
  <1>1. /\ end \in crlfs(rx_buf, rx_pos) /\ \A j \in crlfs(rx_buf, rx_pos) : end <= j
        /\ end \in (rx_pos + 1)..(Len(rx_buf) - 1)
    BY <1>0, LeastCrlf DEF HasLine
  <1> HIDE DEF end
  <1>2. k \in Nat /\ k >= 1 /\ rx_pos + k = end /\ k < Unread
    BY <1>1, <1>0
  <1> HIDE DEF k
  <1>3. Consumed + k \in crlfs(stream, Consumed) /\ Consumed + k + 1 <= sent
    BY <1>1, <1>2, SameEnds
  <1>4. ASSUME NEW j \in crlfs(stream, Consumed) PROVE Consumed + k <= j
    <2>1. j \in (Consumed + 1)..(Len(stream) - 1)
      BY DEF crlfs
    <2>2. j - Consumed \in Nat /\ Consumed + (j - Consumed) = j
      BY <2>1, <1>0
    <2>3. CASE j + 1 <= sent
      <3>1. rx_pos + (j - Consumed) \in crlfs(rx_buf, rx_pos)
        BY <2>2, <2>3, SameEnds
      <3>2. end <= rx_pos + (j - Consumed)
        BY <1>1, <3>1
      <3> QED
        BY <1>2, <2>1, <2>2, <3>2, <1>0
    <2>4. CASE ~(j + 1 <= sent)
      BY <1>2, <1>3, <2>1, <2>4, <1>0
    <2> QED
      BY <2>3, <2>4
  <1>5. e \in crlfs(stream, Consumed) /\ \A j \in crlfs(stream, Consumed) : e <= j
    BY <1>3, <1>0, LeastCrlf
  <1>6. e = Consumed + k
    <2>1. e <= Consumed + k /\ Consumed + k <= e
      BY <1>3, <1>4, <1>5
    <2>2. e \in Int
      BY <1>5, <1>0 DEF crlfs
    <2> HIDE DEF e
    <2> QED
      BY <1>2, <2>1, <2>2, <1>0
  <1> HIDE DEF e
  <1>7. SubSeq(stream, Consumed + 1, e - 1) = SubSeq(rx_buf, rx_pos + 1, end - 1)
    <2> DEFINE s == SubSeq(stream, Consumed + 1, e - 1)
               b == SubSeq(rx_buf, rx_pos + 1, end - 1)
    <2>1. /\ e - 1 \in Nat /\ Consumed <= e - 1 /\ e - 1 <= Len(stream) /\ (e - 1) - Consumed = k - 1
          /\ end - 1 \in Nat /\ rx_pos <= end - 1 /\ end - 1 <= Len(rx_buf) /\ (end - 1) - rx_pos = k - 1
          /\ rx_pos \in Nat
      BY <1>0, <1>2, <1>3, <1>6
    <2>2. s \in Seq(Bytes) /\ Len(s) = k - 1 /\ \A i \in 1..(k - 1) : s[i] = stream[Consumed + i]
      <3>1. /\ s \in Seq(Bytes) /\ Len(s) = (e - 1) - Consumed
            /\ \A i \in 1..((e - 1) - Consumed) : s[i] = stream[Consumed + i]
        <4> DEFINE q == e - 1
                   part == SubSeq(stream, Consumed + 1, q)
        <4>1. stream \in Seq(Bytes) /\ Consumed \in Nat /\ q \in Nat /\ Consumed <= q /\ q <= Len(stream)
          BY <1>0, <2>1
        <4> HIDE DEF q
        <4>2. /\ part \in Seq(Bytes) /\ Len(part) = q - Consumed
              /\ \A i \in 1..(q - Consumed) : part[i] = stream[Consumed + i]
          BY <4>1, PartOfSeq
        <4> QED
          BY <4>2, Zenon DEF q
      <3> HIDE DEF s
      <3> QED
        BY <2>1, <3>1
    <2>3. b \in Seq(Bytes) /\ Len(b) = k - 1 /\ \A i \in 1..(k - 1) : b[i] = rx_buf[rx_pos + i]
      <3>1. /\ b \in Seq(Bytes) /\ Len(b) = (end - 1) - rx_pos
            /\ \A i \in 1..((end - 1) - rx_pos) : b[i] = rx_buf[rx_pos + i]
        <4> DEFINE q == end - 1
                   part == SubSeq(rx_buf, rx_pos + 1, q)
        <4>1. rx_buf \in Seq(Bytes) /\ rx_pos \in Nat /\ q \in Nat /\ rx_pos <= q /\ q <= Len(rx_buf)
          BY <1>0, <2>1
        <4> HIDE DEF q
        <4>2. /\ part \in Seq(Bytes) /\ Len(part) = q - rx_pos
              /\ \A i \in 1..(q - rx_pos) : part[i] = rx_buf[rx_pos + i]
          BY <4>1, PartOfSeq
        <4> QED
          BY <4>2, Zenon DEF q
      <3> HIDE DEF b
      <3> QED
        BY <2>1, <3>1
    <2>4. \A i \in 1..(k - 1) : s[i] = b[i]
      <3>1. \A i \in 1..(k - 1) : i \in 1..Unread
        BY <1>2, <1>0
      <3> QED
        BY <2>2, <2>3, <3>1 DEF Window
    <2> HIDE DEF s, b
    <2>5. s = b
      BY <2>2, <2>3, <2>4, SeqEqual
    <2> QED
      BY <2>5 DEF s, b
  <1> QED
    BY <1>1, <1>3, <1>6, <1>7 DEF end, k, e

LEMMA ReadLineReadsOff ==
  ASSUME IInv, Window, read_line
  PROVE  ReadOffTheStream /\ Window'
  <1>0. /\ rx_buf \in Seq(Bytes) /\ Len(rx_buf) \in Nat /\ rx_pos \in 0..Len(rx_buf)
        /\ stream \in Seq(Bytes) /\ Len(stream) \in Nat /\ sent \in 0..Len(stream)
        /\ Unread \in Nat /\ Unread = Len(rx_buf) - rx_pos
        /\ Consumed \in Nat /\ Consumed + Unread = sent
    BY Positions
  <1> DEFINE end == find_crlf(rx_buf, rx_pos)
             e   == find_crlf(stream, Consumed)
  <1>1. /\ crlfs(stream, Consumed) # {} /\ end \in (rx_pos + 1)..(Len(rx_buf) - 1)
        /\ e = Consumed + (end - rx_pos)
        /\ SubSeq(stream, Consumed + 1, e - 1) = SubSeq(rx_buf, rx_pos + 1, end - 1)
    BY SameLine DEF read_line
  <1>2. /\ compact_rx(end + 1) /\ read_reply(SubSeq(rx_buf, rx_pos + 1, end - 1))
        /\ stream' = stream /\ sent' = sent
    BY DEF read_line
  <1> HIDE DEF end, e
  <1> DEFINE m == Len(rx_buf) - (end + 1)
             d == (end + 1) - rx_pos
  <1>3. /\ m \in Nat /\ d \in Nat /\ end \in Nat /\ end + 1 <= Len(rx_buf)
        /\ rx_pos + d = end + 1 /\ Unread = d + m
    BY <1>0, <1>1
  <1>a. (Consumed + d) + m = sent /\ e + 1 = Consumed + d
    <2>1. Consumed \in Nat /\ Consumed + (d + m) = sent /\ d \in Nat /\ m \in Nat
      BY <1>0, <1>3, Zenon
    <2>2. /\ e = Consumed + (end - rx_pos) /\ end \in Nat /\ rx_pos \in Int
          /\ d = (end + 1) - rx_pos
      BY <1>0, <1>1, <1>3
    <2> HIDE DEF d, m
    <2> QED
      BY <2>1, <2>2
  <1>4. /\ Unread' = m
        /\ \A i \in 1..m : rx_buf'[rx_pos' + i] = rx_buf[(end + 1) + i]
    <2>1. CASE end + 1 >= RX_BUF_COMPACT_THRESHOLD
      <3>1. rx_buf' = SubSeq(rx_buf, (end + 1) + 1, Len(rx_buf)) /\ rx_pos' = 0
        BY <1>2, <2>1 DEF compact_rx
      <3>2. end + 1 \in Nat
        BY <1>3
      <3>3. Len(rx_buf') = m /\ \A i \in 1..m : rx_buf'[i] = rx_buf[(end + 1) + i]
        <4> DEFINE p == end + 1
                   part == SubSeq(rx_buf, p + 1, Len(rx_buf))
        <4>1. p \in Nat /\ p <= Len(rx_buf) /\ m = Len(rx_buf) - p
          BY <1>0, <1>3, <3>2
        <4>2. rx_buf' = part /\ end + 1 = p
          BY <3>1
        <4> HIDE DEF p, m
        <4>3. Len(part) = Len(rx_buf) - p /\ \A i \in 1..(Len(rx_buf) - p) : part[i] = rx_buf[p + i]
          <5>1. rx_buf \in Seq(Bytes) /\ Len(rx_buf) \in Nat
            BY <1>0
          <5> QED
            BY <4>1, <5>1, PartOfSeq
        <4> HIDE DEF part
        <4> QED
          BY <4>1, <4>2, <4>3, Zenon
      <3>4. \A i \in 1..m : rx_pos' + i = i
        BY <1>3, <3>1
      <3>5. Unread' = m
        BY <1>3, <3>1, <3>3 DEF Unread
      <3> QED
        BY <3>3, <3>4, <3>5
    <2>2. CASE ~(end + 1 >= RX_BUF_COMPACT_THRESHOLD)
      BY <1>2, <2>2 DEF compact_rx, Unread
    <2> QED
      BY <2>1, <2>2
  <1> HIDE DEF m, d
  <1>5. Consumed' = e + 1 /\ Consumed' = Consumed + d
    <2>1. Consumed' = sent - m
      BY <1>2, <1>4 DEF Consumed
    <2> QED
      BY <1>0, <1>3, <1>a, <2>1
  <1>6. ReadOffTheStream
    <2>1. read_reply(SubSeq(stream, Consumed + 1, e - 1))
      BY <1>1, <1>2
    <2> QED
      BY <1>1, <1>5, <2>1 DEF ReadOffTheStream, e
  <1>7. Window'
    <2>1. Unread' <= sent'
      <3>1. m <= sent
        BY <1>0, <1>3, <1>a
      <3> QED
        BY <1>2, <1>4, <3>1
    <2>2. ASSUME NEW i \in 1..m PROVE rx_buf'[rx_pos' + i] = stream'[Consumed' + i]
      <3>1. d + i \in 1..Unread
        BY <1>3
      <3>2. rx_buf[rx_pos + (d + i)] = stream[Consumed + (d + i)]
        BY <3>1 DEF Window
      <3>3. rx_pos + (d + i) = (end + 1) + i
        BY <1>0, <1>3
      <3>4. Consumed + (d + i) = (Consumed + d) + i
        BY <1>0, <1>3
      <3> QED
        BY <1>2, <1>4, <1>5, <3>2, <3>3, <3>4
    <2> QED
      BY <1>4, <2>1, <2>2 DEF Window
  <1> QED
    BY <1>6, <1>7

(* A buffer full of a line without an end: the line, if the stream ever     *)
(* ends it, is longer than a line may be, because the hard limit is twice   *)
(* that length.                                                             *)
LEMMA TooLongReadsOff ==
  ASSUME IInv, Window, line_too_long
  PROVE  ReadOffTheStream /\ Window'
  <1>0. /\ rx_buf \in Seq(Bytes) /\ Len(rx_buf) \in Nat /\ rx_pos \in 0..Len(rx_buf)
        /\ stream \in Seq(Bytes) /\ Len(stream) \in Nat /\ sent \in 0..Len(stream)
        /\ Unread \in Nat /\ Unread = Len(rx_buf) - rx_pos
        /\ Consumed \in Nat /\ Consumed + Unread = sent
    BY Positions
  <1>1. /\ ~HasLine /\ Unread > RX_BUF_HARD_LIMIT /\ Fails("LineTooLong")
        /\ UNCHANGED <<stream, sent, rx_buf, rx_pos>>
    BY DEF line_too_long
  <1>2. Consumed' = Consumed /\ Window'
    BY <1>1 DEF Consumed, Unread, Window
  <1>3. ASSUME NEW end \in crlfs(stream, Consumed)
        PROVE  end - 1 - Consumed > MAX_REPLY_LINE_LEN
    <2>1. end \in (Consumed + 1)..(Len(stream) - 1)
      BY DEF crlfs
    <2>2. end - Consumed \in Nat /\ Consumed + (end - Consumed) = end
      BY <2>1, <1>0
    <2>3. ~(end + 1 <= sent)
      BY <1>1, <2>2, SameEnds DEF HasLine
    <2>4. MAX_REPLY_LINE_LEN \in Nat /\ MAX_REPLY_LINE_LEN >= 1 /\ Unread > MAX_REPLY_LINE_LEN * 2
      BY <1>1, LimitsAssumption DEF RX_BUF_HARD_LIMIT
    <2> QED
      BY <2>1, <2>3, <2>4, <1>0
  <1>4. Len(stream) - Consumed > RX_BUF_HARD_LIMIT
    BY <1>1, <1>0, Limits
  <1> QED
    BY <1>1, <1>2, <1>3, <1>4 DEF ReadOffTheStream

LEMMA ReadEndsReadsOff ==
  ASSUME IInv, Window, read_ends
  PROVE  ReadOffTheStream /\ Window'
  <1>0. /\ rx_buf \in Seq(Bytes) /\ Len(rx_buf) \in Nat /\ rx_pos \in 0..Len(rx_buf)
        /\ stream \in Seq(Bytes) /\ Len(stream) \in Nat /\ sent \in 0..Len(stream)
        /\ Unread \in Nat /\ Unread = Len(rx_buf) - rx_pos
        /\ Consumed \in Nat /\ Consumed + Unread = sent
    BY Positions
  <1>1. /\ ~HasLine /\ Unread <= RX_BUF_HARD_LIMIT
        /\ (sent = Len(stream) /\ Fails("UnexpectedClose")) \/ Fails("Io")
        /\ UNCHANGED <<stream, sent, rx_buf, rx_pos>>
    BY DEF read_ends
  <1>2. Consumed' = Consumed /\ Window'
    BY <1>1 DEF Consumed, Unread, Window
  <1>3. CASE sent = Len(stream) /\ Fails("UnexpectedClose")
    <2>1. ASSUME NEW end \in crlfs(stream, Consumed) PROVE FALSE
      <3>1. end \in (Consumed + 1)..(Len(stream) - 1)
        BY DEF crlfs
      <3>2. end - Consumed \in Nat /\ Consumed + (end - Consumed) = end /\ end + 1 <= sent
        BY <1>3, <3>1, <1>0
      <3> QED
        BY <1>1, <3>2, SameEnds DEF HasLine
    <2>2. Len(stream) - Consumed <= RX_BUF_HARD_LIMIT
      BY <1>1, <1>3, <1>0, Limits
    <2> QED
      BY <1>2, <1>3, <2>1, <2>2 DEF ReadOffTheStream
  <1>4. CASE Fails("Io")
    BY <1>2, <1>4 DEF ReadOffTheStream
  <1> QED
    BY <1>1, <1>3, <1>4

LEMMA FillBufIsInvisible ==
  ASSUME IInv, Window, NEW n \in 1..READ_CHUNK, fill_buf(n)
  PROVE  UNCHANGED <<Consumed, lines, code, replies, status>> /\ Window'
  <1>0. /\ rx_buf \in Seq(Bytes) /\ Len(rx_buf) \in Nat /\ rx_pos \in 0..Len(rx_buf)
        /\ stream \in Seq(Bytes) /\ Len(stream) \in Nat /\ sent \in 0..Len(stream)
        /\ Unread \in Nat /\ Unread = Len(rx_buf) - rx_pos
        /\ Consumed \in Nat /\ Consumed + Unread = sent
    BY Positions
  <1> DEFINE got == SubSeq(stream, sent + 1, sent + n)
  <1>1. n \in Nat /\ sent + n <= Len(stream)
    BY Limits DEF fill_buf
  <1>2. got \in Seq(Bytes) /\ Len(got) = n /\ \A i \in 1..n : got[i] = stream[sent + i]
    <2>1. sent \in Nat /\ sent + n \in Nat /\ sent <= sent + n /\ (sent + n) - sent = n
      BY <1>0, <1>1
    <2>2. /\ got \in Seq(Bytes) /\ Len(got) = (sent + n) - sent
          /\ \A i \in 1..((sent + n) - sent) : got[i] = stream[sent + i]
      BY <1>0, <1>1, <2>1, PartOfSeq
    <2> HIDE DEF got
    <2> QED
      BY <2>1, <2>2
  <1>3. /\ rx_buf' = rx_buf \o got /\ sent' = sent + n
        /\ UNCHANGED <<stream, rx_pos, lines, code, replies, status>>
    BY DEF fill_buf
  <1> HIDE DEF got
  <1>4. /\ Len(rx_buf') = Len(rx_buf) + n
        /\ \A i \in 1..Len(rx_buf) : rx_buf'[i] = rx_buf[i]
        /\ \A i \in 1..n : rx_buf'[Len(rx_buf) + i] = got[i]
    <2>1. /\ Len(rx_buf \o got) = Len(rx_buf) + n
          /\ \A i \in 1..Len(rx_buf) : (rx_buf \o got)[i] = rx_buf[i]
          /\ \A i \in 1..n : (rx_buf \o got)[Len(rx_buf) + i] = got[i]
      <3>1. rx_buf \in Seq(Bytes) /\ got \in Seq(Bytes)
        BY <1>0, <1>2
      <3>2. /\ Len(rx_buf \o got) = Len(rx_buf) + Len(got)
            /\ \A i \in 1..(Len(rx_buf) + Len(got)) :
                (rx_buf \o got)[i] = IF i <= Len(rx_buf) THEN rx_buf[i] ELSE got[i - Len(rx_buf)]
        BY <3>1, ConcatProperties, Zenon
      <3>3. \A i \in 1..Len(rx_buf) : i \in 1..(Len(rx_buf) + n) /\ i <= Len(rx_buf)
        BY <1>0, <1>1
      <3>4. \A i \in 1..n : /\ Len(rx_buf) + i \in 1..(Len(rx_buf) + n)
                            /\ ~(Len(rx_buf) + i <= Len(rx_buf))
                            /\ (Len(rx_buf) + i) - Len(rx_buf) = i
        BY <1>0, <1>1
      <3> QED
        BY <1>2, <3>2, <3>3, <3>4
    <2> QED
      BY <1>3, <2>1
  <1>5. Unread' = Unread + n /\ Consumed' = Consumed
    <2>1. Unread' = Unread + n
      BY <1>1, <1>3, <1>4, <1>0 DEF Unread
    <2> QED
      BY <1>1, <1>3, <2>1, <1>0 DEF Consumed
  <1>6. ASSUME NEW i \in 1..(Unread + n) PROVE rx_buf'[rx_pos' + i] = stream'[Consumed' + i]
    <2>1. CASE i <= Unread
      <3>1. i \in 1..Unread /\ rx_pos + i \in 1..Len(rx_buf)
        BY <1>1, <2>1, <1>0
      <3> QED
        BY <1>3, <1>4, <1>5, <3>1 DEF Window
    <2>2. CASE i > Unread
      <3>1. /\ i - Unread \in 1..n /\ rx_pos + i = Len(rx_buf) + (i - Unread)
            /\ Consumed + i = sent + (i - Unread)
        <4>1. i \in Nat /\ Unread \in Nat /\ i <= Unread + n /\ Unread < i /\ n \in Nat
          BY <1>1, <2>2, <1>0
        <4>2. rx_pos \in Nat /\ Len(rx_buf) = rx_pos + Unread /\ Consumed \in Nat /\ sent = Consumed + Unread
          BY <1>0
        <4> QED
          BY <4>1, <4>2
      <3>2. rx_buf'[Len(rx_buf) + (i - Unread)] = got[i - Unread]
        BY <1>4, <3>1, Zenon
      <3>3. got[i - Unread] = stream[sent + (i - Unread)]
        BY <1>2, <3>1, Zenon
      <3>4. rx_pos' = rx_pos /\ stream' = stream /\ Consumed' = Consumed
        BY <1>3, <1>5
      <3> QED
        BY <3>1, <3>2, <3>3, <3>4, Zenon
    <2> QED
      BY <1>1, <2>1, <2>2, <1>0
  <1>7. Unread' <= sent'
    BY <1>1, <1>3, <1>5, <1>0 DEF Window
  <1> QED
    BY <1>3, <1>5, <1>6, <1>7 DEF Window

LEMMA InitWindow == Init => Window
  <1> SUFFICES ASSUME Init PROVE Window
    OBVIOUS
  <1>1. Len(rx_buf) = 0 /\ rx_pos = 0 /\ sent = 0
    BY DEF Init
  <1>2. Unread = 0 /\ sent = 0
    BY <1>1 DEF Unread
  <1> QED
    BY <1>2 DEF Window

LEMMA StepReadsOff ==
  IInv /\ Window /\ [Next]_vars =>
      [ReadOffTheStream]_<<Consumed, lines, code, replies, status>> /\ Window'
  <1> SUFFICES ASSUME IInv, Window, [Next]_vars
               PROVE  /\ ReadOffTheStream \/ UNCHANGED <<Consumed, lines, code, replies, status>>
                      /\ Window'
    OBVIOUS
  <1>1. CASE read_line
    BY <1>1, ReadLineReadsOff
  <1>2. CASE line_too_long
    BY <1>2, TooLongReadsOff
  <1>3. CASE read_ends
    BY <1>3, ReadEndsReadsOff
  <1>4. CASE \E n \in 1..READ_CHUNK : fill_buf(n)
    BY <1>4, FillBufIsInvisible
  <1>5. CASE Stopped \/ UNCHANGED vars
    BY <1>5 DEF Stopped, vars, Window, Consumed, Unread
  <1> QED
    BY <1>1, <1>2, <1>3, <1>4, <1>5 DEF Next

(* For every stream, every way of cutting it into reads and every           *)
(* threshold: read_reply returns what stands in the stream, line by line.   *)
(* No byte is lost, repeated or reordered by fill_buf and compact_rx, a     *)
(* CRLF that two reads split is found, and giving up at the hard limit      *)
(* ends as reading the whole line would have.                               *)
THEOREM BufferIsTransparent == Spec => ReadsAreInvisible
  <1>1. Spec => []IInv
    BY InitIInv, StepIInv, PTL DEF Spec
  <1>2. Spec => []Window
    BY <1>1, InitWindow, StepReadsOff, PTL DEF Spec
  <1> QED
    BY <1>1, <1>2, StepReadsOff, PTL DEF Spec, ReadsAreInvisible
-----------------------------------------------------------------------------
(***************************************************************************)
(* What the reader returns is what the stream means.                       *)
(***************************************************************************)

(* An induction over the naturals, for a set. *)
LEMMA SetInduction ==
  ASSUME NEW T, 0 \in T, \A k \in T : k + 1 \in T
  PROVE  Nat \subseteq T
  <1> SUFFICES ASSUME Nat \ T # {} PROVE FALSE
    OBVIOUS
  <1>1. PICK i \in Nat \ T : \A j \in Nat \ T : i <= j
    <2>1. Nat \ T \subseteq Nat
      OBVIOUS
    <2> QED
      BY <2>1, LeastNatural
  <1>2. i # 0 /\ i \in Nat
    BY <1>1
  <1>3. i - 1 \in Nat /\ ~(i <= i - 1) /\ (i - 1) + 1 = i
    BY <1>2
  <1>4. i - 1 \in T
    BY <1>1, <1>3
  <1> QED
    BY <1>1, <1>3, <1>4

(* f runs through S, the smallest element first. *)
Runs(f, S) ==
    /\ f \in [1..Cardinality(S) -> S]
    /\ \A i, j \in 1..Cardinality(S) : i < j => f[i] < f[j]

LEMMA RunsExists ==
  ASSUME NEW N \in Nat, NEW S, S \subseteq 1..N
  PROVE  \E f : Runs(f, S)
  <1> DEFINE T == {n \in Nat : \A U \in SUBSET (1..n) : \E f : Runs(f, U)}
  <1>1. 0 \in T
    <2> SUFFICES ASSUME NEW U \in SUBSET (1..0) PROVE \E f : Runs(f, U)
      OBVIOUS
    <2>1. U = {} /\ Cardinality(U) = 0
      <3>1. U = {}
        OBVIOUS
      <3> QED
        BY <3>1, FS_EmptySet
    <2>2. [i \in 1..0 |-> i] \in [1..Cardinality(U) -> U]
      BY <2>1
    <2> QED
      BY <2>1, <2>2 DEF Runs
  <1>2. ASSUME NEW n \in T PROVE n + 1 \in T
    <2>0. n \in Nat /\ \A U \in SUBSET (1..n) : \E f : Runs(f, U)
      OBVIOUS
    <2> SUFFICES ASSUME NEW U \in SUBSET (1..(n + 1)) PROVE \E f : Runs(f, U)
      BY <2>0
    <2>1. CASE n + 1 \notin U
      <3>1. U \in SUBSET (1..n)
        BY <2>0, <2>1
      <3> QED
        BY <2>0, <3>1
    <2>2. CASE n + 1 \in U
      <3> DEFINE V == U \ {n + 1}
      <3>1. V \in SUBSET (1..n)
        BY <2>0
      <3>2. PICK f : Runs(f, V)
        BY <2>0, <3>1
      <3>3. IsFiniteSet(1..n) /\ IsFiniteSet(1..(n + 1))
        BY <2>0, FS_Interval
      <3>4. IsFiniteSet(U) /\ IsFiniteSet(V)
        BY <3>1, <3>3, FS_Subset
      <3>5. Cardinality(V) = Cardinality(U) - 1 /\ Cardinality(U) \in Nat /\ Cardinality(V) \in Nat
        BY <2>2, <3>4, FS_RemoveElement, FS_CardinalityType
      <3> DEFINE c == Cardinality(V)
                 g == [i \in 1..(c + 1) |-> IF i = c + 1 THEN n + 1 ELSE f[i]]
      <3>6. f \in [1..c -> V] /\ \A i, j \in 1..c : i < j => f[i] < f[j]
        BY <3>2 DEF Runs
      <3>7. Cardinality(U) = c + 1 /\ c \in Nat
        BY <3>5
      <3> HIDE DEF c
      <3>8. \A i \in 1..(c + 1) : i # c + 1 => i \in 1..c
        BY <3>7
      <3>9. \A i \in 1..c : f[i] \in V /\ f[i] \in U /\ f[i] < n + 1
        <4>1. \A x \in V : x \in U /\ x < n + 1
          BY <2>0, <3>1
        <4> QED
          BY <3>6, <4>1
      <3>10. g \in [1..(c + 1) -> U]
        BY <2>2, <3>8, <3>9
      <3>11. ASSUME NEW i \in 1..(c + 1), NEW j \in 1..(c + 1), i < j PROVE g[i] < g[j]
        <4>1. i # c + 1 /\ i \in 1..c /\ g[i] = f[i]
          BY <3>7, <3>8, <3>11
        <4>2. CASE j = c + 1
          BY <3>9, <4>1, <4>2
        <4>3. CASE j # c + 1
          BY <3>6, <3>8, <3>11, <4>1, <4>3
        <4> QED
          BY <4>2, <4>3
      <3> HIDE DEF g
      <3>12. Runs(g, U)
        BY <3>7, <3>10, <3>11 DEF Runs
      <3> QED
        BY <3>12
    <2> QED
      BY <2>1, <2>2
  <1> HIDE DEF T
  <1>3. N \in T
    BY <1>1, <1>2, SetInduction
  <1> QED
    BY <1>3 DEF T

(* Ascending lists every element of the set once, in order. *)
LEMMA AscendingRuns ==
  ASSUME NEW N \in Nat, NEW S, S \subseteq 1..N
  PROVE  /\ Ascending(S) \in Seq(S)
         /\ \A i \in 1..Len(Ascending(S)) : Ascending(S)[i] \in S
         /\ \A i, j \in 1..Len(Ascending(S)) : i < j => Ascending(S)[i] < Ascending(S)[j]
         /\ \A x \in S : \E i \in 1..Len(Ascending(S)) : Ascending(S)[i] = x
  <1> DEFINE n == Cardinality(S)
             f == Ascending(S)
  <1>1. f \in [1..n -> S] /\ \A i, j \in 1..n : i < j => f[i] < f[j]
    <2>1. PICK g : Runs(g, S)
      BY RunsExists
    <2>2. g \in [1..n -> S] /\ \A i, j \in 1..n : i < j => g[i] < g[j]
      BY <2>1 DEF Runs
    <2> HIDE DEF n
    <2> QED
      BY <2>2 DEF Ascending, n
  <1>2. IsFiniteSet(S) /\ n \in Nat
    <2>1. IsFiniteSet(1..N)
      BY FS_Interval
    <2>2. IsFiniteSet(S)
      BY <2>1, FS_Subset
    <2> QED
      BY <2>2, FS_CardinalityType
  <1> HIDE DEF n, f
  <1>3. f \in Seq(S) /\ Len(f) = n
    BY <1>1, <1>2
  <1>a. \A i \in 1..n : f[i] \in S /\ f[i] \in Int
    <2>1. f \in [1..n -> S] /\ \A x \in S : x \in Int
      BY <1>1
    <2> QED
      BY <2>1
  <1>4. f \in Injection(1..n, S)
    <2>1. ASSUME NEW i \in 1..n, NEW j \in 1..n, f[i] = f[j] PROVE i = j
      <3>1. f[i] \in Int
        BY <1>a
      <3>2. ~(i < j) /\ ~(j < i)
        BY <1>1, <2>1, <3>1
      <3> QED
        BY <1>2, <3>2
    <2> QED
      BY <1>1, <2>1 DEF Injection, IsInjective
  <1>5. f \in Surjection(1..n, S)
    <2>1. Cardinality(1..n) = n
      BY <1>2, FS_Interval
    <2> QED
      BY <1>2, <1>4, <2>1, FS_Injection DEF n
  <1>6. \A x \in S : \E i \in 1..n : f[i] = x
    BY <1>5 DEF Surjection
  <1> QED
    BY <1>1, <1>3, <1>6 DEF f

LEMMA EndsOfLines ==
  ASSUME NEW s \in Seq(Bytes)
  PROVE  /\ Len(LineEnds(s)) \in Nat
         /\ \A i \in 1..Len(LineEnds(s)) : /\ LineEnds(s)[i] \in crlfs(s, 0)
                                           /\ LineEnds(s)[i] \in 1..(Len(s) - 1)
         /\ \A i, j \in 1..Len(LineEnds(s)) : i < j => LineEnds(s)[i] < LineEnds(s)[j]
         /\ \A x \in crlfs(s, 0) : \E i \in 1..Len(LineEnds(s)) : LineEnds(s)[i] = x
  <1> DEFINE C == crlfs(s, 0)
  <1>1. Len(s) \in Nat /\ C \subseteq 1..Len(s) /\ C \subseteq 1..(Len(s) - 1) /\ C \subseteq Nat
    BY DEF crlfs
  <1> HIDE DEF C
  <1>2. /\ Ascending(C) \in Seq(C)
        /\ \A i \in 1..Len(Ascending(C)) : Ascending(C)[i] \in C
        /\ \A i, j \in 1..Len(Ascending(C)) : i < j => Ascending(C)[i] < Ascending(C)[j]
        /\ \A x \in C : \E i \in 1..Len(Ascending(C)) : Ascending(C)[i] = x
    BY <1>1, AscendingRuns
  <1>3. Len(Ascending(C)) \in Nat
    BY <1>2
  <1> QED
    BY <1>1, <1>2, <1>3 DEF LineEnds, C

(* The next line end behind the first k lines is the one of line k + 1. *)
LEMMA NextLineEnd ==
  ASSUME NEW s \in Seq(Bytes), NEW k \in 0..Len(LineEnds(s))
  PROVE  /\ LineStart(s, k) \in 0..Len(s)
         /\ k = Len(LineEnds(s)) => crlfs(s, LineStart(s, k)) = {}
         /\ k < Len(LineEnds(s)) => /\ crlfs(s, LineStart(s, k)) # {}
                                    /\ find_crlf(s, LineStart(s, k)) = LineEnds(s)[k + 1]
  <1> DEFINE ends == LineEnds(s)
             n == Len(ends)
             p == LineStart(s, k)
  <1>1. /\ n \in Nat /\ Len(s) \in Nat
        /\ \A i \in 1..n : ends[i] \in crlfs(s, 0) /\ ends[i] \in 1..(Len(s) - 1)
        /\ \A i, j \in 1..n : i < j => ends[i] < ends[j]
        /\ \A x \in crlfs(s, 0) : \E i \in 1..n : ends[i] = x
    BY EndsOfLines
  <1>2. k \in Nat /\ k <= n /\ p = IF k = 0 THEN 0 ELSE ends[k] + 1
    BY <1>1 DEF LineStart
  <1> HIDE DEF ends, n, p
  <1>3. p \in 0..Len(s)
    <2>1. CASE k = 0
      BY <1>1, <1>2, <2>1
    <2>2. CASE k # 0
      <3>1. k \in 1..n
        BY <1>1, <1>2, <2>2
      <3>2. ends[k] \in 1..(Len(s) - 1)
        BY <1>1, <3>1
      <3> QED
        BY <1>1, <1>2, <2>2, <3>2
    <2> QED
      BY <2>1, <2>2
  <1>4. ASSUME NEW x \in crlfs(s, p) PROVE \E i \in 1..n : ends[i] = x /\ i > k
    <2>1. x \in crlfs(s, 0) /\ x > p
      BY <1>1, <1>3 DEF crlfs
    <2>2. PICK i \in 1..n : ends[i] = x
      BY <1>1, <2>1
    <2>3. i > k
      <3> SUFFICES ASSUME ~(i > k) PROVE FALSE
        OBVIOUS
      <3>1. k \in 1..n /\ i \in 1..n /\ (i < k \/ i = k) /\ k # 0
        BY <1>1, <1>2
      <3>2. ends[i] \in Nat /\ ends[k] \in Nat /\ (i < k => ends[i] < ends[k])
        BY <1>1, <3>1
      <3>3. ends[i] <= ends[k]
        BY <3>1, <3>2
      <3> QED
        BY <1>2, <2>1, <2>2, <3>1, <3>2, <3>3
    <2> QED
      BY <2>2, <2>3
  <1>5. CASE k = n
    BY <1>1, <1>3, <1>4, <1>5 DEF ends, n, p
  <1>6. CASE k < n
    <2>1. k + 1 \in 1..n
      BY <1>1, <1>2, <1>6
    <2> DEFINE e == ends[k + 1]
    <2>2. e \in crlfs(s, 0) /\ e \in 1..(Len(s) - 1)
      BY <1>1, <2>1
    <2>3. e > p
      <3>1. CASE k = 0
        BY <1>2, <2>2, <3>1
      <3>2. CASE k # 0
        <4>1. k \in 1..n /\ k < k + 1
          BY <1>1, <1>2, <3>2
        <4>2. ends[k] < e /\ ends[k] \in crlfs(s, 0) /\ ends[k] \in Nat
          BY <1>1, <2>1, <4>1
        <4>3. s[ends[k] + 1] = "LF" /\ s[e] = "CR"
          BY <2>2, <4>2 DEF crlfs
        <4>4. e # ends[k] + 1
          BY <4>3
        <4> HIDE DEF e
        <4> QED
          BY <1>2, <2>2, <3>2, <4>2, <4>4
      <3> QED
        BY <3>1, <3>2
    <2> HIDE DEF e
    <2>4. e \in crlfs(s, p)
      BY <1>1, <1>3, <2>2, <2>3 DEF crlfs
    <2>5. ASSUME NEW x \in crlfs(s, p) PROVE e <= x
      <3>1. PICK i \in 1..n : ends[i] = x /\ i > k
        BY <1>4
      <3>2. i = k + 1 \/ k + 1 < i
        BY <1>2, <3>1
      <3>3. k + 1 < i => ends[k + 1] < ends[i]
        BY <1>1, <2>1
      <3>4. ends[i] \in Nat
        BY <1>1
      <3> QED
        BY <2>2, <3>1, <3>2, <3>3, <3>4 DEF e
    <2>6. find_crlf(s, p) \in crlfs(s, p) /\ \A j \in crlfs(s, p) : find_crlf(s, p) <= j
      BY <1>3, <2>4, LeastCrlf
    <2>7. find_crlf(s, p) = e
      <3>1. find_crlf(s, p) <= e /\ e <= find_crlf(s, p)
        BY <2>4, <2>5, <2>6
      <3>2. find_crlf(s, p) \in Int
        BY <2>6, <1>3 DEF crlfs
      <3> QED
        BY <2>2, <3>1, <3>2
    <2> QED
      BY <1>3, <1>6, <2>4, <2>7 DEF e, ends, n, p
  <1> QED
    BY <1>1, <1>2, <1>5, <1>6

(* The first line of a reply is unique. *)
LEMMA FirstIs ==
  ASSUME NEW ls, NEW k \in Nat, NEW f \in 1..k, IsFirst(ls, k, f)
  PROVE  First(ls, k) = f
  <1> DEFINE g == First(ls, k)
  <1>1. g \in 1..k /\ IsFirst(ls, k, g)
    BY DEF First
  <1> HIDE DEF g
  <1>2. ~(f < g)
    BY <1>1 DEF IsFirst
  <1>3. ~(g < f)
    BY <1>1 DEF IsFirst
  <1>4. g = f
    BY <1>1, <1>2, <1>3
  <1> QED
    BY <1>4 DEF g

(* There is a number of good lines: all of them, or those before the first *)
(* bad one.                                                                 *)
LEMMA GoodLinesIs ==
  ASSUME NEW ls, Len(ls) \in Nat
  PROVE  /\ GoodLines(ls) \in 0..Len(ls)
         /\ \A k \in 1..GoodLines(ls) : Verdict(ls, k) = "good"
         /\ GoodLines(ls) < Len(ls) => Verdict(ls, GoodLines(ls) + 1) # "good"
  <1> DEFINE B == {k \in 1..Len(ls) : Verdict(ls, k) # "good"}
             n == Len(ls)
  <1>1. \E m \in 0..n : (\A k \in 1..m : Verdict(ls, k) = "good")
                        /\ (m = n \/ Verdict(ls, m + 1) # "good")
    <2>1. CASE B = {}
      BY <2>1
    <2>2. CASE B # {}
      <3>1. B \subseteq Nat
        OBVIOUS
      <3>2. PICK b \in B : \A j \in B : b <= j
        BY <2>2, <3>1, LeastNatural
      <3>3. b \in 1..n /\ Verdict(ls, b) # "good"
        BY <3>2
      <3>4. b - 1 \in 0..n /\ (b - 1) + 1 = b
        BY <3>3
      <3>5. ASSUME NEW k \in 1..(b - 1) PROVE Verdict(ls, k) = "good"
        <4>1. k \in 1..n /\ ~(b <= k)
          BY <3>3
        <4> QED
          BY <3>2, <4>1
      <3> QED
        BY <3>3, <3>4, <3>5
    <2> QED
      BY <2>1, <2>2
  <1>2. /\ GoodLines(ls) \in 0..n
        /\ \A k \in 1..GoodLines(ls) : Verdict(ls, k) = "good"
        /\ GoodLines(ls) = n \/ Verdict(ls, GoodLines(ls) + 1) # "good"
    BY <1>1 DEF GoodLines
  <1> QED
    BY <1>2

LEMMA LastLinesRun ==
  ASSUME NEW ls, Len(ls) \in Nat
  PROVE  /\ Len(LastLines(ls)) \in Nat
         /\ \A i \in 1..Len(LastLines(ls)) : LastLines(ls)[i] \in 1..GoodLines(ls)
         /\ \A i, j \in 1..Len(LastLines(ls)) : i < j => LastLines(ls)[i] < LastLines(ls)[j]
         /\ \A k \in 1..GoodLines(ls) :
                is_last(ls[k]) <=> \E i \in 1..Len(LastLines(ls)) : LastLines(ls)[i] = k
  <1> DEFINE g == GoodLines(ls)
             S == {k \in 1..g : is_last(ls[k])}
             a == Ascending(S)
  <1>1. g \in Nat
    BY GoodLinesIs
  <1> HIDE DEF g
  <1>2. S \subseteq 1..g /\ \A k \in 1..g : k \in S <=> is_last(ls[k])
    OBVIOUS
  <1> HIDE DEF S
  <1>3. /\ a \in Seq(S) /\ \A i \in 1..Len(a) : a[i] \in S
        /\ \A i, j \in 1..Len(a) : i < j => a[i] < a[j]
        /\ \A x \in S : \E i \in 1..Len(a) : a[i] = x
    BY <1>1, <1>2, AscendingRuns
  <1> HIDE DEF a
  <1>4. Len(a) \in Nat
    BY <1>3
  <1>5. LastLines(ls) = a
    BY DEF LastLines, a, S, g
  <1> QED
    BY <1>2, <1>3, <1>4, <1>5 DEF g

(* A reader that has returned the replies r, and n lines with the code c    *)
(* since, stands behind line j of ls, all of which is good.                 *)
Between(ls, j, n, c) ==
    \/ n = 0 /\ c = "none" /\ (j = 0 \/ is_last(ls[j]))
    \/ /\ j > 0 /\ ~is_last(ls[j]) /\ c = ls[j][1]
       /\ First(ls, j) \in 1..j /\ IsFirst(ls, j, First(ls, j)) /\ n = j - First(ls, j) + 1
Returned(ls, j, r) ==
    /\ Len(r) <= Len(LastLines(ls))
    /\ \A i \in 1..Len(r) : LastLines(ls)[i] <= j /\ r[i] = ReplyEnding(ls, LastLines(ls)[i])
    /\ \A i \in (Len(r) + 1)..Len(LastLines(ls)) : LastLines(ls)[i] > j
Behind(ls, j, r, n, c) ==
    j \in 0..GoodLines(ls) /\ Returned(ls, j, r) /\ Between(ls, j, n, c)

(* The line behind goes on with a reply exactly if one is being read. *)
LEMMA NextFirst ==
  ASSUME NEW ls, Len(ls) \in Nat, NEW j \in Nat, NEW n, NEW c, Between(ls, j, n, c)
  PROVE  /\ n \in Nat
         /\ Continues(ls, j + 1) <=> n # 0
         /\ n # 0 => j \in Nat \ {0} /\ c = ls[j][1]
         /\ n = 0 => c = "none"
         /\ First(ls, j + 1) \in 1..(j + 1) /\ IsFirst(ls, j + 1, First(ls, j + 1))
         /\ (j + 1) - First(ls, j + 1) + 1 = n + 1
  <1>0. j + 1 \in Nat /\ (j + 1) - 1 = j /\ (j + 1 > 1 <=> j # 0)
    OBVIOUS
  <1>1. CASE n = 0 /\ c = "none" /\ (j = 0 \/ is_last(ls[j]))
    <2>1. ~Continues(ls, j + 1)
      BY <1>0, <1>1 DEF Continues
    <2>2. j + 1 \in 1..(j + 1) /\ IsFirst(ls, j + 1, j + 1)
      BY <1>0, <2>1 DEF IsFirst
    <2>3. First(ls, j + 1) = j + 1
      BY <1>0, <2>2, FirstIs
    <2> QED
      BY <1>0, <1>1, <2>1, <2>2, <2>3
  <1>2. CASE /\ j > 0 /\ ~is_last(ls[j]) /\ c = ls[j][1]
             /\ First(ls, j) \in 1..j /\ IsFirst(ls, j, First(ls, j)) /\ n = j - First(ls, j) + 1
    <2> DEFINE f == First(ls, j)
    <2>1. f \in 1..j /\ IsFirst(ls, j, f) /\ n = j - f + 1
      BY <1>2
    <2> HIDE DEF f
    <2>2. Continues(ls, j + 1)
      BY <1>0, <1>2 DEF Continues
    <2>3. IsFirst(ls, j + 1, f)
      <3>1. \A i \in (f + 1)..(j + 1) : i \in (f + 1)..j \/ i = j + 1
        BY <2>1
      <3> QED
        BY <2>1, <2>2, <3>1 DEF IsFirst
    <2>4. f \in 1..(j + 1)
      BY <2>1
    <2>5. First(ls, j + 1) = f
      BY <1>0, <2>3, <2>4, FirstIs
    <2>6. n \in Nat /\ n # 0 /\ (j + 1) - f + 1 = n + 1
      BY <2>1
    <2>7. j \in Nat \ {0} /\ c = ls[j][1]
      BY <1>2
    <2> QED
      BY <2>2, <2>3, <2>4, <2>5, <2>6, <2>7, Zenon
  <1> QED
    BY <1>1, <1>2 DEF Between

(* Taking a good line. *)
LEMMA TakesGood ==
  ASSUME NEW ls, Len(ls) \in Nat, NEW j, NEW r \in Seq([code : Codes, lines : 1..MAX_REPLY_LINES]),
         NEW n, NEW c, Behind(ls, j, r, n, c), j < Len(ls), Verdict(ls, j + 1) = "good"
  PROVE  /\ is_last(ls[j + 1]) =>
               Behind(ls, j + 1, Append(r, [code |-> ls[j + 1][1], lines |-> n + 1]), 0, "none")
         /\ ~is_last(ls[j + 1]) => Behind(ls, j + 1, r, n + 1, ls[j + 1][1])
  <1> DEFINE g == GoodLines(ls)
             a == LastLines(ls)
             k == j + 1
  <1>1. g \in 0..Len(ls) /\ (g < Len(ls) => Verdict(ls, g + 1) # "good") /\ j \in 0..g
    BY GoodLinesIs DEF Behind
  <1>2. j \in Nat /\ k \in 1..g /\ k \in 0..g
    <2>1. j # g
      BY <1>1
    <2> HIDE DEF g
    <2> QED
      BY <1>1, <2>1
  <1>3. /\ Len(a) \in Nat /\ \A i \in 1..Len(a) : a[i] \in 1..g
        /\ \A x, y \in 1..Len(a) : x < y => a[x] < a[y]
        /\ (is_last(ls[k]) <=> \E i \in 1..Len(a) : a[i] = k)
    BY <1>2, LastLinesRun
  <1>4. /\ Len(r) \in Nat /\ Len(r) <= Len(a)
        /\ \A i \in 1..Len(r) : a[i] <= j /\ r[i] = ReplyEnding(ls, a[i])
        /\ \A i \in (Len(r) + 1)..Len(a) : a[i] > j
    BY DEF Behind, Returned
  <1>5. /\ n \in Nat /\ First(ls, k) \in 1..k /\ IsFirst(ls, k, First(ls, k))
        /\ k - First(ls, k) + 1 = n + 1
    BY <1>2, NextFirst DEF Behind
  <1> HIDE DEF g, a, k
  <1>6. ASSUME is_last(ls[k])
        PROVE  Behind(ls, k, Append(r, [code |-> ls[k][1], lines |-> n + 1]), 0, "none")
    <2> DEFINE q == Append(r, [code |-> ls[k][1], lines |-> n + 1])
    <2>1. PICK i \in 1..Len(a) : a[i] = k
      BY <1>3, <1>6
    <2>2. k = j + 1
      BY DEF k
    <2>3. i = Len(r) + 1
      <3>1. i > Len(r)
        <4>1. i \in 1..Len(r) => a[i] <= j
          BY <1>4
        <4> QED
          BY <1>2, <1>4, <2>1, <2>2, <4>1
      <3>2. ~(Len(r) + 1 < i)
        <4> SUFFICES ASSUME Len(r) + 1 < i PROVE FALSE
          OBVIOUS
        <4>1. Len(r) + 1 \in 1..Len(a) /\ Len(r) + 1 \in (Len(r) + 1)..Len(a)
          BY <1>3, <1>4, <2>1
        <4>2. a[Len(r) + 1] < a[i] /\ a[Len(r) + 1] > j /\ a[Len(r) + 1] \in Int
          BY <1>3, <1>4, <4>1
        <4> QED
          BY <1>2, <2>1, <2>2, <4>2
      <3> QED
        BY <1>3, <1>4, <3>1, <3>2
    <2>4. Len(q) = Len(r) + 1 /\ (\A x \in 1..Len(r) : q[x] = r[x])
          /\ q[Len(r) + 1] = [code |-> ls[k][1], lines |-> n + 1]
      OBVIOUS
    <2> HIDE DEF q
    <2>5. [code |-> ls[k][1], lines |-> n + 1] = ReplyEnding(ls, k)
      BY <1>5 DEF ReplyEnding
    <2>6. Len(q) <= Len(a)
      BY <1>3, <1>4, <2>1, <2>3, <2>4
    <2>7. ASSUME NEW x \in 1..Len(q) PROVE a[x] <= k /\ q[x] = ReplyEnding(ls, a[x])
      <3>1. CASE x = Len(r) + 1
        BY <1>2, <2>1, <2>3, <2>4, <2>5, <3>1
      <3>2. CASE x # Len(r) + 1
        <4>0. Len(r) \in Nat /\ Len(a) \in Nat /\ Len(r) <= Len(a) /\ Len(q) = Len(r) + 1
          BY <1>4, <1>3, <2>4, Zenon
        <4>1. x \in 1..Len(r) /\ x \in 1..Len(a)
          BY <3>2, <4>0
        <4>2. a[x] <= j /\ a[x] \in Int /\ q[x] = ReplyEnding(ls, a[x])
          BY <1>3, <1>4, <2>4, <4>1
        <4> QED
          BY <1>2, <2>2, <4>2
      <3> QED
        BY <3>1, <3>2
    <2>8. ASSUME NEW x \in (Len(q) + 1)..Len(a) PROVE a[x] > k
      <3>1. x \in 1..Len(a) /\ i < x
        BY <1>3, <1>4, <2>3, <2>4
      <3>2. a[i] < a[x] /\ a[x] \in Int
        BY <1>3, <3>1
      <3> QED
        BY <1>2, <2>1, <3>2
    <2>9. Returned(ls, k, q)
      BY <2>6, <2>7, <2>8 DEF Returned, a
    <2> QED
      BY <1>2, <1>6, <2>9 DEF Behind, Between, q, g
  <1>7. ASSUME ~is_last(ls[k]) PROVE Behind(ls, k, r, n + 1, ls[k][1])
    <2>1. k = j + 1
      BY DEF k
    <2>2. ASSUME NEW x \in 1..Len(r) PROVE a[x] <= k /\ r[x] = ReplyEnding(ls, a[x])
      <3>1. x \in 1..Len(a)
        BY <1>3, <1>4
      <3>2. a[x] <= j /\ a[x] \in Int /\ r[x] = ReplyEnding(ls, a[x])
        BY <1>3, <1>4, <3>1
      <3> QED
        BY <1>2, <2>1, <3>2
    <2>3. ASSUME NEW x \in (Len(r) + 1)..Len(a) PROVE a[x] > k
      <3>1. x \in 1..Len(a)
        BY <1>3, <1>4
      <3>2. a[x] > j /\ a[x] \in Int /\ a[x] # k
        BY <1>3, <1>4, <1>7, <3>1
      <3> QED
        BY <1>2, <2>1, <3>2
    <2>4. Returned(ls, k, r)
      BY <1>4, <2>2, <2>3 DEF Returned, a
    <2>5. k > 0 /\ n + 1 = k - First(ls, k) + 1
      BY <1>2, <1>5
    <2>6. Between(ls, k, n + 1, ls[k][1])
      BY <1>5, <1>7, <2>5 DEF Between
    <2> QED
      BY <1>2, <2>4, <2>6 DEF Behind, g
  <1> QED
    BY <1>6, <1>7 DEF k

(* Two sequences are the same if they are so position by position. *)
LEMMA SameSeq ==
  ASSUME NEW A, NEW B, NEW s \in Seq(A), NEW t \in Seq(B),
         Len(s) = Len(t), \A i \in 1..Len(s) : s[i] = t[i]
  PROVE  s = t
  <1>1. s = [i \in 1..Len(s) |-> s[i]] /\ t = [i \in 1..Len(t) |-> t[i]]
    OBVIOUS
  <1>2. [i \in 1..Len(s) |-> s[i]] = [i \in 1..Len(t) |-> t[i]]
    OBVIOUS
  <1> QED
    BY <1>1, <1>2

Replied == Seq([code : Codes, lines : 1..MAX_REPLY_LINES])

LEMMA SomeReturned ==
  ASSUME NEW ls, Len(ls) \in Nat, NEW j, NEW r \in Replied, NEW n, NEW c, Behind(ls, j, r, n, c)
  PROVE  /\ \E m \in 0..Len(MeantReplies(ls)) : r = SubSeq(MeantReplies(ls), 1, m)
         /\ j = GoodLines(ls) => r = MeantReplies(ls)
  <1> DEFINE a == LastLines(ls)
             M == MeantReplies(ls)
             g == GoodLines(ls)
  <1>1. Len(a) \in Nat /\ \A i \in 1..Len(a) : a[i] \in 1..g
    BY LastLinesRun
  <1>2. /\ Len(r) \in Nat /\ Len(r) <= Len(a)
        /\ \A i \in 1..Len(r) : r[i] = ReplyEnding(ls, a[i])
        /\ \A i \in (Len(r) + 1)..Len(a) : a[i] > j
    BY DEF Behind, Returned, Replied
  <1>3. M = [i \in 1..Len(a) |-> ReplyEnding(ls, a[i])]
    BY DEF MeantReplies
  <1>a. g \in Nat
    BY GoodLinesIs
  <1> HIDE DEF a, M, g
  <1>4. M \in Seq({ReplyEnding(ls, a[i]) : i \in 1..Len(a)}) /\ Len(M) = Len(a)
    <2>1. M \in [1..Len(a) -> {ReplyEnding(ls, a[i]) : i \in 1..Len(a)}]
      BY <1>3
    <2> QED
      BY <1>1, <2>1
  <1>5. r = SubSeq(M, 1, Len(r))
    <2> DEFINE q == SubSeq(M, 1, Len(r))
    <2>1. q \in Seq({ReplyEnding(ls, a[i]) : i \in 1..Len(a)}) /\ Len(q) = Len(r)
          /\ \A i \in 1..Len(r) : q[i] = M[i]
      <3>1. /\ 0 \in Nat /\ 0 <= Len(r) /\ Len(r) <= Len(M) /\ Len(r) - 0 = Len(r) /\ 0 + 1 = 1
            /\ \A i \in 1..Len(r) : 0 + i = i
        BY <1>1, <1>2, <1>4
      <3>2. /\ SubSeq(M, 0 + 1, Len(r)) \in Seq({ReplyEnding(ls, a[i]) : i \in 1..Len(a)})
            /\ Len(SubSeq(M, 0 + 1, Len(r))) = Len(r) - 0
            /\ \A i \in 1..(Len(r) - 0) : SubSeq(M, 0 + 1, Len(r))[i] = M[0 + i]
        BY <1>2, <1>4, <3>1, PartOfSeq
      <3> QED
        BY <3>1, <3>2
    <2>2. \A i \in 1..Len(r) : i \in 1..Len(a)
      BY <1>1, <1>2
    <2>3. \A i \in 1..Len(r) : M[i] = r[i]
      BY <1>2, <1>3, <2>2
    <2> HIDE DEF q
    <2>4. r = q
      BY <2>1, <2>3, SameSeq DEF Replied
    <2> QED
      BY <2>4 DEF q
  <1>6. Len(r) \in 0..Len(M)
    BY <1>1, <1>2, <1>4
  <1>7. ASSUME j = g PROVE r = M
    <2>1. Len(r) = Len(a)
      <3> SUFFICES ASSUME Len(r) # Len(a) PROVE FALSE
        OBVIOUS
      <3>1. Len(r) + 1 \in (Len(r) + 1)..Len(a) /\ Len(r) + 1 \in 1..Len(a)
        BY <1>1, <1>2
      <3>2. a[Len(r) + 1] > j /\ a[Len(r) + 1] \in 1..g
        BY <1>1, <1>2, <3>1
      <3> QED
        BY <1>7, <1>a, <3>2
    <2>2. \A i \in 1..Len(a) : M[i] = r[i]
      BY <1>2, <1>3, <2>1
    <2> QED
      BY <1>4, <2>1, <2>2, SameSeq DEF Replied
  <1> QED
    BY <1>5, <1>6, <1>7 DEF M, g

(* The reader stands behind a line of the stream and has told what the      *)
(* lines up to there mean; or it has ended as the stream says.              *)
Progress ==
    IF status \in {"reading", "Io"}
    THEN \E j \in 0..Len(LineEnds(stream)) : /\ Consumed = LineStart(stream, j)
                                             /\ Behind(LinesOf(stream), j, replies, lines, code)
    ELSE replies = MeantReplies(LinesOf(stream)) /\ status = MeantEnd(stream)

(* What read_reply makes of a line is what the line means there. *)
LEMMA LineIsJudged ==
  ASSUME NEW ls, Len(ls) \in Nat, NEW j, j < Len(ls), replies \in Replied, status = "reading",
         Behind(ls, j, replies, lines, code), lines < MAX_REPLY_LINES,
         Len(ls[j + 1]) \in Nat, read_reply(ls[j + 1])
  PROVE  \/ /\ Verdict(ls, j + 1) = "good" /\ status' = "reading"
            /\ Behind(ls, j + 1, replies', lines', code')
         \/ /\ Verdict(ls, j + 1) \notin {"good", "reading", "Io"} /\ status' = Verdict(ls, j + 1)
            /\ replies' = replies
  <1> DEFINE k == j + 1
             line == ls[k]
  <1>1. j \in Nat /\ j <= GoodLines(ls) /\ \A i \in 1..GoodLines(ls) : Verdict(ls, i) = "good"
    BY GoodLinesIs DEF Behind
  <1>2. /\ lines \in Nat /\ (Continues(ls, k) <=> lines # 0)
        /\ (lines # 0 => j \in Nat \ {0} /\ code = ls[j][1])
        /\ (lines = 0 => code = "none")
        /\ k - First(ls, k) + 1 = lines + 1
    BY <1>1, NextFirst DEF Behind
  <1>3. k - 1 = j
    BY <1>1
  <1>4. lines # 0 => code # "none"
    <2> SUFFICES ASSUME lines # 0 PROVE code # "none"
      OBVIOUS
    <2>1. j \in 1..GoodLines(ls)
      BY <1>1, <1>2, GoodLinesIs
    <2>2. WellFormed(ls[j])
      BY <1>1, <2>1 DEF Verdict
    <2> QED
      BY <1>2, <2>2, CodesAssumption DEF WellFormed
  <1>5. (code \in {"none", line[1]}) <=> ~(Continues(ls, k) /\ line[1] # ls[k - 1][1])
    BY <1>2, <1>3, <1>4
  <1>6. /\ is_last(line) /\ Verdict(ls, k) = "good" =>
               Behind(ls, k, Append(replies, [code |-> line[1], lines |-> lines + 1]), 0, "none")
        /\ ~is_last(line) /\ Verdict(ls, k) = "good" => Behind(ls, k, replies, lines + 1, line[1])
    BY TakesGood DEF Replied
  <1>7. read_reply(line)
    OBVIOUS
  <1>8. Verdict(ls, k) =
          IF Len(line) > MAX_REPLY_LINE_LEN THEN "LineTooLong"
          ELSE IF ~WellFormed(line) THEN "Malformed"
          ELSE IF code \notin {"none", line[1]} THEN "InconsistentMultiline"
          ELSE IF ~is_last(line) /\ lines + 1 = MAX_REPLY_LINES THEN "Malformed"
          ELSE "good"
    <2>1. code \notin {"none", line[1]} <=> (Continues(ls, k) /\ line[1] # ls[k - 1][1])
      BY <1>5
    <2> HIDE DEF k
    <2> QED
      BY <1>2, <2>1 DEF Verdict
  <1> HIDE DEF k, line
  <1>9. Len(line) <= MAX_REPLY_LINE_LEN <=> ~(Len(line) > MAX_REPLY_LINE_LEN)
    BY Limits DEF line, k
  <1>10. CASE Len(line) > MAX_REPLY_LINE_LEN /\ Fails("LineTooLong")
    BY <1>8, <1>10 DEF Fails, k
  <1>11. CASE Len(line) <= MAX_REPLY_LINE_LEN /\ ~WellFormed(line) /\ Fails("Malformed")
    BY <1>8, <1>9, <1>11 DEF Fails, k
  <1>12. CASE /\ Len(line) <= MAX_REPLY_LINE_LEN /\ WellFormed(line)
              /\ code \notin {"none", line[1]} /\ Fails("InconsistentMultiline")
    BY <1>8, <1>9, <1>12 DEF Fails, k
  <1>13. CASE /\ Len(line) <= MAX_REPLY_LINE_LEN /\ WellFormed(line)
              /\ code \in {"none", line[1]} /\ is_last(line)
              /\ replies' = Append(replies, [code |-> line[1], lines |-> lines + 1])
              /\ lines' = 0 /\ code' = "none" /\ status' = status
    <2>1. Verdict(ls, k) = "good"
      BY <1>8, <1>9, <1>13
    <2> QED
      BY <1>6, <1>13, <2>1 DEF k
  <1>14. CASE /\ Len(line) <= MAX_REPLY_LINE_LEN /\ WellFormed(line)
              /\ code \in {"none", line[1]} /\ ~is_last(line)
              /\ lines' = lines + 1 /\ code' = line[1]
              /\ status' = (IF lines + 1 >= MAX_REPLY_LINES THEN "Malformed" ELSE "reading")
              /\ replies' = replies
    <2>1. lines + 1 >= MAX_REPLY_LINES <=> lines + 1 = MAX_REPLY_LINES
      BY <1>2, Limits
    <2>2. CASE lines + 1 = MAX_REPLY_LINES
      BY <1>8, <1>9, <1>14, <2>1, <2>2 DEF k
    <2>3. CASE lines + 1 # MAX_REPLY_LINES
      <3>1. Verdict(ls, k) = "good" /\ status' = "reading"
        BY <1>8, <1>9, <1>14, <2>1, <2>3
      <3> QED
        BY <1>6, <1>14, <3>1 DEF k
    <2> QED
      BY <2>2, <2>3
  <1> QED
    BY <1>7, <1>10, <1>11, <1>12, <1>13, <1>14, Zenon DEF read_reply

(* The lines of the stream, by their ends. *)
LEMMA LinesByEnds ==
  ASSUME NEW s \in Seq(Bytes)
  PROVE  /\ Len(LinesOf(s)) = Len(LineEnds(s)) /\ Len(LineEnds(s)) \in Nat
         /\ \A k \in 1..Len(LineEnds(s)) :
               /\ LinesOf(s)[k] = SubSeq(s, LineStart(s, k - 1) + 1, LineEnds(s)[k] - 1)
               /\ LinesOf(s)[k] \in Seq(Bytes)
               /\ Len(LinesOf(s)[k]) = LineEnds(s)[k] - 1 - LineStart(s, k - 1)
  <1> DEFINE n == Len(LineEnds(s))
             line(k) == SubSeq(s, LineStart(s, k - 1) + 1, LineEnds(s)[k] - 1)
  <1>1. n \in Nat /\ Len(s) \in Nat
    BY EndsOfLines
  <1>2. LinesOf(s) = [k \in 1..n |-> line(k)]
    BY DEF LinesOf
  <1> HIDE DEF n
  <1>3. ASSUME NEW k \in 1..n
        PROVE  line(k) \in Seq(Bytes) /\ Len(line(k)) = LineEnds(s)[k] - 1 - LineStart(s, k - 1)
    <2> DEFINE p == LineStart(s, k - 1)
               e == LineEnds(s)[k]
    <2>1. k - 1 \in 0..n /\ k - 1 < n /\ (k - 1) + 1 = k
      BY <1>1
    <2>2. p \in 0..Len(s) /\ crlfs(s, p) # {} /\ find_crlf(s, p) = e
      BY <2>1, NextLineEnd DEF n
    <2>3. e \in (p + 1)..(Len(s) - 1)
      BY <2>2, LeastCrlf
    <2> HIDE DEF p, e
    <2>4. e - 1 \in Nat /\ p <= e - 1 /\ e - 1 <= Len(s) /\ p \in Nat
      BY <1>1, <2>2, <2>3
    <2>5. SubSeq(s, p + 1, e - 1) \in Seq(Bytes) /\ Len(SubSeq(s, p + 1, e - 1)) = (e - 1) - p
      BY <2>4, PartOfSeq
    <2> QED
      BY <2>5 DEF p, e
  <1>4. Len(LinesOf(s)) = n
    <2>1. LinesOf(s) \in [1..n -> Seq(Bytes)]
      BY <1>2, <1>3
    <2> QED
      BY <1>1, <2>1
  <1>5. \A k \in 1..n : LinesOf(s)[k] = line(k)
    BY <1>2
  <1> QED
    BY <1>1, <1>3, <1>4, <1>5 DEF n

(* A stream whose next line is bad: nothing behind it is meant. *)
LEMMA EndsHere ==
  ASSUME stream \in Seq(Bytes), NEW j \in 0..Len(LineEnds(stream)), NEW r \in Replied, NEW n, NEW c,
         Behind(LinesOf(stream), j, r, n, c),
         j < Len(LineEnds(stream)) => Verdict(LinesOf(stream), j + 1) # "good"
  PROVE  /\ r = MeantReplies(LinesOf(stream))
         /\ j < Len(LineEnds(stream)) => MeantEnd(stream) = Verdict(LinesOf(stream), j + 1)
         /\ j = Len(LineEnds(stream)) =>
               MeantEnd(stream) = IF Len(stream) - LineStart(stream, j) > RX_BUF_HARD_LIMIT
                                  THEN "LineTooLong" ELSE "UnexpectedClose"
  <1> DEFINE ls == LinesOf(stream)
             g == GoodLines(ls)
             m == Len(LineEnds(stream))
  <1>1. Len(ls) = m /\ m \in Nat
    BY LinesByEnds
  <1>2. /\ g \in 0..m /\ \A k \in 1..g : Verdict(ls, k) = "good"
        /\ g < m => Verdict(ls, g + 1) # "good"
    BY <1>1, GoodLinesIs
  <1>3. j \in 0..g
    BY DEF Behind
  <1> HIDE DEF ls, g, m
  <1>4. j = g
    <2> SUFFICES ASSUME j # g PROVE FALSE
      OBVIOUS
    <2>1. j + 1 \in 1..g /\ j < m
      BY <1>1, <1>2, <1>3
    <2> QED
      BY <1>2, <2>1 DEF ls, m
  <1>5. r = MeantReplies(ls)
    BY <1>1, <1>4, SomeReturned DEF ls, g
  <1>6. MeantEnd(stream) = IF g < m THEN Verdict(ls, g + 1)
                           ELSE IF Len(stream) - LineStart(stream, m) > RX_BUF_HARD_LIMIT
                                THEN "LineTooLong" ELSE "UnexpectedClose"
    BY <1>1 DEF MeantEnd, Rest, ls, g, m
  <1> QED
    BY <1>1, <1>4, <1>5, <1>6 DEF ls, m

LEMMA StepProgress ==
  ASSUME IInv, IInv', Window, Progress, status = "reading", stream' = stream, ReadOffTheStream
  PROVE  Progress'
  <1> DEFINE ls == LinesOf(stream)
             ends == LineEnds(stream)
             m == Len(ends)
  <1>1. /\ stream \in Seq(Bytes) /\ replies \in Replied /\ replies' \in Replied
        /\ lines < MAX_REPLY_LINES
    BY DEF IInv, TypeOK, LinesBounded, Replied
  <1>2. PICK j \in 0..m : Consumed = LineStart(stream, j) /\ Behind(ls, j, replies, lines, code)
    BY DEF Progress
  <1>3. Len(ls) = m /\ m \in Nat
    BY <1>1, LinesByEnds
  <1>4. /\ Consumed \in 0..Len(stream)
        /\ j = m => crlfs(stream, Consumed) = {}
        /\ j < m => crlfs(stream, Consumed) # {} /\ find_crlf(stream, Consumed) = ends[j + 1]
    BY <1>1, <1>2, NextLineEnd
  <1>5. j < m => /\ ls[j + 1] = SubSeq(stream, Consumed + 1, ends[j + 1] - 1)
                 /\ Len(ls[j + 1]) \in Nat /\ Len(ls[j + 1]) = ends[j + 1] - 1 - Consumed
    <2> SUFFICES ASSUME j < m PROVE /\ ls[j + 1] = SubSeq(stream, Consumed + 1, ends[j + 1] - 1)
                                    /\ Len(ls[j + 1]) \in Nat
                                    /\ Len(ls[j + 1]) = ends[j + 1] - 1 - Consumed
      OBVIOUS
    <2>1. j + 1 \in 1..m /\ (j + 1) - 1 = j
      BY <1>3
    <2>2. /\ ls[j + 1] = SubSeq(stream, LineStart(stream, (j + 1) - 1) + 1, ends[j + 1] - 1)
          /\ ls[j + 1] \in Seq(Bytes)
          /\ Len(ls[j + 1]) = ends[j + 1] - 1 - LineStart(stream, (j + 1) - 1)
      BY <1>1, <2>1, LinesByEnds
    <2>3. Len(ls[j + 1]) \in Nat
      BY <2>2
    <2> QED
      BY <1>2, <2>1, <2>2, <2>3
  <1>6. /\ LinesOf(stream)' = ls /\ LineEnds(stream)' = ends /\ MeantEnd(stream)' = MeantEnd(stream)
        /\ \A i : LineStart(stream, i)' = LineStart(stream, i)
    OBVIOUS
  <1>7. /\ j \in 0..m
        /\ (j < m => Verdict(ls, j + 1) # "good") =>
              /\ replies = MeantReplies(ls)
              /\ j < m => MeantEnd(stream) = Verdict(ls, j + 1)
              /\ j = m => MeantEnd(stream) = IF Len(stream) - Consumed > RX_BUF_HARD_LIMIT
                                             THEN "LineTooLong" ELSE "UnexpectedClose"
    BY <1>1, <1>2, EndsHere
  <1>8. j < m => LineStart(stream, j + 1) = ends[j + 1] + 1 /\ j + 1 \in 0..m
    BY <1>3 DEF LineStart
  <1> HIDE DEF ls, ends, m
  <1>9. CASE /\ crlfs(stream, Consumed) # {}
             /\ Consumed' = find_crlf(stream, Consumed) + 1
             /\ read_reply(SubSeq(stream, Consumed + 1, find_crlf(stream, Consumed) - 1))
    <2>1. j < m
      BY <1>3, <1>4, <1>9
    <2>2. Consumed' = LineStart(stream, j + 1) /\ read_reply(ls[j + 1])
      BY <1>4, <1>5, <1>8, <1>9, <2>1
    <2>3. \/ /\ Verdict(ls, j + 1) = "good" /\ status' = "reading"
             /\ Behind(ls, j + 1, replies', lines', code')
          \/ /\ Verdict(ls, j + 1) \notin {"good", "reading", "Io"}
             /\ status' = Verdict(ls, j + 1) /\ replies' = replies
      BY <1>1, <1>2, <1>3, <1>5, <2>1, <2>2, LineIsJudged
    <2>4. CASE /\ Verdict(ls, j + 1) = "good" /\ status' = "reading"
               /\ Behind(ls, j + 1, replies', lines', code')
      <3>1. j + 1 \in 0..m
        BY <1>8, <2>1
      <3> QED
        BY <1>6, <2>2, <2>4, <3>1 DEF Progress, ls, ends, m
    <2>5. CASE /\ Verdict(ls, j + 1) \notin {"good", "reading", "Io"}
               /\ status' = Verdict(ls, j + 1) /\ replies' = replies
      <3>1. replies = MeantReplies(ls) /\ MeantEnd(stream) = Verdict(ls, j + 1)
        BY <1>7, <2>1, <2>5
      <3> QED
        BY <1>6, <2>5, <3>1 DEF Progress, ls
    <2> QED
      BY <2>3, <2>4, <2>5
  <1>10. CASE /\ \A end \in crlfs(stream, Consumed) : end - 1 - Consumed > MAX_REPLY_LINE_LEN
              /\ Len(stream) - Consumed > RX_BUF_HARD_LIMIT
              /\ Fails("LineTooLong")
    <2>1. j < m => Verdict(ls, j + 1) = "LineTooLong"
      <3> SUFFICES ASSUME j < m PROVE Verdict(ls, j + 1) = "LineTooLong"
        OBVIOUS
      <3>1. ends[j + 1] \in crlfs(stream, Consumed)
        BY <1>1, <1>4, LeastCrlf
      <3>2. Len(ls[j + 1]) > MAX_REPLY_LINE_LEN
        BY <1>5, <1>10, <3>1
      <3> QED
        BY <3>2 DEF Verdict
    <2>2. replies = MeantReplies(ls) /\ MeantEnd(stream) = "LineTooLong"
      <3>1. j < m \/ j = m
        BY <1>3
      <3> QED
        BY <1>7, <1>10, <2>1, <3>1
    <2> QED
      BY <1>6, <1>10, <2>2 DEF Progress, Fails, ls
  <1>11. CASE /\ crlfs(stream, Consumed) = {} /\ Len(stream) - Consumed <= RX_BUF_HARD_LIMIT
              /\ Fails("UnexpectedClose")
    <2>1. j = m /\ ~(j < m)
      BY <1>3, <1>4, <1>11
    <2>2. ~(Len(stream) - Consumed > RX_BUF_HARD_LIMIT)
      BY <1>1, <1>4, <1>11, Limits
    <2>3. replies = MeantReplies(ls) /\ MeantEnd(stream) = "UnexpectedClose"
      BY <1>7, <2>1, <2>2
    <2> QED
      BY <1>6, <1>11, <2>3 DEF Progress, Fails, ls
  <1>12. CASE Consumed' = Consumed /\ Fails("Io")
    BY <1>2, <1>6, <1>12 DEF Progress, Fails, ls, ends, m
  <1> QED
    BY <1>9, <1>10, <1>11, <1>12 DEF ReadOffTheStream

(* For every stream and every way of cutting it: the replies and the error  *)
(* that read_reply returns are those the whole stream means, read without   *)
(* a buffer (fill_buf, compact_rx and the two limits on a line together).   *)
THEOREM ReadingIsAFunctionOfTheBytes == Spec => []ChunkingIrrelevant
  <1>1. Spec => [](IInv /\ Window)
    BY InitWindow, InitIInv, StepIInv, StepReadsOff, PTL DEF Spec
  <1>2. Init => Progress
    <2> SUFFICES ASSUME Init PROVE Progress
      OBVIOUS
    <2> DEFINE ls == LinesOf(stream)
    <2>1. stream \in Seq(Bytes) /\ Consumed = 0 /\ replies = <<>> /\ lines = 0 /\ code = "none"
          /\ status = "reading"
      <3>1. IInv /\ Window /\ Len(rx_buf) = 0 /\ rx_pos = 0 /\ sent = 0
        BY InitIInv, InitWindow DEF Init
      <3>2. Consumed = 0
        BY <3>1 DEF Consumed, Unread
      <3> QED
        BY <3>1, <3>2 DEF Init, IInv, TypeOK
    <2>2. Len(ls) = Len(LineEnds(stream)) /\ Len(LineEnds(stream)) \in Nat
      BY <2>1, LinesByEnds
    <2>3. GoodLines(ls) \in Nat /\ Len(LastLines(ls)) \in Nat
          /\ \A i \in 1..Len(LastLines(ls)) : LastLines(ls)[i] \in 1..GoodLines(ls)
      BY <2>2, GoodLinesIs, LastLinesRun
    <2> HIDE DEF ls
    <2>4. Returned(ls, 0, replies)
      <3>1. Len(replies) = 0
        BY <2>1
      <3>2. \A i \in 1..Len(LastLines(ls)) : LastLines(ls)[i] > 0
        BY <2>3
      <3> QED
        BY <2>3, <3>1, <3>2 DEF Returned
    <2>5. Behind(ls, 0, replies, lines, code)
      BY <2>1, <2>3, <2>4 DEF Behind, Between
    <2>6. 0 \in 0..Len(LineEnds(stream)) /\ LineStart(stream, 0) = 0
      BY <2>2 DEF LineStart
    <2> QED
      BY <2>1, <2>5, <2>6 DEF Progress, ls
  <1>3. IInv /\ IInv' /\ Window /\ Progress /\ [Next]_vars => Progress'
    <2> SUFFICES ASSUME IInv, IInv', Window, Progress, [Next]_vars PROVE Progress'
      OBVIOUS
    <2>1. stream' = stream
      BY DEF Next, vars, read_line, line_too_long, fill_buf, read_ends, Stopped
    <2>2. ReadOffTheStream \/ UNCHANGED <<Consumed, lines, code, replies, status>>
      BY StepReadsOff
    <2>3. status = "reading" \/ UNCHANGED vars
      BY DEF Next, vars, read_line, line_too_long, fill_buf, read_ends, Stopped
    <2>4. CASE UNCHANGED <<Consumed, lines, code, replies, status>>
      BY <2>1, <2>4 DEF Progress
    <2>5. CASE UNCHANGED vars
      BY <2>5 DEF vars, Progress, Consumed, Unread
    <2>6. CASE ReadOffTheStream /\ status = "reading"
      BY <2>1, <2>6, StepProgress
    <2> QED
      BY <2>2, <2>3, <2>4, <2>5, <2>6
  <1>4. IInv /\ Progress => ChunkingIrrelevant
    <2> SUFFICES ASSUME IInv, Progress PROVE ChunkingIrrelevant
      OBVIOUS
    <2> DEFINE ls == LinesOf(stream)
    <2>1. stream \in Seq(Bytes) /\ replies \in Replied
      BY DEF IInv, TypeOK, Replied
    <2>2. Len(ls) \in Nat
      BY <2>1, LinesByEnds
    <2>3. CASE status \in {"reading", "Io"}
      <3>1. PICK j \in 0..Len(LineEnds(stream)) : Behind(ls, j, replies, lines, code)
        BY <2>3 DEF Progress
      <3>2. \E n \in 0..Len(MeantReplies(ls)) : replies = SubSeq(MeantReplies(ls), 1, n)
        BY <2>1, <2>2, <3>1, SomeReturned
      <3> QED
        BY <2>3, <3>2 DEF ChunkingIrrelevant
    <2>4. CASE status \notin {"reading", "Io"}
      BY <2>4 DEF Progress, ChunkingIrrelevant
    <2> QED
      BY <2>3, <2>4
  <1> QED
    BY <1>1, <1>2, <1>3, <1>4, PTL DEF Spec
=============================================================================
