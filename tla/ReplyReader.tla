---------------------------- MODULE ReplyReader -----------------------------
(***************************************************************************)
(* read_reply, read_line, fill_buf and compact_rx of client/io.rs and      *)
(* parse_reply_line of protocol.rs: the bytes a server sends, cut into     *)
(* reads of any size, become replies or an error.                          *)
(*                                                                         *)
(* The three digits of a code are one byte here, so a line needs one byte  *)
(* and has its separator in the second. The limits of the code are         *)
(* constants; the states in which an error has been returned are final,    *)
(* because the session is then closed.                                     *)
(***************************************************************************)
EXTENDS Integers, Sequences, FiniteSets

CONSTANTS
    Codes,                     \* the reply codes
    Streams,                   \* what the server may send before it closes
    MAX_REPLY_LINE_LEN,
    MAX_REPLY_LINES,
    RX_BUF_COMPACT_THRESHOLD,
    READ_CHUNK

Bytes == Codes \cup {" ", "-", "x", "CR", "LF"}

ASSUME CodesAssumption == "none" \notin Codes
ASSUME StreamsAssumption == Streams \subseteq Seq(Bytes)
ASSUME LimitsAssumption ==
    /\ MAX_REPLY_LINE_LEN \in Nat \ {0}
    /\ MAX_REPLY_LINES \in Nat \ {0}
    /\ RX_BUF_COMPACT_THRESHOLD \in Nat \ {0}
    /\ READ_CHUNK \in Nat \ {0}

RX_BUF_HARD_LIMIT == MAX_REPLY_LINE_LEN * 2

VARIABLES
    stream,   \* everything the server sends
    sent,     \* how much of it reads have returned
    rx_buf,
    rx_pos,
    lines,    \* number of lines of the reply being read
    code,     \* its code, "none" before its first line
    replies,  \* the replies returned so far
    status    \* "reading", or the error read_reply has returned

vars == <<stream, sent, rx_buf, rx_pos, lines, code, replies, status>>

Init ==
    /\ stream \in Streams
    /\ sent = 0
    /\ rx_buf = <<>>
    /\ rx_pos = 0
    /\ lines = 0
    /\ code = "none"
    /\ replies = <<>>
    /\ status = "reading"

(* The ends of the lines in buf behind position p. *)
crlfs(buf, p) == {i \in (p + 1)..(Len(buf) - 1) : buf[i] = "CR" /\ buf[i + 1] = "LF"}
HasLine == crlfs(rx_buf, rx_pos) # {}

(* find_crlf: where the CR of the first CRLF is. *)
find_crlf(buf, p) == CHOOSE i \in crlfs(buf, p) : \A j \in crlfs(buf, p) : i <= j

(* parse_reply_line; a bare code is a last line. *)
WellFormed(line) ==
    /\ Len(line) > 0 /\ line[1] \in Codes
    /\ Len(line) > 1 => line[2] \in {" ", "-"}
is_last(line) == Len(line) > 1 => line[2] = " "

(* Mutants: the buffer is never compacted; it is cleared, with the replies  *)
(* that are still in it.                                                    *)
NeverCompact(pos) == rx_buf' = rx_buf /\ rx_pos' = pos
CompactClears(pos) ==
    IF pos >= RX_BUF_COMPACT_THRESHOLD
    THEN rx_buf' = <<>> /\ rx_pos' = 0
    ELSE rx_buf' = rx_buf /\ rx_pos' = pos

(* compact_rx, rx_pos having advanced to pos. *)
compact_rx(pos) ==
    IF pos >= RX_BUF_COMPACT_THRESHOLD
    THEN rx_buf' = SubSeq(rx_buf, pos + 1, Len(rx_buf)) /\ rx_pos' = 0
    ELSE rx_buf' = rx_buf /\ rx_pos' = pos

Fails(err) == status' = err /\ UNCHANGED <<lines, code, replies>>

(* What read_reply makes of a line. *)
read_reply(line) ==
    \/ /\ Len(line) > MAX_REPLY_LINE_LEN
       /\ Fails("LineTooLong")
    \/ /\ Len(line) <= MAX_REPLY_LINE_LEN /\ ~WellFormed(line)
       /\ Fails("Malformed")
    \/ /\ Len(line) <= MAX_REPLY_LINE_LEN /\ WellFormed(line)
       /\ code \notin {"none", line[1]}
       /\ Fails("InconsistentMultiline")
    \/ /\ Len(line) <= MAX_REPLY_LINE_LEN /\ WellFormed(line)
       /\ code \in {"none", line[1]}
       /\ is_last(line)
       /\ replies' = Append(replies, [code |-> line[1], lines |-> lines + 1])
       /\ lines' = 0 /\ code' = "none"
       /\ UNCHANGED status
    \/ /\ Len(line) <= MAX_REPLY_LINE_LEN /\ WellFormed(line)
       /\ code \in {"none", line[1]}
       /\ ~is_last(line)
       /\ lines' = lines + 1 /\ code' = line[1]
       /\ status' = IF lines + 1 >= MAX_REPLY_LINES THEN "Malformed" ELSE "reading"
       /\ UNCHANGED replies

(* read_line finds a line in the buffer and hands it to read_reply. *)
read_line ==
    /\ status = "reading"
    /\ HasLine
    /\ LET end == find_crlf(rx_buf, rx_pos)
       IN  compact_rx(end + 1) /\ read_reply(SubSeq(rx_buf, rx_pos + 1, end - 1))
    /\ UNCHANGED <<stream, sent>>

Unread == Len(rx_buf) - rx_pos

(* No CRLF in sight and the buffer full: read_line gives up. *)
line_too_long ==
    /\ status = "reading" /\ ~HasLine
    /\ Unread > RX_BUF_HARD_LIMIT
    /\ Fails("LineTooLong")
    /\ UNCHANGED <<stream, sent, rx_buf, rx_pos>>

(* fill_buf: a read returns n bytes. *)
fill_buf(n) ==
    /\ status = "reading" /\ ~HasLine
    /\ Unread <= RX_BUF_HARD_LIMIT
    /\ sent + n <= Len(stream)
    /\ rx_buf' = rx_buf \o SubSeq(stream, sent + 1, sent + n)
    /\ sent' = sent + n
    /\ UNCHANGED <<stream, rx_pos, lines, code, replies, status>>

(* The read returns 0 at the end of the stream, or fails. *)
read_ends ==
    /\ status = "reading" /\ ~HasLine
    /\ Unread <= RX_BUF_HARD_LIMIT
    /\ \/ sent = Len(stream) /\ Fails("UnexpectedClose")
       \/ Fails("Io")
    /\ UNCHANGED <<stream, sent, rx_buf, rx_pos>>

Stopped == status # "reading" /\ UNCHANGED vars

Next == read_line \/ line_too_long \/ (\E n \in 1..READ_CHUNK : fill_buf(n)) \/ read_ends \/ Stopped

Spec == Init /\ [][Next]_vars
-----------------------------------------------------------------------------
Statuses == {"reading", "LineTooLong", "Malformed", "InconsistentMultiline",
             "UnexpectedClose", "Io"}

(* Every variable keeps its type. *)
TypeOK ==
    /\ stream \in Seq(Bytes)
    /\ sent \in 0..Len(stream)
    /\ rx_buf \in Seq(Bytes)
    /\ rx_pos \in 0..Len(rx_buf)
    /\ lines \in 0..MAX_REPLY_LINES
    /\ code \in Codes \cup {"none"}
    /\ replies \in Seq([code : Codes, lines : 1..MAX_REPLY_LINES])
    /\ status \in Statuses

(* However the server cuts or withholds its line ends, the receive buffer   *)
(* stays below a fixed size: consumed bytes below the compaction threshold, *)
(* an unfinished line of the hard limit, and one read.                      *)
BufferBounded ==
    Len(rx_buf) < RX_BUF_COMPACT_THRESHOLD + RX_BUF_HARD_LIMIT + READ_CHUNK

(***************************************************************************)
(* What a stream means, to one who knows nothing of reads, buffers and     *)
(* positions: it is cut at its CRLFs and each line is judged by itself and *)
(* the lines before it.                                                    *)
(***************************************************************************)

(* The elements of a finite set of numbers, the smallest first. *)
Ascending(S) ==
    CHOOSE f \in [1..Cardinality(S) -> S] :
        \A i, j \in 1..Cardinality(S) : i < j => f[i] < f[j]

(* The lines of s, without what follows the last CRLF. *)
LineEnds(s) == Ascending(crlfs(s, 0))
LineStart(s, k) == IF k = 0 THEN 0 ELSE LineEnds(s)[k] + 1
LinesOf(s) ==
    [k \in 1..Len(LineEnds(s)) |-> SubSeq(s, LineStart(s, k - 1) + 1, LineEnds(s)[k] - 1)]
Rest(s) == Len(s) - LineStart(s, Len(LineEnds(s)))

(* Line k goes on with the reply of line k - 1. *)
Continues(ls, k) == k > 1 /\ ~is_last(ls[k - 1])
(* The first line of the reply that line k belongs to. *)
IsFirst(ls, k, f) == ~Continues(ls, f) /\ \A j \in (f + 1)..k : Continues(ls, j)
First(ls, k) == CHOOSE f \in 1..k : IsFirst(ls, k, f)

Verdict(ls, k) ==
    IF Len(ls[k]) > MAX_REPLY_LINE_LEN THEN "LineTooLong"
    ELSE IF ~WellFormed(ls[k]) THEN "Malformed"
    ELSE IF Continues(ls, k) /\ ls[k][1] # ls[k - 1][1] THEN "InconsistentMultiline"
    ELSE IF ~is_last(ls[k]) /\ k - First(ls, k) + 1 = MAX_REPLY_LINES THEN "Malformed"
    ELSE "good"

(* The number of lines before the first bad one, the replies they make up,  *)
(* and how reading them ends.                                               *)
GoodLines(ls) ==
    CHOOSE n \in 0..Len(ls) : /\ \A k \in 1..n : Verdict(ls, k) = "good"
                              /\ n = Len(ls) \/ Verdict(ls, n + 1) # "good"
LastLines(ls) == Ascending({k \in 1..GoodLines(ls) : is_last(ls[k])})
ReplyEnding(ls, k) == [code |-> ls[k][1], lines |-> k - First(ls, k) + 1]
MeantReplies(ls) == [i \in 1..Len(LastLines(ls)) |-> ReplyEnding(ls, LastLines(ls)[i])]
MeantEnd(s) ==
    LET ls == LinesOf(s)
    IN  IF GoodLines(ls) < Len(ls) THEN Verdict(ls, GoodLines(ls) + 1)
        ELSE IF Rest(s) > RX_BUF_HARD_LIMIT THEN "LineTooLong" ELSE "UnexpectedClose"

(* The replies and the error a client gets depend on the bytes alone, not   *)
(* on how reads cut them: a CRLF split between two reads, several replies   *)
(* in one read and a compaction in between make no difference. As long as   *)
(* no error has been returned, and after a read that failed, the replies    *)
(* are the first ones of the stream.                                        *)
ChunkingIrrelevant ==
    LET meant == MeantReplies(LinesOf(stream))
    IN  IF status \in {"reading", "Io"}
        THEN \E n \in 0..Len(meant) : replies = SubSeq(meant, 1, n)
        ELSE replies = meant /\ status = MeantEnd(stream)
=============================================================================
