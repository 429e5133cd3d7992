------------------------------ MODULE Replies ------------------------------
(***************************************************************************)
(* What the client makes of the text of a reply: the capabilities of an    *)
(* EHLO reply, the enhanced status code at the start of a line             *)
(* (protocol.rs), and the queue id in the reply to a message (outcome.rs). *)
(***************************************************************************)
EXTENDS Integers, SequencesExt

CONSTANT U16_MAX  \* 65535

ASSUME U16Assumption == U16_MAX \in Nat

---------------------------------------------------------------------------
(* A capability line is a sequence of words, the case of which is not      *)
(* looked at: a word stands for all its spellings.                         *)
Advertises(lines, keyword) == \E i \in DOMAIN lines : lines[i] # <<>> /\ lines[i][1] = keyword

(* Mutant: only the first AUTH line counts.                                *)
FirstAuthLine(lines, mechanism) ==
    \E i \in DOMAIN lines :
        /\ lines[i] # <<>> /\ lines[i][1] = "AUTH"
        /\ \A j \in 1 .. i - 1 : lines[j] = <<>> \/ lines[j][1] # "AUTH"
        /\ mechanism \in Range(Tail(lines[i]))

ehlo_advertises_auth(lines, mechanism) ==
    \E i \in DOMAIN lines :
        lines[i] # <<>> /\ lines[i][1] = "AUTH" /\ mechanism \in Range(Tail(lines[i]))

ehlo_advertises_starttls(lines) == Advertises(lines, "STARTTLS")
ehlo_advertises_enhanced_status_codes(lines) == Advertises(lines, "ENHANCEDSTATUSCODES")
ehlo_advertises_smtputf8(lines) == Advertises(lines, "SMTPUTF8")

(* The whole line is compared, not its first word.                         *)
ehlo_advertises_pipelining(lines) == \E i \in DOMAIN lines : lines[i] = <<"PIPELINING">>

select_auth_mechanism(lines) ==
    CASE ehlo_advertises_auth(lines, "SCRAM-SHA-256") -> "SCRAM-SHA-256"
      [] /\ ~ehlo_advertises_auth(lines, "SCRAM-SHA-256")
         /\ ehlo_advertises_auth(lines, "PLAIN") -> "PLAIN"
      [] /\ ~ehlo_advertises_auth(lines, "SCRAM-SHA-256")
         /\ ~ehlo_advertises_auth(lines, "PLAIN")
         /\ ehlo_advertises_auth(lines, "LOGIN") -> "LOGIN"
      [] OTHER -> "none"

---------------------------------------------------------------------------
(* A character of the text of a reply is a digit, ".", "SP", "TAB" or any  *)
(* other.                                                                  *)
Numerals == <<"0", "1", "2", "3", "4", "5", "6", "7", "8", "9">>
Digits == Range(Numerals)
Value(d) == (CHOOSE i \in DOMAIN Numerals : Numerals[i] = d) - 1

(* The end of the digits from position i on, and the number they are.      *)
DigitsEnd(text, i) == Min({j \in i .. Len(text) + 1 : j = Len(text) + 1 \/ text[j] \notin Digits})
Number(digits) ==
    LET n[k \in 0 .. Len(digits)] == IF k = 0 THEN 0 ELSE 10 * n[k - 1] + Value(digits[k])
    IN n[Len(digits)]

NoStatus == [some |-> FALSE, status |-> <<>>, prefix_len |-> 0]

(* Mutant: the class may be any digit.                                     *)
AnyClass(text) ==
    LET s == DigitsEnd(text, 3)
        d == DigitsEnd(text, s + 1)
        subject == Number(SubSeq(text, 3, s - 1))
        detail == Number(SubSeq(text, s + 1, d - 1))
    IN IF /\ Len(text) >= 5
          /\ text[1] \in Digits /\ text[2] = "."
          /\ s > 3 /\ s <= Len(text) /\ text[s] = "." /\ subject <= U16_MAX
          /\ d > s + 1 /\ detail <= U16_MAX
       THEN [some |-> TRUE,
             status |-> <<Value(text[1]), subject, detail>>,
             prefix_len |-> IF d <= Len(text) /\ text[d] \in {"SP", "TAB"} THEN d ELSE d - 1]
       ELSE NoStatus

(* class.subject.detail and one space; a number has to fit a u16.          *)
parse_enhanced_status_prefix(text) ==
    LET s == DigitsEnd(text, 3)
        d == DigitsEnd(text, s + 1)
        subject == Number(SubSeq(text, 3, s - 1))
        detail == Number(SubSeq(text, s + 1, d - 1))
    IN IF /\ Len(text) >= 5
          /\ text[1] \in {"2", "4", "5"} /\ text[2] = "."
          /\ s > 3 /\ s <= Len(text) /\ text[s] = "." /\ subject <= U16_MAX
          /\ d > s + 1 /\ detail <= U16_MAX
       THEN [some |-> TRUE,
             status |-> <<Value(text[1]), subject, detail>>,
             prefix_len |-> IF d <= Len(text) /\ text[d] \in {"SP", "TAB"} THEN d ELSE d - 1]
       ELSE NoStatus

(* read_reply asks the first line only, in a session that has the          *)
(* extension; message_text takes the prefix off every line that has one.   *)
enhanced(lines, enabled) ==
    IF enabled /\ lines # <<>> THEN parse_enhanced_status_prefix(lines[1]) ELSE NoStatus

(* Mutant: the prefix is looked for in every session.                      *)
AlwaysStripped(lines, enabled) ==
    [i \in DOMAIN lines |->
        LET p == parse_enhanced_status_prefix(lines[i])
        IN SubSeq(lines[i], p.prefix_len + 1, Len(lines[i]))]

message_text(lines, enabled) ==
    IF ~enhanced(lines, enabled).some THEN lines
    ELSE [i \in DOMAIN lines |->
            LET p == parse_enhanced_status_prefix(lines[i])
            IN SubSeq(lines[i], p.prefix_len + 1, Len(lines[i]))]

---------------------------------------------------------------------------
(* The reply to a message, in pieces of text: "queued" and "run" have six  *)
(* characters, "id" and "as" two, and all of them may be part of a queue   *)
(* id, the words of a marker too.                                          *)
IdChars == {"id", "as", "run", "queued"}
ReplyChars == IdChars \union {"SP", "="}
Chars(token) ==
    FoldLeft(LAMBDA n, c : n + (IF c \in {"run", "queued"} THEN 6 ELSE 2), 0, token)

TokenAt(text, start) ==
    LET end == Min({j \in start .. Len(text) + 1 : j = Len(text) + 1 \/ text[j] \notin IdChars})
    IN SubSeq(text, start, end - 1)

Hits(text, marker, from) ==
    {p \in from .. Len(text) - Len(marker) + 1 : SubSeq(text, p, p + Len(marker) - 1) = marker}

(* Mutant: a token that is too short is taken as well.                     *)
AnyLength(text, marker) ==
    LET hits == Hits(text, marker, 1)
    IN IF hits = {} THEN <<>> ELSE <<TokenAt(text, Min(hits) + Len(marker))>>

(* One turn of the search: it goes on behind a marker that no long enough  *)
(* token follows.                                                          *)
ScanTurn(s, text, marker) ==
    LET hits == Hits(text, marker, s.idx)
        start == Min(hits) + Len(marker)
    IN IF s.id # <<>> \/ hits = {} THEN s
       ELSE IF Chars(TokenAt(text, start)) >= 6 THEN [s EXCEPT !.id = <<TokenAt(text, start)>>]
       ELSE [s EXCEPT !.idx = start]

(* The search; a text has no more turns than symbols.                      *)
scan_after(text, marker) ==
    LET s[n \in 0 .. Len(text)] == IF n = 0 THEN [idx |-> 1, id |-> <<>>]
                                   ELSE ScanTurn(s[n - 1], text, marker)
    IN s[Len(text)].id

Markers == <<<<"queued", "SP", "as", "SP">>, <<"SP", "id", "=">>, <<"SP", "id", "SP">>>>

extract_queue_id(text) ==
    LET found == {i \in DOMAIN Markers : scan_after(text, Markers[i]) # <<>>}
    IN IF found = {} THEN <<>> ELSE scan_after(text, Markers[Min(found)])
=============================================================================
