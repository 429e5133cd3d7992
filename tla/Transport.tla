----------------------------- MODULE Transport -----------------------------
(***************************************************************************)
(* The contract of Transport and StartTlsCapable (transport.rs), as the    *)
(* SMTP client relies on it: what an adapter may do between a call and its *)
(* return.  One call runs at a time (&mut self).  A byte written is known  *)
(* by its number, and the bytes of the peer are counted.                   *)
(***************************************************************************)
EXTENDS Integers, Sequences

CONSTANTS MaxBuf,    \* bytes in one call
          MaxBytes   \* bytes in each direction

Bounded == MaxBuf \in Nat /\ MaxBytes \in Nat

VARIABLES link,     \* "plain", "tls", or "dead": no stream
          asked,    \* upgrade_to_tls has been called
          call,     \* the running call, or "none"
          result,   \* what the last one returned
          issued,   \* bytes handed to write_all so far
          pend,     \* those of the running call that the stream has not taken
          taken,    \* what the stream took: <<channel, byte>>
          unread,   \* bytes the peer sent that no read has returned
          received, \* bytes the peer has sent
          eof       \* the peer has closed its side

vars == <<link, asked, call, result, issued, pend, taken, unread, received, eof>>

Calls == {"read", "write_all", "flush", "close", "upgrade_to_tls"}
Results == {"none", "ok", "bytes", "eof", "error", "dropped"}

Live == link \in {"plain", "tls"}

Bytes(n) == [i \in 1 .. n |-> issued + i]

Tag(channel, bytes) == [i \in DOMAIN bytes |-> <<channel, bytes[i]>>]

Init == /\ link \in {"plain", "tls"} /\ asked = FALSE
        /\ call = "none" /\ result = "none"
        /\ issued = 0 /\ pend = <<>> /\ taken = <<>>
        /\ unread = 0 /\ received = 0 /\ eof = FALSE

---------------------------------------------------------------------------
(* The caller.                                                             *)
Call(c, p, n) == /\ call = "none"
                 /\ call' = c /\ pend' = p /\ issued' = n
                 /\ UNCHANGED <<result, taken, unread, received, eof>>

CallPlainly == \E c \in {"read", "flush"} :
                  Call(c, <<>>, issued) /\ UNCHANGED <<link, asked>>

CallWrite == \E n \in 0 .. MaxBuf :
                /\ issued + n <= MaxBytes
                /\ Call("write_all", Bytes(n), issued + n)
                /\ UNCHANGED <<link, asked>>

(* From the call on the plaintext stream is gone.                          *)
CallUpgrade == /\ Call("upgrade_to_tls", <<>>, issued)
               /\ asked' = TRUE
               /\ link' \in IF link = "tls" THEN {"tls", "dead"} ELSE {"dead"}

CallClose == /\ Call("close", <<>>, issued)
             /\ link' \in {link, "dead"} /\ UNCHANGED asked

---------------------------------------------------------------------------
(* The stream takes bytes of the running write, in order, on the channel   *)
(* there is.                                                               *)
Take == /\ call = "write_all" /\ Live
        /\ \E k \in 1 .. Len(pend) :
             /\ taken' = taken \o Tag(link, SubSeq(pend, 1, k))
             /\ pend' = SubSeq(pend, k + 1, Len(pend))
        /\ UNCHANGED <<link, asked, call, result, issued, unread, received, eof>>

Return(r) == /\ call' = "none" /\ result' = r /\ pend' = <<>>
             /\ UNCHANGED <<asked, issued, taken, received, eof>>

(* write_all returns Ok once every byte has been taken; an upgrade that    *)
(* returns Ok has left a TLS stream.                                       *)
ReturnOk == /\ \/ call = "write_all" /\ pend = <<>> /\ Live /\ UNCHANGED link
               \/ call = "flush" /\ UNCHANGED link
               \/ call = "upgrade_to_tls" /\ link' = "tls"
               \/ call = "close" /\ link' = "dead"
            /\ Return("ok") /\ UNCHANGED unread

ReturnBytes == /\ call = "read" /\ Live
               /\ \E k \in 1 .. unread : k <= MaxBuf /\ unread' = unread - k
               /\ Return("bytes") /\ UNCHANGED link

(* Ok(0): the peer has closed and everything it sent has been read.        *)
ReturnEof == /\ call = "read" /\ Live /\ eof /\ unread = 0
             /\ Return("eof") /\ UNCHANGED <<link, unread>>

(* An error, or the caller drops the future.                               *)
ReturnError == /\ call # "none"
               /\ link' = IF call = "close" THEN "dead" ELSE link
               /\ \E r \in {"error", "dropped"} : Return(r)
               /\ UNCHANGED unread

---------------------------------------------------------------------------
PeerSends == /\ ~eof /\ received < MaxBytes
             /\ received' = received + 1 /\ unread' = unread + 1
             /\ UNCHANGED <<link, asked, call, result, issued, pend, taken, eof>>

PeerCloses == /\ ~eof /\ eof' = TRUE
              /\ UNCHANGED <<link, asked, call, result, issued, pend, taken, unread, received>>

Next == \/ CallPlainly \/ CallWrite \/ CallUpgrade \/ CallClose
        \/ Take \/ ReturnOk \/ ReturnBytes \/ ReturnEof \/ ReturnError
        \/ PeerSends \/ PeerCloses

Spec == Init /\ [][Next]_vars

---------------------------------------------------------------------------
(* The types of the variables; a count of bytes never falls below zero.    *)
TypeOK == /\ link \in {"plain", "tls", "dead"} /\ asked \in BOOLEAN
          /\ call \in Calls \union {"none"} /\ result \in Results
          /\ issued \in Nat /\ pend \in Seq(Nat)
          /\ taken \in Seq({"plain", "tls"} \X Nat)
          /\ unread \in Nat /\ received \in Nat /\ eof \in BOOLEAN

(* Nothing comes twice or out of order: the bytes the streams have taken   *)
(* and those that are still to be taken have rising numbers.               *)
InOrder ==
    /\ \A i, j \in DOMAIN taken : i < j => taken[i][2] < taken[j][2]
    /\ \A i, j \in DOMAIN pend : i < j => pend[i] < pend[j]
    /\ \A i \in DOMAIN taken, j \in DOMAIN pend : taken[i][2] < pend[j]
    /\ \A i \in DOMAIN taken : taken[i][2] <= issued
    /\ \A j \in DOMAIN pend : pend[j] <= issued

(* Once an upgrade has been asked for, no byte goes out in the clear,      *)
(* whatever becomes of the upgrade (RFC 3207).                             *)
NoFallback ==
    [][asked => \A i \in Len(taken) + 1 .. Len(taken') : taken'[i][1] = "tls"]_vars
============================================================================
