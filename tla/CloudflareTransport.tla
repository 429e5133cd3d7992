------------------------ MODULE CloudflareTransport ------------------------
(***************************************************************************)
(* The Cloudflare adapter (wasm-smtp-cloudflare): CloudflareTransport over *)
(* worker::Socket.  start_tls returns at once and the handshake runs with  *)
(* the next read or write, so an upgrade cannot fail, and what fails later *)
(* is the I/O.  The worker's socket is external.                           *)
(***************************************************************************)
EXTENDS Integers, Sequences

CONSTANTS MaxBuf, MaxBytes  \* as in Transport

ASSUME CloudflareAssumption == MaxBuf \in Nat /\ MaxBytes \in Nat

VARIABLES phase, secure,     \* the connect call and its SecureTransport
          socket,            \* Some or None
          channel,           \* the socket's: "plain" or "tls"
          handshake,         \* "done", "due", "failed"; "off" in the clear
          open,              \* the socket has not been closed
          call, result, issued, pend, taken, unread, received, eof, asked

sock == <<phase, secure, socket, channel, open>>
data == <<issued, taken, received, eof>>
vars == <<sock, handshake, call, result, pend, data, unread, asked>>

Init == /\ phase = "connect" /\ secure \in {"On", "StartTls"}
        /\ socket = FALSE /\ channel = "plain" /\ handshake = "off" /\ open = FALSE
        /\ call = "none" /\ result = "none" /\ pend = <<>>
        /\ issued = 0 /\ taken = <<>> /\ received = 0 /\ eof = FALSE
        /\ unread = 0 /\ asked = FALSE

(* from_socket, after opened(): with On the runtime has done the handshake. *)
Connected(c, h) == /\ phase' = "ready" /\ socket' = TRUE /\ open' = TRUE
                   /\ channel' = c /\ handshake' = h

connect_implicit_tls == /\ phase = "connect" /\ secure = "On"
                        /\ Connected("tls", "done")
                        /\ UNCHANGED <<secure, call, result, pend, data, unread, asked>>

connect_starttls == /\ phase = "connect" /\ secure = "StartTls"
                    /\ Connected("plain", "off")
                    /\ UNCHANGED <<secure, call, result, pend, data, unread, asked>>

(* The runtime refuses the connection, or the handshake fails.             *)
ConnectFails == /\ phase = "connect" /\ phase' = "failed"
                /\ UNCHANGED <<secure, socket, channel, open, handshake, call, result, pend,
                               data, unread, asked>>

---------------------------------------------------------------------------
(* The client closes last (quit consumes it), and reads or writes nothing  *)
(* afterwards.                                                             *)
Call(c) == /\ phase = "ready" /\ call = "none" /\ open /\ call' = c
           /\ UNCHANGED <<secure, phase, result, taken, unread, received, eof>>

CallPlainly == /\ \E c \in {"read", "flush", "close"} : Call(c)
               /\ UNCHANGED <<socket, channel, open, handshake, pend, issued, asked>>

CallWrite == /\ Call("write_all")
             /\ \E n \in 0 .. MaxBuf :
                  /\ issued + n <= MaxBytes
                  /\ issued' = issued + n
                  /\ pend' = [i \in 1 .. n |-> issued + i]
             /\ UNCHANGED <<socket, channel, open, handshake, asked>>

CallUpgrade == /\ Call("upgrade_to_tls") /\ asked' = TRUE
               /\ socket' = FALSE
               /\ UNCHANGED <<channel, open, handshake, pend, issued>>

---------------------------------------------------------------------------
Return(r) == /\ call' = "none" /\ result' = r /\ pend' = <<>>
             /\ UNCHANGED <<phase, secure, data, asked>>

(* The worker's socket: I/O passes only where no handshake is due.         *)
HandshakeOver == handshake \in {"off", "done"}

Usable == socket /\ open /\ HandshakeOver

(* The worker's socket runs the handshake when the next I/O needs it.      *)
LazyHandshake == /\ call \in {"read", "write_all"} /\ handshake = "due"
                 /\ handshake' \in {"done", "failed"}
                 /\ UNCHANGED <<sock, call, result, pend, data, unread, asked>>

read == /\ call = "read" /\ Usable
        /\ \/ /\ \E k \in 1 .. MaxBuf : k <= unread /\ unread' = unread - k
              /\ Return("bytes")
           \/ unread = 0 /\ eof /\ Return("eof") /\ UNCHANGED unread
        /\ UNCHANGED <<socket, channel, open, handshake>>

(* AsyncWriteExt::write_all loops over partial writes.                     *)
WriteSome == /\ call = "write_all" /\ Usable
             /\ \E k \in 1 .. Len(pend) :
                  /\ taken' = taken \o [i \in 1 .. k |-> <<channel, pend[i]>>]
                  /\ pend' = SubSeq(pend, k + 1, Len(pend))
             /\ UNCHANGED <<sock, handshake, call, result, issued, unread, received, eof,
                            asked>>

write_all == /\ call = "write_all" /\ Usable /\ pend = <<>>
             /\ Return("ok") /\ UNCHANGED <<socket, channel, open, handshake, unread>>

flush == /\ call = "flush" /\ Return("ok")
         /\ UNCHANGED <<socket, channel, open, handshake, unread>>

(* The socket stays in its place; what it does after close is the          *)
(* worker's.                                                               *)
close == /\ call = "close" /\ open' = FALSE
         /\ \E r \in {"ok", "error", "dropped"} : Return(r)
         /\ UNCHANGED <<socket, channel, handshake, unread>>

(* Mutant: the socket that was there is put back, not the upgraded one.    *)
PutBackOld == "plain"

start_tls == "tls"

upgrade_to_tls == /\ call = "upgrade_to_tls"
                  /\ socket' = TRUE /\ channel' = start_tls
                  /\ handshake' = IF channel = "tls" THEN handshake ELSE "due"
                  /\ Return("ok") /\ UNCHANGED <<open, unread>>

(* An error below, a handshake that failed, or a dropped future.           *)
Fails == /\ call \in {"read", "write_all"}
         /\ \E r \in {"error", "dropped"} : Return(r)
         /\ UNCHANGED <<socket, channel, open, handshake, unread>>

---------------------------------------------------------------------------
PeerSends == /\ phase = "ready" /\ ~eof /\ received < MaxBytes
             /\ received' = received + 1 /\ unread' = unread + 1
             /\ UNCHANGED <<sock, handshake, call, result, pend, issued, taken, eof, asked>>

PeerCloses == /\ phase = "ready" /\ ~eof /\ eof' = TRUE
              /\ UNCHANGED <<sock, handshake, call, result, pend, issued, taken, received,
                             unread, asked>>

Next == \/ connect_implicit_tls \/ connect_starttls \/ ConnectFails
        \/ CallPlainly \/ CallWrite \/ CallUpgrade
        \/ LazyHandshake \/ read \/ WriteSome \/ write_all \/ flush \/ close
        \/ upgrade_to_tls \/ Fails
        \/ PeerSends \/ PeerCloses

Spec == Init /\ [][Next]_vars

---------------------------------------------------------------------------
Link == CASE phase # "ready" -> IF secure = "On" THEN "tls" ELSE "plain"
          [] phase = "ready" /\ socket /\ open -> channel
          [] OTHER -> "dead"

T == INSTANCE Transport WITH link <- Link

(* CloudflareTransport keeps the contract of transport.rs.                 *)
Contract == T!Spec
============================================================================
