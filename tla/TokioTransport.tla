--------------------------- MODULE TokioTransport ---------------------------
(***************************************************************************)
(* The Tokio adapter (wasm-smtp-tokio): TokioTlsTransport and              *)
(* TokioPlainTransport with its upgrade, and the TLS configuration.  Every *)
(* call can be dropped at its await.  TcpStream and tokio-rustls are       *)
(* external: a byte counts as taken when the stream object has taken it.   *)
(***************************************************************************)
EXTENDS Integers, Sequences, FiniteSets

CONSTANTS MaxBuf, MaxBytes,    \* as in Transport
          Features,            \* {"native-roots"} or {"webpki-roots"}
          Bundled,             \* the authorities of webpki-roots
          NativeStores,        \* what decodes of the system's store
          Host,                \* the name given to the connect call
          RootOptions, NameOptions,  \* ConnectOptions: <<>> or <<value>>
          Peers                \* who may answer: [ca, name]

(* A build takes its roots from exactly one place: lib.rs refuses to       *)
(* compile with both features, and with neither.                           *)
ASSUME TokioAssumption ==
    /\ MaxBuf \in Nat /\ MaxBytes \in Nat
    /\ Features \in {{"native-roots"}, {"webpki-roots"}}

VARIABLES phase, kind, opts, native, peer,     \* the connect call
          plain, tls,                          \* the streams, Some or None
          holding,                             \* the upgrade has the stream
          call, result, issued, pend, taken,   \* as in Transport
          unread, received, eof, asked

setup == <<phase, kind, opts, native, peer>>
streams == <<plain, tls>>
vars == <<setup, streams, holding, call, result, issued, pend, taken, unread, received,
          eof, asked>>

---------------------------------------------------------------------------
(* The default of this build; an empty set is an error.                    *)
default_root_store(store) == IF Features = {"native-roots"} THEN store ELSE Bundled

(* The caller's store, even an empty one, is the whole trust set.          *)
Roots(o, store) == IF o.root_store # <<>> THEN o.root_store[1] ELSE store

build_client_config(o, store) == o.root_store = <<>> => default_root_store(store) # {}

effective_server_name(o) == IF o.server_name # <<>> THEN o.server_name[1] ELSE Host

(* rustls: a chain to one of the roots, for the name.                      *)
Verifies(p, roots, name) == p.ca \in roots /\ p.name = name

Handshake ==
    /\ build_client_config(opts, native)
    /\ effective_server_name(opts) # "not a name"
    /\ Verifies(peer, Roots(opts, default_root_store(native)), effective_server_name(opts))

---------------------------------------------------------------------------
Init == /\ phase = "connect" /\ kind \in {"plain", "tls"}
        /\ opts \in [root_store : RootOptions, server_name : NameOptions]
        /\ native \in NativeStores /\ peer \in Peers
        /\ plain = FALSE /\ tls = FALSE /\ holding = FALSE
        /\ call = "none" /\ result = "none"
        /\ issued = 0 /\ pend = <<>> /\ taken = <<>>
        /\ unread = 0 /\ received = 0 /\ eof = FALSE /\ asked = FALSE

(* connect_with of the two transports; TCP, the configuration, the name    *)
(* and the handshake can fail.                                             *)
connect_with ==
    /\ phase = "connect"
    /\ \/ kind = "plain" /\ phase' = "ready" /\ plain' = TRUE /\ UNCHANGED tls
       \/ kind = "tls" /\ Handshake /\ phase' = "ready" /\ tls' = TRUE /\ UNCHANGED plain
       \/ phase' = "failed" /\ UNCHANGED streams
    /\ UNCHANGED <<kind, opts, native, peer, holding, call, result, issued, pend, taken,
                   unread, received, eof, asked>>

---------------------------------------------------------------------------
Call(c) == /\ phase = "ready" /\ call = "none" /\ call' = c
           /\ UNCHANGED <<setup, result, taken, unread, received, eof>>

(* flush is the trait's default: it does nothing.                          *)
CallPlainly == /\ \E c \in {"read", "flush"} : Call(c)
               /\ UNCHANGED <<streams, holding, issued, pend, asked>>

CallWrite == /\ Call("write_all")
             /\ \E n \in 0 .. MaxBuf :
                  /\ issued + n <= MaxBytes
                  /\ issued' = issued + n
                  /\ pend' = [i \in 1 .. n |-> issued + i]
             /\ UNCHANGED <<streams, holding, asked>>

(* close takes both streams out before it awaits their shutdown.           *)
CallClose == /\ Call("close") /\ plain' = FALSE /\ tls' = FALSE
             /\ UNCHANGED <<holding, issued, pend, asked>>

(* Mutant: the stream is only borrowed until the handshake is done.        *)
BorrowPlain == plain

(* take() before the first thing that can fail.                            *)
PlainAfterTake == FALSE

(* Only TokioPlainTransport can be upgraded.                               *)
CallUpgrade == /\ kind = "plain" /\ Call("upgrade_to_tls")
               /\ asked' = TRUE
               /\ holding' = plain /\ plain' = PlainAfterTake
               /\ UNCHANGED <<tls, issued, pend>>

---------------------------------------------------------------------------
Live == tls \/ plain

(* Reads and writes go to the TLS stream if there is one.                  *)
Channel == IF tls THEN "tls" ELSE "plain"

Return(r) == /\ call' = "none" /\ result' = r /\ pend' = <<>> /\ holding' = FALSE
             /\ UNCHANGED <<setup, issued, taken, received, eof, asked>>

read == /\ call = "read" /\ Live
        /\ \/ /\ \E k \in 1 .. MaxBuf : k <= unread /\ unread' = unread - k
              /\ Return("bytes")
           \/ unread = 0 /\ eof /\ Return("eof") /\ UNCHANGED unread
        /\ UNCHANGED streams

(* AsyncWriteExt::write_all loops over partial writes.                     *)
WriteSome == /\ call = "write_all" /\ Live
             /\ \E k \in 1 .. Len(pend) :
                  /\ taken' = taken \o [i \in 1 .. k |-> <<Channel, pend[i]>>]
                  /\ pend' = SubSeq(pend, k + 1, Len(pend))
             /\ UNCHANGED <<setup, streams, holding, call, result, issued, unread, received,
                            eof, asked>>

(* Mutant: write instead of write_all.                                     *)
ShortWrite == /\ call = "write_all" /\ Live
              /\ Return("ok") /\ UNCHANGED <<streams, unread>>

write_all == /\ call = "write_all" /\ Live /\ pend = <<>>
             /\ Return("ok") /\ UNCHANGED <<streams, unread>>

flush == call = "flush" /\ Return("ok") /\ UNCHANGED <<streams, unread>>

close == call = "close" /\ Return("ok") /\ UNCHANGED <<streams, unread>>

(* The handshake on the stream that was taken.                             *)
upgrade_to_tls == /\ call = "upgrade_to_tls" /\ holding /\ Handshake
                  /\ tls' = TRUE
                  /\ Return("ok") /\ UNCHANGED <<plain, unread>>

(* No stream, an error below, or the caller drops the future; the errors   *)
(* of a shutdown are ignored.                                              *)
Fails == /\ call # "none"
         /\ \/ call \notin {"flush", "close"} /\ Return("error")
            \/ call # "flush" /\ Return("dropped")
         /\ UNCHANGED <<streams, unread>>

---------------------------------------------------------------------------
PeerSends == /\ phase = "ready" /\ ~eof /\ received < MaxBytes
             /\ received' = received + 1 /\ unread' = unread + 1
             /\ UNCHANGED <<setup, streams, holding, call, result, issued, pend, taken, eof,
                            asked>>

PeerCloses == /\ phase = "ready" /\ ~eof /\ eof' = TRUE
              /\ UNCHANGED <<setup, streams, holding, call, result, issued, pend, taken,
                             unread, received, asked>>

Next == \/ connect_with
        \/ CallPlainly \/ CallWrite \/ CallClose \/ CallUpgrade
        \/ read \/ WriteSome \/ write_all \/ flush \/ close \/ upgrade_to_tls \/ Fails
        \/ PeerSends \/ PeerCloses

Spec == Init /\ [][Next]_vars

---------------------------------------------------------------------------
(* What the adapter promises the client.                                   *)
Link == IF phase # "ready" THEN kind
        ELSE IF tls THEN "tls" ELSE IF plain THEN "plain" ELSE "dead"

T == INSTANCE Transport WITH link <- Link

(* TokioPlainTransport and TokioTlsTransport keep the contract of          *)
(* transport.rs, also when their calls are dropped half-way.               *)
Contract == T!Spec

(* No byte is written twice or out of order, whatever fails or is dropped  *)
(* half-way (write_all).                                                   *)
InOrder == T!InOrder

(* An upgrade that failed or was dropped leaves no way to write in the     *)
(* clear, and neither does one that succeeded.                             *)
NoFallback == T!NoFallback
=============================================================================
