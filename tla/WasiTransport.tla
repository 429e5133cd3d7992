--------------------------- MODULE WasiTransport ---------------------------
(***************************************************************************)
(* The WASI adapter (wasm-smtp-wasi): name lookup, the dialling loop, the  *)
(* TLS configuration, and WasiTlsTransport over WasiStream with its read   *)
(* loop and its chunked writes.  Its calls never suspend, so none can be   *)
(* abandoned.  The host's streams and rustls are external.                 *)
(***************************************************************************)
EXTENDS Integers, Sequences, FiniteSets

CONSTANTS MaxBuf, MaxBytes,    \* as in Transport
          MAX_BLOCKING_WRITE,  \* 4096 in the code
          HostLimit,           \* what one blocking-write-and-flush may carry
          MaxAddrs,
          Features,            \* the cargo features: "webpki-roots", "native-roots"
          Bundled,             \* the authorities of webpki-roots
          NativeStores,        \* what the system's store may hold
          Host,                \* the host argument of the connect call
          RootOptions, NameOptions,  \* ConnectOptions: <<>> or <<value>>
          Peers                \* who may answer: [ca, name]

ASSUME WasiAssumption ==
    /\ MaxBuf \in Nat /\ MaxBytes \in Nat
    /\ MAX_BLOCKING_WRITE \in Nat \ {0} /\ MAX_BLOCKING_WRITE <= HostLimit

VARIABLES phase, addrs, tried,                 \* the connect call
          mode, opts, native, peer,            \* what it was given
          inner, tls_config,                   \* WasiTlsTransport
          waiting,                             \* the read loop is in poll
          call, result, issued, pend, taken,   \* as in Transport
          unread, received, eof, asked

setup == <<phase, addrs, tried, mode, opts, native, peer>>
io == <<issued, taken, received, eof>>
vars == <<setup, inner, tls_config, waiting, call, result, pend, io, unread, asked>>

---------------------------------------------------------------------------
(* tls.rs: webpki-roots come first; of the system's store, what decodes.   *)
(* An empty set makes the configuration fail, there is no second choice.   *)
default_root_store(store) ==
    CASE "webpki-roots" \in Features -> Bundled
      [] "webpki-roots" \notin Features /\ "native-roots" \in Features -> store
      [] OTHER -> {}

(* The caller's store is the whole trust set.                              *)
Roots(o, store) == IF o.root_store # <<>> THEN o.root_store[1] ELSE store

make_tls_config(o, store) ==
    /\ o.root_store = <<>> => default_root_store(store) # {}
    /\ o.server_name # <<"not a name">>

server_name(o) == IF o.server_name # <<>> THEN o.server_name[1] ELSE Host

(* rustls: a chain to one of the roots, for the name.                      *)
Verifies(p, roots, name) == p.ca \in roots /\ p.name = name

tls_handshake == Verifies(peer, Roots(opts, default_root_store(native)), server_name(opts))

---------------------------------------------------------------------------
Init == /\ phase = "resolve" /\ addrs = <<>> /\ tried = 0
        /\ mode \in {"implicit", "starttls"}
        /\ opts \in [root_store : RootOptions, server_name : NameOptions]
        /\ native \in NativeStores /\ peer \in Peers
        /\ inner = "none" /\ tls_config = FALSE /\ waiting = FALSE
        /\ call = "none" /\ result = "none" /\ pend = <<>>
        /\ issued = 0 /\ taken = <<>> /\ received = 0 /\ eof = FALSE
        /\ unread = 0 /\ asked = FALSE

Setup(p) == /\ phase' = p
            /\ UNCHANGED <<mode, opts, native, peer, waiting, call, result, pend,
                           io, unread, asked>>

(* dns::resolve: one address after the other, or an error, until the end;  *)
(* an address either answers or does not.                                  *)
resolve ==
    /\ phase = "resolve"
    /\ \/ /\ Len(addrs) < MaxAddrs
          /\ \E up \in BOOLEAN : addrs' = Append(addrs, up)
          /\ Setup("resolve")
       \/ /\ Setup(IF addrs = <<>> THEN "failed" ELSE "dial") /\ UNCHANGED addrs
       \/ /\ Setup("failed") /\ UNCHANGED addrs
    /\ UNCHANGED <<tried, inner, tls_config>>

(* Mutant: only the first address is tried.                                *)
DialOnce ==
    /\ phase = "dial" /\ tried = 0
    /\ tried' = 1
    /\ Setup(IF addrs[tried'] THEN "secure" ELSE "failed")
    /\ UNCHANGED <<addrs, inner, tls_config>>

(* tcp_connect over WasiStream::connect: the first address that answers.   *)
tcp_connect ==
    /\ phase = "dial" /\ tried < Len(addrs)
    /\ tried' = tried + 1
    /\ Setup(CASE addrs[tried'] -> "secure"
               [] ~addrs[tried'] /\ tried' < Len(addrs) -> "dial"
               [] OTHER -> "failed")
    /\ UNCHANGED <<addrs, inner, tls_config>>

(* The addresses are locals of the dialling loop.                          *)
Forget == addrs' = <<>> /\ tried' = 0

(* The configuration is made before any SMTP is spoken, in both modes.     *)
connect_plain ==
    /\ phase = "secure" /\ mode = "starttls"
    /\ IF make_tls_config(opts, native)
       THEN Setup("ready") /\ inner' = "Plain" /\ tls_config' = TRUE
       ELSE Setup("failed") /\ UNCHANGED <<inner, tls_config>>
    /\ Forget

connect_implicit_tls ==
    /\ phase = "secure" /\ mode = "implicit"
    /\ IF make_tls_config(opts, native) /\ tls_handshake
       THEN Setup("ready") /\ inner' = "Tls"
       ELSE Setup("failed") /\ UNCHANGED inner
    /\ Forget /\ UNCHANGED tls_config

---------------------------------------------------------------------------
(* The client's calls.                                                     *)
Call(c) == /\ phase = "ready" /\ call = "none" /\ call' = c
           /\ UNCHANGED <<setup, waiting, result, taken, unread, received, eof>>

Return(r) == /\ call' = "none" /\ result' = r /\ pend' = <<>> /\ waiting' = FALSE
             /\ UNCHANGED <<setup, tls_config, io, asked>>

CallRead == /\ \E c \in {"read", "flush"} : Call(c)
            /\ UNCHANGED <<inner, tls_config, pend, issued, asked>>

CallWrite == /\ Call("write_all")
             /\ \E n \in 0 .. MaxBuf :
                  /\ issued + n <= MaxBytes
                  /\ issued' = issued + n
                  /\ pend' = [i \in 1 .. n |-> issued + i]
             /\ UNCHANGED <<inner, tls_config, asked>>

(* Whatever comes of it, the transport is finished.                        *)
CallClose == /\ Call("close") /\ inner' = "Closed"
             /\ UNCHANGED <<tls_config, pend, issued, asked>>

(* Mutant: the plaintext stream stays in place until the handshake is done. *)
KeepPlain == inner

(* The plaintext stream is taken out before the handshake begins; until it *)
(* ends the transport itself is Closed.                                    *)
TakePlain == IF tls_config /\ inner = "Plain" THEN "Taken" ELSE inner

CallUpgrade == /\ Call("upgrade_to_tls")
               /\ asked' = TRUE /\ inner' = TakePlain
               /\ UNCHANGED <<tls_config, pend, issued>>

---------------------------------------------------------------------------
(* WasiStream::read: an empty list is not the end of the stream.           *)
(* Mutant: it is.                                                          *)
EmptyIsEof == /\ unread = 0 /\ ~eof
              /\ Return("eof") /\ UNCHANGED <<inner, unread>>

EmptyRead == /\ unread = 0 /\ ~eof
             /\ waiting' = TRUE
             /\ UNCHANGED <<setup, inner, tls_config, call, result, pend, io, unread, asked>>

(* The host: a poll on the input returns when there is something to read,  *)
(* and no input ends a poll on the output.                                 *)
poll_ready(stream) == stream = "reader" /\ (unread > 0 \/ eof)

(* Mutant: the poll is on the stream that is written to.                   *)
WriterPollable == "writer"

(* What the guest subscribes to.                                           *)
Pollable == "reader"

Poll == /\ call = "read" /\ waiting /\ poll_ready(Pollable)
        /\ waiting' = FALSE
        /\ UNCHANGED <<setup, inner, tls_config, call, result, pend, io, unread, asked>>

(* What the peer sent, up to the length of the buffer, or the end.         *)
ReadSome == \/ /\ \E k \in 1 .. MaxBuf : k <= unread /\ unread' = unread - k
               /\ Return("bytes") /\ UNCHANGED inner
            \/ /\ unread = 0 /\ eof
               /\ Return("eof") /\ UNCHANGED <<inner, unread>>

Error == Return("error") /\ UNCHANGED <<inner, unread>>

read == /\ call = "read" /\ ~waiting
        /\ \/ inner = "Plain" /\ (ReadSome \/ EmptyRead \/ Error)
           \/ inner = "Tls" /\ (ReadSome \/ Error)
           \/ inner = "Closed" /\ Error

(* The host takes one call's worth of bytes.                               *)
HostTakes(channel, k) ==
    /\ taken' = taken \o [i \in 1 .. k |-> <<channel, pend[i]>>]
    /\ pend' = SubSeq(pend, k + 1, Len(pend))
    /\ UNCHANGED <<setup, inner, tls_config, waiting, call, result, issued, received,
                   eof, unread, asked>>

(* Mutant: a short last chunk is dropped (chunks_exact).                   *)
ExactChunk == Len(pend) < MAX_BLOCKING_WRITE

(* chunks(MAX_BLOCKING_WRITE) has run out.                                 *)
NoChunkLeft == pend = <<>>

(* WasiStream::write_all: a chunk at a time, none larger than the host     *)
(* takes.  Under TLS rustls takes what it has room for.                    *)
write_all ==
    /\ call = "write_all"
    /\ \/ /\ inner = "Plain" /\ ~NoChunkLeft
          /\ LET k == IF Len(pend) < MAX_BLOCKING_WRITE THEN Len(pend)
                                                        ELSE MAX_BLOCKING_WRITE
             IN k <= HostLimit /\ HostTakes("plain", k)
       \/ /\ inner = "Tls" /\ pend # <<>>
          /\ \E k \in 1 .. Len(pend) : HostTakes("tls", k)
       \/ /\ \/ inner = "Plain" /\ NoChunkLeft
             \/ inner = "Tls" /\ pend = <<>>
          /\ Return("ok") /\ UNCHANGED <<inner, unread>>
       \/ Error

flush == /\ call = "flush"
         /\ \/ inner # "Closed" /\ Return("ok") /\ UNCHANGED <<inner, unread>>
            \/ inner # "Plain" /\ Error

(* The stream's shutdown may fail; closing twice is not an error.          *)
close == /\ call = "close"
         /\ \/ Return("ok") /\ UNCHANGED <<inner, unread>>
            \/ Error

(* The handshake; without a configuration or a plaintext stream it is the  *)
(* caller's mistake, and an open TLS stream is put back.                   *)
upgrade_to_tls ==
    /\ call = "upgrade_to_tls"
    /\ call' = "none" /\ pend' = <<>> /\ waiting' = FALSE
    /\ tls_config' = FALSE
    /\ \/ inner = "Taken" /\ tls_handshake /\ inner' = "Tls" /\ result' = "ok"
       \/ inner = "Taken" /\ inner' = "Closed" /\ result' = "error"
       \/ inner # "Taken" /\ inner' = inner /\ result' = "error"
    /\ UNCHANGED <<setup, io, unread, asked>>

---------------------------------------------------------------------------
PeerSends == /\ phase = "ready" /\ ~eof /\ received < MaxBytes
             /\ received' = received + 1 /\ unread' = unread + 1
             /\ UNCHANGED <<setup, inner, tls_config, waiting, call, result, pend,
                            issued, taken, eof, asked>>

PeerCloses == /\ phase = "ready" /\ ~eof /\ eof' = TRUE
              /\ UNCHANGED <<setup, inner, tls_config, waiting, call, result, pend,
                             issued, taken, received, unread, asked>>

Connecting == resolve \/ tcp_connect \/ connect_plain \/ connect_implicit_tls
Running == read \/ Poll \/ write_all \/ flush \/ close \/ upgrade_to_tls
Next == \/ Connecting \/ Running
        \/ CallRead \/ CallWrite \/ CallClose \/ CallUpgrade
        \/ PeerSends \/ PeerCloses

(* The guest runs on while the host lets it.                               *)
Spec == Init /\ [][Next]_vars /\ WF_vars(Connecting) /\ WF_vars(Running)

---------------------------------------------------------------------------
(* What the adapter promises the client.  Until connect returns there is   *)
(* no transport.                                                           *)
Link == CASE phase # "ready" -> IF mode = "implicit" THEN "tls" ELSE "plain"
          [] inner = "Plain" -> "plain"
          [] inner = "Tls" -> "tls"
          [] OTHER -> "dead"

T == INSTANCE Transport WITH link <- Link

(* WasiTlsTransport keeps the contract of transport.rs: bytes are taken in *)
(* order, each once, and all of them before Ok; Ok(0) is the end of the    *)
(* stream and nothing else; a failed upgrade leaves no stream, and no byte *)
(* goes out in the clear once an upgrade was asked for.                    *)
Contract == T!Spec

(* tcp_connect gives up only when no address answers, and is connected to  *)
(* the first one that does.                                                *)
FirstThatAnswers ==
    /\ phase = "secure" =>
          addrs[tried] /\ \A i \in 1 .. tried - 1 : ~addrs[i]
    /\ (phase = "failed" /\ tried > 0 /\ ~addrs[tried]) =>
          \A i \in DOMAIN addrs : ~addrs[i]

(* A read whose peer has sent something, or closed, returns: the loop over *)
(* empty reads does not miss it (WasiStream::read).                        *)
ReadReturns == (call = "read" /\ (unread > 0 \/ eof)) ~> call # "read"
============================================================================
