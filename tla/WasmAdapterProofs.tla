-------------------------- MODULE WasmAdapterProofs -------------------------
(***************************************************************************)
(* The two adapters for Wasm hosts, the WASI one and the Cloudflare one,   *)
(* implement the contract of transport.rs, for every set of addresses,     *)
(* options, roots and peers, every chunk size and every number of bytes.   *)
(***************************************************************************)
EXTENDS WasiTransport, TLAPS

(* What CloudflareTransport has and WasiTransport has not. A theorem is    *)
(* about one of the two; the rest of the variables it does not constrain.  *)
VARIABLES secure, socket, channel, handshake, open

Cf == INSTANCE CloudflareTransport

---------------------------------------------------------------------------
(* The WASI adapter.                                                       *)
TypeInv == /\ phase \in {"resolve", "dial", "secure", "ready", "failed"}
           /\ mode \in {"implicit", "starttls"}
           /\ inner \in {"none", "Plain", "Tls", "Taken", "Closed"}
           /\ tls_config \in BOOLEAN /\ waiting \in BOOLEAN
           /\ asked \in BOOLEAN /\ eof \in BOOLEAN
           /\ addrs \in Seq(BOOLEAN) /\ tried \in Nat
           /\ issued \in Nat /\ unread \in Nat /\ pend \in Seq(Nat)

(* Nothing runs before the connect call has returned a transport, and then *)
(* it has a stream or has had one.                                         *)
NotYet == IF phase = "ready" THEN inner # "none"
                             ELSE call = "none" /\ inner = "none" /\ ~asked

(* Where the stream can be: the upgrade holds it only while it runs, close *)
(* leaves none, and a plaintext one still has the configuration that       *)
(* upgrade_to_tls takes it with, so that asking for the upgrade ends it.   *)
OneStream == /\ inner = "Taken" => call = "upgrade_to_tls"
             /\ call = "close" => inner = "Closed"
             /\ call = "upgrade_to_tls" => asked
             /\ inner = "Plain" => tls_config /\ ~asked

(* Bytes wait only while a write runs.                                     *)
NothingLeft == call # "write_all" => pend = <<>>

(* The dialling loop has tried addresses that do not answer, and nothing   *)
(* else, until one does; it stops there or at the end of the list.         *)
Dialled == /\ phase \in {"resolve", "ready"} => tried = 0
           /\ phase = "dial" => tried < Len(addrs) /\ \A i \in 1 .. tried : ~addrs[i]
           /\ phase = "secure" => /\ tried \in 1 .. Len(addrs) /\ addrs[tried]
                                  /\ \A i \in 1 .. tried - 1 : ~addrs[i]
           /\ phase = "failed" => \/ tried = 0
                                  \/ tried = Len(addrs) /\ \A i \in 1 .. tried : ~addrs[i]

IInv == TypeInv /\ NotYet /\ OneStream /\ NothingLeft /\ Dialled

---------------------------------------------------------------------------
LEMMA TypeInvStep == TypeInv /\ Dialled /\ [Next]_vars => TypeInv'
<1> SUFFICES ASSUME TypeInv, Dialled, [Next]_vars PROVE TypeInv'
  OBVIOUS
<1> USE WasiAssumption DEF TypeInv, setup, io
<1>1. CASE resolve
  <2>1. addrs' \in Seq(BOOLEAN)
    <3>1. \A up \in BOOLEAN : Append(addrs, up) \in Seq(BOOLEAN)
      OBVIOUS
    <3>2. addrs' = addrs \/ \E up \in BOOLEAN : addrs' = Append(addrs, up)
      BY <1>1 DEF resolve
    <3> QED
      BY <3>1, <3>2, Zenon
  <2>2. phase' \in {"resolve", "dial", "failed"}
    BY <1>1 DEF resolve, Setup
  <2> QED
    BY <1>1, <2>1, <2>2 DEF resolve, Setup
<1>2. CASE tcp_connect
  <2>1. phase' \in {"dial", "secure", "failed"}
    BY <1>2 DEF tcp_connect, Setup
  <2>2. tried' \in Nat
    BY <1>2 DEF tcp_connect
  <2> QED
    BY <1>2, <2>1, <2>2 DEF tcp_connect, Setup
<1>3. CASE connect_plain \/ connect_implicit_tls
  <2>1. addrs' = <<>> /\ tried' = 0
    BY <1>3 DEF connect_plain, connect_implicit_tls, Forget
  <2>2. addrs' \in Seq(BOOLEAN)
    BY <2>1
  <2>3. CASE connect_plain
    BY <2>1, <2>2, <2>3 DEF connect_plain, Setup
  <2>4. CASE connect_implicit_tls
    BY <2>1, <2>2, <2>4 DEF connect_implicit_tls, Setup
  <2> QED
    BY <1>3, <2>3, <2>4
<1>4. CASE CallRead
  BY <1>4 DEF CallRead, Call
<1>5. CASE CallWrite
  <2>1. PICK n \in 0 .. MaxBuf : issued' = issued + n /\ pend' = [i \in 1 .. n |-> issued + i]
    BY <1>5 DEF CallWrite
  <2>2. issued' \in Nat /\ pend' \in Seq(Nat)
    BY <2>1
  <2> QED
    BY <1>5, <2>2 DEF CallWrite, Call
<1>6. CASE CallClose
  BY <1>6 DEF CallClose, Call
<1>7. CASE CallUpgrade
  BY <1>7 DEF CallUpgrade, Call, TakePlain
<1>8. CASE Poll
  BY <1>8 DEF Poll
<1>9. CASE read
  <2>1. CASE EmptyRead
    BY <2>1 DEF EmptyRead
  <2>2. CASE ~EmptyRead
    <3>1. (ReadSome \/ Error) /\ inner' = inner
      BY <1>9, <2>2 DEF read, ReadSome, Error
    <3>2. unread' \in Nat
      BY <3>1 DEF ReadSome, Error
    <3>3. \E r \in {"bytes", "eof", "error"} : Return(r)
      BY <3>1 DEF ReadSome, Error
    <3>4. pend' = <<>>
      BY <3>3 DEF Return
    <3>5. pend' \in Seq(Nat)
      BY <3>4
    <3> QED
      BY <3>1, <3>2, <3>3, <3>5 DEF Return
  <2> QED
    BY <2>1, <2>2
<1>10. CASE write_all \/ flush \/ close
  <2>1. CASE \E c \in {"plain", "tls"}, k \in 1 .. Len(pend) : HostTakes(c, k)
    <3>1. PICK k \in 1 .. Len(pend) : pend' = SubSeq(pend, k + 1, Len(pend))
      BY <2>1 DEF HostTakes
    <3>2. pend' \in Seq(Nat)
      BY <3>1, SMTT(20)
    <3> QED
      BY <2>1, <3>2 DEF HostTakes
  <2>2. CASE (\E r \in {"ok", "error"} : Return(r)) /\ UNCHANGED <<inner, unread>>
    <3>1. pend' = <<>>
      BY <2>2 DEF Return
    <3>2. pend' \in Seq(Nat)
      BY <3>1
    <3> QED
      BY <2>2, <3>2 DEF Return
  <2>3. ASSUME write_all, inner = "Plain", ~NoChunkLeft,
               LET k == IF Len(pend) < MAX_BLOCKING_WRITE THEN Len(pend)
                                                          ELSE MAX_BLOCKING_WRITE
               IN k <= HostLimit /\ HostTakes("plain", k)
        PROVE  \E k \in 1 .. Len(pend) : HostTakes("plain", k)
    <3>1. Len(pend) \in Nat \ {0}
      BY <2>3 DEF NoChunkLeft
    <3> QED
      BY <2>3, <3>1
  <2> QED
    BY <1>10, <2>1, <2>2, <2>3 DEF write_all, flush, close, Error
<1>11. CASE upgrade_to_tls
  <2>1. pend' = <<>>
    BY <1>11 DEF upgrade_to_tls
  <2>2. pend' \in Seq(Nat)
    BY <2>1
  <2> QED
    BY <1>11, <2>2 DEF upgrade_to_tls
<1>12. CASE PeerSends
  BY <1>12 DEF PeerSends
<1>13. CASE PeerCloses
  BY <1>13 DEF PeerCloses
<1>14. CASE UNCHANGED vars
  BY <1>14 DEF vars
<1> QED
  BY <1>1, <1>2, <1>3, <1>4, <1>5, <1>6, <1>7, <1>8, <1>9, <1>10, <1>11, <1>12, <1>13, <1>14
     DEF Next, Connecting, Running

LEMMA PlaceStep == IInv /\ [Next]_vars => NotYet' /\ OneStream' /\ NothingLeft'
<1> SUFFICES ASSUME IInv, [Next]_vars PROVE NotYet' /\ OneStream' /\ NothingLeft'
  OBVIOUS
<1> USE DEF IInv, TypeInv, NotYet, OneStream, NothingLeft, setup, io
<1>1. CASE resolve
  BY <1>1 DEF resolve, Setup
<1>2. CASE tcp_connect
  <2>1. phase' \in {"dial", "secure", "failed"}
    BY <1>2 DEF tcp_connect, Setup
  <2> QED
    BY <1>2, <2>1 DEF tcp_connect, Setup
<1>3. CASE connect_plain
  BY <1>3 DEF connect_plain, Setup
<1>4. CASE connect_implicit_tls
  BY <1>4 DEF connect_implicit_tls, Setup
<1>5. CASE CallRead
  BY <1>5 DEF CallRead, Call
<1>6. CASE CallWrite
  BY <1>6 DEF CallWrite, Call
<1>7. CASE CallClose
  BY <1>7 DEF CallClose, Call
<1>8. CASE CallUpgrade
  BY <1>8 DEF CallUpgrade, Call, TakePlain
<1>9. CASE Poll
  BY <1>9 DEF Poll
<1>10. CASE read
  BY <1>10 DEF read, ReadSome, EmptyRead, Error, Return
<1>11. CASE write_all
  <2>1. UNCHANGED <<phase, inner, asked, tls_config>>
    BY <1>11 DEF write_all, HostTakes, Error, Return
  <2>2. (call' = "none" /\ pend' = <<>>) \/ call' = "write_all"
    BY <1>11 DEF write_all, HostTakes, Error, Return
  <2>3. call = "write_all"
    BY <1>11 DEF write_all
  <2> QED
    BY <2>1, <2>2, <2>3
<1>12. CASE flush \/ close
  BY <1>12 DEF flush, close, Error, Return
<1>13. CASE upgrade_to_tls
  BY <1>13 DEF upgrade_to_tls
<1>14. CASE PeerSends \/ PeerCloses
  BY <1>14 DEF PeerSends, PeerCloses
<1>15. CASE UNCHANGED vars
  BY <1>15 DEF vars
<1> QED
  BY <1>1, <1>2, <1>3, <1>4, <1>5, <1>6, <1>7, <1>8, <1>9, <1>10, <1>11, <1>12, <1>13, <1>14,
     <1>15 DEF Next, Connecting, Running

LEMMA DialledStep == TypeInv /\ Dialled /\ [Next]_vars => Dialled'
<1> SUFFICES ASSUME TypeInv, Dialled, [Next]_vars PROVE Dialled'
  OBVIOUS
<1>1. CASE resolve
  <2>1. tried' = 0 /\ tried = 0 /\ phase' \in {"resolve", "dial", "failed"}
    BY <1>1 DEF resolve, Setup, Dialled
  <2>2. phase' = "dial" => Len(addrs') > 0
    <3>1. phase' = "dial" => addrs' = addrs /\ addrs # <<>>
      BY <1>1 DEF resolve, Setup
    <3> QED
      BY <3>1 DEF TypeInv
  <2> QED
    BY <2>1, <2>2 DEF Dialled
<1>2. CASE tcp_connect
  <2>1. /\ tried \in Nat /\ tried' = tried + 1 /\ addrs' = addrs /\ tried < Len(addrs)
        /\ Len(addrs) \in Nat /\ \A i \in 1 .. tried : ~addrs[i]
    BY <1>2 DEF tcp_connect, TypeInv, Dialled
  <2>2. /\ \A i \in 1 .. tried' - 1 : ~addrs'[i]
        /\ ~addrs[tried'] => \A i \in 1 .. tried' : ~addrs'[i]
    BY <2>1
  <2>3. tried' \in 1 .. Len(addrs')
    BY <2>1
  <2>4. \/ phase' = "secure" /\ addrs[tried']
        \/ phase' = "dial" /\ ~addrs[tried'] /\ tried' < Len(addrs)
        \/ phase' = "failed" /\ ~addrs[tried'] /\ ~(tried' < Len(addrs))
    <3>1. CASE addrs[tried']
      BY <1>2, <3>1 DEF tcp_connect, Setup
    <3>2. CASE ~addrs[tried'] /\ tried' < Len(addrs)
      BY <1>2, <3>2 DEF tcp_connect, Setup
    <3>3. CASE ~addrs[tried'] /\ ~(tried' < Len(addrs))
      BY <1>2, <3>3 DEF tcp_connect, Setup
    <3> QED
      BY <3>1, <3>2, <3>3
  <2> QED
    BY <2>1, <2>2, <2>3, <2>4 DEF Dialled
<1>3. CASE connect_plain
  BY <1>3 DEF connect_plain, Setup, Forget, Dialled
<1>4. CASE connect_implicit_tls
  BY <1>4 DEF connect_implicit_tls, Setup, Forget, Dialled
<1>5. CASE UNCHANGED <<phase, addrs, tried>>
  BY <1>5 DEF Dialled
<1>6. CASE UNCHANGED setup
  BY <1>5, <1>6 DEF setup
<1> QED
  BY <1>1, <1>2, <1>3, <1>4, <1>6
     DEF Next, vars, Connecting, Running, CallRead, CallWrite, CallClose, CallUpgrade, Call,
         Poll, read, ReadSome, EmptyRead, Error, Return, write_all, HostTakes, flush, close,
         upgrade_to_tls, PeerSends, PeerCloses

LEMMA Inductive == Spec => []IInv
<1>1. Init => IInv
  <2> SUFFICES ASSUME Init PROVE IInv
    OBVIOUS
  <2>1. pend \in Seq(Nat) /\ addrs \in Seq(BOOLEAN) /\ issued \in Nat /\ unread \in Nat
    BY DEF Init
  <2>2. /\ phase = "resolve" /\ mode \in {"implicit", "starttls"} /\ inner = "none"
        /\ call = "none" /\ pend = <<>> /\ tried = 0
    BY DEF Init
  <2>3. tls_config = FALSE /\ waiting = FALSE /\ asked = FALSE /\ eof = FALSE
    BY DEF Init
  <2> QED
    BY <2>1, <2>2, <2>3 DEF IInv, TypeInv, NotYet, OneStream, NothingLeft, Dialled
<1>2. IInv /\ [Next]_vars => IInv'
  BY TypeInvStep, PlaceStep, DialledStep DEF IInv
<1> QED
  BY <1>1, <1>2, PTL DEF Spec

---------------------------------------------------------------------------
(* tcp_connect is connected to the first address that answers, and gives   *)
(* up only when none does, however many dns::resolve has returned.         *)
THEOREM FirstAnswerWins == Spec => []FirstThatAnswers
<1>1. IInv => FirstThatAnswers
  <2> SUFFICES ASSUME IInv PROVE FirstThatAnswers
    OBVIOUS
  <2>1. DOMAIN addrs = 1 .. Len(addrs)
    BY DEF IInv, TypeInv
  <2>2. tried \in Nat /\ Dialled
    BY DEF IInv, TypeInv
  <2>3. phase = "failed" /\ tried > 0 => \A i \in DOMAIN addrs : ~addrs[i]
    <3>1. tried > 0 => tried # 0
      BY <2>2
    <3> QED
      BY <2>1, <2>2, <3>1, Zenon DEF Dialled
  <2>4. phase = "secure" => addrs[tried] /\ \A i \in 1 .. tried - 1 : ~addrs[i]
    BY <2>2, Zenon DEF Dialled
  <2> QED
    BY <2>3, <2>4, Zenon DEF FirstThatAnswers
<1> QED
  BY <1>1, Inductive, PTL

---------------------------------------------------------------------------
(* What the host takes at once is the head of what is left, as the         *)
(* contract has it.                                                        *)
LEMMA HostTakesHead ==
    ASSUME IInv, call = "write_all", Link \in {"plain", "tls"},
           NEW k \in 1 .. Len(pend), HostTakes(Link, k)
    PROVE  T!Take
<1>1. pend \in Seq(Nat)
  BY DEF IInv, TypeInv
<1>2. [i \in 1 .. k |-> <<Link, pend[i]>>] = T!Tag(Link, SubSeq(pend, 1, k))
  <2>1. DOMAIN SubSeq(pend, 1, k) = 1 .. k
    BY <1>1
  <2>2. \A i \in 1 .. k : SubSeq(pend, 1, k)[i] = pend[i]
    BY <1>1
  <2> QED
    BY <2>1, <2>2 DEF T!Tag
<1>3. Link' = Link
  BY DEF HostTakes, setup, Link
<1> QED
  BY <1>2, <1>3 DEF HostTakes, T!Take, T!Live

(* A step of the adapter is a step of the contract, or none of its state   *)
(* changes.                                                                *)
LEMMA Simulates == IInv /\ [Next]_vars => [T!Next]_(T!vars)
<1> SUFFICES ASSUME IInv, [Next]_vars PROVE [T!Next]_(T!vars)
  OBVIOUS
<1> USE WasiAssumption DEF IInv, TypeInv, NotYet, OneStream, NothingLeft, setup, io
<1>1. CASE resolve
  BY <1>1 DEF resolve, Setup, Link, T!vars
<1>2. CASE tcp_connect
  <2>1. phase' \in {"dial", "secure", "failed"}
    BY <1>2 DEF tcp_connect, Setup
  <2> QED
    BY <1>2, <2>1 DEF tcp_connect, Setup, Link, T!vars
<1>3. CASE connect_plain
  BY <1>3 DEF connect_plain, Setup, Link, T!vars
<1>4. CASE connect_implicit_tls
  BY <1>4 DEF connect_implicit_tls, Setup, Link, T!vars
<1>5. CASE CallRead
  <2>1. Link' = Link
    BY <1>5 DEF CallRead, Call, Link
  <2>2. T!CallPlainly
    BY <1>5, <2>1 DEF CallRead, Call, T!CallPlainly, T!Call
  <2> QED
    BY <2>2 DEF T!Next
<1>6. CASE CallWrite
  <2>1. Link' = Link
    BY <1>6 DEF CallWrite, Call, Link
  <2>2. T!CallWrite
    BY <1>6, <2>1 DEF CallWrite, Call, T!CallWrite, T!Call, T!Bytes
  <2> QED
    BY <2>2 DEF T!Next
<1>7. CASE CallClose
  <2>1. Link' = "dead"
    BY <1>7 DEF CallClose, Call, Link
  <2>2. T!CallClose
    BY <1>7, <2>1 DEF CallClose, Call, T!CallClose, T!Call
  <2> QED
    BY <2>2 DEF T!Next
<1>8. CASE CallUpgrade
  <2>1. Link' \in IF Link = "tls" THEN {"tls", "dead"} ELSE {"dead"}
    BY <1>8 DEF CallUpgrade, Call, TakePlain, Link
  <2>2. T!CallUpgrade
    BY <1>8, <2>1 DEF CallUpgrade, Call, T!CallUpgrade, T!Call
  <2> QED
    BY <2>2 DEF T!Next
<1>9. CASE Poll
  BY <1>9 DEF Poll, Link, T!vars
<1>10. ASSUME call # "none", call # "close", Error PROVE T!ReturnError
  <2>1. Link' = Link
    BY <1>10 DEF Error, Return, Link
  <2> QED
    BY <1>10, <2>1 DEF Error, Return, T!ReturnError, T!Return
<1>11. CASE read
  <2>1. CASE EmptyRead
    BY <2>1 DEF EmptyRead, Link, T!vars
  <2>2. CASE Error
    BY <1>10, <1>11, <2>2 DEF read, T!Next
  <2>3. CASE ReadSome /\ inner \in {"Plain", "Tls"}
    <3>1. Link' = Link /\ Link \in {"plain", "tls"}
      BY <1>11, <2>3 DEF read, ReadSome, Return, Link
    <3>2. T!ReturnBytes \/ T!ReturnEof
      BY <1>11, <2>3, <3>1 DEF read, ReadSome, Return, T!ReturnBytes, T!ReturnEof, T!Return,
         T!Live
    <3> QED
      BY <3>2 DEF T!Next
  <2> QED
    BY <1>11, <2>1, <2>2, <2>3 DEF read
<1>12. CASE write_all
  <2>1. phase = "ready"
    BY <1>12 DEF write_all
  <2>2. CASE Error
    BY <1>10, <1>12, <2>2 DEF write_all, T!Next
  <2>3. ASSUME inner = "Plain", ~NoChunkLeft,
               LET k == IF Len(pend) < MAX_BLOCKING_WRITE THEN Len(pend)
                                                          ELSE MAX_BLOCKING_WRITE
               IN k <= HostLimit /\ HostTakes("plain", k)
        PROVE  T!Take
    <3>1. Len(pend) \in Nat \ {0}
      BY <2>3 DEF NoChunkLeft
    <3>2. \E k \in 1 .. Len(pend) : HostTakes("plain", k)
      BY <2>3, <3>1
    <3>3. Link = "plain"
      BY <2>1, <2>3 DEF Link
    <3> QED
      BY <1>12, <3>2, <3>3, HostTakesHead DEF write_all
  <2>4. ASSUME inner = "Tls", NEW k \in 1 .. Len(pend), HostTakes("tls", k)
        PROVE  T!Take
    <3>1. Link = "tls"
      BY <2>1, <2>4 DEF Link
    <3> QED
      BY <1>12, <2>4, <3>1, HostTakesHead DEF write_all
  <2>5. ASSUME inner \in {"Plain", "Tls"}, pend = <<>>, Return("ok"), UNCHANGED <<inner, unread>>
        PROVE  T!ReturnOk
    <3>1. Link' = Link /\ Link \in {"plain", "tls"}
      BY <2>1, <2>5 DEF Return, Link
    <3> QED
      BY <1>12, <2>5, <3>1 DEF write_all, Return, T!ReturnOk, T!Return, T!Live
  <2>6. T!Take \/ T!ReturnOk \/ Error
    BY <1>12, <2>3, <2>4, <2>5 DEF write_all, NoChunkLeft
  <2> QED
    BY <2>2, <2>6 DEF T!Next
<1>13. CASE flush
  <2>1. CASE Error
    BY <1>10, <1>13, <2>1 DEF flush, T!Next
  <2>2. CASE Return("ok") /\ UNCHANGED <<inner, unread>>
    <3>1. Link' = Link
      BY <2>2 DEF Return, Link
    <3>2. T!ReturnOk
      BY <1>13, <2>2, <3>1 DEF flush, Return, T!ReturnOk, T!Return
    <3> QED
      BY <3>2 DEF T!Next
  <2> QED
    BY <1>13, <2>1, <2>2 DEF flush
<1>14. CASE close
  <2>1. Link = "dead" /\ Link' = "dead"
    BY <1>14 DEF close, Error, Return, Link
  <2>2. T!ReturnOk \/ T!ReturnError
    BY <1>14, <2>1 DEF close, Error, Return, T!ReturnOk, T!ReturnError, T!Return
  <2> QED
    BY <2>2 DEF T!Next
<1>15. CASE upgrade_to_tls
  <2>1. phase = "ready" /\ phase' = "ready"
    BY <1>15 DEF upgrade_to_tls
  <2>2. CASE inner = "Taken" /\ inner' = "Tls" /\ result' = "ok"
    <3>1. Link' = "tls"
      BY <2>1, <2>2 DEF Link
    <3>2. T!ReturnOk
      BY <1>15, <2>2, <3>1 DEF upgrade_to_tls, T!ReturnOk, T!Return
    <3> QED
      BY <3>2 DEF T!Next
  <2>3. CASE result' = "error" /\ \/ inner = "Taken" /\ inner' = "Closed"
                                  \/ inner' = inner
    <3>1. Link' = Link
      BY <2>1, <2>3 DEF Link
    <3>2. T!ReturnError
      BY <1>15, <2>3, <3>1 DEF upgrade_to_tls, T!ReturnError, T!Return
    <3> QED
      BY <3>2 DEF T!Next
  <2> QED
    BY <1>15, <2>2, <2>3 DEF upgrade_to_tls
<1>16. CASE PeerSends
  <2>1. Link' = Link
    BY <1>16 DEF PeerSends, Link
  <2>2. T!PeerSends
    BY <1>16, <2>1 DEF PeerSends, T!PeerSends
  <2> QED
    BY <2>2 DEF T!Next
<1>17. CASE PeerCloses
  <2>1. Link' = Link
    BY <1>17 DEF PeerCloses, Link
  <2>2. T!PeerCloses
    BY <1>17, <2>1 DEF PeerCloses, T!PeerCloses
  <2> QED
    BY <2>2 DEF T!Next
<1>18. CASE UNCHANGED vars
  BY <1>18 DEF vars, Link, T!vars
<1> QED
  BY <1>1, <1>2, <1>3, <1>4, <1>5, <1>6, <1>7, <1>8, <1>9, <1>11, <1>12, <1>13, <1>14, <1>15,
     <1>16, <1>17, <1>18 DEF Next, Connecting, Running

(* WasiTlsTransport keeps the contract of transport.rs: every byte of a    *)
(* write goes out once, in order and before Ok, in chunks the host takes;  *)
(* Ok(0) is the end of the stream; a failed upgrade leaves no stream.      *)
THEOREM KeepsTheContract == Spec => Contract
<1>1. Init => T!Init
  BY DEF Init, T!Init, Link
<1> QED
  BY <1>1, Simulates, Inductive, PTL DEF Spec, Contract, T!Spec

(* What TransportProofs shows of the contract holds of this adapter.       *)
C == INSTANCE TransportProofs WITH link <- Link

LEMMA SameContract == T!Spec => C!Spec
<1>1. T!Init => C!Init
  BY DEF T!Init, C!Init
<1>2. T!Next => C!Next
  BY Zenon DEF
     T!Next, T!CallPlainly, T!CallWrite, T!CallUpgrade, T!CallClose, T!Call, T!Bytes,
     T!Take, T!Tag, T!Live, T!ReturnOk, T!ReturnBytes, T!ReturnEof, T!ReturnError,
     T!Return, T!PeerSends, T!PeerCloses, C!Next, C!CallPlainly, C!CallWrite,
     C!CallUpgrade, C!CallClose, C!Call, C!Bytes, C!Take, C!Tag, C!Live, C!ReturnOk,
     C!ReturnBytes, C!ReturnEof, C!ReturnError, C!Return, C!PeerSends, C!PeerCloses
<1>3. [T!Next]_(T!vars) => [C!Next]_(C!vars)
  BY <1>2 DEF T!vars, C!vars
<1> QED
  BY <1>1, <1>3, PTL DEF T!Spec, C!Spec

(* No byte goes out twice or out of order through WasiTlsTransport, where  *)
(* write_all cuts a buffer into chunks, and where rustls takes a part.     *)
THEOREM BytesInOrder == Spec => []T!InOrder
<1>1. C!Bounded
  BY WasiAssumption DEF C!Bounded
<1>2. C!Spec => []C!InOrder
  BY <1>1, C!BytesInOrder
<1>3. C!InOrder => T!InOrder
  BY DEF C!InOrder, T!InOrder
<1> QED
  BY <1>2, <1>3, SameContract, KeepsTheContract, PTL DEF Contract

(* An upgrade of WasiTlsTransport that failed leaves no way to write in    *)
(* the clear.                                                              *)
THEOREM NeverInTheClear == Spec => T!NoFallback
<1>1. C!Bounded
  BY WasiAssumption DEF C!Bounded
<1>2. C!Spec => C!NoFallback
  BY <1>1, C!NeverInTheClear
<1>3. C!NoFallback => T!NoFallback
  BY PTL DEF T!NoFallback, C!NoFallback, T!vars, C!vars
<1> QED
  BY <1>2, <1>3, SameContract, KeepsTheContract DEF Contract

---------------------------------------------------------------------------
(* The Cloudflare adapter.                                                 *)
CfTypeInv == /\ phase \in {"connect", "ready", "failed"} /\ secure \in {"On", "StartTls"}
             /\ socket \in BOOLEAN /\ open \in BOOLEAN
             /\ channel \in {"plain", "tls"}
             /\ handshake \in {"off", "due", "done", "failed"}
             /\ asked \in BOOLEAN /\ eof \in BOOLEAN
             /\ issued \in Nat /\ unread \in Nat /\ pend \in Seq(Nat)

CfNotYet == phase # "ready" => call = "none" /\ ~socket /\ ~asked

(* The socket is out of its place only while the upgrade runs, and one     *)
(* that is there after an upgrade is the upgraded one; what is TLS has had *)
(* its handshake, or has yet to have it.                                   *)
CfOneSocket == /\ (phase = "ready" /\ ~socket) => call = "upgrade_to_tls"
               /\ call = "upgrade_to_tls" => ~socket /\ asked
               /\ asked /\ socket => channel = "tls"
               /\ call # "none" => open
               /\ channel = "tls" => handshake # "off"

CfNothingLeft == call # "write_all" => pend = <<>>

CfInv == CfTypeInv /\ CfNotYet /\ CfOneSocket /\ CfNothingLeft

LEMMA CfTypeStep == CfTypeInv /\ [Cf!Next]_(Cf!vars) => CfTypeInv'
<1> SUFFICES ASSUME CfTypeInv, [Cf!Next]_(Cf!vars) PROVE CfTypeInv'
  OBVIOUS
<1> USE WasiAssumption DEF CfTypeInv, Cf!sock, Cf!data
<1>1. CASE Cf!connect_implicit_tls \/ Cf!connect_starttls
  BY <1>1 DEF Cf!connect_implicit_tls, Cf!connect_starttls, Cf!Connected
<1>2. CASE Cf!ConnectFails
  BY <1>2 DEF Cf!ConnectFails
<1>3. CASE Cf!CallPlainly
  BY <1>3 DEF Cf!CallPlainly, Cf!Call
<1>4. CASE Cf!CallWrite
  <2>1. PICK n \in 0 .. MaxBuf : issued' = issued + n /\ pend' = [i \in 1 .. n |-> issued + i]
    BY <1>4 DEF Cf!CallWrite
  <2>2. issued' \in Nat /\ pend' \in Seq(Nat)
    BY <2>1
  <2> QED
    BY <1>4, <2>2 DEF Cf!CallWrite, Cf!Call
<1>5. CASE Cf!CallUpgrade
  BY <1>5 DEF Cf!CallUpgrade, Cf!Call
<1>6. CASE Cf!LazyHandshake
  BY <1>6 DEF Cf!LazyHandshake
<1>7. CASE Cf!WriteSome
  <2>1. pend' \in Seq(Nat)
    BY <1>7, SMTT(20) DEF Cf!WriteSome
  <2> QED
    BY <1>7, <2>1 DEF Cf!WriteSome
<1>8. CASE \/ Cf!read \/ Cf!write_all \/ Cf!flush \/ Cf!close
           \/ Cf!upgrade_to_tls \/ Cf!Fails
  <2>1. \E res \in {"ok", "bytes", "eof", "error", "dropped"} : Cf!Return(res)
    BY <1>8 DEF Cf!read, Cf!write_all, Cf!flush, Cf!close, Cf!upgrade_to_tls, Cf!Fails
  <2>2. pend' = <<>> /\ UNCHANGED <<phase, secure, issued, eof, asked>>
    BY <2>1 DEF Cf!Return
  <2>3. pend' \in Seq(Nat)
    BY <2>2
  <2>4. unread' \in Nat
    BY <1>8 DEF Cf!read, Cf!write_all, Cf!flush, Cf!close, Cf!upgrade_to_tls, Cf!Fails
  <2>5. /\ socket' \in BOOLEAN /\ open' \in BOOLEAN /\ channel' \in {"plain", "tls"}
        /\ handshake' \in {"off", "due", "done", "failed"}
    BY <1>8 DEF Cf!read, Cf!write_all, Cf!flush, Cf!close, Cf!upgrade_to_tls, Cf!start_tls,
       Cf!Fails
  <2> QED
    BY <2>2, <2>3, <2>4, <2>5
<1>9. CASE Cf!PeerSends
  BY <1>9 DEF Cf!PeerSends
<1>10. CASE Cf!PeerCloses
  BY <1>10 DEF Cf!PeerCloses
<1>11. CASE UNCHANGED Cf!vars
  BY <1>11 DEF Cf!vars
<1> QED
  BY <1>1, <1>2, <1>3, <1>4, <1>5, <1>6, <1>7, <1>8, <1>9, <1>10, <1>11 DEF Cf!Next

LEMMA CfPlaceStep ==
    CfInv /\ [Cf!Next]_(Cf!vars) => CfNotYet' /\ CfOneSocket' /\ CfNothingLeft'
<1> SUFFICES ASSUME CfInv, [Cf!Next]_(Cf!vars)
             PROVE  CfNotYet' /\ CfOneSocket' /\ CfNothingLeft'
  OBVIOUS
<1> USE DEF CfInv, CfTypeInv, CfNotYet, CfOneSocket, CfNothingLeft, Cf!sock, Cf!data
<1>1. CASE Cf!connect_implicit_tls \/ Cf!connect_starttls
  BY <1>1 DEF Cf!connect_implicit_tls, Cf!connect_starttls, Cf!Connected
<1>2. CASE Cf!ConnectFails
  BY <1>2 DEF Cf!ConnectFails
<1>3. CASE Cf!CallPlainly
  BY <1>3 DEF Cf!CallPlainly, Cf!Call
<1>4. CASE Cf!CallWrite
  BY <1>4 DEF Cf!CallWrite, Cf!Call
<1>5. CASE Cf!CallUpgrade
  BY <1>5 DEF Cf!CallUpgrade, Cf!Call
<1>6. CASE Cf!LazyHandshake
  BY <1>6 DEF Cf!LazyHandshake
<1>7. CASE Cf!WriteSome
  BY <1>7 DEF Cf!WriteSome
<1>8. CASE Cf!read
  BY <1>8 DEF Cf!read, Cf!Return
<1>9. CASE Cf!write_all \/ Cf!flush
  BY <1>9 DEF Cf!write_all, Cf!flush, Cf!Return
<1>10. CASE Cf!close
  BY <1>10 DEF Cf!close, Cf!Return
<1>11. CASE Cf!upgrade_to_tls
  BY <1>11 DEF Cf!upgrade_to_tls, Cf!start_tls, Cf!Return
<1>12. CASE Cf!Fails
  BY <1>12 DEF Cf!Fails, Cf!Return
<1>13. CASE Cf!PeerSends \/ Cf!PeerCloses
  BY <1>13 DEF Cf!PeerSends, Cf!PeerCloses
<1>14. CASE UNCHANGED Cf!vars
  BY <1>14 DEF Cf!vars
<1> QED
  BY <1>1, <1>2, <1>3, <1>4, <1>5, <1>6, <1>7, <1>8, <1>9, <1>10, <1>11, <1>12, <1>13, <1>14
     DEF Cf!Next

LEMMA CfInductive == Cf!Spec => []CfInv
<1>1. Cf!Init => CfInv
  <2> SUFFICES ASSUME Cf!Init PROVE CfInv
    OBVIOUS
  <2>1. pend \in Seq(Nat) /\ issued \in Nat /\ unread \in Nat
    BY DEF Cf!Init
  <2>2. /\ phase = "connect" /\ secure \in {"On", "StartTls"} /\ channel = "plain"
        /\ handshake = "off" /\ call = "none" /\ pend = <<>>
    BY DEF Cf!Init
  <2>3. socket = FALSE /\ open = FALSE /\ asked = FALSE /\ eof = FALSE
    BY DEF Cf!Init
  <2> QED
    BY <2>1, <2>2, <2>3 DEF CfInv, CfTypeInv, CfNotYet, CfOneSocket, CfNothingLeft
<1>2. CfInv /\ [Cf!Next]_(Cf!vars) => CfInv'
  BY CfTypeStep, CfPlaceStep DEF CfInv
<1> QED
  BY <1>1, <1>2, PTL DEF Cf!Spec

---------------------------------------------------------------------------
LEMMA CfSimulates == CfInv /\ [Cf!Next]_(Cf!vars) => [Cf!T!Next]_(Cf!T!vars)
<1> SUFFICES ASSUME CfInv, [Cf!Next]_(Cf!vars) PROVE [Cf!T!Next]_(Cf!T!vars)
  OBVIOUS
<1> USE WasiAssumption DEF CfInv, CfTypeInv, CfNotYet, CfOneSocket, CfNothingLeft, Cf!sock,
        Cf!data
<1>1. CASE Cf!connect_implicit_tls \/ Cf!connect_starttls
  BY <1>1 DEF Cf!connect_implicit_tls, Cf!connect_starttls, Cf!Connected, Cf!Link, Cf!T!vars
<1>2. CASE Cf!ConnectFails
  BY <1>2 DEF Cf!ConnectFails, Cf!Link, Cf!T!vars
<1>3. CASE Cf!CallPlainly
  <2>1. Cf!Link' = Cf!Link
    BY <1>3 DEF Cf!CallPlainly, Cf!Call, Cf!Link
  <2>2. Cf!T!CallPlainly \/ Cf!T!CallClose
    BY <1>3, <2>1 DEF Cf!CallPlainly, Cf!Call, Cf!T!CallPlainly, Cf!T!CallClose, Cf!T!Call
  <2> QED
    BY <2>2 DEF Cf!T!Next
<1>4. CASE Cf!CallWrite
  <2>1. Cf!Link' = Cf!Link
    BY <1>4 DEF Cf!CallWrite, Cf!Call, Cf!Link
  <2>2. Cf!T!CallWrite
    BY <1>4, <2>1 DEF Cf!CallWrite, Cf!Call, Cf!T!CallWrite, Cf!T!Call, Cf!T!Bytes
  <2> QED
    BY <2>2 DEF Cf!T!Next
<1>5. CASE Cf!CallUpgrade
  <2>1. Cf!Link' = "dead"
    BY <1>5 DEF Cf!CallUpgrade, Cf!Call, Cf!Link
  <2>2. Cf!T!CallUpgrade
    BY <1>5, <2>1 DEF Cf!CallUpgrade, Cf!Call, Cf!T!CallUpgrade, Cf!T!Call
  <2> QED
    BY <2>2 DEF Cf!T!Next
<1>6. CASE Cf!LazyHandshake
  BY <1>6 DEF Cf!LazyHandshake, Cf!Link, Cf!T!vars
<1>7. CASE Cf!WriteSome
  <2>1. Cf!Link' = Cf!Link /\ Cf!Link \in {"plain", "tls"} /\ Cf!Link = channel
    BY <1>7 DEF Cf!WriteSome, Cf!Usable, Cf!Link
  <2>2. PICK k \in 1 .. Len(pend) :
               /\ taken' = taken \o [i \in 1 .. k |-> <<channel, pend[i]>>]
               /\ pend' = SubSeq(pend, k + 1, Len(pend))
    BY <1>7 DEF Cf!WriteSome
  <2>3. [i \in 1 .. k |-> <<channel, pend[i]>>] = Cf!T!Tag(Cf!Link, SubSeq(pend, 1, k))
    <3>1. DOMAIN SubSeq(pend, 1, k) = 1 .. k
      OBVIOUS
    <3>2. \A i \in 1 .. k : SubSeq(pend, 1, k)[i] = pend[i]
      OBVIOUS
    <3> QED
      BY <2>1, <3>1, <3>2 DEF Cf!T!Tag
  <2>4. Cf!T!Take
    BY <1>7, <2>1, <2>2, <2>3 DEF Cf!WriteSome, Cf!T!Take, Cf!T!Live
  <2> QED
    BY <2>4 DEF Cf!T!Next
<1>8. CASE Cf!read
  <2>1. Cf!Link' = Cf!Link /\ Cf!Link \in {"plain", "tls"}
    BY <1>8 DEF Cf!read, Cf!Return, Cf!Usable, Cf!Link
  <2>2. Cf!T!ReturnBytes \/ Cf!T!ReturnEof
    BY <1>8, <2>1 DEF Cf!read, Cf!Return, Cf!T!ReturnBytes, Cf!T!ReturnEof, Cf!T!Return,
       Cf!T!Live
  <2> QED
    BY <2>2 DEF Cf!T!Next
<1>9. CASE Cf!write_all
  <2>1. Cf!Link' = Cf!Link /\ Cf!Link \in {"plain", "tls"}
    BY <1>9 DEF Cf!write_all, Cf!Return, Cf!Usable, Cf!Link
  <2>2. Cf!T!ReturnOk
    BY <1>9, <2>1 DEF Cf!write_all, Cf!Return, Cf!T!ReturnOk, Cf!T!Return, Cf!T!Live
  <2> QED
    BY <2>2 DEF Cf!T!Next
<1>10. CASE Cf!flush
  <2>1. Cf!Link' = Cf!Link
    BY <1>10 DEF Cf!flush, Cf!Return, Cf!Link
  <2>2. Cf!T!ReturnOk
    BY <1>10, <2>1 DEF Cf!flush, Cf!Return, Cf!T!ReturnOk, Cf!T!Return
  <2> QED
    BY <2>2 DEF Cf!T!Next
<1>11. CASE Cf!close
  <2>1. Cf!Link' = "dead"
    BY <1>11 DEF Cf!close, Cf!Return, Cf!Link
  <2>2. Cf!T!ReturnOk \/ Cf!T!ReturnError
    BY <1>11, <2>1 DEF Cf!close, Cf!Return, Cf!T!ReturnOk, Cf!T!ReturnError, Cf!T!Return
  <2> QED
    BY <2>2 DEF Cf!T!Next
<1>12. CASE Cf!upgrade_to_tls
  <2>1. Cf!Link' = "tls"
    BY <1>12 DEF Cf!upgrade_to_tls, Cf!start_tls, Cf!Return, Cf!Link
  <2>2. Cf!T!ReturnOk
    BY <1>12, <2>1 DEF Cf!upgrade_to_tls, Cf!Return, Cf!T!ReturnOk, Cf!T!Return
  <2> QED
    BY <2>2 DEF Cf!T!Next
<1>13. CASE Cf!Fails
  <2>1. Cf!Link' = Cf!Link
    BY <1>13 DEF Cf!Fails, Cf!Return, Cf!Link
  <2>2. Cf!T!ReturnError
    BY <1>13, <2>1 DEF Cf!Fails, Cf!Return, Cf!T!ReturnError, Cf!T!Return
  <2> QED
    BY <2>2 DEF Cf!T!Next
<1>14. CASE Cf!PeerSends
  <2>1. Cf!Link' = Cf!Link
    BY <1>14 DEF Cf!PeerSends, Cf!Link
  <2>2. Cf!T!PeerSends
    BY <1>14, <2>1 DEF Cf!PeerSends, Cf!T!PeerSends
  <2> QED
    BY <2>2 DEF Cf!T!Next
<1>15. CASE Cf!PeerCloses
  <2>1. Cf!Link' = Cf!Link
    BY <1>15 DEF Cf!PeerCloses, Cf!Link
  <2>2. Cf!T!PeerCloses
    BY <1>15, <2>1 DEF Cf!PeerCloses, Cf!T!PeerCloses
  <2> QED
    BY <2>2 DEF Cf!T!Next
<1>16. CASE UNCHANGED Cf!vars
  BY <1>16 DEF Cf!vars, Cf!Link, Cf!T!vars
<1> QED
  BY <1>1, <1>2, <1>3, <1>4, <1>5, <1>6, <1>7, <1>8, <1>9, <1>10, <1>11, <1>12, <1>13, <1>14,
     <1>15, <1>16 DEF Cf!Next

(* CloudflareTransport keeps the contract of transport.rs, although its    *)
(* upgrade returns before the handshake has begun.                         *)
THEOREM CloudflareKeepsTheContract == Cf!Spec => Cf!Contract
<1>1. Cf!Init => Cf!T!Init
  BY DEF Cf!Init, Cf!T!Init, Cf!Link
<1> QED
  BY <1>1, CfSimulates, CfInductive, PTL DEF Cf!Spec, Cf!Contract, Cf!T!Spec

CfC == INSTANCE TransportProofs WITH link <- Cf!Link

LEMMA CfSameContract == Cf!T!Spec => CfC!Spec
<1>1. Cf!T!Init => CfC!Init
  BY DEF Cf!T!Init, CfC!Init
<1>2. Cf!T!Next => CfC!Next
  BY Zenon DEF
     Cf!T!Next, Cf!T!CallPlainly, Cf!T!CallWrite, Cf!T!CallUpgrade, Cf!T!CallClose,
     Cf!T!Call, Cf!T!Bytes, Cf!T!Take, Cf!T!Tag, Cf!T!Live, Cf!T!ReturnOk,
     Cf!T!ReturnBytes, Cf!T!ReturnEof, Cf!T!ReturnError, Cf!T!Return, Cf!T!PeerSends,
     Cf!T!PeerCloses, CfC!Next, CfC!CallPlainly, CfC!CallWrite, CfC!CallUpgrade,
     CfC!CallClose, CfC!Call, CfC!Bytes, CfC!Take, CfC!Tag, CfC!Live, CfC!ReturnOk,
     CfC!ReturnBytes, CfC!ReturnEof, CfC!ReturnError, CfC!Return, CfC!PeerSends,
     CfC!PeerCloses
<1>3. [Cf!T!Next]_(Cf!T!vars) => [CfC!Next]_(CfC!vars)
  BY <1>2 DEF Cf!T!vars, CfC!vars
<1> QED
  BY <1>1, <1>3, PTL DEF Cf!T!Spec, CfC!Spec

(* Once CloudflareTransport has been asked for the upgrade it writes       *)
(* nothing in the clear, whether the late handshake succeeds or not.       *)
THEOREM CloudflareNeverInTheClear == Cf!Spec => Cf!T!NoFallback
<1>1. CfC!Bounded
  BY WasiAssumption DEF CfC!Bounded
<1>2. CfC!Spec => CfC!NoFallback
  BY <1>1, CfC!NeverInTheClear
<1>3. CfC!NoFallback => Cf!T!NoFallback
  BY PTL DEF Cf!T!NoFallback, CfC!NoFallback, Cf!T!vars, CfC!vars
<1> QED
  BY <1>2, <1>3, CfSameContract, CloudflareKeepsTheContract DEF Cf!Contract
=============================================================================
