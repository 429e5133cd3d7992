----------------------------- MODULE TokioProofs ----------------------------
(***************************************************************************)
(* The Tokio adapter implements the contract of transport.rs, for every    *)
(* set of options, roots and peers and every number of bytes.              *)
(***************************************************************************)
EXTENDS TokioTransport, TLAPS

TypeInv == /\ phase \in {"connect", "ready", "failed"} /\ kind \in {"plain", "tls"}
           /\ plain \in BOOLEAN /\ tls \in BOOLEAN /\ holding \in BOOLEAN
           /\ asked \in BOOLEAN /\ eof \in BOOLEAN
           /\ issued \in Nat /\ unread \in Nat /\ pend \in Seq(Nat)

(* Nothing runs before the connect call has returned a transport.          *)
NotYet == phase # "ready" => call = "none" /\ ~plain /\ ~tls /\ ~asked

(* Where the stream can be: there is one at most, the upgrade holds it     *)
(* only while it runs, and neither an upgrade nor a close leaves a         *)
(* plaintext one behind.                                                   *)
OneStream == /\ ~(plain /\ tls)
             /\ holding => call = "upgrade_to_tls" /\ ~plain /\ ~tls
             /\ call = "close" => ~plain /\ ~tls
             /\ asked => ~plain

(* Bytes wait only while a write runs.                                     *)
NothingLeft == call # "write_all" => pend = <<>>

IInv == TypeInv /\ NotYet /\ OneStream /\ NothingLeft

---------------------------------------------------------------------------
LEMMA TypeInvStep == TypeInv /\ [Next]_vars => TypeInv'
<1> SUFFICES ASSUME TypeInv, [Next]_vars PROVE TypeInv'
  OBVIOUS
<1> USE TokioAssumption DEF TypeInv, setup, streams
<1>1. CASE connect_with
  BY <1>1 DEF connect_with
<1>2. CASE CallPlainly
  BY <1>2 DEF CallPlainly, Call
<1>3. CASE CallWrite
  <2>1. PICK n \in 0 .. MaxBuf : issued' = issued + n /\ pend' = [i \in 1 .. n |-> issued + i]
    BY <1>3 DEF CallWrite
  <2>2. issued' \in Nat /\ pend' \in Seq(Nat)
    BY <2>1
  <2> QED
    BY <1>3, <2>2 DEF CallWrite, Call
<1>4. CASE CallClose
  BY <1>4 DEF CallClose, Call
<1>5. CASE CallUpgrade
  BY <1>5 DEF CallUpgrade, Call, PlainAfterTake
<1>6. CASE read
  <2>1. unread' \in Nat
    BY <1>6 DEF read
  <2>2. pend' \in Seq(Nat) /\ issued' \in Nat
    <3>1. pend' = <<>> /\ issued' = issued
      BY <1>6 DEF read, Return
    <3> QED
      BY <3>1
  <2>3. holding' \in BOOLEAN /\ plain' \in BOOLEAN /\ tls' \in BOOLEAN
    BY <1>6 DEF read, Return
  <2>4. UNCHANGED <<phase, kind, asked, eof>>
    BY <1>6 DEF read, Return
  <2> QED
    BY <2>1, <2>2, <2>3, <2>4
<1>7. CASE WriteSome
  <2>1. pend' \in Seq(Nat)
    BY <1>7 DEF WriteSome
  <2> QED
    BY <1>7, <2>1 DEF WriteSome
<1>8. CASE write_all \/ flush \/ close \/ upgrade_to_tls \/ Fails
  <2>1. pend' = <<>> /\ holding' = FALSE /\ UNCHANGED <<issued, unread, plain>>
    BY <1>8 DEF write_all, flush, close, upgrade_to_tls, Fails, Return
  <2>2. tls' = tls \/ tls' = TRUE
    BY <1>8 DEF write_all, flush, close, upgrade_to_tls, Fails, Return
  <2>3. UNCHANGED <<phase, kind, asked, eof>>
    BY <1>8 DEF write_all, flush, close, upgrade_to_tls, Fails, Return
  <2>4. pend' \in Seq(Nat)
    BY <2>1
  <2> QED
    BY <2>1, <2>2, <2>3, <2>4
<1>9. CASE PeerSends
  BY <1>9 DEF PeerSends
<1>10. CASE PeerCloses
  <2>1. eof' \in BOOLEAN
    BY <1>10 DEF PeerCloses
  <2> QED
    BY <1>10, <2>1 DEF PeerCloses
<1>11. CASE UNCHANGED vars
  BY <1>11 DEF vars
<1> QED
  BY <1>1, <1>2, <1>3, <1>4, <1>5, <1>6, <1>7, <1>8, <1>9, <1>10, <1>11 DEF Next

LEMMA PlaceStep == IInv /\ [Next]_vars => NotYet' /\ OneStream' /\ NothingLeft'
<1> SUFFICES ASSUME IInv, [Next]_vars PROVE NotYet' /\ OneStream' /\ NothingLeft'
  OBVIOUS
<1> USE DEF IInv, TypeInv, NotYet, OneStream, NothingLeft, setup, streams
<1>1. CASE connect_with
  BY <1>1 DEF connect_with
<1>2. CASE CallPlainly
  BY <1>2 DEF CallPlainly, Call
<1>3. CASE CallWrite
  BY <1>3 DEF CallWrite, Call
<1>4. CASE CallClose
  BY <1>4 DEF CallClose, Call
<1>5. CASE CallUpgrade
  BY <1>5 DEF CallUpgrade, Call, PlainAfterTake
<1>6. CASE read
  BY <1>6 DEF read, Return
<1>7. CASE WriteSome
  BY <1>7 DEF WriteSome
<1>8. CASE write_all
  BY <1>8 DEF write_all, Return
<1>9. CASE flush \/ close
  BY <1>9 DEF flush, close, Return
<1>10. CASE upgrade_to_tls
  BY <1>10 DEF upgrade_to_tls, Return
<1>11. CASE Fails
  BY <1>11 DEF Fails, Return
<1>12. CASE PeerSends \/ PeerCloses
  BY <1>12 DEF PeerSends, PeerCloses
<1>13. CASE UNCHANGED vars
  BY <1>13 DEF vars
<1> QED
  BY <1>1, <1>2, <1>3, <1>4, <1>5, <1>6, <1>7, <1>8, <1>9, <1>10, <1>11, <1>12, <1>13 DEF Next

LEMMA Inductive == Spec => []IInv
<1>1. Init => IInv
  <2> SUFFICES ASSUME Init PROVE IInv
    OBVIOUS
  <2>1. pend \in Seq(Nat) /\ issued \in Nat /\ unread \in Nat
    BY DEF Init
  <2>2. phase = "connect" /\ kind \in {"plain", "tls"} /\ call = "none" /\ pend = <<>>
    BY DEF Init
  <2>3. plain = FALSE /\ tls = FALSE /\ holding = FALSE /\ asked = FALSE /\ eof = FALSE
    BY DEF Init
  <2> QED
    BY <2>1, <2>2, <2>3 DEF IInv, TypeInv, NotYet, OneStream, NothingLeft
<1>2. IInv /\ [Next]_vars => IInv'
  BY TypeInvStep, PlaceStep DEF IInv
<1> QED
  BY <1>1, <1>2, PTL DEF Spec

---------------------------------------------------------------------------
(* A step of the adapter is a step of the contract, or none of its state   *)
(* changes.                                                                *)
LEMMA Simulates == IInv /\ [Next]_vars => [T!Next]_(T!vars)
<1> SUFFICES ASSUME IInv, [Next]_vars PROVE [T!Next]_(T!vars)
  OBVIOUS
<1> USE TokioAssumption DEF IInv, TypeInv, NotYet, OneStream, NothingLeft, setup, streams
<1>1. CASE connect_with
  BY <1>1 DEF connect_with, Link, T!vars
<1>2. CASE CallPlainly
  <2>1. Link' = Link
    BY <1>2 DEF CallPlainly, Call, Link
  <2>2. T!CallPlainly
    BY <1>2, <2>1 DEF CallPlainly, Call, T!CallPlainly, T!Call
  <2> QED
    BY <2>2 DEF T!Next
<1>3. CASE CallWrite
  <2>1. Link' = Link
    BY <1>3 DEF CallWrite, Call, Link
  <2>2. T!CallWrite
    BY <1>3, <2>1 DEF CallWrite, Call, T!CallWrite, T!Call, T!Bytes
  <2> QED
    BY <2>2 DEF T!Next
<1>4. CASE CallClose
  <2>1. Link' = "dead"
    BY <1>4 DEF CallClose, Call, Link
  <2>2. T!CallClose
    BY <1>4, <2>1 DEF CallClose, Call, T!CallClose, T!Call
  <2> QED
    BY <2>2 DEF T!Next
<1>5. CASE CallUpgrade
  <2>1. Link' \in IF Link = "tls" THEN {"tls", "dead"} ELSE {"dead"}
    BY <1>5 DEF CallUpgrade, Call, PlainAfterTake, Link
  <2>2. T!CallUpgrade
    BY <1>5, <2>1 DEF CallUpgrade, Call, T!CallUpgrade, T!Call
  <2> QED
    BY <2>2 DEF T!Next
<1>6. CASE read
  <2>1. Link' = Link /\ Link \in {"plain", "tls"}
    BY <1>6 DEF read, Return, Live, Link
  <2>2. T!ReturnBytes \/ T!ReturnEof
    BY <1>6, <2>1 DEF read, Return, T!ReturnBytes, T!ReturnEof, T!Return, T!Live
  <2> QED
    BY <2>2 DEF T!Next
<1>7. CASE WriteSome
  <2>1. Link' = Link /\ Link \in {"plain", "tls"} /\ Link = Channel
    BY <1>7 DEF WriteSome, Live, Link, Channel
  <2>2. PICK k \in 1 .. Len(pend) :
               /\ taken' = taken \o [i \in 1 .. k |-> <<Channel, pend[i]>>]
               /\ pend' = SubSeq(pend, k + 1, Len(pend))
    BY <1>7 DEF WriteSome
  <2>3. [i \in 1 .. k |-> <<Channel, pend[i]>>] = T!Tag(Link, SubSeq(pend, 1, k))
    <3>1. DOMAIN SubSeq(pend, 1, k) = 1 .. k
      OBVIOUS
    <3>2. \A i \in 1 .. k : SubSeq(pend, 1, k)[i] = pend[i]
      OBVIOUS
    <3> QED
      BY <2>1, <3>1, <3>2 DEF T!Tag
  <2>4. T!Take
    BY <1>7, <2>1, <2>2, <2>3 DEF WriteSome, T!Take, T!Live
  <2> QED
    BY <2>4 DEF T!Next
<1>8. CASE write_all
  <2>1. Link' = Link /\ Link \in {"plain", "tls"}
    BY <1>8 DEF write_all, Return, Live, Link
  <2>2. T!ReturnOk
    BY <1>8, <2>1 DEF write_all, Return, T!ReturnOk, T!Return, T!Live
  <2> QED
    BY <2>2 DEF T!Next
<1>9. CASE flush
  <2>1. Link' = Link
    BY <1>9 DEF flush, Return, Link
  <2>2. T!ReturnOk
    BY <1>9, <2>1 DEF flush, Return, T!ReturnOk, T!Return
  <2> QED
    BY <2>2 DEF T!Next
<1>10. CASE close
  <2>1. Link' = "dead"
    BY <1>10 DEF close, Return, Link
  <2>2. T!ReturnOk
    BY <1>10, <2>1 DEF close, Return, T!ReturnOk, T!Return
  <2> QED
    BY <2>2 DEF T!Next
<1>11. CASE upgrade_to_tls
  <2>1. Link' = "tls"
    BY <1>11 DEF upgrade_to_tls, Return, Link
  <2>2. T!ReturnOk
    BY <1>11, <2>1 DEF upgrade_to_tls, Return, T!ReturnOk, T!Return
  <2> QED
    BY <2>2 DEF T!Next
<1>12. CASE Fails
  <2>1. Link' = IF call = "close" THEN "dead" ELSE Link
    BY <1>12 DEF Fails, Return, Link
  <2>2. T!ReturnError
    BY <1>12, <2>1 DEF Fails, Return, T!ReturnError, T!Return
  <2> QED
    BY <2>2 DEF T!Next
<1>13. CASE PeerSends
  <2>1. Link' = Link
    BY <1>13 DEF PeerSends, Link
  <2>2. T!PeerSends
    BY <1>13, <2>1 DEF PeerSends, T!PeerSends
  <2> QED
    BY <2>2 DEF T!Next
<1>14. CASE PeerCloses
  <2>1. Link' = Link
    BY <1>14 DEF PeerCloses, Link
  <2>2. T!PeerCloses
    BY <1>14, <2>1 DEF PeerCloses, T!PeerCloses
  <2> QED
    BY <2>2 DEF T!Next
<1>15. CASE UNCHANGED vars
  <2>1. Link' = Link
    BY <1>15 DEF vars, Link
  <2> QED
    BY <1>15, <2>1 DEF vars, T!vars
<1> QED
  BY <1>1, <1>2, <1>3, <1>4, <1>5, <1>6, <1>7, <1>8, <1>9, <1>10, <1>11, <1>12, <1>13,
     <1>14, <1>15 DEF Next

(* Both Tokio transports implement the contract of transport.rs, with      *)
(* calls dropped at any await and upgrades that fail.                      *)
THEOREM KeepsTheContract == Spec => Contract
<1>1. Init => T!Init
  BY DEF Init, Link, T!Init
<1> QED
  BY <1>1, Simulates, Inductive, PTL DEF Spec, Contract, T!Spec

(* What TransportProofs shows of the contract holds of this adapter.       *)
C == INSTANCE TransportProofs WITH link <- Link

LEMMA SameContract == T!Spec => C!Spec
<1>1. T!Init => C!Init
  BY DEF T!Init, C!Init
<1>2. T!Next => C!Next
  BY Zenon DEF T!Next, T!CallPlainly, T!CallWrite, T!CallUpgrade, T!CallClose, T!Call, T!Bytes,
     T!Take, T!Tag, T!Live, T!ReturnOk, T!ReturnBytes, T!ReturnEof, T!ReturnError, T!Return,
     T!PeerSends, T!PeerCloses,
     C!Next, C!CallPlainly, C!CallWrite, C!CallUpgrade, C!CallClose, C!Call, C!Bytes,
     C!Take, C!Tag, C!Live, C!ReturnOk, C!ReturnBytes, C!ReturnEof, C!ReturnError, C!Return,
     C!PeerSends, C!PeerCloses
<1>3. [T!Next]_(T!vars) => [C!Next]_(C!vars)
  BY <1>2 DEF T!vars, C!vars
<1> QED
  BY <1>1, <1>3, PTL DEF T!Spec, C!Spec

LEMMA IsBounded == C!Bounded
  BY TokioAssumption DEF C!Bounded

(* No byte goes out twice or out of order through the Tokio transports:    *)
(* write_all loses its place neither on an error nor when it is dropped.   *)
THEOREM BytesInOrder == Spec => []InOrder
<1>1. C!Spec => []C!InOrder
  BY IsBounded, C!BytesInOrder
<1>2. C!InOrder => InOrder
  BY DEF C!InOrder, InOrder, T!InOrder
<1> QED
  BY <1>1, <1>2, SameContract, KeepsTheContract, PTL DEF Contract

(* An upgrade of the Tokio transport that failed or was dropped leaves no  *)
(* way to write in the clear.                                              *)
THEOREM NeverInTheClear == Spec => NoFallback
<1>1. C!Spec => C!NoFallback
  BY IsBounded, C!NeverInTheClear
<1>2. C!NoFallback => T!NoFallback
  BY PTL DEF T!NoFallback, C!NoFallback, T!vars, C!vars
<1> QED
  BY <1>1, <1>2, SameContract, KeepsTheContract DEF Contract, NoFallback

=============================================================================
