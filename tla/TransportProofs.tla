-------------------------- MODULE TransportProofs ---------------------------
(***************************************************************************)
(* What the contract of transport.rs gives the client, for every number of *)
(* bytes and every size of a call.                                         *)
(***************************************************************************)
EXTENDS Transport, TLAPS

(* A write of n bytes hands over n numbers, each above all before.         *)
LEMMA BytesType ==
    ASSUME issued \in Nat, NEW n \in Nat
    PROVE  /\ Bytes(n) \in Seq(Nat) /\ Len(Bytes(n)) = n
           /\ \A i \in 1 .. n : Bytes(n)[i] = issued + i
  BY DEF Bytes

(* Tagging keeps the bytes and their order.                                *)
LEMMA TagType ==
    ASSUME NEW c \in {"plain", "tls"}, NEW s \in Seq(Nat)
    PROVE  /\ Tag(c, s) \in Seq({"plain", "tls"} \X Nat)
           /\ Len(Tag(c, s)) = Len(s)
           /\ \A i \in 1 .. Len(s) : Tag(c, s)[i] = <<c, s[i]>>
<1> DEFINE t == [i \in DOMAIN s |-> <<c, s[i]>>]
<1>1. \A i \in 1 .. Len(s) : <<c, s[i]>> \in {"plain", "tls"} \X Nat
  OBVIOUS
<1>2. t \in [1 .. Len(s) -> {"plain", "tls"} \X Nat]
  BY <1>1
<1>3. t \in Seq({"plain", "tls"} \X Nat) /\ Len(t) = Len(s)
  BY <1>2
<1>4. \A i \in 1 .. Len(s) : t[i] = <<c, s[i]>>
  OBVIOUS
<1> QED
  BY <1>3, <1>4 DEF Tag

(* The part of a write that the stream takes, and the part that is left.   *)
LEMMA Cut ==
    ASSUME NEW s \in Seq(Nat), NEW k \in 1 .. Len(s)
    PROVE  /\ SubSeq(s, 1, k) \in Seq(Nat) /\ Len(SubSeq(s, 1, k)) = k
           /\ \A i \in 1 .. k : SubSeq(s, 1, k)[i] = s[i]
           /\ SubSeq(s, k + 1, Len(s)) \in Seq(Nat)
           /\ Len(SubSeq(s, k + 1, Len(s))) = Len(s) - k
           /\ \A i \in 1 .. Len(s) - k : SubSeq(s, k + 1, Len(s))[i] = s[k + i]
  OBVIOUS

(* What a concatenation holds, position by position.                       *)
LEMMA Joined ==
    ASSUME NEW S, NEW s \in Seq(S), NEW t \in Seq(S)
    PROVE  /\ s \o t \in Seq(S) /\ DOMAIN (s \o t) = 1 .. Len(s) + Len(t)
           /\ Len(s \o t) = Len(s) + Len(t)
           /\ \A i \in 1 .. Len(s) : (s \o t)[i] = s[i]
           /\ \A i \in 1 .. Len(t) : (s \o t)[Len(s) + i] = t[i]
  OBVIOUS

---------------------------------------------------------------------------
LEMMA TypeStep == Bounded /\ TypeOK /\ [Next]_vars => TypeOK'
<1> SUFFICES ASSUME Bounded, TypeOK, [Next]_vars PROVE TypeOK'
  OBVIOUS
<1> USE DEF Bounded, TypeOK, Calls, Results
<1>1. CASE CallPlainly
  BY <1>1 DEF CallPlainly, Call
<1>2. CASE CallWrite
  BY <1>2, BytesType DEF CallWrite, Call
<1>3. CASE CallUpgrade
  BY <1>3 DEF CallUpgrade, Call
<1>4. CASE CallClose
  BY <1>4 DEF CallClose, Call
<1>5. CASE Take
  <2>1. PICK k \in 1 .. Len(pend) : /\ taken' = taken \o Tag(link, SubSeq(pend, 1, k))
                                   /\ pend' = SubSeq(pend, k + 1, Len(pend))
    BY <1>5 DEF Take
  <2>2. SubSeq(pend, 1, k) \in Seq(Nat) /\ pend' \in Seq(Nat)
    BY <2>1, Cut
  <2>3. Tag(link, SubSeq(pend, 1, k)) \in Seq({"plain", "tls"} \X Nat)
    BY <1>5, <2>2, TagType DEF Take, Live
  <2>4. taken' \in Seq({"plain", "tls"} \X Nat)
    BY <2>1, <2>3
  <2> QED
    BY <1>5, <2>2, <2>4 DEF Take
<1>6. CASE ReturnOk
  BY <1>6 DEF ReturnOk, Return, Live
<1>7. CASE ReturnBytes
  BY <1>7 DEF ReturnBytes, Return
<1>8. CASE ReturnEof
  BY <1>8 DEF ReturnEof, Return
<1>9. CASE ReturnError
  BY <1>9 DEF ReturnError, Return
<1>10. CASE PeerSends
  BY <1>10 DEF PeerSends
<1>11. CASE PeerCloses
  BY <1>11 DEF PeerCloses
<1>12. CASE UNCHANGED vars
  BY <1>12 DEF vars
<1> QED
  BY <1>1, <1>2, <1>3, <1>4, <1>5, <1>6, <1>7, <1>8, <1>9, <1>10, <1>11, <1>12 DEF Next

(* Every variable of the contract keeps its type; in particular a read     *)
(* never returns more than the peer has sent.                              *)
THEOREM TypeCorrect == ASSUME Bounded PROVE Spec => []TypeOK
<1>1. Init => TypeOK
  <2> SUFFICES ASSUME Init PROVE TypeOK
    OBVIOUS
  <2>1. pend \in Seq(Nat)
    BY DEF Init
  <2>2. taken \in Seq({"plain", "tls"} \X Nat)
    BY DEF Init
  <2>3. issued \in Nat /\ unread \in Nat /\ received \in Nat
    BY DEF Init
  <2>4. asked \in BOOLEAN /\ eof \in BOOLEAN /\ link \in {"plain", "tls", "dead"}
    BY DEF Init
  <2>5. call \in Calls \union {"none"} /\ result \in Results
    BY DEF Init, Calls, Results
  <2> QED
    BY <2>1, <2>2, <2>3, <2>4, <2>5 DEF TypeOK
<1> QED
  BY <1>1, TypeStep, PTL DEF Spec

---------------------------------------------------------------------------
LEMMA OrderStep == Bounded /\ TypeOK /\ InOrder /\ [Next]_vars => InOrder'
<1> SUFFICES ASSUME Bounded, TypeOK, InOrder, [Next]_vars PROVE InOrder'
  OBVIOUS
<1> USE DEF Bounded
<1>1. CASE UNCHANGED <<taken, pend, issued>>
  BY <1>1 DEF InOrder
<1>2. CASE pend' = <<>> /\ UNCHANGED <<taken, issued>>
  BY <1>2 DEF InOrder
<1>3. CASE CallWrite
  <2>1. PICK n \in 0 .. MaxBuf : pend' = Bytes(n) /\ issued' = issued + n /\ taken' = taken
    BY <1>3 DEF CallWrite, Call
  <2>2. DOMAIN pend' = 1 .. n /\ \A i \in 1 .. n : pend'[i] = issued + i
    BY <2>1, BytesType DEF TypeOK, Bytes
  <2>3. \A i \in DOMAIN taken : taken[i][2] \in Nat
    BY DEF TypeOK
  <2> QED
    BY <2>1, <2>2, <2>3 DEF InOrder, TypeOK
<1>4. CASE Take
  <2>1. PICK k \in 1 .. Len(pend) : /\ taken' = taken \o Tag(link, SubSeq(pend, 1, k))
                                   /\ pend' = SubSeq(pend, k + 1, Len(pend))
    BY <1>4 DEF Take
  <2>2. issued' = issued
    BY <1>4 DEF Take
  <2> DEFINE head == SubSeq(pend, 1, k)
             tag == Tag(link, head)
  <2>3. /\ head \in Seq(Nat) /\ Len(head) = k
        /\ \A i \in 1 .. k : head[i] = pend[i]
        /\ pend' \in Seq(Nat) /\ Len(pend') = Len(pend) - k
        /\ \A i \in 1 .. Len(pend) - k : pend'[i] = pend[k + i]
    BY <2>1, Cut DEF TypeOK
  <2>4. /\ tag \in Seq({"plain", "tls"} \X Nat) /\ Len(tag) = k
        /\ \A i \in 1 .. k : tag[i] = <<link, head[i]>>
    BY <1>4, <2>3, TagType DEF Take, Live
  <2> HIDE DEF tag, head
  <2>5. \A i \in 1 .. k : tag[i][2] = pend[i]
    BY <2>3, <2>4
  <2>6. /\ DOMAIN taken' = 1 .. Len(taken) + k
        /\ \A i \in 1 .. Len(taken) : taken'[i] = taken[i]
        /\ \A i \in 1 .. k : taken'[Len(taken) + i] = tag[i]
    <3>1. taken' = taken \o tag
      BY <2>1 DEF tag, head
    <3> DEFINE S == {"plain", "tls"} \X Nat
    <3>2. taken \in Seq(S) /\ tag \in Seq(S)
      BY <2>4 DEF TypeOK
    <3> HIDE DEF S
    <3>3. /\ DOMAIN (taken \o tag) = 1 .. Len(taken) + Len(tag)
          /\ \A i \in 1 .. Len(taken) : (taken \o tag)[i] = taken[i]
          /\ \A i \in 1 .. Len(tag) : (taken \o tag)[Len(taken) + i] = tag[i]
      BY <3>2, Joined
    <3> QED
      BY <3>1, <3>3, <2>4
  <2>7. \A i \in DOMAIN taken' : \/ i \in DOMAIN taken /\ taken'[i][2] = taken[i][2]
                                 \/ \E a \in 1 .. k : i = Len(taken) + a /\ taken'[i][2] = pend[a]
    <3> TAKE i \in DOMAIN taken'
    <3>1. CASE i \in 1 .. Len(taken)
      BY <3>1, <2>6 DEF TypeOK
    <3>2. CASE i \notin 1 .. Len(taken)
      <4>1. i - Len(taken) \in 1 .. k /\ i = Len(taken) + (i - Len(taken))
        BY <3>2, <2>6 DEF TypeOK
      <4> QED
        BY <4>1, <2>5, <2>6
    <3> QED
      BY <3>1, <3>2
  <2>8. DOMAIN pend = 1 .. Len(pend) /\ DOMAIN taken = 1 .. Len(taken)
        /\ Len(taken) \in Nat /\ Len(pend) \in Nat
    BY DEF TypeOK
  <2>9. \A j \in DOMAIN pend' : k + j \in DOMAIN pend /\ j \in Nat \ {0} /\ pend'[j] = pend[k + j]
    <3>1. DOMAIN pend' = 1 .. Len(pend) - k
      BY <2>3
    <3> QED
      BY <3>1, <2>3, <2>8, SMTT(20)
  <2>10. \A i, j \in DOMAIN taken' : i < j => taken'[i][2] < taken'[j][2]
    <3> SUFFICES ASSUME NEW i \in DOMAIN taken', NEW j \in DOMAIN taken', i < j
                 PROVE  taken'[i][2] < taken'[j][2]
      OBVIOUS
    <3>1. CASE j \in DOMAIN taken /\ taken'[j][2] = taken[j][2]
      <4>1. i \in DOMAIN taken /\ taken'[i][2] = taken[i][2]
        BY <3>1, <2>7, <2>8
      <4> QED
        BY <3>1, <4>1 DEF InOrder
    <3>2. ASSUME NEW b \in 1 .. k, j = Len(taken) + b, taken'[j][2] = pend[b]
          PROVE  taken'[i][2] < taken'[j][2]
      <4>1. CASE i \in DOMAIN taken /\ taken'[i][2] = taken[i][2]
        BY <3>2, <4>1, <2>8 DEF InOrder
      <4>2. ASSUME NEW a \in 1 .. k, i = Len(taken) + a, taken'[i][2] = pend[a]
            PROVE  taken'[i][2] < taken'[j][2]
        <5>1. a \in DOMAIN pend /\ b \in DOMAIN pend /\ a < b
          BY <3>2, <4>2, <2>8
        <5> QED
          BY <3>2, <4>2, <5>1 DEF InOrder
      <4> QED
        BY <4>1, <4>2, <2>7
    <3> QED
      BY <3>1, <3>2, <2>7
  <2>11. \A i, j \in DOMAIN pend' : i < j => pend'[i] < pend'[j]
    BY <2>8, <2>9 DEF InOrder
  <2>12. \A i \in DOMAIN taken', j \in DOMAIN pend' : taken'[i][2] < pend'[j]
    <3> TAKE i \in DOMAIN taken', j \in DOMAIN pend'
    <3>1. CASE i \in DOMAIN taken /\ taken'[i][2] = taken[i][2]
      BY <3>1, <2>9 DEF InOrder
    <3>2. ASSUME NEW a \in 1 .. k, taken'[i][2] = pend[a]
          PROVE  taken'[i][2] < pend'[j]
      <4>1. a \in DOMAIN pend /\ a < k + j
        BY <2>8, <2>9
      <4> QED
        BY <3>2, <4>1, <2>9 DEF InOrder
    <3> QED
      BY <3>1, <3>2, <2>7
  <2>13. \A i \in DOMAIN taken' : taken'[i][2] <= issued'
    BY <2>2, <2>7, <2>8 DEF InOrder
  <2>14. \A j \in DOMAIN pend' : pend'[j] <= issued'
    BY <2>2, <2>9 DEF InOrder
  <2> QED
    BY <2>10, <2>11, <2>12, <2>13, <2>14 DEF InOrder
<1> QED
  BY <1>1, <1>2, <1>3, <1>4 DEF Next, vars, CallPlainly, CallUpgrade, CallClose, Call,
     ReturnOk, ReturnBytes, ReturnEof, ReturnError, Return, PeerSends, PeerCloses

(* Whatever fails or is abandoned half-way, no byte is ever taken twice or *)
(* out of order.                                                           *)
THEOREM BytesInOrder == ASSUME Bounded PROVE Spec => []InOrder
<1>1. Init => InOrder
  BY DEF Init, InOrder
<1> QED
  BY <1>1, OrderStep, TypeCorrect, PTL DEF Spec

---------------------------------------------------------------------------
(* Asking for an upgrade ends the plaintext stream for good.               *)
NoWayBack == asked => link # "plain"

LEMMA NoWayBackStep == NoWayBack /\ [Next]_vars => NoWayBack'
<1> SUFFICES ASSUME NoWayBack, [Next]_vars PROVE NoWayBack'
  OBVIOUS
<1>1. CASE CallUpgrade
  BY <1>1 DEF CallUpgrade, NoWayBack
<1>2. CASE CallClose
  BY <1>2 DEF CallClose, NoWayBack
<1>3. CASE ReturnOk
  BY <1>3 DEF ReturnOk, Return, NoWayBack
<1>4. CASE ReturnError
  BY <1>4 DEF ReturnError, Return, NoWayBack
<1>5. CASE UNCHANGED <<link, asked>>
  BY <1>5 DEF NoWayBack
<1> QED
  BY <1>1, <1>2, <1>3, <1>4, <1>5 DEF Next, vars, CallPlainly, CallWrite, Take,
     ReturnBytes, ReturnEof, Return, PeerSends, PeerCloses

(* After a call of upgrade_to_tls nothing leaves in the clear, whether the *)
(* upgrade succeeded, failed or was dropped.                               *)
THEOREM NeverInTheClear == ASSUME Bounded PROVE Spec => NoFallback
<1> DEFINE A == asked => \A i \in Len(taken) + 1 .. Len(taken') : taken'[i][1] = "tls"
<1>1. Init => NoWayBack
  BY DEF Init, NoWayBack
<1>2. TypeOK /\ NoWayBack /\ [Next]_vars => [A]_vars
  <2> SUFFICES ASSUME TypeOK, NoWayBack, Next, asked,
                      NEW i \in Len(taken) + 1 .. Len(taken')
               PROVE  taken'[i][1] = "tls"
    OBVIOUS
  <2>1. CASE taken' = taken
    BY <2>1 DEF TypeOK
  <2>2. CASE Take
    <3>1. PICK k \in 1 .. Len(pend) : taken' = taken \o Tag(link, SubSeq(pend, 1, k))
      BY <2>2 DEF Take
    <3>2. link = "tls"
      BY <2>2 DEF Take, Live, NoWayBack
    <3>3. SubSeq(pend, 1, k) \in Seq(Nat) /\ Len(SubSeq(pend, 1, k)) = k
      BY Cut DEF TypeOK
    <3> DEFINE tag == Tag(link, SubSeq(pend, 1, k))
    <3>4. /\ tag \in Seq({"plain", "tls"} \X Nat) /\ Len(tag) = k
          /\ \A j \in 1 .. k : tag[j] = <<"tls", SubSeq(pend, 1, k)[j]>>
      BY <3>2, <3>3, TagType
    <3> HIDE DEF tag
    <3>5. i - Len(taken) \in 1 .. k /\ taken'[i] = tag[i - Len(taken)]
      BY <3>1, <3>4 DEF TypeOK, tag
    <3> QED
      BY <3>4, <3>5
  <2> QED
    BY <2>1, <2>2 DEF Next, CallPlainly, CallWrite, CallUpgrade, CallClose, Call,
       ReturnOk, ReturnBytes, ReturnEof, ReturnError, Return, PeerSends, PeerCloses
<1> QED
  BY <1>1, <1>2, NoWayBackStep, TypeCorrect, PTL DEF Spec, NoFallback
=============================================================================
