-------------------------- MODULE SmtpSystemProofs --------------------------
(***************************************************************************)
(* Theorems about SmtpClient, for every peer, every caller and every       *)
(* bound, and then about SmtpSystem, the client together with a server     *)
(* that follows the protocol, for any number of recipients, transactions,  *)
(* unread replies, abandoned calls and broken links.                       *)
(***************************************************************************)
EXTENDS SmtpSystem, SequenceTheorems, TLAPS

(***************************************************************************)
(* Part one: the client, whatever the peer does.                           *)
(***************************************************************************)

(***************************************************************************)
(* The inductive invariant. None of the properties is inductive by itself: *)
(* what a handler may assume is decided by the await it resumes from.      *)
(***************************************************************************)

(* The await decides the session state. *)
AtDecidesState ==
    /\ at = "greeting" => state = "Greeting"
    /\ at \in {"ehlo", "reehlo"} => state = "Ehlo"
    /\ at \in {"starttls", "upgrade"} => state = "StartTls"
    /\ at \in {"auth1", "auth2", "auth3"} => state = "Authentication"
    /\ at = "mail" => state = (IF pipelining THEN "Data" ELSE "MailFrom")
    /\ at = "rcpt" => state = (IF pipelining THEN "Data" ELSE "RcptTo")
    /\ at \in {"data", "body", "final"} => state = "Data"
    /\ at = "quit" => state = "Quit"

(* A send in progress has a number, recipients, and counts them down to 0. *)
Counts ==
    /\ at \in {"mail", "rcpt", "data", "body", "final"} => nsend \in 1..MaxSends /\ rcpts >= 1
    /\ at \in {"mail", "rcpt"} => 1 <= todo /\ todo <= rcpts
    /\ at = "mail" => todo = rcpts
    /\ at \in {"data", "body", "final"} => todo = 0

(* A client that wanted TLS and has none is stuck in StartTls or closed;   *)
(* so is one whose transport a failed or abandoned upgrade has broken.     *)
NoTlsNoSession ==
    wantTls \/ sec = "broken" => sec = "tls" \/ state \in {"StartTls", "Closed"}

(* The control part of the invariant. *)
Control == AtDecidesState /\ Counts /\ NoTlsNoSession
-----------------------------------------------------------------------------
Errors == {"Io", "Protocol", "Auth", "Policy", "InvalidInput", "Io(serialize)"}

(* The part of TypeOK that Fail, Await, Done, Refuse and WriteThen decide. *)
CallOK ==
    /\ state \in SessionStates
    /\ wrote \in Seq(Commands)
    /\ audit \in Seq(Events)
    /\ at \in Suspended \cup {"idle", "gone"}
    /\ ret \in {"none", "ok", "Io", "Protocol", "Auth", "Policy", "InvalidInput",
                "Io(serialize)", "cancelled", "dropped"}
    /\ cancels \in 0..MaxCancels

(* A failed call leaves the call's own variables well typed. *)
LEMMA FailType ==
    ASSUME CallOK, NEW ev \in Seq(Events), NEW err \in Errors,
           NEW a \in Suspended \cup {"idle"}, Fail(ev, err, a)
    PROVE  CallOK'
<1>1. audit' \in Seq(Events)
  <2>1. <<"SessionAborted">> \in Seq(Events) /\ <<>> \in Seq(Events)
    BY DEF Events
  <2>2. audit \o ev \in Seq(Events)
    BY ConcatProperties DEF CallOK
  <2>. QED BY <2>1, <2>2, ConcatProperties DEF Fail
<1>2. at' \in Suspended \cup {"idle", "gone"}
  BY DEF Fail, OnError, Suspended
<1>. QED BY <1>1, <1>2 DEF Fail, CallOK, SessionStates, Errors

(* So does a write that succeeds, fails or is torn. *)
LEMMA WriteThenType ==
    ASSUME CallOK, BoundsAssumption,
           NEW s \in SessionStates, NEW ev \in Seq(Events), NEW cmds \in Seq(Commands),
           NEW a \in Suspended, WriteThen(s, ev, cmds, a)
    PROVE  CallOK'
<1>1. CASE link = "down" /\ Fail(ev, "Io", a)
  BY <1>1, FailType DEF Errors
<1>2. CASE /\ state' = s
           /\ audit' = audit \o ev
           /\ wrote' = wrote \o cmds
           /\ at' = a
           /\ UNCHANGED <<ret, cancels>>
  BY <1>2, ConcatProperties DEF CallOK
<1>3. CASE /\ cancels < MaxCancels
           /\ \E k \in 0..(Len(cmds) - 1) :
                 \/ wrote' = wrote \o SubSeq(cmds, 1, k)
                 \/ wrote' = wrote \o SubSeq(cmds, 1, k) \o <<[cmds[k + 1] EXCEPT !.whole = FALSE]>>
           /\ state' = s
           /\ audit' = audit \o ev
           /\ at' = OnCancel(a)
           /\ ret' = "cancelled"
           /\ cancels' = cancels + 1
  <2>1. PICK k \in 0..(Len(cmds) - 1) :
                 \/ wrote' = wrote \o SubSeq(cmds, 1, k)
                 \/ wrote' = wrote \o SubSeq(cmds, 1, k) \o <<[cmds[k + 1] EXCEPT !.whole = FALSE]>>
    BY <1>3
  <2>2. Len(cmds) \in Nat /\ k \in 0..Len(cmds) /\ k + 1 \in 1..Len(cmds)
    BY LenProperties
  <2>3. SubSeq(cmds, 1, k) \in Seq(Commands)
    BY <2>2, SubSeqProperties
  <2>4. [cmds[k + 1] EXCEPT !.whole = FALSE] \in Commands
    <3>1. cmds[k + 1] \in Commands
      BY <2>2, ElementOfSeq
    <3>. QED BY <3>1 DEF Commands
  <2>5. wrote' \in Seq(Commands)
    <3>1. wrote \o SubSeq(cmds, 1, k) \in Seq(Commands)
      BY <2>3, ConcatProperties DEF CallOK
    <3>2. <<[cmds[k + 1] EXCEPT !.whole = FALSE]>> \in Seq(Commands)
      BY <2>4
    <3>. QED BY <2>1, <3>1, <3>2, ConcatProperties
  <2>6. cancels' \in 0..MaxCancels
    BY <1>3 DEF CallOK, BoundsAssumption
  <2>7. audit' \in Seq(Events) /\ at' \in Suspended \cup {"idle", "gone"}
    BY <1>3, ConcatProperties DEF CallOK, OnCancel, Suspended
  <2>. QED BY <1>3, <2>5, <2>6, <2>7 DEF CallOK
<1>. QED BY <1>1, <1>2, <1>3 DEF WriteThen
-----------------------------------------------------------------------------
(* Where Fail and WriteThen leave the session and the call. *)
LEMMA FailControl ==
    ASSUME NEW ev, NEW err, NEW a, Fail(ev, err, a)
    PROVE  /\ state' = "Closed" /\ at' = OnError(a) /\ ret' = err
           /\ wrote' = wrote /\ cancels' = cancels
  BY DEF Fail

LEMMA WriteThenControl ==
    ASSUME NEW s, NEW ev, NEW cmds, NEW a, WriteThen(s, ev, cmds, a)
    PROVE  \/ state' = s /\ at' = a
           \/ state' = "Closed" /\ at' = OnError(a)
           \/ state' = s /\ at' = OnCancel(a)
  BY DEF WriteThen, Fail

(* Every step keeps the await, the session state, the counters and the     *)
(* security of the transport in agreement.                                 *)
LEMMA ControlStep ==
    ASSUME TypeOK, Control, [Next]_vars
    PROVE  Control'
<1>. USE DEF Control, AtDecidesState, Counts, NoTlsNoSession
<1>0. /\ pipelining \in BOOLEAN /\ todo \in Int /\ rcpts \in Int /\ nsend \in 0..MaxSends
      /\ MaxSends \in Nat /\ MaxRcpts \in Nat
  BY BoundsAssumption DEF TypeOK
<1>1. CASE read_greeting
  BY <1>1, <1>0, FailControl, WriteThenControl DEF read_greeting, OnError, OnCancel, Reply,
     capVars, peerVars, tlsVars, sendVars
<1>2. CASE send_ehlo
  BY <1>2, <1>0, FailControl, WriteThenControl DEF send_ehlo, Done, OnError, OnCancel, Reply,
     capVars, peerVars, tlsVars, sendVars
<1>3. CASE starttls
  BY <1>3, <1>0, FailControl, WriteThenControl DEF starttls, OnError, OnCancel, Reply, capVars,
     peerVars, tlsVars, sendVars
<1>4. CASE starttls_reply
  BY <1>4, <1>0, FailControl, WriteThenControl DEF starttls_reply, Await, OnError, OnCancel,
     Reply, capVars, peerVars, tlsVars, sendVars
<1>5. CASE upgrade_to_tls
  BY <1>5, <1>0, FailControl, WriteThenControl DEF upgrade_to_tls, OnError, OnCancel, Reply,
     capVars, peerVars, tlsVars, sendVars
<1>6. CASE login
  BY <1>6, <1>0, FailControl, WriteThenControl DEF login, login, login_with, MayLogin, Refuse,
     OnError, OnCancel, Reply, capVars, peerVars, tlsVars, sendVars
<1>7. CASE \E m \in Mechanisms : login_with(m)
  BY <1>7, <1>0, FailControl, WriteThenControl DEF login_with, MayLogin, Refuse, OnError,
     OnCancel, Reply, capVars, peerVars, tlsVars, sendVars
<1>8. CASE run_auth
  BY <1>8, <1>0, FailControl, WriteThenControl, SMTT(20) DEF run_auth, NextAuth, Done, OnError, OnCancel,
     Reply, capVars, peerVars, tlsVars, sendVars
<1>9. CASE \E k \in {"mail", "utf8", "stream"} : check_send(k)
  BY <1>9, <1>0, FailControl, WriteThenControl DEF check_send, Refuse, OnError, OnCancel, Reply,
     capVars, peerVars, tlsVars, sendVars
<1>10. CASE \E k \in {"mail", "utf8", "stream"}, c \in 1..MaxRcpts : send_mail(k, c)
  BY <1>10, <1>0, FailControl, WriteThenControl DEF send_mail, OnError, OnCancel, Reply, capVars,
     peerVars, tlsVars, sendVars
<1>11. CASE mail_reply
  <2>1. at = "mail" /\ UNCHANGED <<pipelining, todo, rcpts, nsend, sec, wantTls>>
    BY <1>11 DEF mail_reply, Reply, sendVars, tlsVars
  <2>2. CASE pipelining /\ Await(<<"MailFromAccepted">>, "rcpt")
    BY <1>0, <2>1, <2>2 DEF Await
  <2>3. CASE ~pipelining /\ WriteThen("RcptTo", <<"MailFromAccepted">>, <<RcptCmd(1)>>, "rcpt")
    BY <1>0, <2>1, <2>3, WriteThenControl DEF OnError, OnCancel
  <2>4. CASE Fail(<<>>, "Protocol", "mail")
    BY <2>1, <2>4, FailControl DEF OnError
  <2>. QED BY <1>11, <2>2, <2>3, <2>4 DEF mail_reply
<1>12. CASE read_rcpt_reply
  <2>1. at = "rcpt" /\ UNCHANGED <<pipelining, rcpts, nsend, sec, wantTls>>
    BY <1>12 DEF read_rcpt_reply, Reply, tlsVars
  <2>2. CASE Fail(<<"RecipientRejected">>, "Protocol", "rcpt") /\ UNCHANGED todo
    BY <1>0, <2>1, <2>2, FailControl DEF OnError
  <2>3. CASE todo' = todo - 1 /\ pipelining
             /\ Await(<<"RecipientAccepted">>, IF LastRecipient THEN "data" ELSE "rcpt")
    BY <1>0, <2>1, <2>3 DEF Await, LastRecipient
  <2>4. CASE todo' = todo - 1 /\ ~pipelining /\ ~LastRecipient
             /\ WriteThen(state, <<"RecipientAccepted">>, <<RcptCmd(rcpts - todo + 2)>>, "rcpt")
    BY <1>0, <2>1, <2>4, WriteThenControl DEF OnError, OnCancel, LastRecipient
  <2>5. CASE todo' = todo - 1 /\ ~pipelining /\ LastRecipient
             /\ WriteThen("Data", <<"RecipientAccepted">>, <<DataCmd>>, "data")
    BY <1>0, <2>1, <2>5, WriteThenControl DEF OnError, OnCancel, LastRecipient
  <2>. QED BY <1>12, <2>2, <2>3, <2>4, <2>5 DEF read_rcpt_reply
<1>13. CASE data_reply
  BY <1>13, <1>0, FailControl, WriteThenControl DEF data_reply, Await, OnError, OnCancel, Reply,
     capVars, peerVars, tlsVars, sendVars
<1>14. CASE stream_body
  BY <1>14, <1>0, FailControl, WriteThenControl DEF stream_body, OnError, OnCancel, Reply,
     capVars, peerVars, tlsVars, sendVars
<1>15. CASE final_reply
  BY <1>15, <1>0, FailControl, WriteThenControl DEF final_reply, Done, OnError, OnCancel, Reply,
     capVars, peerVars, tlsVars, sendVars
<1>16. CASE quit
  BY <1>16, <1>0, FailControl, WriteThenControl DEF quit, can_transition_to, OnError, OnCancel,
     Reply, capVars, peerVars, tlsVars, sendVars
<1>17. CASE quit_reply
  BY <1>17, <1>0, FailControl, WriteThenControl DEF quit_reply, OnError, OnCancel, Reply, capVars,
     peerVars, tlsVars, sendVars
<1>18. CASE close_transport
  BY <1>18, <1>0, FailControl, WriteThenControl DEF close_transport, OnError, OnCancel, Reply,
     capVars, peerVars, tlsVars, sendVars
<1>19. CASE fill_buf
  BY <1>19, <1>0, FailControl, WriteThenControl DEF fill_buf, callVars, Reading, OnError,
     OnCancel, Reply, capVars, peerVars, tlsVars, sendVars
<1>20. CASE read_fails
  BY <1>20, <1>0, FailControl, WriteThenControl DEF read_fails, Reading, OnError, OnCancel, Reply,
     capVars, peerVars, tlsVars, sendVars
<1>21. CASE invalid_input
  BY <1>21, <1>0, FailControl, WriteThenControl DEF invalid_input, Refuse, OnError, OnCancel,
     Reply, capVars, peerVars, tlsVars, sendVars
<1>22. CASE send_message
  BY <1>22, <1>0, FailControl, WriteThenControl DEF send_message, Refuse, OnError, OnCancel,
     Reply, capVars, peerVars, tlsVars, sendVars
<1>23. CASE Cancel
  BY <1>23, <1>0, FailControl, WriteThenControl DEF Cancel, Suspended, Reading, OnError, OnCancel,
     Reply, capVars, peerVars, tlsVars, sendVars
<1>24. CASE Drop
  BY <1>24, <1>0, FailControl, WriteThenControl DEF Drop, OnError, OnCancel, Reply, capVars,
     peerVars, tlsVars, sendVars
<1>25. CASE \E r \in Replies, over \in {"plain", "tls"} : PeerReplies(r, over)
  BY <1>25, <1>0, FailControl, WriteThenControl DEF PeerReplies, callVars, OnError, OnCancel,
     Reply, capVars, peerVars, tlsVars, sendVars
<1>26. CASE LinkDown
  BY <1>26, <1>0, FailControl, WriteThenControl DEF LinkDown, callVars, OnError, OnCancel, Reply,
     capVars, peerVars, tlsVars, sendVars
<1>27. CASE UNCHANGED vars
  BY <1>27, <1>0, FailControl, WriteThenControl DEF vars, OnError, OnCancel, Reply, capVars,
     peerVars, tlsVars, sendVars
<1>. QED
  BY <1>1, <1>2, <1>3, <1>4, <1>5, <1>6, <1>7, <1>8, <1>9, <1>10, <1>11, <1>12, <1>13, <1>14,
     <1>15, <1>16, <1>17, <1>18, <1>19, <1>20, <1>21, <1>22, <1>23, <1>24, <1>25, <1>26, <1>27
  DEF Next, Client, Call, Resume, Peer, Terminated
-----------------------------------------------------------------------------
(* The rest of TypeOK. *)
RestOK ==
    /\ capabilities \in SUBSET Extensions
    /\ capsOver \in {"none", "plain", "tls"}
    /\ rx \in Seq(Received) /\ net \in Seq(Received)
    /\ link \in {"up", "down"}
    /\ sec \in {"plain", "tls", "broken"}
    /\ implicit \in BOOLEAN /\ closed \in BOOLEAN /\ wantTls \in BOOLEAN
    /\ mech \in Mechanisms
    /\ kind \in {"mail", "utf8", "stream"}
    /\ rcpts \in 0..MaxRcpts /\ todo \in 0..MaxRcpts
    /\ pipelining \in BOOLEAN
    /\ nsend \in 0..MaxSends
    /\ oks \in SUBSET (1..MaxSends)

LEMMA TypeSplit == TypeOK <=> CallOK /\ RestOK
  BY DEF TypeOK, CallOK, RestOK

LEMMA TypeSplitNext == TypeOK' <=> CallOK' /\ RestOK'
  BY DEF TypeOK, CallOK, RestOK

(* Suspending without a write, and returning Ok, are well typed too. *)
LEMMA AwaitType ==
    ASSUME CallOK, NEW ev \in Seq(Events), NEW a \in Suspended, Await(ev, a)
    PROVE  CallOK'
  BY ConcatProperties DEF Await, CallOK

LEMMA DoneType ==
    ASSUME CallOK, NEW s \in SessionStates, NEW ev \in Seq(Events), Done(s, ev)
    PROVE  CallOK'
  BY ConcatProperties DEF Done, CallOK

LEMMA RefuseType ==
    ASSUME CallOK, NEW err \in Errors, Refuse(err)
    PROVE  CallOK'
  BY DEF Refuse, CallOK, Errors

(* A consumed reply is one the peer sent. *)
LEMMA ReplyType ==
    ASSUME RestOK, NEW a, Reply(a)
    PROVE  Head(rx) \in Received /\ rx' \in Seq(Received)
  BY HeadTailProperties DEF Reply, RestOK

(* A client that can still write has a channel to write to. *)
LEMMA ActiveChannel ==
    ASSUME RestOK, NoTlsNoSession, state \notin {"StartTls", "Closed"}
    PROVE  sec \in {"plain", "tls"}
  BY DEF RestOK, NoTlsNoSession

(* What the handlers write are commands. *)
LEMMA CommandType ==
    ASSUME NEW verb \in Verbs, NEW over \in {"plain", "tls"}, NEW msg \in Nat, NEW arg \in Nat
    PROVE  /\ Command(verb, over, msg, arg) \in Commands
           /\ <<Command(verb, over, msg, arg)>> \in Seq(Commands)
  BY DEF Command, Commands

LEMMA PipelineType ==
    ASSUME RestOK, sec \in {"plain", "tls"}, NEW c \in 1..MaxRcpts
    PROVE  Pipeline(c) \in Seq(Commands)
<1>0. nsend \in Nat /\ nsend + 1 \in Nat /\ c \in Nat /\ c + 2 \in Nat /\ 0 \in Nat
  BY BoundsAssumption DEF RestOK
<1>1. \A i \in 1..(c + 2) : Pipeline(c)[i] \in Commands
  <2>. SUFFICES ASSUME NEW i \in 1..(c + 2) PROVE Pipeline(c)[i] \in Commands
    OBVIOUS
  <2>1. MailCmd(c) \in Commands
    BY <1>0, CommandType DEF MailCmd, Verbs
  <2>2. [DataCmd EXCEPT !.msg = nsend + 1] \in Commands
    BY <1>0 DEF DataCmd, Command, Commands, Verbs
  <2>3. ASSUME i # 1 PROVE [RcptCmd(i - 1) EXCEPT !.msg = nsend + 1] \in Commands
    <3>1. i - 1 \in Nat
      BY <1>0
    <3>. QED BY <1>0, <3>1 DEF RcptCmd, Command, Commands, Verbs
  <2>. QED BY <2>1, <2>2, <2>3 DEF Pipeline
<1>2. Pipeline(c) \in [1..(c + 2) -> Commands]
  BY <1>1 DEF Pipeline
<1>. QED BY <1>0, <1>2, SeqDef

(* Every step keeps every variable in its type. *)
LEMMA TypeStep ==
    ASSUME TypeOK, Control, [Next]_vars
    PROVE  TypeOK'
<1>. USE DEF Control
<1>0. CallOK /\ RestOK /\ BoundsAssumption
  BY TypeSplit, BoundsAssumption
<1>a. \A e \in Events : <<e>> \in Seq(Events)
  OBVIOUS
<1>b. <<>> \in Seq(Events)
  OBVIOUS
<1>c. nsend \in Nat /\ nsend + 1 \in Nat /\ rcpts \in Nat /\ 0 \in Nat
  BY <1>0 DEF RestOK, BoundsAssumption
<1>d. ASSUME state \notin {"StartTls", "Closed"}, NEW verb \in Verbs
      PROVE  Say(verb) \in Seq(Commands)
  BY <1>0, <1>c, <1>d, ActiveChannel, CommandType DEF Say
<1>e. ASSUME NEW m \in Mechanisms, login_with(m)
      PROVE  TypeOK'
  <2>1. CallOK'
    BY <1>0, <1>a, <1>b, <1>d, <1>e, FailType, WriteThenType, RefuseType
    DEF login_with, MayLogin, Errors, Suspended, Reading, Verbs, SessionStates
  <2>2. RestOK'
    BY <1>0, <1>e DEF login_with, RestOK, capVars, peerVars, tlsVars, sendVars
  <2>. QED BY <2>1, <2>2, TypeSplitNext
<1>1. CASE read_greeting
  <2>x. CallOK'
    BY <1>1, <1>0, <1>a, <1>b, <1>d, FailType, WriteThenType
    DEF read_greeting, Reply, AtDecidesState, Events, Errors, Suspended, Reading, Verbs, SessionStates
  <2>y. RestOK'
    BY <1>1, <1>0, ReplyType DEF read_greeting, RestOK, capVars, peerVars, tlsVars, sendVars
  <2>. QED BY <2>x, <2>y, TypeSplitNext
<1>2. CASE send_ehlo
  <2>x. CallOK'
    BY <1>2, <1>0, <1>a, <1>b, FailType, DoneType
    DEF send_ehlo, Events, Errors, Suspended, Reading, SessionStates
  <2>y. RestOK'
    BY <1>2, <1>0, ReplyType, ZenonT(30) DEF send_ehlo, RestOK, Received, capVars, peerVars, tlsVars, sendVars
  <2>. QED BY <2>x, <2>y, TypeSplitNext
<1>3. CASE starttls
  <2>x. CallOK'
    BY <1>3, <1>0, <1>a, <1>b, <1>d, FailType, WriteThenType
    DEF starttls, Errors, Suspended, Reading, Verbs, SessionStates
  <2>y. RestOK'
    BY <1>3, <1>0 DEF starttls, RestOK, capVars, peerVars, tlsVars, sendVars
  <2>. QED BY <2>x, <2>y, TypeSplitNext
<1>4. CASE starttls_reply
  <2>x. CallOK'
    BY <1>4, <1>0, <1>a, <1>b, FailType, AwaitType
    DEF starttls_reply, Errors, Suspended, Reading
  <2>y. RestOK'
    BY <1>4, <1>0, ReplyType DEF starttls_reply, RestOK, capVars, peerVars, tlsVars, sendVars
  <2>. QED BY <2>x, <2>y, TypeSplitNext
<1>5. CASE upgrade_to_tls
  <2>1. <<Command("EHLO", "tls", 0, 0)>> \in Seq(Commands)
    BY <1>c, CommandType DEF Verbs
  <2>x. CallOK'
    BY <1>5, <2>1, <1>0, <1>a, <1>b, FailType, WriteThenType
    DEF upgrade_to_tls, Events, Errors, Suspended, Reading, SessionStates
  <2>y. RestOK'
    BY <1>5, <1>0 DEF upgrade_to_tls, RestOK, capVars, peerVars, tlsVars, sendVars
  <2>. QED BY <2>x, <2>y, TypeSplitNext
<1>6. CASE login
  <2>1. CASE select_auth_mechanism # "none" /\ login_with(select_auth_mechanism)
    BY <1>e, <2>1 DEF select_auth_mechanism, Mechanisms
  <2>2. CASE /\ Fail(<<>>, "Auth", "idle")
             /\ UNCHANGED <<rx, capVars, peerVars, tlsVars, closed, mech, sendVars>>
    <3>1. CallOK'
      BY <1>0, <1>b, <2>2, FailType DEF Errors
    <3>2. RestOK'
      BY <1>0, <2>2 DEF RestOK, capVars, peerVars, tlsVars, sendVars
    <3>. QED BY <3>1, <3>2, TypeSplitNext
  <2>. QED BY <1>6, <2>1, <2>2 DEF login
<1>7. CASE \E m \in Mechanisms : login_with(m)
  BY <1>7, <1>e
<1>8. CASE run_auth
  <2>1. PICK a \in {"auth1", "auth2", "auth3"} :
           /\ at = a
           /\ \/ Done("MailFrom", <<"AuthCompleted">>)
              \/ WriteThen(state, <<>>, Say("RESPONSE"), NextAuth[a])
              \/ Fail(<<>>, AuthFailure(a, Head(rx)), a)
    BY <1>8 DEF run_auth, Reply
  <2>x. CallOK'
    <3>1. CASE Done("MailFrom", <<"AuthCompleted">>)
      BY <1>0, <1>a, <3>1, DoneType DEF Events, SessionStates
    <3>2. CASE WriteThen(state, <<>>, Say("RESPONSE"), NextAuth[a])
      <4>1. state = "Authentication" /\ NextAuth[a] \in Suspended
        BY <2>1 DEF AtDecidesState, NextAuth, Suspended, Reading
      <4>2. Say("RESPONSE") \in Seq(Commands)
        BY <1>d, <4>1 DEF Verbs
      <4>. QED BY <1>0, <1>b, <3>2, <4>1, <4>2, WriteThenType DEF SessionStates
    <3>3. CASE Fail(<<>>, AuthFailure(a, Head(rx)), a)
      BY <1>0, <1>b, <2>1, <3>3, FailType DEF AuthFailure, Errors, Suspended, Reading
    <3>. QED BY <2>1, <3>1, <3>2, <3>3
  <2>y. RestOK'
    BY <1>8, <1>0, ReplyType DEF run_auth, RestOK, capVars, peerVars, tlsVars, sendVars
  <2>. QED BY <2>x, <2>y, TypeSplitNext
<1>9. CASE \E k \in {"mail", "utf8", "stream"} : check_send(k)
  <2>x. CallOK'
    BY <1>9, <1>0, <1>a, <1>b, FailType, RefuseType DEF check_send, Errors
  <2>y. RestOK'
    BY <1>9, <1>0 DEF check_send, RestOK, capVars, peerVars, tlsVars, sendVars
  <2>. QED BY <2>x, <2>y, TypeSplitNext
<1>10. CASE \E k \in {"mail", "utf8", "stream"}, c \in 1..MaxRcpts : send_mail(k, c)
  <2>1. PICK k \in {"mail", "utf8", "stream"}, c \in 1..MaxRcpts : send_mail(k, c)
    BY <1>10
  <2>2. sec \in {"plain", "tls"} /\ c \in Nat
    BY <1>0, <2>1, ActiveChannel DEF send_mail
  <2>3. <<MailCmd(c)>> \in Seq(Commands) /\ Pipeline(c) \in Seq(Commands)
    BY <1>0, <1>c, <2>2, CommandType, PipelineType DEF MailCmd, Verbs
  <2>x. CallOK'
    BY <2>1, <2>2, <2>3, <1>0, <1>a, <1>b, WriteThenType
    DEF send_mail, Suspended, Reading, SessionStates
  <2>y. RestOK'
    BY <2>1, <1>0 DEF send_mail, RestOK, BoundsAssumption, capVars, peerVars, tlsVars, sendVars
  <2>. QED BY <2>x, <2>y, TypeSplitNext
<1>11. CASE mail_reply
  <2>1. sec \in {"plain", "tls"}
    BY <1>11, <1>0, ActiveChannel DEF mail_reply, Reply, AtDecidesState
  <2>2. <<RcptCmd(1)>> \in Seq(Commands)
    BY <1>c, <2>1, CommandType DEF RcptCmd, Verbs
  <2>x. CallOK'
    BY <1>11, <2>1, <2>2, <1>0, <1>a, <1>b, FailType, WriteThenType, AwaitType
    DEF mail_reply, Events, Errors, Suspended, Reading, SessionStates
  <2>y. RestOK'
    BY <1>11, <1>0, ReplyType DEF mail_reply, RestOK, capVars, peerVars, tlsVars, sendVars
  <2>. QED BY <2>x, <2>y, TypeSplitNext
<1>12. CASE read_rcpt_reply
  <2>0. at = "rcpt" /\ state \in SessionStates /\ 1 <= todo /\ todo <= rcpts /\ todo \in Nat
    BY <1>12, <1>0 DEF read_rcpt_reply, Reply, Counts, RestOK, CallOK, BoundsAssumption
  <2>1. sec \in {"plain", "tls"}
    BY <1>12, <1>0, ActiveChannel DEF read_rcpt_reply, Reply, AtDecidesState
  <2>2. <<RcptCmd(rcpts - todo + 2)>> \in Seq(Commands)
    <3>1. rcpts - todo + 2 \in Nat
      BY <1>c, <2>0
    <3>. QED BY <1>c, <2>1, <3>1, CommandType DEF RcptCmd, Verbs
  <2>3. <<DataCmd>> \in Seq(Commands)
    BY <1>c, <2>1, CommandType DEF DataCmd, Verbs
  <2>x. CallOK'
    BY <1>12, <2>0, <2>2, <2>3, <1>0, <1>a, <1>b, FailType, WriteThenType, AwaitType
    DEF read_rcpt_reply, Events, Errors, Suspended, Reading, SessionStates
  <2>y. RestOK'
    BY <1>12, <1>0, <2>0, ReplyType DEF read_rcpt_reply, RestOK, BoundsAssumption, capVars,
       peerVars, tlsVars, sendVars
  <2>. QED BY <2>x, <2>y, TypeSplitNext
<1>13. CASE data_reply
  <2>1. sec \in {"plain", "tls"} /\ state \in SessionStates
    BY <1>13, <1>0, ActiveChannel DEF data_reply, Reply, AtDecidesState, CallOK
  <2>2. <<BodyCmd>> \in Seq(Commands)
    BY <1>c, <2>1, CommandType DEF BodyCmd, Verbs
  <2>x. CallOK'
    BY <1>13, <2>1, <2>2, <1>0, <1>a, <1>b, FailType, WriteThenType, AwaitType
    DEF data_reply, Errors, Suspended, Reading
  <2>y. RestOK'
    BY <1>13, <1>0, ReplyType DEF data_reply, RestOK, capVars, peerVars, tlsVars, sendVars
  <2>. QED BY <2>x, <2>y, TypeSplitNext
<1>14. CASE stream_body
  <2>1. sec \in {"plain", "tls"} /\ state \in SessionStates
    BY <1>14, <1>0, ActiveChannel DEF stream_body, Reply, AtDecidesState, CallOK
  <2>2. <<BodyCmd>> \in Seq(Commands)
    BY <1>c, <2>1, CommandType DEF BodyCmd, Verbs
  <2>x. CallOK'
    BY <1>14, <2>1, <2>2, <1>0, <1>a, <1>b, FailType, WriteThenType
    DEF stream_body, Errors, Suspended, Reading
  <2>y. RestOK'
    BY <1>14, <1>0 DEF stream_body, RestOK, capVars, peerVars, tlsVars, sendVars
  <2>. QED BY <2>x, <2>y, TypeSplitNext
<1>15. CASE final_reply
  <2>1. nsend \in 1..MaxSends
    BY <1>15 DEF final_reply, Reply, Counts
  <2>x. CallOK'
    BY <1>15, <1>0, <1>a, <1>b, FailType, DoneType
    DEF final_reply, Events, Errors, Suspended, Reading, SessionStates
  <2>y. RestOK'
    BY <1>15, <1>0, <2>1, ReplyType, ZenonT(30) DEF final_reply, RestOK, capVars, peerVars, tlsVars, sendVars
  <2>. QED BY <2>x, <2>y, TypeSplitNext
<1>16. CASE quit
  <2>x. CallOK'
    BY <1>16, <1>0, <1>a, <1>b, <1>d, WriteThenType
    DEF quit, can_transition_to, CallOK, Suspended, Reading, Verbs, SessionStates
  <2>y. RestOK'
    BY <1>16, <1>0 DEF quit, RestOK, capVars, peerVars, tlsVars, sendVars
  <2>. QED BY <2>x, <2>y, TypeSplitNext
<1>17. CASE quit_reply
  <2>x. CallOK'
    BY <1>17, <1>0, <1>a, <1>b, FailType DEF quit_reply, CallOK, Errors, Suspended, Reading
  <2>y. RestOK'
    BY <1>17, <1>0, ReplyType DEF quit_reply, RestOK, capVars, peerVars, tlsVars, sendVars
  <2>. QED BY <2>x, <2>y, TypeSplitNext
<1>18. CASE close_transport
  <2>1. audit' \in Seq(Events)
    BY <1>18, <1>0, AppendProperties DEF close_transport, CallOK, Events
  <2>x. CallOK'
    BY <1>18, <1>0, <2>1 DEF close_transport, CallOK, SessionStates
  <2>y. RestOK'
    BY <1>18, <1>0 DEF close_transport, RestOK, capVars, peerVars, tlsVars, sendVars
  <2>. QED BY <2>x, <2>y, TypeSplitNext
<1>19. CASE fill_buf
  <2>1. PICK k \in 1..Len(net) : rx' = SubSeq(net, 1, k) /\ net' = SubSeq(net, k + 1, Len(net))
    BY <1>19 DEF fill_buf
  <2>2. rx' \in Seq(Received) /\ net' \in Seq(Received)
    <3>1. Len(net) \in Nat /\ \A i \in 1..Len(net) : net[i] \in Received
      BY <1>0, LenProperties, ElementOfSeq DEF RestOK
    <3>. QED BY <2>1, <3>1, SubSeqProperties
  <2>x. CallOK'
    BY <1>19, <1>0 DEF fill_buf, CallOK, callVars
  <2>y. RestOK'
    BY <1>19, <1>0, <2>2 DEF fill_buf, RestOK, capVars, peerVars, tlsVars, sendVars
  <2>. QED BY <2>x, <2>y, TypeSplitNext
<1>20. CASE read_fails
  <2>x. CallOK'
    BY <1>20, <1>0, <1>a, <1>b, FailType DEF read_fails, Errors, Suspended
  <2>y. RestOK'
    BY <1>20, <1>0, HeadTailProperties, ZenonT(30) DEF read_fails, RestOK, capVars, peerVars, tlsVars, sendVars
  <2>. QED BY <2>x, <2>y, TypeSplitNext
<1>21. CASE invalid_input
  <2>x. CallOK'
    BY <1>21, <1>0, RefuseType DEF invalid_input, Errors
  <2>y. RestOK'
    BY <1>21, <1>0 DEF invalid_input, RestOK, capVars, peerVars, tlsVars, sendVars
  <2>. QED BY <2>x, <2>y, TypeSplitNext
<1>22. CASE send_message
  <2>x. CallOK'
    BY <1>22, <1>0, RefuseType DEF send_message, Errors
  <2>y. RestOK'
    BY <1>22, <1>0 DEF send_message, RestOK, capVars, peerVars, tlsVars, sendVars
  <2>. QED BY <2>x, <2>y, TypeSplitNext
<1>23. CASE Cancel
  <2>x. CallOK'
    BY <1>23, <1>0 DEF Cancel, CallOK, OnCancel, BoundsAssumption
  <2>y. RestOK'
    BY <1>23, <1>0 DEF Cancel, RestOK, capVars, peerVars, tlsVars, sendVars
  <2>. QED BY <2>x, <2>y, TypeSplitNext
<1>24. CASE Drop
  <2>x. CallOK'
    BY <1>24, <1>0 DEF Drop, CallOK
  <2>y. RestOK'
    BY <1>24, <1>0 DEF Drop, RestOK, capVars, peerVars, tlsVars, sendVars
  <2>. QED BY <2>x, <2>y, TypeSplitNext
<1>25. CASE \E r \in Replies, over \in {"plain", "tls"} : PeerReplies(r, over)
  <2>1. PICK r \in Replies, over \in {"plain", "tls"} : PeerReplies(r, over)
    BY <1>25
  <2>2. net' \in Seq(Received)
    <3>1. [code |-> r.code, caps |-> r.caps, ok |-> r.ok, sec |-> over] \in Received
      BY RepliesAssumption DEF Received
    <3>. QED BY <1>0, <2>1, <3>1, AppendProperties DEF PeerReplies, RestOK
  <2>x. CallOK'
    BY <1>25, <1>0 DEF PeerReplies, CallOK, callVars
  <2>y. RestOK'
    BY <1>25, <1>0, <2>2 DEF PeerReplies, RestOK, capVars, peerVars, tlsVars, sendVars
  <2>. QED BY <2>x, <2>y, TypeSplitNext
<1>26. CASE LinkDown
  <2>1. PICK k \in 0..Len(net) : net' = SubSeq(net, 1, k)
    BY <1>26 DEF LinkDown
  <2>2. net' \in Seq(Received)
    <3>1. Len(net) \in Nat /\ \A i \in 1..Len(net) : net[i] \in Received
      BY <1>0, LenProperties, ElementOfSeq DEF RestOK
    <3>. QED BY <2>1, <3>1, SubSeqProperties
  <2>x. CallOK'
    BY <1>26, <1>0 DEF LinkDown, CallOK, callVars
  <2>y. RestOK'
    BY <1>26, <1>0, <2>2 DEF LinkDown, RestOK, capVars, peerVars, tlsVars, sendVars
  <2>. QED BY <2>x, <2>y, TypeSplitNext
<1>27. CASE UNCHANGED vars
  <2>x. CallOK'
    BY <1>27, <1>0 DEF vars, CallOK
  <2>y. RestOK'
    BY <1>27, <1>0 DEF vars, RestOK
  <2>. QED BY <2>x, <2>y, TypeSplitNext
<1>. QED
  BY <1>1, <1>2, <1>3, <1>4, <1>5, <1>6, <1>7, <1>8, <1>9, <1>10, <1>11, <1>12, <1>13, <1>14,
     <1>15, <1>16, <1>17, <1>18, <1>19, <1>20, <1>21, <1>22, <1>23, <1>24, <1>25, <1>26, <1>27
  DEF Next, Client, Call, Resume, Peer, Terminated
-----------------------------------------------------------------------------
LEMMA InitInv == Init => TypeOK /\ Control
<1>1. Init => TypeOK
  <2>. SUFFICES ASSUME Init PROVE CallOK /\ RestOK
    BY TypeSplit
  <2>1. <<"Connected">> \in Seq(Events)
    BY DEF Events
  <2>2. CallOK
    BY <2>1, BoundsAssumption DEF Init, CallOK, SessionStates, Suspended, Reading
  <2>3. implicit \in BOOLEAN
    BY Zenon DEF Init
  <2>4. 0 \in 0..MaxRcpts /\ 0 \in 0..MaxSends
    BY BoundsAssumption
  <2>5. closed \in BOOLEAN /\ wantTls \in BOOLEAN /\ pipelining \in BOOLEAN
    BY Zenon DEF Init
  <2>6. rx \in Seq(Received) /\ net \in Seq(Received)
    BY DEF Init
  <2>7. /\ capabilities \in SUBSET Extensions /\ capsOver \in {"none", "plain", "tls"}
        /\ link \in {"up", "down"} /\ sec \in {"plain", "tls", "broken"}
        /\ mech \in Mechanisms /\ kind \in {"mail", "utf8", "stream"}
    BY Zenon DEF Init, Mechanisms
  <2>8. /\ rcpts \in 0..MaxRcpts /\ todo \in 0..MaxRcpts /\ nsend \in 0..MaxSends
        /\ oks \in SUBSET (1..MaxSends)
    BY <2>4, Zenon DEF Init
  <2>. QED BY <2>2, <2>3, <2>5, <2>6, <2>7, <2>8, Zenon DEF RestOK
<1>2. Init => Control
  BY DEF Init, Control, AtDecidesState, Counts, NoTlsNoSession
<1>. QED BY <1>1, <1>2

(* TypeOK and the agreement of await, state, counters and transport hold   *)
(* in every reachable state, for any peer and any caller.                  *)
THEOREM TypeCorrect == Spec => [](TypeOK /\ Control)
<1>1. TypeOK /\ Control /\ [Next]_vars => (TypeOK /\ Control)'
  BY TypeStep, ControlStep
<1>. QED BY InitInv, <1>1, PTL DEF Spec

-----------------------------------------------------------------------------
(* Nothing is carried across the upgrade. *)
CleanUpgrade == at = "upgrade" => rx = <<>> /\ capabilities = {}

ChannelInv == ChannelIntegrity /\ CleanUpgrade

(* Consuming a reply from a TLS channel leaves only replies from it. *)
LEMMA ReplyChannel ==
    ASSUME rx \in Seq(Received), ChannelIntegrity, NEW a, Reply(a), sec = "tls"
    PROVE  /\ Head(rx).sec = "tls"
           /\ \A i \in 1..Len(rx') : rx'[i].sec = "tls"
<1>1. Len(rx) \in Nat \ {0} /\ Head(rx) = rx[1]
  BY EmptySeq, LenProperties DEF Reply
<1>2. /\ Len(Tail(rx)) = Len(rx) - 1
      /\ \A i \in 1..Len(Tail(rx)) : Tail(rx)[i] = rx[i + 1]
  BY HeadTailProperties DEF Reply
<1>3. rx' = Tail(rx) /\ \A i \in 1..Len(rx) : rx[i].sec = "tls"
  BY DEF Reply, ChannelIntegrity
<1>. QED BY <1>1, <1>2, <1>3

(* No step mixes the channels. *)
LEMMA ChannelStep ==
    ASSUME TypeOK, Control, ChannelInv, [Next]_vars
    PROVE  ChannelInv'
<1>. USE DEF ChannelInv
<1>0. rx \in Seq(Received) /\ net \in Seq(Received)
  BY DEF TypeOK
<1>1. CASE read_greeting
  BY <1>1, <1>0, ReplyChannel, FailControl, WriteThenControl
  DEF read_greeting, Reply, capVars, peerVars, tlsVars, sendVars, ChannelIntegrity,
      CleanUpgrade, OnError, OnCancel
<1>2. CASE send_ehlo
  BY <1>2, <1>0, ReplyChannel, FailControl
  DEF send_ehlo, Done, capVars, peerVars, tlsVars, sendVars, ChannelIntegrity,
      CleanUpgrade, OnError, OnCancel
<1>3. CASE starttls
  BY <1>3, <1>0, FailControl, WriteThenControl
  DEF starttls, capVars, peerVars, tlsVars, sendVars, ChannelIntegrity, CleanUpgrade,
      OnError, OnCancel
<1>4. CASE starttls_reply
  <2>1. UNCHANGED <<sec, capsOver>> /\ Reply("starttls")
    BY <1>4 DEF starttls_reply, tlsVars
  <2>2. sec = "tls" => \A i \in 1..Len(rx') : rx'[i].sec = "tls"
    BY <1>0, <2>1, ReplyChannel
  <2>3. CASE ~residue /\ capabilities' = {}
    BY <2>1, <2>2, <2>3 DEF residue, Reply, ChannelIntegrity, CleanUpgrade
  <2>4. CASE Fail(<<>>, "Protocol", "starttls") /\ UNCHANGED capabilities
    BY <2>1, <2>2, <2>4, FailControl DEF OnError, ChannelIntegrity, CleanUpgrade
  <2>. QED BY <1>4, <2>3, <2>4 DEF starttls_reply
<1>5. CASE upgrade_to_tls
  <2>1. rx' = <<>> /\ capabilities' = {} /\ Len(rx') = 0
    BY <1>5, EmptySeq DEF upgrade_to_tls, capVars, CleanUpgrade
  <2>. QED BY <2>1 DEF ChannelIntegrity, CleanUpgrade
<1>6. CASE login
  BY <1>6, <1>0, FailControl, WriteThenControl
  DEF login, login_with, MayLogin, Refuse, capVars, peerVars, tlsVars, sendVars,
      ChannelIntegrity, CleanUpgrade, OnError, OnCancel
<1>7. CASE \E m \in Mechanisms : login_with(m)
  BY <1>7, <1>0, FailControl, WriteThenControl
  DEF login_with, MayLogin, Refuse, capVars, peerVars, tlsVars, sendVars,
      ChannelIntegrity, CleanUpgrade, OnError, OnCancel
<1>8. CASE run_auth
  <2>1. UNCHANGED <<sec, capabilities, capsOver>>
    BY <1>8 DEF run_auth, capVars, tlsVars
  <2>2. PICK a : Reply(a)
    BY <1>8 DEF run_auth
  <2>3. at' # "upgrade"
    BY <1>8, FailControl, WriteThenControl DEF run_auth, NextAuth, Done, OnError, OnCancel
  <2>4. sec = "tls" => \A i \in 1..Len(rx') : rx'[i].sec = "tls"
    BY <1>0, <2>2, ReplyChannel
  <2>. QED BY <2>1, <2>3, <2>4 DEF ChannelIntegrity, CleanUpgrade
<1>9. CASE \E k \in {"mail", "utf8", "stream"} : check_send(k)
  BY <1>9, <1>0, FailControl
  DEF check_send, Refuse, capVars, peerVars, tlsVars, sendVars, ChannelIntegrity,
      CleanUpgrade, OnError, OnCancel
<1>10. CASE \E k \in {"mail", "utf8", "stream"}, c \in 1..MaxRcpts : send_mail(k, c)
  BY <1>10, <1>0, WriteThenControl
  DEF send_mail, capVars, peerVars, tlsVars, sendVars, ChannelIntegrity, CleanUpgrade,
      OnError, OnCancel
<1>11. CASE mail_reply
  BY <1>11, <1>0, ReplyChannel, FailControl, WriteThenControl, SMTT(20)
  DEF mail_reply, Reply, Await, capVars, peerVars, tlsVars, sendVars, ChannelIntegrity,
      CleanUpgrade, OnError, OnCancel
<1>12. CASE read_rcpt_reply
  BY <1>12, <1>0, ReplyChannel, FailControl, WriteThenControl, SMTT(20)
  DEF read_rcpt_reply, Reply, Await, capVars, peerVars, tlsVars, sendVars,
      ChannelIntegrity, CleanUpgrade, OnError, OnCancel
<1>13. CASE data_reply
  BY <1>13, <1>0, ReplyChannel, FailControl, WriteThenControl
  DEF data_reply, Reply, Await, capVars, peerVars, tlsVars, sendVars, ChannelIntegrity,
      CleanUpgrade, OnError, OnCancel
<1>14. CASE stream_body
  BY <1>14, <1>0, FailControl, WriteThenControl
  DEF stream_body, capVars, peerVars, tlsVars, sendVars, ChannelIntegrity, CleanUpgrade,
      OnError, OnCancel
<1>15. CASE final_reply
  BY <1>15, <1>0, ReplyChannel, FailControl
  DEF final_reply, Done, capVars, peerVars, tlsVars, sendVars, ChannelIntegrity,
      CleanUpgrade, OnError, OnCancel
<1>16. CASE quit
  BY <1>16, <1>0, WriteThenControl
  DEF quit, capVars, peerVars, tlsVars, sendVars, ChannelIntegrity, CleanUpgrade,
      OnError, OnCancel
<1>17. CASE quit_reply
  BY <1>17, <1>0, ReplyChannel, FailControl
  DEF quit_reply, capVars, peerVars, tlsVars, sendVars, ChannelIntegrity, CleanUpgrade,
      OnError, OnCancel
<1>18. CASE close_transport
  BY <1>18, <1>0
  DEF close_transport, capVars, peerVars, tlsVars, sendVars, ChannelIntegrity,
      CleanUpgrade, OnError, OnCancel
<1>19. CASE fill_buf
  <2>1. PICK k \in 1..Len(net) : /\ \A i \in 1..k : net[i].sec = sec
                                /\ rx' = SubSeq(net, 1, k)
    BY <1>19 DEF fill_buf
  <2>2. Len(net) \in Nat /\ \A i \in 1..Len(net) : net[i] \in Received
    BY <1>0, LenProperties, ElementOfSeq
  <2>3. k \in Int /\ \A i \in 1..k : net[i] \in Received
    BY <2>2
  <2>4. Len(rx') = k /\ \A i \in 1..k : rx'[i] = net[i]
    BY <2>1, <2>2, <2>3, SubSeqProperties
  <2>5. at' # "upgrade" /\ UNCHANGED <<sec, capabilities, capsOver>>
    BY <1>19 DEF fill_buf, callVars, capVars, tlsVars, Reading
  <2>. QED BY <2>1, <2>3, <2>4, <2>5 DEF ChannelIntegrity, CleanUpgrade
<1>20. CASE read_fails
  <2>1. at' # "upgrade" /\ UNCHANGED <<sec, capabilities, capsOver>>
    BY <1>20, FailControl DEF read_fails, OnError, capVars, tlsVars
  <2>2. CASE rx' = rx
    BY <2>1, <2>2 DEF ChannelIntegrity, CleanUpgrade
  <2>3. CASE rx # <<>> /\ rx' = Tail(rx)
    <3>1. /\ Len(rx) \in Nat /\ Len(Tail(rx)) = Len(rx) - 1
          /\ \A i \in 1..Len(Tail(rx)) : Tail(rx)[i] = rx[i + 1]
      BY <1>0, <2>3, HeadTailProperties, LenProperties
    <3>. QED BY <2>1, <2>3, <3>1 DEF ChannelIntegrity, CleanUpgrade
  <2>. QED BY <1>20, <2>2, <2>3 DEF read_fails
<1>21. CASE invalid_input
  BY <1>21, <1>0
  DEF invalid_input, Refuse, capVars, peerVars, tlsVars, sendVars, ChannelIntegrity,
      CleanUpgrade, OnError, OnCancel
<1>22. CASE send_message
  BY <1>22, <1>0
  DEF send_message, Refuse, capVars, peerVars, tlsVars, sendVars, ChannelIntegrity,
      CleanUpgrade, OnError, OnCancel
<1>23. CASE Cancel
  BY <1>23, <1>0
  DEF Cancel, capVars, peerVars, tlsVars, sendVars, ChannelIntegrity, CleanUpgrade,
      OnError, OnCancel
<1>24. CASE Drop
  BY <1>24, <1>0
  DEF Drop, capVars, peerVars, tlsVars, sendVars, ChannelIntegrity, CleanUpgrade,
      OnError, OnCancel
<1>25. CASE \E r \in Replies, over \in {"plain", "tls"} : PeerReplies(r, over)
  BY <1>25, <1>0
  DEF PeerReplies, callVars, capVars, peerVars, tlsVars, sendVars, ChannelIntegrity,
      CleanUpgrade, OnError, OnCancel
<1>26. CASE LinkDown
  BY <1>26, <1>0
  DEF LinkDown, callVars, capVars, peerVars, tlsVars, sendVars, ChannelIntegrity,
      CleanUpgrade, OnError, OnCancel
<1>27. CASE UNCHANGED vars
  BY <1>27, <1>0
  DEF vars, capVars, peerVars, tlsVars, sendVars, ChannelIntegrity, CleanUpgrade,
      OnError, OnCancel
<1>. QED
  BY <1>1, <1>2, <1>3, <1>4, <1>5, <1>6, <1>7, <1>8, <1>9, <1>10, <1>11, <1>12, <1>13,
     <1>14, <1>15, <1>16, <1>17, <1>18, <1>19, <1>20, <1>21, <1>22, <1>23, <1>24, <1>25,
     <1>26, <1>27
  DEF Next, Client, Call, Resume, Peer, Terminated

(* The property ChannelIntegrity: nothing that arrived in the clear is     *)
(* believed once the transport is TLS (the residue check and the cleared   *)
(* capabilities of starttls).                                              *)
THEOREM ChannelsNeverMix == Spec => []ChannelIntegrity
<1>1. Init => ChannelInv
  BY EmptySeq DEF Init, ChannelInv, ChannelIntegrity, CleanUpgrade
<1>2. TypeOK /\ Control /\ ChannelInv /\ [Next]_vars => ChannelInv'
  BY ChannelStep
<1>3. ChannelInv => ChannelIntegrity
  BY DEF ChannelInv
<1>. QED BY TypeCorrect, <1>1, <1>2, <1>3, PTL DEF Spec
-----------------------------------------------------------------------------
(* c is one of cmds, perhaps torn. *)
OneOf(c, cmds) ==
    \E j \in 1..Len(cmds) :
        /\ c.verb = cmds[j].verb /\ c.over = cmds[j].over
        /\ c.msg = cmds[j].msg /\ c.arg = cmds[j].arg

(* What WriteThen adds to wrote are commands it was given. *)
LEMMA Written ==
    ASSUME CallOK, NEW s, NEW ev, NEW cmds \in Seq(Commands), NEW a,
           WriteThen(s, ev, cmds, a), NEW i \in (Len(wrote) + 1)..Len(wrote')
    PROVE  OneOf(wrote'[i], cmds)
<1>0. wrote \in Seq(Commands) /\ Len(wrote) \in Nat /\ Len(cmds) \in Nat
  BY LenProperties DEF CallOK
<1>1. CASE wrote' = wrote
  BY <1>0, <1>1
<1>2. CASE wrote' = wrote \o cmds
  <2>1. Len(wrote') = Len(wrote) + Len(cmds) /\ wrote'[i] = cmds[i - Len(wrote)]
    BY <1>0, <1>2, ConcatProperties
  <2>. QED BY <1>0, <2>1 DEF OneOf
<1>3. ASSUME NEW k \in 0..(Len(cmds) - 1),
             \/ wrote' = wrote \o SubSeq(cmds, 1, k)
             \/ wrote' = wrote \o SubSeq(cmds, 1, k) \o <<[cmds[k + 1] EXCEPT !.whole = FALSE]>>
      PROVE  OneOf(wrote'[i], cmds)
  <2>1. k \in Int /\ k + 1 \in 1..Len(cmds) /\ \A j \in 1..Len(cmds) : cmds[j] \in Commands
    BY <1>0, ElementOfSeq
  <2>2. /\ SubSeq(cmds, 1, k) \in Seq(Commands) /\ Len(SubSeq(cmds, 1, k)) = k
        /\ \A j \in 1..k : SubSeq(cmds, 1, k)[j] = cmds[j]
    BY <1>0, <2>1, SubSeqProperties
  <2>3. /\ wrote \o SubSeq(cmds, 1, k) \in Seq(Commands)
        /\ Len(wrote \o SubSeq(cmds, 1, k)) = Len(wrote) + k
        /\ \A j \in (Len(wrote) + 1)..(Len(wrote) + k) :
              (wrote \o SubSeq(cmds, 1, k))[j] = cmds[j - Len(wrote)]
    BY <1>0, <2>1, <2>2, ConcatProperties
  <2>4. CASE wrote' = wrote \o SubSeq(cmds, 1, k)
    <3>1. wrote'[i] = cmds[i - Len(wrote)] /\ i - Len(wrote) \in 1..Len(cmds)
      BY <1>0, <2>1, <2>3, <2>4
    <3>. QED BY <3>1 DEF OneOf
  <2>5. CASE wrote' = wrote \o SubSeq(cmds, 1, k) \o <<[cmds[k + 1] EXCEPT !.whole = FALSE]>>
    <3>. DEFINE w == wrote \o SubSeq(cmds, 1, k)
                torn == [cmds[k + 1] EXCEPT !.whole = FALSE]
    <3>1. torn \in Commands
      BY <2>1 DEF Commands
    <3>2. <<torn>> \in Seq(Commands) /\ Len(<<torn>>) = 1 /\ <<torn>>[1] = torn
      BY <3>1
    <3>. HIDE DEF torn
    <3>3. /\ Len(w \o <<torn>>) = Len(w) + 1
          /\ \A j \in 1..(Len(w) + 1) :
                (w \o <<torn>>)[j] = IF j <= Len(w) THEN w[j] ELSE <<torn>>[j - Len(w)]
      BY <2>3, <3>2, ConcatProperties
    <3>4. wrote' = w \o <<torn>>
      BY <2>5 DEF torn
    <3>5. CASE i <= Len(w)
      <4>1. wrote'[i] = cmds[i - Len(wrote)] /\ i - Len(wrote) \in 1..Len(cmds)
        BY <1>0, <2>1, <2>3, <3>3, <3>4, <3>5
      <4>. QED BY <4>1 DEF OneOf
    <3>6. CASE ~(i <= Len(w))
      <4>1. wrote'[i] = torn
        <5>0. Len(w) \in Int /\ Len(wrote') = Len(w) + 1
          BY <1>0, <2>1, <2>3, <3>3, <3>4
        <5>. HIDE DEF w
        <5>1. i = Len(w) + 1 /\ i - Len(w) = 1
          BY <1>0, <3>6, <5>0
        <5>. QED BY <3>2, <3>3, <3>4, <5>0, <5>1
      <4>2. /\ torn.verb = cmds[k + 1].verb /\ torn.over = cmds[k + 1].over
            /\ torn.msg = cmds[k + 1].msg /\ torn.arg = cmds[k + 1].arg
        BY <2>1 DEF torn, Commands
      <4>. QED BY <2>1, <4>1, <4>2 DEF OneOf
    <3>. QED BY <3>5, <3>6
  <2>. QED BY <1>3, <2>4, <2>5
<1>. QED BY <1>1, <1>2, <1>3 DEF WriteThen, Fail

(* A lone command. *)
LEMMA WrittenOne ==
    ASSUME CallOK, NEW s, NEW ev, NEW c \in Commands, NEW a,
           WriteThen(s, ev, <<c>>, a), NEW i \in (Len(wrote) + 1)..Len(wrote')
    PROVE  /\ wrote'[i].verb = c.verb /\ wrote'[i].over = c.over
           /\ wrote'[i].msg = c.msg /\ wrote'[i].arg = c.arg
<1>1. <<c>> \in Seq(Commands) /\ Len(<<c>>) = 1 /\ <<c>>[1] = c
  OBVIOUS
<1>2. OneOf(wrote'[i], <<c>>)
  BY <1>1, Written
<1>3. PICK j \in 1..Len(<<c>>) :
        /\ wrote'[i].verb = <<c>>[j].verb /\ wrote'[i].over = <<c>>[j].over
        /\ wrote'[i].msg = <<c>>[j].msg /\ wrote'[i].arg = <<c>>[j].arg
  BY <1>2 DEF OneOf
<1>4. j = 1
  BY <1>1, <1>3
<1>. QED BY <1>1, <1>3, <1>4

(* A command a step may write: in the clear only before TLS was asked for,  *)
(* unless it is STARTTLS itself; on the channel there is; no more than EHLO *)
(* before the client is ready; the body only in reply to DATA.              *)
Good(c) ==
    /\ ~wantTls \/ c.over = "tls" \/ c.verb = "STARTTLS"
    /\ sec = "tls" => c.over = "tls"
    /\ c.over = "tls" => sec' = "tls"
    /\ at \in {"greeting", "ehlo", "upgrade"} => c.verb = "EHLO"
    /\ c.verb = "BODY" => at \in {"data", "body"} /\ c.arg = rcpts

OnlyGood == \A i \in (Len(wrote) + 1)..Len(wrote') : Good(wrote'[i])

(* One good command, and the session is in a state to write it in. *)
LEMMA WritesOne ==
    ASSUME CallOK, NEW s, NEW ev, NEW a,
           NEW verb \in Verbs, NEW over \in {"plain", "tls"}, NEW msg \in Nat, NEW arg \in Nat,
           WriteThen(s, ev, <<Command(verb, over, msg, arg)>>, a),
           Good(Command(verb, over, msg, arg))
    PROVE  OnlyGood
<1>1. Command(verb, over, msg, arg) \in Commands
  BY CommandType
<1>. QED BY <1>1, WrittenOne DEF OnlyGood, Good

(* The pipelined batch holds no body. *)
LEMMA WritesPipeline ==
    ASSUME CallOK, RestOK, NEW s, NEW ev, NEW a, NEW c \in 1..MaxRcpts,
           sec \in {"plain", "tls"}, ~wantTls \/ sec = "tls", sec' = sec, at = "idle",
           WriteThen(s, ev, Pipeline(c), a)
    PROVE  OnlyGood
<1>0. c \in Nat /\ c + 2 \in Nat /\ nsend + 1 \in Nat
  BY BoundsAssumption DEF RestOK
<1>1. Pipeline(c) \in Seq(Commands) /\ Len(Pipeline(c)) = c + 2
  <2>1. Pipeline(c) \in Seq(Commands) /\ DOMAIN Pipeline(c) = 1..(c + 2)
    BY PipelineType DEF Pipeline
  <2>. QED BY <1>0, <2>1, LenProperties
<1>2. \A j \in 1..(c + 2) : Pipeline(c)[j].verb # "BODY" /\ Pipeline(c)[j].over = sec
  BY <1>0 DEF Pipeline, MailCmd, RcptCmd, DataCmd, Command
<1>. SUFFICES ASSUME NEW i \in (Len(wrote) + 1)..Len(wrote') PROVE Good(wrote'[i])
  BY DEF OnlyGood
<1>3. PICK j \in 1..Len(Pipeline(c)) :
        wrote'[i].verb = Pipeline(c)[j].verb /\ wrote'[i].over = Pipeline(c)[j].over
  BY <1>1, Written DEF OneOf
<1>4. wrote'[i].verb # "BODY" /\ wrote'[i].over = sec
  BY <1>1, <1>2, <1>3
<1>. QED BY <1>4 DEF Good

(* Nothing new is nothing bad. *)
LEMMA WritesNothing ==
    ASSUME CallOK, wrote' = wrote
    PROVE  OnlyGood
<1>1. Len(wrote) \in Nat
  BY LenProperties DEF CallOK
<1>. QED BY <1>1 DEF OnlyGood

(* What any step writes. *)
LEMMA StepWrites ==
    ASSUME TypeOK, Control, [Next]_vars
    PROVE  OnlyGood
<1>. USE DEF Control
<1>0. CallOK /\ RestOK /\ 0 \in Nat /\ nsend \in Nat /\ nsend + 1 \in Nat /\ rcpts \in Nat
  BY TypeSplit, BoundsAssumption DEF RestOK
<1>a. ASSUME state \notin {"StartTls", "Closed"}
      PROVE  sec \in {"plain", "tls"} /\ (~wantTls \/ sec = "tls")
  BY <1>0, <1>a DEF NoTlsNoSession, RestOK
<1>b. ASSUME NEW m, login_with(m) PROVE OnlyGood
  <2>1. sec \in {"plain", "tls"} /\ (~wantTls \/ sec = "tls") /\ sec' = sec /\ at = "idle"
    BY <1>a, <1>b DEF login_with, MayLogin, tlsVars
  <2>2. Good(Command("AUTH", sec, 0, 0))
    BY <2>1 DEF Good, Command
  <2>3. CASE WriteThen(state, <<>>, Say("AUTH"), "auth1")
    BY <1>0, <2>1, <2>2, <2>3, WritesOne DEF Verbs, Say
  <2>4. CASE wrote' = wrote
    BY <1>0, <2>4, WritesNothing
  <2>. QED BY <1>b, <2>3, <2>4, FailControl DEF login_with, Refuse
<1>1. CASE read_greeting
  <2>1. sec \in {"plain", "tls"} /\ (~wantTls \/ sec = "tls") /\ sec' = sec /\ at = "greeting"
    BY <1>1, <1>a DEF read_greeting, Reply, AtDecidesState, tlsVars
  <2>2. Good(Command("EHLO", sec, 0, 0))
    BY <2>1 DEF Good, Command
  <2>3. CASE WriteThen("Ehlo", <<"GreetingReceived">>, Say("EHLO"), "ehlo")
    BY <1>0, <2>1, <2>2, <2>3, WritesOne DEF Verbs, Say
  <2>4. CASE wrote' = wrote
    BY <1>0, <2>4, WritesNothing
  <2>. QED
    BY <1>1, <2>3, <2>4, FailControl DEF read_greeting
<1>2. CASE send_ehlo
  BY <1>2, <1>0, FailControl, WritesNothing DEF send_ehlo, Done
<1>3. CASE starttls
  <2>1. sec \in {"plain", "tls"} /\ (~wantTls \/ sec = "tls") /\ sec' = sec /\ at = "idle"
    BY <1>3, <1>a DEF starttls, tlsVars
  <2>2. Good(Command("STARTTLS", sec, 0, 0))
    BY <2>1 DEF Good, Command
  <2>3. CASE WriteThen("StartTls", <<>>, Say("STARTTLS"), "starttls")
    BY <1>0, <2>1, <2>2, <2>3, WritesOne DEF Verbs, Say
  <2>4. CASE wrote' = wrote
    BY <1>0, <2>4, WritesNothing
  <2>. QED
    BY <1>3, <2>3, <2>4, FailControl DEF starttls
<1>4. CASE starttls_reply
  BY <1>4, <1>0, FailControl, WritesNothing DEF starttls_reply, Await
<1>5. CASE upgrade_to_tls
  <2>1. at = "upgrade"
    BY <1>5 DEF upgrade_to_tls
  <2>2. CASE /\ sec' = "tls"
             /\ WriteThen("Ehlo", <<"TlsUpgraded">>, <<Command("EHLO", "tls", 0, 0)>>, "reehlo")
    <3>1. Good(Command("EHLO", "tls", 0, 0))
      BY <2>1, <2>2 DEF Good, Command
    <3>. QED BY <1>0, <2>2, <3>1, WritesOne DEF Verbs
  <2>3. CASE wrote' = wrote
    BY <1>0, <2>3, WritesNothing
  <2>. QED BY <1>5, <2>2, <2>3, FailControl DEF upgrade_to_tls
<1>6. CASE login
  BY <1>6, <1>0, <1>b, FailControl, WritesNothing DEF login
<1>7. CASE \E m \in Mechanisms : login_with(m)
  BY <1>7, <1>b
<1>8. CASE run_auth
  <2>1. sec \in {"plain", "tls"} /\ (~wantTls \/ sec = "tls") /\ sec' = sec /\ at \in {"auth1", "auth2", "auth3"}
    BY <1>8, <1>a DEF run_auth, Reply, AtDecidesState, tlsVars
  <2>2. Good(Command("RESPONSE", sec, 0, 0))
    BY <2>1 DEF Good, Command
  <2>3. ASSUME NEW a, WriteThen(state, <<>>, Say("RESPONSE"), a) PROVE OnlyGood
    BY <1>0, <2>1, <2>2, <2>3, WritesOne DEF Verbs, Say
  <2>4. CASE wrote' = wrote
    BY <1>0, <2>4, WritesNothing
  <2>. QED BY <1>8, <2>3, <2>4, FailControl DEF run_auth, Done
<1>9. CASE \E k \in {"mail", "utf8", "stream"} : check_send(k)
  BY <1>9, <1>0, FailControl, WritesNothing DEF check_send, Refuse
<1>10. CASE \E k \in {"mail", "utf8", "stream"}, c \in 1..MaxRcpts : send_mail(k, c)
  <2>1. PICK k \in {"mail", "utf8", "stream"}, c \in 1..MaxRcpts : send_mail(k, c)
    BY <1>10
  <2>2. sec \in {"plain", "tls"} /\ (~wantTls \/ sec = "tls") /\ sec' = sec /\ at = "idle"
    BY <1>a, <2>1 DEF send_mail, tlsVars
  <2>c. c \in Nat
    OBVIOUS
  <2>3. Good(Command("MAIL", sec, nsend + 1, c))
    BY <2>2 DEF Good, Command
  <2>4. CASE WriteThen("Data", <<>>, Pipeline(c), "mail")
    BY <1>0, <2>2, <2>4, WritesPipeline
  <2>5. CASE WriteThen("MailFrom", <<>>, <<MailCmd(c)>>, "mail")
    BY <1>0, <2>2, <2>c, <2>3, <2>5, WritesOne DEF Verbs, MailCmd
  <2>. QED BY <2>1, <2>4, <2>5 DEF send_mail
<1>11. CASE mail_reply
  <2>1. sec \in {"plain", "tls"} /\ (~wantTls \/ sec = "tls") /\ sec' = sec /\ at = "mail"
    BY <1>11, <1>a DEF mail_reply, Reply, AtDecidesState, tlsVars
  <2>2. Good(Command("RCPT", sec, nsend, 1))
    BY <2>1 DEF Good, Command
  <2>3. CASE WriteThen("RcptTo", <<"MailFromAccepted">>, <<RcptCmd(1)>>, "rcpt")
    BY <1>0, <2>1, <2>2, <2>3, WritesOne DEF Verbs, RcptCmd
  <2>4. CASE wrote' = wrote
    BY <1>0, <2>4, WritesNothing
  <2>. QED
    BY <1>11, <2>3, <2>4, FailControl DEF mail_reply, Await
<1>12. CASE read_rcpt_reply
  <2>1. sec \in {"plain", "tls"} /\ (~wantTls \/ sec = "tls") /\ sec' = sec /\ at = "rcpt"
    BY <1>12, <1>a DEF read_rcpt_reply, Reply, AtDecidesState, tlsVars
  <2>2. rcpts - todo + 2 \in Nat
    BY <1>12, <1>0 DEF read_rcpt_reply, Reply, Counts, RestOK
  <2>3. /\ Good(Command("RCPT", sec, nsend, rcpts - todo + 2))
        /\ Good(Command("DATA", sec, nsend, 0))
    BY <2>1 DEF Good, Command
  <2>4. CASE WriteThen(state, <<"RecipientAccepted">>, <<RcptCmd(rcpts - todo + 2)>>, "rcpt")
    BY <1>0, <2>1, <2>2, <2>3, <2>4, WritesOne DEF Verbs, RcptCmd
  <2>5. CASE WriteThen("Data", <<"RecipientAccepted">>, <<DataCmd>>, "data")
    BY <1>0, <2>1, <2>3, <2>5, WritesOne DEF Verbs, DataCmd
  <2>6. CASE wrote' = wrote
    BY <1>0, <2>6, WritesNothing
  <2>. QED BY <1>12, <2>4, <2>5, <2>6, FailControl DEF read_rcpt_reply, Await
<1>13. CASE data_reply
  <2>1. sec \in {"plain", "tls"} /\ (~wantTls \/ sec = "tls") /\ sec' = sec /\ at = "data"
    BY <1>13, <1>a DEF data_reply, Reply, AtDecidesState, tlsVars
  <2>2. Good(Command("BODY", sec, nsend, rcpts))
    BY <2>1, <1>13 DEF Good, Command, data_reply, Reply
  <2>3. CASE WriteThen(state, <<>>, <<BodyCmd>>, "final")
    BY <1>0, <2>1, <2>2, <2>3, WritesOne DEF Verbs, BodyCmd
  <2>4. CASE wrote' = wrote
    BY <1>0, <2>4, WritesNothing
  <2>. QED
    BY <1>13, <2>3, <2>4, FailControl DEF data_reply, Await
<1>14. CASE stream_body
  <2>1. sec \in {"plain", "tls"} /\ (~wantTls \/ sec = "tls") /\ sec' = sec /\ at = "body"
    BY <1>14, <1>a DEF stream_body, AtDecidesState, tlsVars
  <2>2. Good(Command("BODY", sec, nsend, rcpts))
    BY <2>1, <1>14 DEF Good, Command, stream_body, Reply
  <2>3. CASE WriteThen(state, <<>>, <<BodyCmd>>, "final")
    BY <1>0, <2>1, <2>2, <2>3, WritesOne DEF Verbs, BodyCmd
  <2>4. CASE wrote' = wrote
    BY <1>0, <2>4, WritesNothing
  <2>. QED
    BY <1>14, <2>3, <2>4, FailControl DEF stream_body
<1>15. CASE final_reply
  BY <1>15, <1>0, FailControl, WritesNothing DEF final_reply, Done
<1>16. CASE quit
  <2>1. CASE state \notin {"StartTls", "Closed"} /\ WriteThen("Quit", <<>>, Say("QUIT"), "quit")
    <3>1. sec \in {"plain", "tls"} /\ (~wantTls \/ sec = "tls") /\ sec' = sec /\ at = "idle"
      BY <1>16, <1>a, <2>1 DEF quit, tlsVars
    <3>2. Good(Command("QUIT", sec, 0, 0))
      BY <3>1 DEF Good, Command
    <3>. QED BY <1>0, <2>1, <3>1, <3>2, WritesOne DEF Verbs, Say
  <2>2. CASE wrote' = wrote
    BY <1>0, <2>2, WritesNothing
  <2>. QED BY <1>16, <2>1, <2>2 DEF quit, can_transition_to
<1>17. CASE quit_reply
  BY <1>17, <1>0, FailControl, WritesNothing DEF quit_reply
<1>18. CASE close_transport
  BY <1>18, <1>0, WritesNothing DEF close_transport
<1>19. CASE fill_buf
  BY <1>19, <1>0, WritesNothing DEF fill_buf, callVars
<1>20. CASE read_fails
  BY <1>20, <1>0, FailControl, WritesNothing DEF read_fails
<1>21. CASE invalid_input
  BY <1>21, <1>0, WritesNothing DEF invalid_input, Refuse
<1>22. CASE send_message
  BY <1>22, <1>0, WritesNothing DEF send_message, Refuse
<1>23. CASE Cancel
  BY <1>23, <1>0, WritesNothing DEF Cancel
<1>24. CASE Drop
  BY <1>24, <1>0, WritesNothing DEF Drop
<1>25. CASE \E r \in Replies, over \in {"plain", "tls"} : PeerReplies(r, over)
  BY <1>25, <1>0, WritesNothing DEF PeerReplies, callVars
<1>26. CASE LinkDown
  BY <1>26, <1>0, WritesNothing DEF LinkDown, callVars
<1>27. CASE UNCHANGED vars
  BY <1>27, <1>0, WritesNothing DEF vars
<1>. QED
  BY <1>1, <1>2, <1>3, <1>4, <1>5, <1>6, <1>7, <1>8, <1>9, <1>10, <1>11, <1>12, <1>13,
     <1>14, <1>15, <1>16, <1>17, <1>18, <1>19, <1>20, <1>21, <1>22, <1>23, <1>24, <1>25,
     <1>26, <1>27
  DEF Next, Client, Call, Resume, Peer, Terminated

(* The property NoPlaintextFallback: after the caller's first STARTTLS no   *)
(* command but STARTTLS leaves in the clear, whatever failed or was         *)
(* abandoned (starttls.rs:67-143).                                          *)
THEOREM NeverFallsBack == Spec => NoPlaintextFallback
<1>1. TypeOK /\ Control /\ [Next]_vars =>
        [wantTls => \A i \in (Len(wrote) + 1)..Len(wrote') :
            wrote'[i].over = "tls" \/ wrote'[i].verb = "STARTTLS"]_vars
  BY StepWrites DEF OnlyGood, Good
<1>. QED BY TypeCorrect, <1>1, PTL DEF Spec, NoPlaintextFallback
-----------------------------------------------------------------------------
(* A closed session is final: every handler that could revive it resumes    *)
(* from an await in which the session is not closed.                        *)
LEMMA FinalStep ==
    ASSUME TypeOK, Control, [Next]_vars, state = "Closed"
    PROVE  state' = "Closed" /\ wrote' = wrote /\ oks' = oks
<1>. USE DEF Control
<1>0. pipelining \in BOOLEAN
  BY DEF TypeOK
<1>1. CASE read_greeting
  BY <1>1, <1>0 DEF read_greeting, Reply, AtDecidesState
<1>2. CASE send_ehlo
  BY <1>2, <1>0 DEF send_ehlo, Reply, AtDecidesState
<1>3. CASE starttls
  BY <1>3, <1>0 DEF starttls
<1>4. CASE starttls_reply
  BY <1>4, <1>0 DEF starttls_reply, Reply, AtDecidesState
<1>5. CASE upgrade_to_tls
  BY <1>5, <1>0 DEF upgrade_to_tls, AtDecidesState
<1>6. CASE login
  BY <1>6, <1>0 DEF login, login_with, MayLogin
<1>7. CASE \E m \in Mechanisms : login_with(m)
  BY <1>7, <1>0 DEF login_with, MayLogin
<1>8. CASE run_auth
  BY <1>8, <1>0 DEF run_auth, Reply, AtDecidesState
<1>9. CASE \E k \in {"mail", "utf8", "stream"} : check_send(k)
  BY <1>9, <1>0 DEF check_send
<1>10. CASE \E k \in {"mail", "utf8", "stream"}, c \in 1..MaxRcpts : send_mail(k, c)
  BY <1>10, <1>0 DEF send_mail
<1>11. CASE mail_reply
  BY <1>11, <1>0 DEF mail_reply, Reply, AtDecidesState
<1>12. CASE read_rcpt_reply
  BY <1>12, <1>0 DEF read_rcpt_reply, Reply, AtDecidesState
<1>13. CASE data_reply
  BY <1>13, <1>0 DEF data_reply, Reply, AtDecidesState
<1>14. CASE stream_body
  BY <1>14, <1>0 DEF stream_body, AtDecidesState
<1>15. CASE final_reply
  BY <1>15, <1>0 DEF final_reply, Reply, AtDecidesState
<1>16. CASE quit
  BY <1>16, <1>0 DEF quit, sendVars
<1>17. CASE quit_reply
  BY <1>17, <1>0 DEF quit_reply, Reply, AtDecidesState
<1>18. CASE close_transport
  BY <1>18, <1>0 DEF close_transport, sendVars
<1>19. CASE fill_buf
  BY <1>19, <1>0 DEF fill_buf, callVars, sendVars
<1>20. CASE read_fails
  BY <1>20, <1>0, FailControl DEF read_fails, Reading, AtDecidesState, sendVars
<1>21. CASE invalid_input
  BY <1>21, <1>0 DEF invalid_input, Refuse, sendVars
<1>22. CASE send_message
  BY <1>22, <1>0 DEF send_message, Refuse, sendVars
<1>23. CASE Cancel
  BY <1>23, <1>0 DEF Cancel, sendVars
<1>24. CASE Drop
  BY <1>24, <1>0 DEF Drop, sendVars
<1>25. CASE \E r \in Replies, over \in {"plain", "tls"} : PeerReplies(r, over)
  BY <1>25, <1>0 DEF PeerReplies, callVars, sendVars
<1>26. CASE LinkDown
  BY <1>26, <1>0 DEF LinkDown, callVars, sendVars
<1>27. CASE UNCHANGED vars
  BY <1>27, <1>0 DEF vars
<1>. QED
  BY <1>1, <1>2, <1>3, <1>4, <1>5, <1>6, <1>7, <1>8, <1>9, <1>10, <1>11, <1>12, <1>13,
     <1>14, <1>15, <1>16, <1>17, <1>18, <1>19, <1>20, <1>21, <1>22, <1>23, <1>24, <1>25,
     <1>26, <1>27
  DEF Next, Client, Call, Resume, Peer, Terminated

(* The property ClosedIsFinal: a poisoned session (mod.rs:232-244) writes   *)
(* nothing, reports nothing sent and is never opened again.                 *)
THEOREM ClosedStaysClosed == Spec => ClosedIsFinal
<1>1. TypeOK /\ Control /\ [Next]_vars =>
        [state = "Closed" => state' = "Closed" /\ wrote' = wrote /\ oks' = oks]_vars
  BY FinalStep
<1>. QED BY TypeCorrect, <1>1, PTL DEF Spec, ClosedIsFinal
-----------------------------------------------------------------------------
(* When quit comes to close the transport of a session that its own failure *)
(* has closed, it is about to return that failure.                          *)
FailedQuit == at = "close" /\ state = "Closed" => ret # "ok"

(* The log of a session in state st: nonempty, and ended when st is Closed. *)
Audited(log, st) ==
    /\ log \in Seq(Events) /\ Len(log) >= 1
    /\ st = "Closed" <=> Ended(log)
    /\ EndsOnce(log)

(* The one session whose log has a second end. *)
EndedTwice == state = "Closed" /\ Ended(audit) /\ closed /\ ret # "ok"

(* One more event, behind a log that has not ended. *)
LEMMA OneMore ==
    ASSUME NEW log \in Seq(Events), Len(log) >= 1, EndsOnce(log),
           NEW e \in Events, ~Ended(log)
    PROVE  /\ log \o <<e>> \in Seq(Events) /\ Len(log \o <<e>>) >= 1
           /\ Ended(log \o <<e>>) <=> e \in Terminal
           /\ EndsOnce(log \o <<e>>)
<1>. DEFINE t == log \o <<e>>
<1>1. <<e>> \in Seq(Events) /\ Len(<<e>>) = 1 /\ <<e>>[1] = e
  OBVIOUS
<1>2. /\ t \in Seq(Events) /\ Len(t) = Len(log) + 1 /\ Len(log) \in Nat
      /\ \A i \in 1..(Len(log) + 1) : t[i] = IF i <= Len(log) THEN log[i] ELSE <<e>>[i - Len(log)]
  BY <1>1, ConcatProperties, LenProperties
<1>3. t[Len(log) + 1] = e /\ \A i \in 1..Len(log) : t[i] = log[i]
  BY <1>1, <1>2
<1>. HIDE DEF t
<1>4. Ended(t) <=> e \in Terminal
  BY <1>2, <1>3 DEF Ended
<1>5. EndsOnce(t)
  BY <1>2, <1>3 DEF EndsOnce, Ended
<1>. QED BY <1>2, <1>4, <1>5 DEF t

(* A handler emits nothing, or one event that ends nothing. *)
Harmless(ev) == ev = <<>> \/ \E e \in Events \ Terminal : ev = <<e>>

LEMMA HarmlessAudit ==
    ASSUME Audited(audit, state), state # "Closed",
           NEW ev, Harmless(ev), NEW s, s # "Closed", audit' = audit \o ev, state' = s
    PROVE  Audited(audit', state')
<1>1. CASE ev = <<>>
  <2>1. audit' = audit
    BY <1>1, ConcatEmptySeq DEF Audited
  <2>. QED BY <2>1 DEF Audited
<1>2. CASE \E e \in Events \ Terminal : ev = <<e>>
  BY <1>2, OneMore DEF Audited
<1>. QED BY <1>1, <1>2 DEF Harmless

LEMMA FailAudit ==
    ASSUME Audited(audit, state), state # "Closed",
           NEW ev, Harmless(ev), NEW err \in Errors, NEW a, Fail(ev, err, a)
    PROVE  Audited(audit', state') /\ FailedQuit'
<1>1. /\ audit \o ev \in Seq(Events) /\ Len(audit \o ev) >= 1
      /\ ~Ended(audit \o ev) /\ EndsOnce(audit \o ev)
  <2>1. CASE ev = <<>>
    BY <2>1, ConcatEmptySeq DEF Audited
  <2>2. CASE \E e \in Events \ Terminal : ev = <<e>>
    BY <2>2, OneMore DEF Audited
  <2>. QED BY <2>1, <2>2 DEF Harmless
<1>2. audit' = (audit \o ev) \o <<"SessionAborted">> /\ state' = "Closed" /\ ret' = err
  BY DEF Fail
<1>3. "SessionAborted" \in Events /\ "SessionAborted" \in Terminal
  BY DEF Events, Terminal
<1>. QED BY <1>1, <1>2, <1>3, OneMore DEF Audited, FailedQuit, Errors

LEMMA WriteThenAudit ==
    ASSUME Audited(audit, state), state # "Closed",
           NEW s, s # "Closed", NEW ev, Harmless(ev), NEW cmds, NEW a, a # "close",
           WriteThen(s, ev, cmds, a)
    PROVE  Audited(audit', state') /\ FailedQuit'
<1>1. CASE Fail(ev, "Io", a)
  BY <1>1, FailAudit DEF Errors
<1>2. CASE state' = s /\ audit' = audit \o ev
  BY <1>2, HarmlessAudit DEF FailedQuit
<1>. QED BY <1>1, <1>2 DEF WriteThen

AuditInv == (Audited(audit, state) \/ EndedTwice) /\ FailedQuit /\ (closed => at = "gone")

(* Only quit closes the transport, and nothing happens to a client that is *)
(* gone.                                                                    *)
LEMMA OnlyQuitCloses ==
    ASSUME [Next]_vars, ~close_transport
    PROVE  closed' = closed
<1>1. CASE Call
  BY <1>1 DEF Call, starttls, login, login_with, check_send, send_mail, quit, invalid_input,
     send_message, Drop
<1>2. CASE Resume
  BY <1>2 DEF Resume, fill_buf, read_fails, read_greeting, send_ehlo, starttls_reply,
     upgrade_to_tls, run_auth, mail_reply, read_rcpt_reply, data_reply, stream_body, final_reply,
     quit_reply
<1>3. CASE Cancel \/ Peer \/ UNCHANGED vars
  BY <1>3 DEF Cancel, Peer, PeerReplies, LinkDown, vars
<1>. QED BY <1>1, <1>2, <1>3 DEF Next, Client, Terminated

LEMMA GoneIsOver ==
    ASSUME [Next]_vars, at = "gone"
    PROVE  UNCHANGED vars
<1>1. ~Call
  BY DEF Call, starttls, login, login_with, MayLogin, check_send, send_mail, quit, invalid_input,
     send_message, Drop
<1>2. ~Resume
  BY DEF Resume, Reply, Reading, fill_buf, read_fails, read_greeting, send_ehlo, starttls_reply,
     upgrade_to_tls, run_auth, mail_reply, read_rcpt_reply, data_reply, stream_body, final_reply,
     quit_reply, close_transport
<1>3. ~Cancel /\ ~Peer
  BY DEF Cancel, Suspended, Reading, Peer, PeerReplies, LinkDown
<1>. QED BY <1>1, <1>2, <1>3 DEF Next, Client, Terminated

(* No step closes the session without saying so, or says so without         *)
(* closing it.                                                              *)
LEMMA AuditStep ==
    ASSUME TypeOK, Control, Audited(audit, state), FailedQuit, [Next]_vars, ~close_transport
    PROVE  Audited(audit', state') /\ FailedQuit'
<1>. DEFINE AuditKept == Audited(audit', state') /\ FailedQuit'
<1>. USE DEF Control
<1>0. pipelining \in BOOLEAN
  BY DEF TypeOK
<1>a. ASSUME NEW e \in Events \ Terminal PROVE Harmless(<<e>>)
  BY DEF Harmless
<1>b. Harmless(<<>>)
  BY DEF Harmless
<1>c. ASSUME UNCHANGED <<state, audit>>, at' # "close" \/ state # "Closed" \/ UNCHANGED <<at, ret>>
      PROVE  AuditKept
  BY <1>c DEF FailedQuit
<1>d. ASSUME NEW s, NEW ev, Done(s, ev), state # "Closed", s # "Closed", Harmless(ev)
      PROVE  AuditKept
  BY <1>d, HarmlessAudit DEF Done, FailedQuit
<1>e. ASSUME NEW ev, NEW a, Await(ev, a), state # "Closed", Harmless(ev)
      PROVE  AuditKept
  BY <1>e, HarmlessAudit DEF Await, FailedQuit
<1>f. ASSUME NEW m, login_with(m) PROVE AuditKept
  BY <1>b, <1>c, <1>f, FailAudit, WriteThenAudit DEF login_with, MayLogin, Refuse, Errors
<1>1. CASE read_greeting
  BY <1>1, <1>0, <1>a, <1>b, FailAudit, WriteThenAudit
  DEF read_greeting, Reply, AtDecidesState, Errors, Events, Terminal
<1>2. CASE send_ehlo
  BY <1>2, <1>0, <1>a, <1>b, <1>d, FailAudit
  DEF send_ehlo, Reply, AtDecidesState, Errors, Events, Terminal
<1>3. CASE starttls
  BY <1>3, <1>0, <1>a, <1>b, FailAudit, WriteThenAudit
  DEF starttls, Errors, Events, Terminal
<1>4. CASE starttls_reply
  BY <1>4, <1>0, <1>b, <1>e, FailAudit
  DEF starttls_reply, Reply, AtDecidesState, Errors, Events, Terminal
<1>5. CASE upgrade_to_tls
  BY <1>5, <1>0, <1>a, <1>b, FailAudit, WriteThenAudit
  DEF upgrade_to_tls, AtDecidesState, Errors, Events, Terminal
<1>6. CASE login
  BY <1>6, <1>b, <1>f, FailAudit DEF login, MayLogin, Errors
<1>7. CASE \E m \in Mechanisms : login_with(m)
  BY <1>7, <1>f
<1>8. CASE run_auth
  <2>1. state # "Closed"
    BY <1>8 DEF run_auth, Reply, AtDecidesState
  <2>2. PICK a \in {"auth1", "auth2", "auth3"} :
           \/ Done("MailFrom", <<"AuthCompleted">>)
           \/ WriteThen(state, <<>>, Say("RESPONSE"), NextAuth[a])
           \/ Fail(<<>>, AuthFailure(a, Head(rx)), a)
    BY <1>8 DEF run_auth
  <2>3. CASE Done("MailFrom", <<"AuthCompleted">>)
    BY <1>a, <1>d, <2>1, <2>3 DEF Events, Terminal
  <2>4. CASE WriteThen(state, <<>>, Say("RESPONSE"), NextAuth[a])
    <3>1. NextAuth[a] # "close"
      BY DEF NextAuth
    <3>. QED BY <1>b, <2>1, <2>4, <3>1, WriteThenAudit
  <2>5. CASE Fail(<<>>, AuthFailure(a, Head(rx)), a)
    BY <1>b, <2>1, <2>5, FailAudit DEF AuthFailure, Errors
  <2>. QED BY <2>2, <2>3, <2>4, <2>5
<1>9. CASE \E k \in {"mail", "utf8", "stream"} : check_send(k)
  BY <1>9, <1>0, <1>b, <1>c, FailAudit DEF check_send, Refuse, Errors
<1>10. CASE \E k \in {"mail", "utf8", "stream"}, c \in 1..MaxRcpts : send_mail(k, c)
  BY <1>10, <1>0, <1>b, WriteThenAudit DEF send_mail
<1>11. CASE mail_reply
  BY <1>11, <1>0, <1>a, <1>b, FailAudit, WriteThenAudit, <1>e
  DEF mail_reply, Reply, AtDecidesState, Errors, Events, Terminal
<1>12. CASE read_rcpt_reply
  BY <1>12, <1>0, <1>a, <1>b, FailAudit, WriteThenAudit, <1>e
  DEF read_rcpt_reply, Reply, AtDecidesState, Errors, Events, Terminal
<1>13. CASE data_reply
  BY <1>13, <1>0, <1>a, <1>b, FailAudit, WriteThenAudit, <1>e
  DEF data_reply, Reply, AtDecidesState, Errors, Events, Terminal
<1>14. CASE stream_body
  BY <1>14, <1>0, <1>a, <1>b, FailAudit, WriteThenAudit
  DEF stream_body, AtDecidesState, Errors, Events, Terminal
<1>15. CASE final_reply
  BY <1>15, <1>0, <1>a, <1>b, <1>d, FailAudit
  DEF final_reply, Reply, AtDecidesState, Errors, Events, Terminal
<1>16. CASE quit
  BY <1>16, <1>0, <1>b, <1>c, WriteThenAudit DEF quit
<1>17. CASE quit_reply
  BY <1>17, <1>0, <1>b, <1>c, FailAudit
  DEF quit_reply, Reply, AtDecidesState, Errors, Events, Terminal
<1>18. CASE fill_buf
  BY <1>18, <1>0, <1>c DEF fill_buf, callVars
<1>19. CASE read_fails
  BY <1>19, <1>0, <1>b, FailAudit
  DEF read_fails, Reading, AtDecidesState, Errors, Events, Terminal
<1>20. CASE invalid_input
  BY <1>20, <1>0, <1>c DEF invalid_input, Refuse
<1>21. CASE send_message
  BY <1>21, <1>0, <1>c DEF send_message, Refuse
<1>22. CASE Cancel
  BY <1>22, <1>0, <1>c DEF Cancel, OnCancel
<1>23. CASE Drop
  BY <1>23, <1>0, <1>c DEF Drop
<1>24. CASE \E r \in Replies, over \in {"plain", "tls"} : PeerReplies(r, over)
  BY <1>24, <1>0, <1>c DEF PeerReplies, callVars
<1>25. CASE LinkDown
  BY <1>25, <1>0, <1>c DEF LinkDown, callVars
<1>26. CASE UNCHANGED vars
  BY <1>26, <1>0, <1>c DEF vars
<1>. QED
  BY <1>1, <1>2, <1>3, <1>4, <1>5, <1>6, <1>7, <1>8, <1>9, <1>10, <1>11, <1>12, <1>13,
     <1>14, <1>15, <1>16, <1>17, <1>18, <1>19, <1>20, <1>21, <1>22, <1>23, <1>24, <1>25, <1>26
  DEF Next, Client, Call, Resume, Peer, Terminated

(* The close at the end of quit is one more end: the first one, or the      *)
(* second after a QUIT that failed.                                         *)
LEMMA CloseAudit ==
    ASSUME Audited(audit, state), FailedQuit, close_transport
    PROVE  (Audited(audit', state') \/ EndedTwice') /\ FailedQuit'
<1>1. PICK e \in Events : audit' = audit \o <<e>> /\ e \in Terminal
  <2>1. audit \in Seq(Events)
    BY DEF Audited
  <2>. QED BY <2>1, AppendIsConcat DEF close_transport, Events, Terminal
<1>2. state' = "Closed" /\ at' = "gone" /\ closed' /\ at = "close" /\ (ret # "ok" => ret' # "ok")
  BY DEF close_transport
<1>3. CASE ~Ended(audit)
  BY <1>1, <1>2, <1>3, OneMore DEF Audited, FailedQuit
<1>4. CASE Ended(audit)
  <2>1. ret' # "ok"
    BY <1>2, <1>4 DEF Audited, FailedQuit
  <2>2. Len(audit') = Len(audit) + 1 /\ audit'[Len(audit) + 1] = e
    BY <1>1, ConcatProperties, LenProperties DEF Audited
  <2>3. Ended(audit')
    BY <1>1, <2>2 DEF Ended
  <2>. QED BY <1>2, <2>1, <2>3 DEF EndedTwice, FailedQuit
<1>. QED BY <1>3, <1>4

LEMMA AuditInvStep ==
    ASSUME TypeOK, Control, AuditInv, [Next]_vars
    PROVE  AuditInv'
<1>1. CASE at = "gone"
  BY <1>1, GoneIsOver DEF AuditInv, EndedTwice, FailedQuit, vars
<1>2. CASE at # "gone" /\ close_transport
  <2>1. Audited(audit, state) /\ FailedQuit
    BY <1>2 DEF AuditInv, EndedTwice
  <2>2. at' = "gone"
    BY <1>2 DEF close_transport
  <2>. QED BY <1>2, <2>1, <2>2, CloseAudit DEF AuditInv
<1>3. CASE at # "gone" /\ ~close_transport
  <2>1. Audited(audit, state) /\ FailedQuit /\ ~closed
    BY <1>3 DEF AuditInv, EndedTwice
  <2>2. closed' = closed
    BY <1>3, OnlyQuitCloses
  <2>. QED BY <1>3, <2>1, <2>2, AuditStep DEF AuditInv
<1>. QED BY <1>1, <1>2, <1>3

(* The property ClosedIsAudited: the audit sink learns of every end of the  *)
(* session, only of ends, and once, unless quit returns an error.           *)
THEOREM EveryEndIsAudited == Spec => []ClosedIsAudited
<1>1. Init => AuditInv
  <2>. SUFFICES ASSUME Init PROVE AuditInv
    OBVIOUS
  <2>1. audit = <<"Connected">> /\ state = "Greeting" /\ at = "greeting"
    BY DEF Init
  <2>2. audit \in Seq(Events) /\ Len(audit) = 1 /\ audit[1] = "Connected"
    BY <2>1 DEF Events
  <2>. QED BY <2>1, <2>2 DEF AuditInv, Audited, Ended, Terminal, EndsOnce, FailedQuit, Init
<1>2. TypeOK /\ Control /\ AuditInv /\ [Next]_vars => AuditInv'
  BY AuditInvStep
<1>3. AuditInv => ClosedIsAudited
  BY DEF AuditInv, Audited, EndedTwice, ClosedIsAudited
<1>. QED BY TypeCorrect, <1>1, <1>2, <1>3, PTL DEF Spec
-----------------------------------------------------------------------------
(* The audit log ends in the replies the running envelope has had so far. *)
EnvelopeSoFar ==
    /\ at = "rcpt" => Envelope(audit, rcpts - todo)
    /\ at \in {"data", "body", "final"} => Envelope(audit, rcpts)

LEMMA EnvelopeStarts ==
    ASSUME NEW log \in Seq(Events)
    PROVE  Envelope(log \o <<"MailFromAccepted">>, 0)
<1>. DEFINE t == log \o <<"MailFromAccepted">>
<1>1. "MailFromAccepted" \in Events
  BY DEF Events
<1>2. <<"MailFromAccepted">> \in Seq(Events) /\ Len(<<"MailFromAccepted">>) = 1
  BY <1>1
<1>3. Len(log) \in Nat /\ Len(t) = Len(log) + 1 /\ t[Len(log) + 1] = <<"MailFromAccepted">>[1]
  BY <1>2, ConcatProperties, LenProperties
<1>. HIDE DEF t
<1>4. Envelope(t, 0)
  BY <1>3 DEF Envelope
<1>. QED BY <1>4 DEF t

LEMMA EnvelopeGrows ==
    ASSUME NEW log \in Seq(Events), NEW c \in Nat, Envelope(log, c)
    PROVE  Envelope(log \o <<"RecipientAccepted">>, c + 1)
<1>. DEFINE t == log \o <<"RecipientAccepted">>
<1>1. "RecipientAccepted" \in Events
  BY DEF Events
<1>2. /\ <<"RecipientAccepted">> \in Seq(Events) /\ Len(<<"RecipientAccepted">>) = 1
      /\ <<"RecipientAccepted">>[1] = "RecipientAccepted"
  BY <1>1
<1>3. /\ Len(log) \in Nat /\ Len(t) = Len(log) + 1
      /\ \A i \in 1..(Len(log) + 1) :
            t[i] = IF i <= Len(log) THEN log[i] ELSE <<"RecipientAccepted">>[i - Len(log)]
  BY <1>2, ConcatProperties, LenProperties
<1>4. t[Len(log) + 1] = "RecipientAccepted" /\ \A i \in 1..Len(log) : t[i] = log[i]
  BY <1>2, <1>3
<1>. HIDE DEF t
<1>5. Len(log) > c /\ log[Len(log) - c] = "MailFromAccepted"
      /\ \A i \in (Len(log) - c + 1)..Len(log) : log[i] = "RecipientAccepted"
  BY DEF Envelope
<1>6. t[Len(t) - (c + 1)] = "MailFromAccepted"
  BY <1>3, <1>4, <1>5, SMTT(20)
<1>7. ASSUME NEW i \in (Len(t) - (c + 1) + 1)..Len(t) PROVE t[i] = "RecipientAccepted"
  <2>1. CASE i = Len(log) + 1
    BY <1>4, <2>1
  <2>2. CASE i # Len(log) + 1
    BY <1>3, <1>4, <1>5, <2>2
  <2>. QED BY <2>1, <2>2
<1>8. Envelope(t, c + 1)
  BY <1>3, <1>5, <1>6, <1>7 DEF Envelope
<1>. QED BY <1>8 DEF t

(* A send that is not cut short has logged just its events. *)
LEMMA WriteThenLog ==
    ASSUME NEW s, NEW ev, NEW cmds, NEW a \in {"rcpt", "data", "final"},
           WriteThen(s, ev, cmds, a)
    PROVE  (at' = a /\ audit' = audit \o ev) \/ at' = "idle"
  BY DEF WriteThen, Fail, OnError, OnCancel

LEMMA SendFails ==
    ASSUME NEW ev, NEW err, NEW a \in {"mail", "rcpt", "data", "body", "final"}, Fail(ev, err, a)
    PROVE  at' = "idle"
  BY DEF Fail, OnError

(* No step puts anything else into the log while an envelope is running. *)
LEMMA EnvelopeStep ==
    ASSUME TypeOK, Control, EnvelopeSoFar, [Next]_vars
    PROVE  EnvelopeSoFar'
<1>. USE DEF Control
<1>0. audit \in Seq(Events) /\ rcpts \in Nat /\ todo \in Nat /\ pipelining \in BOOLEAN
  BY BoundsAssumption DEF TypeOK
<1>a. ASSUME at' \notin {"rcpt", "data", "body", "final"} PROVE EnvelopeSoFar'
  BY <1>a DEF EnvelopeSoFar
<1>b. ASSUME UNCHANGED <<at, audit, rcpts, todo>> PROVE EnvelopeSoFar'
  BY <1>b DEF EnvelopeSoFar
<1>c. audit \o <<>> = audit
  BY <1>0, ConcatEmptySeq
<1>1. CASE read_greeting
  BY <1>1, <1>a, FailControl, WriteThenControl DEF read_greeting, OnError, OnCancel
<1>2. CASE send_ehlo
  BY <1>2, <1>a, FailControl DEF send_ehlo, Done, OnError, OnCancel
<1>3. CASE starttls
  BY <1>3, <1>a, FailControl, WriteThenControl DEF starttls, OnError, OnCancel
<1>4. CASE starttls_reply
  BY <1>4, <1>a, FailControl DEF starttls_reply, Await, OnError, OnCancel
<1>5. CASE upgrade_to_tls
  BY <1>5, <1>a, FailControl, WriteThenControl DEF upgrade_to_tls, OnError, OnCancel
<1>6. CASE login
  BY <1>6, <1>a, FailControl, WriteThenControl
  DEF login, login_with, MayLogin, Refuse, OnError, OnCancel
<1>7. CASE \E m \in Mechanisms : login_with(m)
  BY <1>7, <1>a, FailControl, WriteThenControl
  DEF login_with, MayLogin, Refuse, OnError, OnCancel
<1>8. CASE run_auth
  BY <1>8, <1>a, FailControl, WriteThenControl
  DEF run_auth, NextAuth, Done, OnError, OnCancel
<1>9. CASE \E k \in {"mail", "utf8", "stream"} : check_send(k)
  BY <1>9, <1>a, FailControl DEF check_send, Refuse, OnError, OnCancel
<1>10. CASE \E k \in {"mail", "utf8", "stream"}, c \in 1..MaxRcpts : send_mail(k, c)
  BY <1>10, <1>a, WriteThenControl DEF send_mail, OnError, OnCancel
<1>11. CASE mail_reply
  <2>1. UNCHANGED <<rcpts, todo>> /\ todo = rcpts
    BY <1>11 DEF mail_reply, Reply, Counts, sendVars
  <2>2. \/ at' = "rcpt" /\ audit' = audit \o <<"MailFromAccepted">>
        \/ at' = "idle"
    BY <1>11, SendFails, WriteThenLog DEF mail_reply, Await
  <2>3. CASE at' = "rcpt" /\ audit' = audit \o <<"MailFromAccepted">>
    <3>1. rcpts' - todo' = 0
      BY <1>0, <2>1
    <3>. QED BY <1>0, <2>3, <3>1, EnvelopeStarts DEF EnvelopeSoFar
  <2>. QED BY <1>a, <2>2, <2>3
<1>12. CASE read_rcpt_reply
  <2>1. rcpts' = rcpts /\ 1 <= todo /\ todo <= rcpts /\ Envelope(audit, rcpts - todo)
    BY <1>12 DEF read_rcpt_reply, Reply, Counts, EnvelopeSoFar
  <2>2. \/ /\ todo' = todo - 1 /\ audit' = audit \o <<"RecipientAccepted">>
           /\ at' = IF todo = 1 THEN "data" ELSE "rcpt"
        \/ at' = "idle"
    BY <1>12, SendFails, WriteThenLog DEF read_rcpt_reply, LastRecipient, Await
  <2>3. CASE /\ todo' = todo - 1 /\ audit' = audit \o <<"RecipientAccepted">>
             /\ at' = IF todo = 1 THEN "data" ELSE "rcpt"
    <3>1. Envelope(audit', rcpts - todo + 1)
      <4>1. rcpts - todo \in Nat
        BY <1>0, <2>1
      <4>. QED BY <1>0, <2>1, <2>3, <4>1, EnvelopeGrows
    <3>2. CASE todo = 1
      <4>1. rcpts - todo + 1 = rcpts
        BY <1>0, <3>2
      <4>. QED BY <2>1, <2>3, <3>1, <3>2, <4>1 DEF EnvelopeSoFar
    <3>3. CASE todo # 1
      <4>1. rcpts - todo + 1 = rcpts' - todo'
        BY <1>0, <2>1, <2>3
      <4>. QED BY <2>3, <3>1, <3>3, <4>1 DEF EnvelopeSoFar
    <3>. QED BY <3>2, <3>3
  <2>. QED BY <1>a, <2>2, <2>3
<1>13. CASE data_reply
  <2>1. rcpts' = rcpts /\ Envelope(audit, rcpts)
    BY <1>13 DEF data_reply, Reply, EnvelopeSoFar, sendVars
  <2>2. (at' \in {"body", "final"} /\ audit' = audit) \/ at' = "idle"
    BY <1>13, <1>c, SendFails, WriteThenLog DEF data_reply, Await
  <2>. QED BY <1>a, <2>1, <2>2 DEF EnvelopeSoFar
<1>14. CASE stream_body
  <2>1. rcpts' = rcpts /\ Envelope(audit, rcpts)
    BY <1>14 DEF stream_body, EnvelopeSoFar, sendVars
  <2>2. (at' = "final" /\ audit' = audit) \/ at' = "idle"
    BY <1>14, <1>c, SendFails, WriteThenLog DEF stream_body
  <2>. QED BY <1>a, <2>1, <2>2 DEF EnvelopeSoFar
<1>15. CASE final_reply
  BY <1>15, <1>a, FailControl DEF final_reply, Done, OnError, OnCancel
<1>16. CASE quit
  BY <1>16, <1>a, WriteThenControl DEF quit, OnError, OnCancel
<1>17. CASE quit_reply
  BY <1>17, <1>a, FailControl DEF quit_reply, OnError, OnCancel
<1>18. CASE close_transport
  BY <1>18, <1>a DEF close_transport
<1>19. CASE fill_buf
  BY <1>19, <1>b DEF fill_buf, callVars, sendVars
<1>20. CASE read_fails
  BY <1>20, <1>a, FailControl DEF read_fails, OnError, OnCancel
<1>21. CASE invalid_input
  BY <1>21, <1>a DEF invalid_input, Refuse
<1>22. CASE send_message
  BY <1>22, <1>a DEF send_message, Refuse
<1>23. CASE Cancel
  BY <1>23, <1>a DEF Cancel, OnCancel
<1>24. CASE Drop
  BY <1>24, <1>a DEF Drop
<1>25. CASE \E r \in Replies, over \in {"plain", "tls"} : PeerReplies(r, over)
  BY <1>25, <1>b DEF PeerReplies, callVars, sendVars
<1>26. CASE LinkDown
  BY <1>26, <1>b DEF LinkDown, callVars, sendVars
<1>27. CASE UNCHANGED vars
  BY <1>27, <1>b DEF vars
<1>. QED
  BY <1>1, <1>2, <1>3, <1>4, <1>5, <1>6, <1>7, <1>8, <1>9, <1>10, <1>11, <1>12, <1>13,
     <1>14, <1>15, <1>16, <1>17, <1>18, <1>19, <1>20, <1>21, <1>22, <1>23, <1>24, <1>25,
     <1>26, <1>27
  DEF Next, Client, Call, Resume, Peer, Terminated

(* The property BodyNeedsEveryRecipient: on both paths of run_envelope a    *)
(* body leaves the client only when MAIL FROM and every recipient have been *)
(* accepted (send.rs:34-126).                                               *)
THEOREM BodyIsEarned == Spec => BodyNeedsEveryRecipient
<1>1. Init => EnvelopeSoFar
  BY DEF Init, EnvelopeSoFar
<1>2. TypeOK /\ Control /\ EnvelopeSoFar /\ [Next]_vars => EnvelopeSoFar'
  BY EnvelopeStep
<1>3. TypeOK /\ Control /\ EnvelopeSoFar /\ [Next]_vars =>
        [\A i \in (Len(wrote) + 1)..Len(wrote') :
            wrote'[i].verb = "BODY" =>
                wrote'[i].arg = rcpts /\ rcpts > 0 /\ Envelope(audit, rcpts)]_vars
  <2>. SUFFICES ASSUME TypeOK, Control, EnvelopeSoFar, [Next]_vars,
                       NEW i \in (Len(wrote) + 1)..Len(wrote'), wrote'[i].verb = "BODY"
                PROVE  wrote'[i].arg = rcpts /\ rcpts > 0 /\ Envelope(audit, rcpts)
    OBVIOUS
  <2>1. at \in {"data", "body"} /\ wrote'[i].arg = rcpts
    BY StepWrites DEF OnlyGood, Good
  <2>2. rcpts \in Nat /\ rcpts >= 1
    BY <2>1, BoundsAssumption DEF TypeOK, Control, Counts
  <2>. QED BY <2>1, <2>2 DEF EnvelopeSoFar
<1>. QED BY TypeCorrect, <1>1, <1>2, <1>3, PTL DEF Spec, BodyNeedsEveryRecipient
-----------------------------------------------------------------------------
(* A write leaves the call suspended, closes the session or is abandoned. *)
LEMMA WriteThenIdle ==
    ASSUME cancels \in Nat, NEW s, NEW ev, NEW cmds, NEW a, a # "idle", WriteThen(s, ev, cmds, a)
    PROVE  IdleIsReusable'
<1>1. at' # "idle" \/ state' = "Closed" \/ cancels' # 0
  BY DEF WriteThen, Fail
<1>. QED BY <1>1 DEF IdleIsReusable

(* No step leaves an idle client between two states. *)
LEMMA IdleStep ==
    ASSUME TypeOK, Control, IdleIsReusable, [Next]_vars
    PROVE  IdleIsReusable'
<1>0. cancels \in Nat
  BY BoundsAssumption DEF TypeOK
<1>a. ASSUME NEW ev, NEW err, NEW a, Fail(ev, err, a) PROVE IdleIsReusable'
  BY <1>a, FailControl DEF IdleIsReusable
<1>b. ASSUME NEW s \in {"Authentication", "MailFrom"}, NEW ev, Done(s, ev) PROVE IdleIsReusable'
  BY <1>b DEF IdleIsReusable, Done
<1>c. ASSUME NEW err \in {"Auth", "Policy", "InvalidInput", "Io(serialize)"}, Refuse(err)
      PROVE  IdleIsReusable'
  BY <1>c DEF IdleIsReusable, Refuse
<1>d. ASSUME at' # "idle" \/ UNCHANGED <<at, state, ret, cancels>> PROVE IdleIsReusable'
  BY <1>d DEF IdleIsReusable
<1>1. CASE read_greeting
  BY <1>1, <1>0, <1>a, WriteThenIdle DEF read_greeting
<1>2. CASE send_ehlo
  BY <1>2, <1>a, <1>b DEF send_ehlo
<1>3. CASE starttls
  BY <1>3, <1>0, <1>a, WriteThenIdle DEF starttls
<1>4. CASE starttls_reply
  BY <1>4, <1>a, <1>d DEF starttls_reply, Await
<1>5. CASE upgrade_to_tls
  BY <1>5, <1>0, <1>a, WriteThenIdle DEF upgrade_to_tls
<1>6. CASE login
  BY <1>6, <1>0, <1>a, WriteThenIdle, <1>c DEF login, login_with
<1>7. CASE \E m \in Mechanisms : login_with(m)
  BY <1>7, <1>0, <1>a, WriteThenIdle, <1>c DEF login_with
<1>8. CASE run_auth
  <2>1. PICK a \in {"auth1", "auth2", "auth3"} :
           \/ Done("MailFrom", <<"AuthCompleted">>)
           \/ WriteThen(state, <<>>, Say("RESPONSE"), NextAuth[a])
           \/ Fail(<<>>, AuthFailure(a, Head(rx)), a)
    BY <1>8 DEF run_auth
  <2>2. NextAuth[a] # "idle"
    BY DEF NextAuth
  <2>. QED BY <1>0, <1>a, <1>b, <2>1, <2>2, WriteThenIdle
<1>9. CASE \E k \in {"mail", "utf8", "stream"} : check_send(k)
  BY <1>9, <1>a, <1>c DEF check_send
<1>10. CASE \E k \in {"mail", "utf8", "stream"}, c \in 1..MaxRcpts : send_mail(k, c)
  BY <1>10, <1>0, <1>a, WriteThenIdle DEF send_mail
<1>11. CASE mail_reply
  BY <1>11, <1>0, <1>a, WriteThenIdle, <1>d DEF mail_reply, Await
<1>12. CASE read_rcpt_reply
  BY <1>12, <1>0, <1>a, WriteThenIdle, <1>d DEF read_rcpt_reply, Await
<1>13. CASE data_reply
  BY <1>13, <1>0, <1>a, WriteThenIdle, <1>d DEF data_reply, Await
<1>14. CASE stream_body
  BY <1>14, <1>0, <1>a, WriteThenIdle DEF stream_body
<1>15. CASE final_reply
  BY <1>15, <1>a, <1>b DEF final_reply
<1>16. CASE quit
  BY <1>16, <1>0, <1>a, WriteThenIdle, <1>d DEF quit
<1>17. CASE quit_reply
  BY <1>17, <1>a, <1>d DEF quit_reply
<1>18. CASE close_transport
  BY <1>18, <1>d DEF close_transport
<1>19. CASE fill_buf
  BY <1>19, <1>d DEF fill_buf, callVars
<1>20. CASE read_fails
  BY <1>20, <1>a DEF read_fails
<1>21. CASE invalid_input
  BY <1>21, <1>c DEF invalid_input
<1>22. CASE send_message
  BY <1>22, <1>c DEF send_message
<1>23. CASE Cancel
  BY <1>23, <1>0 DEF Cancel, IdleIsReusable
<1>24. CASE Drop
  BY <1>24, <1>d DEF Drop
<1>25. CASE \E r \in Replies, over \in {"plain", "tls"} : PeerReplies(r, over)
  BY <1>25, <1>d DEF PeerReplies, callVars
<1>26. CASE LinkDown
  BY <1>26, <1>d DEF LinkDown, callVars
<1>27. CASE UNCHANGED vars
  BY <1>27, <1>d DEF vars
<1>. QED
  BY <1>1, <1>2, <1>3, <1>4, <1>5, <1>6, <1>7, <1>8, <1>9, <1>10, <1>11, <1>12, <1>13,
     <1>14, <1>15, <1>16, <1>17, <1>18, <1>19, <1>20, <1>21, <1>22, <1>23, <1>24, <1>25,
     <1>26, <1>27
  DEF Next, Client, Call, Resume, Peer, Terminated

(* The property IdleIsReusable: as long as no call is abandoned, a caller   *)
(* finds the session closed or ready, and closed after every transport or   *)
(* protocol error.                                                          *)
THEOREM IdleMeansReady == Spec => []IdleIsReusable
<1>1. Init => IdleIsReusable
  BY DEF Init, IdleIsReusable
<1>2. TypeOK /\ Control /\ IdleIsReusable /\ [Next]_vars => IdleIsReusable'
  BY IdleStep
<1>. QED BY TypeCorrect, <1>1, <1>2, PTL DEF Spec
-----------------------------------------------------------------------------
(* Quit is a state of quit alone: no call can be made in it. *)
QuitAtEnd == state = "Quit" => at \in {"quit", "close", "gone"}

LEMMA QuitAtEndStep ==
    ASSUME TypeOK, Control, QuitAtEnd, [Next]_vars
    PROVE  QuitAtEnd'
<1>f. ASSUME NEW ev, NEW err, NEW a, Fail(ev, err, a) PROVE QuitAtEnd'
  BY <1>f, FailControl DEF QuitAtEnd
<1>w. ASSUME NEW s, NEW ev, NEW cmds, NEW a, s # "Quit", WriteThen(s, ev, cmds, a)
      PROVE  QuitAtEnd'
  BY <1>w, WriteThenControl DEF QuitAtEnd
<1>d. ASSUME NEW s \in {"Authentication", "MailFrom"}, NEW ev, Done(s, ev) PROVE QuitAtEnd'
  BY <1>d DEF QuitAtEnd, Done
<1>k. ASSUME UNCHANGED state, at \notin {"quit", "close", "gone"} \/ UNCHANGED at
      PROVE  QuitAtEnd'
  BY <1>k DEF QuitAtEnd
<1>l. ASSUME at = "idle" PROVE state # "Quit"
  BY <1>l DEF QuitAtEnd
<1>1. CASE Call
  <2>1. CASE starttls
    BY <1>f, <1>w, <2>1 DEF starttls
  <2>2. ASSUME NEW m, login_with(m) PROVE QuitAtEnd'
    BY <1>f, <1>w, <1>l, <1>k, <2>2 DEF login_with, MayLogin, Refuse
  <2>3. CASE login
    BY <1>f, <2>2, <2>3 DEF login
  <2>4. CASE \E k \in {"mail", "utf8", "stream"} : check_send(k)
    BY <1>f, <1>k, <2>4 DEF check_send, Refuse
  <2>5. CASE \E k \in {"mail", "utf8", "stream"}, c \in 1..MaxRcpts : send_mail(k, c)
    BY <1>w, <2>5 DEF send_mail
  <2>6. CASE quit
    <3>1. CASE WriteThen("Quit", <<>>, Say("QUIT"), "quit")
      <4>1. \/ (state' = "Quit" /\ at' = "quit") \/ state' = "Closed"
            \/ (state' = "Quit" /\ at' = OnCancel("quit"))
        BY <3>1, WriteThenControl
      <4>. QED BY <4>1 DEF QuitAtEnd, OnCancel
    <3>. QED BY <2>6, <3>1, <1>l DEF quit, QuitAtEnd
  <2>7. CASE invalid_input \/ send_message \/ Drop
    BY <1>k, <2>7 DEF invalid_input, send_message, Drop, Refuse
  <2>. QED BY <1>1, <2>1, <2>2, <2>3, <2>4, <2>5, <2>6, <2>7 DEF Call
<1>2. CASE Resume
  <2>1. CASE read_greeting \/ upgrade_to_tls
    BY <1>f, <1>w, <2>1 DEF read_greeting, upgrade_to_tls
  <2>2. CASE send_ehlo
    BY <1>f, <1>d, <2>2 DEF send_ehlo
  <2>3. CASE starttls_reply
    BY <1>f, <1>k, <2>3 DEF starttls_reply, Reply, Await
  <2>4. CASE run_auth
    <3>1. PICK a \in {"auth1", "auth2", "auth3"} :
             /\ Reply(a)
             /\ \/ Done("MailFrom", <<"AuthCompleted">>)
                \/ WriteThen(state, <<>>, Say("RESPONSE"), NextAuth[a])
                \/ Fail(<<>>, AuthFailure(a, Head(rx)), a)
      BY <2>4 DEF run_auth
    <3>2. state # "Quit"
      BY <3>1 DEF Reply, QuitAtEnd
    <3>. QED BY <1>f, <1>w, <1>d, <3>1, <3>2
  <2>5. CASE mail_reply
    BY <1>f, <1>w, <1>k, <2>5 DEF mail_reply, Reply, Await
  <2>6. CASE read_rcpt_reply
    <3>1. state # "Quit" /\ at = "rcpt"
      BY <2>6 DEF read_rcpt_reply, Reply, QuitAtEnd
    <3>. QED BY <1>f, <1>w, <1>k, <2>6, <3>1 DEF read_rcpt_reply, Await
  <2>7. CASE data_reply
    <3>1. state # "Quit" /\ at = "data"
      BY <2>7 DEF data_reply, Reply, QuitAtEnd
    <3>. QED BY <1>f, <1>w, <1>k, <2>7, <3>1 DEF data_reply, Await
  <2>8. CASE stream_body
    <3>1. state # "Quit"
      BY <2>8 DEF stream_body, QuitAtEnd
    <3>. QED BY <1>f, <1>w, <2>8, <3>1 DEF stream_body
  <2>9. CASE final_reply
    BY <1>f, <1>d, <2>9 DEF final_reply
  <2>10. CASE quit_reply
    BY <1>f, <2>10 DEF quit_reply, QuitAtEnd
  <2>11. CASE close_transport
    BY <2>11 DEF close_transport, QuitAtEnd
  <2>12. CASE fill_buf
    BY <1>k, <2>12 DEF fill_buf, callVars
  <2>13. CASE read_fails
    BY <1>f, <2>13 DEF read_fails
  <2>. QED BY <1>2, <2>1, <2>2, <2>3, <2>4, <2>5, <2>6, <2>7, <2>8, <2>9, <2>10, <2>11, <2>12, <2>13
           DEF Resume
<1>3. CASE Cancel
  BY <1>3 DEF Cancel, Suspended, Reading, OnCancel, QuitAtEnd
<1>4. CASE Peer
  BY <1>k, <1>4 DEF Peer, PeerReplies, LinkDown, callVars
<1>5. CASE UNCHANGED vars
  BY <1>k, <1>5 DEF vars
<1>. QED BY <1>1, <1>2, <1>3, <1>4, <1>5 DEF Next, Client, Terminated

(* The property TransitionsAllowed: the refusal branch of                  *)
(* SmtpClient::transition (mod.rs:212-221) is reached by nothing but the   *)
(* quit that follows an abandoned starttls.                                *)
THEOREM TransitionsAreAllowed == Spec => []TransitionsAllowed
<1>1. TypeOK /\ Control /\ IdleIsReusable /\ QuitAtEnd => TransitionsAllowed
  <2>. SUFFICES ASSUME TypeOK, Control, IdleIsReusable, QuitAtEnd PROVE TransitionsAllowed
    OBVIOUS
  <2>1. ASSUME at = "idle"
        PROVE  \/ state = "Closed" \/ can_transition_to(state, "Quit")
               \/ state = "StartTls" /\ cancels > 0
    <3>1. state \in SessionStates \ {"Quit"} /\ cancels \in Nat
      BY <2>1, BoundsAssumption DEF TypeOK, QuitAtEnd
    <3>2. cancels = 0 => state # "StartTls"
      BY <2>1 DEF IdleIsReusable
    <3>. QED BY <3>1, <3>2 DEF SessionStates, can_transition_to
  <2>. QED BY <2>1 DEF Control, AtDecidesState, TransitionsAllowed, can_transition_to
<1>2. Init => QuitAtEnd
  BY DEF Init, QuitAtEnd
<1>3. TypeOK /\ Control /\ QuitAtEnd /\ [Next]_vars => QuitAtEnd'
  BY QuitAtEndStep
<1>. QED BY TypeCorrect, IdleMeansReady, <1>1, <1>2, <1>3, PTL DEF Spec

-----------------------------------------------------------------------------
(***************************************************************************)
(* Part two: the client and the server.                                    *)
(***************************************************************************)

(***************************************************************************)
(* The inductive invariant. The server runs behind the client by the       *)
(* commands it has not read and the replies the client has not consumed;   *)
(* what the two agree on is therefore stated about both, and about what is *)
(* still unread.                                                           *)
(***************************************************************************)
Sending    == {"mail", "rcpt", "data", "body", "final"}
Enveloping == {"mail", "rcpt", "data"}

(* Replies that end a send when it reads them. *)
Bad == {421, 550}
Clean ==
    /\ \A i \in 1..Len(rx) : rx[i].code \notin Bad
    /\ \A i \in 1..Len(net) : net[i].code \notin Bad

(* No 354 is waiting to be read. *)
NoGo ==
    /\ \A i \in 1..Len(rx) : rx[i].code # 354
    /\ \A i \in 1..Len(net) : net[i].code # 354

(* How many commands of the running envelope follow its MAIL, and where    *)
(* that MAIL is.                                                           *)
Behind == IF pipelining \/ at = "data" THEN rcpts + 1
          ELSE IF at = "rcpt" THEN rcpts - todo + 1 ELSE 0
Mark == Len(wrote) - Behind

(* No body can be under way: outside a transaction, and in a quit that no  *)
(* abandoned call precedes.                                                *)
Quiet == \/ state \notin {"Data", "Quit", "Closed"}
         \/ state = "Quit" /\ cancels = 0

Queued == [msg : Nat, body : Nat, to : SUBSET Nat, want : Nat]

ServerOK ==
    /\ mode \in {"greet", "command", "data", "bye"}
    /\ open \in Nat
    /\ accepted \in SUBSET Nat
    /\ served \in 0..Len(wrote)
    /\ cut \in 0..Len(wrote)
    /\ link = "down" => served <= cut
    /\ queue \in Seq(Queued)
    /\ \A j \in 1..Len(queue) : queue[j].msg <= nsend

(* Nothing happens before the greeting. *)
Greeted ==
    mode = "greet" =>
        /\ served = 0 /\ wrote = <<>> /\ rx = <<>> /\ net = <<>>
        /\ at \in {"greeting", "gone"}

(* What the running envelope has written: a MAIL, the recipients in order, *)
(* DATA, all whole, and nothing before them that could open a body.        *)
Trail ==
    at \in Enveloping =>
        /\ Mark >= 1
        /\ wrote[Mark].verb = "MAIL" /\ wrote[Mark].msg = nsend /\ wrote[Mark].whole
        /\ \A i \in 1..Behind :
              /\ wrote[Mark + i].whole
              /\ i <= rcpts => wrote[Mark + i].verb = "RCPT" /\ wrote[Mark + i].arg = i
              /\ i > rcpts => wrote[Mark + i].verb = "DATA"
        /\ \A i \in (served + 1)..(Mark - 1) : wrote[i].verb \notin {"DATA", "BODY"}

(* A session that may start a transaction finds the server in step with it. *)
NoDataYet ==
    Quiet => /\ mode # "data"
             /\ NoGo
             /\ \A i \in (served + 1)..Len(wrote) : wrote[i].verb \notin {"DATA", "BODY"}

(* A 354 is the last word of the server: it has read everything.           *)
GoIsLast ==
    at \in Enveloping =>
        /\ mode = "data" => served = Len(wrote)
        /\ \A i \in 1..Len(net) : net[i].code = 354 => i = Len(net) /\ mode = "data"
        /\ \A i \in 1..Len(rx) : rx[i].code = 354 => i = Len(rx) /\ net = <<>> /\ mode = "data"

(* As long as no refusal is on its way, the server's transaction is the    *)
(* client's, up to the command it has read.                                *)
Agreed ==
    at \in Enveloping /\ Clean /\ (link = "up" \/ ~NoGo) =>
        /\ mode = "command" /\ served >= Mark =>
              open = nsend /\ served - Mark <= rcpts /\ accepted = 1..(served - Mark)
        /\ mode = "data" => open = nsend /\ accepted = 1..rcpts

AtBody ==
    at = "body" =>
        /\ mode = "data" /\ served = Len(wrote) /\ open = nsend /\ accepted = 1..rcpts
        /\ rx = <<>> /\ net = <<>>

(* The server has queued message m for all its recipients. *)
Holds(m) == \E j \in 1..Len(queue) : queue[j].body = m /\ queue[j].to = 1..queue[j].want

(* The final reply is the reply to this very message. *)
Unserved == served = Len(wrote) - 1 /\ mode = "data" /\ rx = <<>> /\ net = <<>>
Answered ==
    /\ served = Len(wrote) /\ mode # "data" /\ NoGo
    /\ rx # <<>> /\ Class(rx[1]) = 2 => Holds(nsend)
    /\ rx = <<>> /\ net # <<>> /\ Class(net[1]) = 2 => Holds(nsend)
AtFinal ==
    at = "final" =>
        /\ Len(wrote) >= 1
        /\ wrote[Len(wrote)].verb = "BODY" /\ wrote[Len(wrote)].whole
        /\ wrote[Len(wrote)].msg = nsend /\ wrote[Len(wrote)].arg = rcpts
        /\ Unserved \/ Answered

(* A body that is under way, torn or whole, abandoned or not, finds the    *)
(* server waiting for it, with its own envelope.                           *)
PendingBody ==
    \A i \in (served + 1)..Len(wrote) : wrote[i].verb = "BODY" =>
        /\ mode = "data" /\ i = served + 1
        /\ open = wrote[i].msg /\ open <= nsend /\ accepted = 1..wrote[i].arg
        /\ \A j \in 1..Len(queue) : queue[j].msg # open

NotQueued ==
    at \in {"mail", "rcpt", "data", "body"} => \A j \in 1..Len(queue) : queue[j].msg # nsend

(* Only abandoned calls tear a command, break a transport without closing  *)
(* the session, or leave a session in the middle of something.             *)
Whole == cancels = 0 => \A i \in 1..Len(wrote) : wrote[i].whole
Unbroken == cancels = 0 /\ sec = "broken" => state = "Closed"
Closing == at = "close" => state \in {"Quit", "StartTls", "Closed"}

(* What the client knows of itself, and what it shares with the server. *)
Local == TypeOK /\ Control /\ IdleIsReusable /\ Unbroken /\ Closing
Ledger ==
    /\ ServerOK /\ Trail /\ NoDataYet /\ GoIsLast /\ Agreed
    /\ AtBody /\ AtFinal /\ PendingBody /\ NotQueued /\ Whole
    /\ QueuedIsComplete /\ OkMeansQueued

SysInv == Local /\ Greeted /\ Ledger /\ InStep
-----------------------------------------------------------------------------
(* What is left of a sequence after its head. *)
LEMMA Rest ==
    ASSUME NEW S, NEW s \in Seq(S), s # <<>>
    PROVE  /\ Len(s) \in Nat /\ Len(s) >= 1 /\ Head(s) = s[1]
           /\ Tail(s) \in Seq(S) /\ Len(Tail(s)) = Len(s) - 1
           /\ \A i \in 1..Len(Tail(s)) : i + 1 \in 1..Len(s) /\ Tail(s)[i] = s[i + 1]
<1>1. Len(s) \in Nat /\ Len(s) >= 1
  BY EmptySeq
<1>. QED BY <1>1, HeadTailProperties

(* A sequence without elements is the empty one. *)
LEMMA Empty ==
    ASSUME NEW S, NEW s \in Seq(S)
    PROVE  Len(s) \in Nat /\ (s = <<>> <=> Len(s) = 0)
  BY EmptySeq, LenProperties

(* A cut in two. *)
LEMMA CutInTwo ==
    ASSUME NEW S, NEW s \in Seq(S), NEW k \in 0..Len(s)
    PROVE  /\ SubSeq(s, 1, k) \in Seq(S) /\ Len(SubSeq(s, 1, k)) = k
           /\ \A i \in 1..k : i \in 1..Len(s) /\ SubSeq(s, 1, k)[i] = s[i]
           /\ SubSeq(s, k + 1, Len(s)) \in Seq(S) /\ Len(SubSeq(s, k + 1, Len(s))) = Len(s) - k
           /\ \A i \in 1..(Len(s) - k) :
                 k + i \in 1..Len(s) /\ SubSeq(s, k + 1, Len(s))[i] = s[k + i]
<1>1. Len(s) \in Nat /\ k \in Nat /\ \A i \in 1..Len(s) : s[i] \in S
  BY LenProperties, ElementOfSeq
<1>2. /\ SubSeq(s, 1, k) \in Seq(S) /\ Len(SubSeq(s, 1, k)) = k
      /\ \A i \in 1..k : SubSeq(s, 1, k)[i] = s[i]
  BY <1>1, SubSeqProperties
<1>3. /\ SubSeq(s, k + 1, Len(s)) \in Seq(S)
      /\ Len(SubSeq(s, k + 1, Len(s))) = IF k + 1 <= Len(s) THEN Len(s) - (k + 1) + 1 ELSE 0
      /\ \A i \in 1..(Len(s) - (k + 1) + 1) : SubSeq(s, k + 1, Len(s))[i] = s[(k + 1) + i - 1]
  BY <1>1, SubSeqProperties
<1>4. \A i \in 1..(Len(s) - k) : (k + 1) + i - 1 = k + i /\ i \in 1..(Len(s) - (k + 1) + 1)
  BY <1>1
<1>. QED BY <1>1, <1>2, <1>3, <1>4
-----------------------------------------------------------------------------
(* Nothing that was written is taken back. *)
Kept == Len(wrote) <= Len(wrote') /\ \A i \in 1..Len(wrote) : wrote'[i] = wrote[i]
New  == (Len(wrote) + 1)..Len(wrote')

(* What a concatenation keeps. *)
LEMMA Appended ==
    ASSUME wrote \in Seq(Commands), NEW t \in Seq(Commands), wrote' = wrote \o t
    PROVE  Kept /\ Len(wrote') = Len(wrote) + Len(t)
<1>1. Len(wrote) \in Nat /\ Len(t) \in Nat
  BY LenProperties
<1>2. Len(wrote') = Len(wrote) + Len(t)
  BY ConcatProperties
<1>3. \A i \in 1..Len(wrote) : wrote'[i] = wrote[i]
  BY <1>1, ConcatProperties
<1>. QED BY <1>1, <1>2, <1>3 DEF Kept

LEMMA AppendedTwice ==
    ASSUME wrote \in Seq(Commands), NEW t \in Seq(Commands), NEW u \in Seq(Commands),
           wrote' = wrote \o t \o u
    PROVE  Kept /\ Len(wrote') = Len(wrote) + Len(t) + Len(u)
<1>1. t \o u \in Seq(Commands) /\ Len(t \o u) = Len(t) + Len(u)
  BY ConcatProperties
<1>2. wrote' = wrote \o (t \o u)
  BY ConcatAssociative
<1>3. Kept /\ Len(wrote') = Len(wrote) + Len(t \o u)
  BY <1>1, <1>2, Appended
<1>4. Len(wrote) \in Nat /\ Len(t) \in Nat /\ Len(u) \in Nat
  BY LenProperties
<1>. QED BY <1>1, <1>3, <1>4

(* WriteThen writes all of cmds, fails without a byte, or is abandoned     *)
(* after a part of them.                                                   *)
LEMMA WriteOutcome ==
    ASSUME TypeOK, NEW s, NEW ev, NEW cmds \in Seq(Commands), NEW a, WriteThen(s, ev, cmds, a)
    PROVE  /\ Kept /\ Len(wrote') <= Len(wrote) + Len(cmds)
           /\ \A i \in New : OneOf(wrote'[i], cmds)
           /\ \/ state' = s /\ at' = a /\ cancels' = cancels /\ wrote' = wrote \o cmds
              \/ state' = "Closed" /\ at' = OnError(a) /\ cancels' = cancels /\ wrote' = wrote
              \/ state' = s /\ at' = OnCancel(a) /\ cancels' = cancels + 1
<1>0. wrote \in Seq(Commands) /\ Len(wrote) \in Nat /\ Len(cmds) \in Nat /\ CallOK
  BY TypeSplit, LenProperties DEF TypeOK
<1>1. \A i \in New : OneOf(wrote'[i], cmds)
  BY <1>0, Written DEF New
<1>2. \/ state' = s /\ at' = a /\ cancels' = cancels /\ wrote' = wrote \o cmds
      \/ state' = "Closed" /\ at' = OnError(a) /\ cancels' = cancels /\ wrote' = wrote
      \/ state' = s /\ at' = OnCancel(a) /\ cancels' = cancels + 1
  BY DEF WriteThen, Fail
<1>4. ASSUME wrote' = wrote PROVE Kept /\ Len(wrote') <= Len(wrote) + Len(cmds)
  BY <1>0, <1>4 DEF Kept
<1>5. ASSUME wrote' = wrote \o cmds PROVE Kept /\ Len(wrote') <= Len(wrote) + Len(cmds)
  <2>1. Kept /\ Len(wrote') = Len(wrote) + Len(cmds)
    BY <1>0, <1>5, Appended
  <2>. QED BY <1>0, <2>1
<1>6. ASSUME NEW k \in 0..(Len(cmds) - 1),
             \/ wrote' = wrote \o SubSeq(cmds, 1, k)
             \/ wrote' = wrote \o SubSeq(cmds, 1, k) \o <<[cmds[k + 1] EXCEPT !.whole = FALSE]>>
      PROVE  Kept /\ Len(wrote') <= Len(wrote) + Len(cmds)
  <2>. DEFINE t == SubSeq(cmds, 1, k)
              torn == [cmds[k + 1] EXCEPT !.whole = FALSE]
  <2>1. k \in 0..Len(cmds) /\ k + 1 \in 1..Len(cmds) /\ k \in Nat
    BY <1>0
  <2>2. t \in Seq(Commands) /\ Len(t) = k
    BY <2>1, CutInTwo
  <2>3. torn \in Commands
    <3>1. cmds[k + 1] \in Commands
      BY <2>1, ElementOfSeq
    <3>. QED BY <3>1 DEF Commands
  <2>4. <<torn>> \in Seq(Commands) /\ Len(<<torn>>) = 1
    BY <2>3
  <2>5. CASE wrote' = wrote \o t
    <3>1. Kept /\ Len(wrote') = Len(wrote) + Len(t)
      BY <1>0, <2>2, <2>5, Appended
    <3>. QED BY <1>0, <2>1, <2>2, <3>1
  <2>6. CASE wrote' = wrote \o t \o <<torn>>
    <3>1. Kept /\ Len(wrote') = Len(wrote) + Len(t) + Len(<<torn>>)
      BY <1>0, <2>2, <2>4, <2>6, AppendedTwice
    <3>. QED BY <1>0, <2>1, <2>2, <2>4, <3>1
  <2>. QED BY <1>6, <2>5, <2>6
<1>. QED BY <1>1, <1>2, <1>4, <1>5, <1>6 DEF WriteThen, Fail

(* The same for a single command. *)
LEMMA WriteOne ==
    ASSUME TypeOK, NEW s, NEW ev, NEW c \in Commands, NEW a, WriteThen(s, ev, <<c>>, a)
    PROVE  /\ Kept /\ Len(wrote') <= Len(wrote) + 1
           /\ \A i \in New : /\ wrote'[i].verb = c.verb
                             /\ wrote'[i].msg = c.msg /\ wrote'[i].arg = c.arg
           /\ \/ /\ state' = s /\ at' = a /\ cancels' = cancels
                 /\ Len(wrote') = Len(wrote) + 1 /\ wrote'[Len(wrote) + 1] = c
              \/ state' = "Closed" /\ at' = OnError(a) /\ cancels' = cancels /\ wrote' = wrote
              \/ state' = s /\ at' = OnCancel(a) /\ cancels' = cancels + 1
<1>0. wrote \in Seq(Commands) /\ Len(wrote) \in Nat /\ CallOK
  BY TypeSplit, LenProperties DEF TypeOK
<1>1. <<c>> \in Seq(Commands) /\ Len(<<c>>) = 1 /\ <<c>>[1] = c
  OBVIOUS
<1>2. \A i \in New : wrote'[i].verb = c.verb /\ wrote'[i].msg = c.msg /\ wrote'[i].arg = c.arg
  BY <1>0, WrittenOne DEF New
<1>3. ASSUME wrote' = wrote \o <<c>>
      PROVE  Len(wrote') = Len(wrote) + 1 /\ wrote'[Len(wrote) + 1] = c
  BY <1>0, <1>1, <1>3, ConcatProperties
<1>. QED BY <1>1, <1>2, <1>3, WriteOutcome
-----------------------------------------------------------------------------
(* A step of the client reads at most one reply. *)
Consumes == net' = net /\ (rx' = rx \/ (rx # <<>> /\ rx' = Tail(rx)))

LEMMA Shifted ==
    ASSUME TypeOK, Consumes
    PROVE  \E d \in {0, 1} :
              /\ Len(rx) \in Nat /\ Len(rx') \in Nat /\ Len(rx') = Len(rx) - d
              /\ \A i \in 1..Len(rx') : i + d \in 1..Len(rx) /\ rx'[i] = rx[i + d]
              /\ d = 0 => rx' = rx
              /\ d = 1 => rx # <<>> /\ rx' = Tail(rx) /\ Head(rx) = rx[1]
<1>0. rx \in Seq(Received) /\ Len(rx) \in Nat
  BY LenProperties DEF TypeOK
<1>1. CASE rx' = rx
  <2>1. \A i \in 1..Len(rx) : i + 0 = i
    BY <1>0
  <2>. QED BY <1>0, <1>1, <2>1
<1>2. CASE rx # <<>> /\ rx' = Tail(rx)
  BY <1>0, <1>2, Rest
<1>. QED BY <1>1, <1>2 DEF Consumes

LEMMA NoGoConsumed ==
    ASSUME TypeOK, Consumes, NoGo
    PROVE  NoGo'
  BY Shifted DEF NoGo, Consumes

(* What was clean stays clean, and what is clean was so but for the head. *)
LEMMA CleanConsumed ==
    ASSUME TypeOK, Consumes, Clean', rx' = rx \/ Head(rx).code \notin Bad
    PROVE  Clean
<1>1. PICK d \in {0, 1} :
              /\ Len(rx) \in Nat /\ Len(rx') \in Nat /\ Len(rx') = Len(rx) - d
              /\ \A i \in 1..Len(rx') : i + d \in 1..Len(rx) /\ rx'[i] = rx[i + d]
              /\ d = 0 => rx' = rx
              /\ d = 1 => rx # <<>> /\ rx' = Tail(rx) /\ Head(rx) = rx[1]
  BY Shifted
<1>2. CASE rx' = rx
  BY <1>2 DEF Clean, Consumes
<1>3. CASE d = 1 /\ Head(rx).code \notin Bad
  <2>1. ASSUME NEW j \in 1..Len(rx) PROVE rx[j].code \notin Bad
    <3>1. CASE j = 1
      BY <1>1, <1>3, <3>1
    <3>2. CASE j # 1
      <4>1. j - 1 \in 1..Len(rx') /\ (j - 1) + 1 = j
        BY <1>1, <1>3, <3>2
      <4>2. rx'[j - 1] = rx[j] /\ rx'[j - 1].code \notin Bad
        BY <1>1, <1>3, <4>1 DEF Clean
      <4>. QED BY <4>2
    <3>. QED BY <3>1, <3>2
  <2>. QED BY <2>1 DEF Clean, Consumes
<1>. QED BY <1>1, <1>2, <1>3

(* A read moves replies from the network to the buffer, in order. *)
LEMMA Moved ==
    ASSUME TypeOK, fill_buf
    PROVE  \E k \in 1..Len(net) :
              /\ Len(net) \in Nat /\ rx = <<>> /\ Len(rx) = 0
              /\ Len(rx') = k /\ Len(net') = Len(net) - k
              /\ \A i \in 1..k : i \in 1..Len(net) /\ rx'[i] = net[i]
              /\ \A i \in 1..(Len(net) - k) : k + i \in 1..Len(net) /\ net'[i] = net[k + i]
              /\ rx' \in Seq(Received) /\ net' \in Seq(Received)
<1>0. net \in Seq(Received) /\ Len(net) \in Nat /\ Len(<<>>) = 0
  BY LenProperties, EmptySeq DEF TypeOK
<1>1. PICK k \in 1..Len(net) : rx' = SubSeq(net, 1, k) /\ net' = SubSeq(net, k + 1, Len(net))
  BY DEF fill_buf
<1>2. k \in 0..Len(net)
  BY <1>0
<1>. QED BY <1>0, <1>1, <1>2, CutInTwo DEF fill_buf

LEMMA UnreadMoved ==
    ASSUME TypeOK, fill_buf
    PROVE  (Clean' <=> Clean) /\ (NoGo' <=> NoGo)
<1>1. PICK k \in 1..Len(net) :
              /\ Len(net) \in Nat /\ rx = <<>> /\ Len(rx) = 0
              /\ Len(rx') = k /\ Len(net') = Len(net) - k
              /\ \A i \in 1..k : i \in 1..Len(net) /\ rx'[i] = net[i]
              /\ \A i \in 1..(Len(net) - k) : k + i \in 1..Len(net) /\ net'[i] = net[k + i]
  BY Moved
<1>2. ASSUME NEW j \in 1..Len(net)
      PROVE  \/ j \in 1..Len(rx') /\ rx'[j] = net[j]
             \/ j - k \in 1..Len(net') /\ net'[j - k] = net[j]
  <2>1. CASE j <= k
    BY <1>1, <2>1
  <2>2. CASE j > k
    <3>1. j - k \in 1..(Len(net) - k) /\ k + (j - k) = j
      BY <1>1, <2>2
    <3>. QED BY <1>1, <3>1
  <2>. QED BY <1>1, <2>1, <2>2
<1>3. Clean => Clean'
  BY <1>1 DEF Clean
<1>4. NoGo => NoGo'
  BY <1>1, SMTT(20) DEF NoGo
<1>5. Clean' => Clean
  BY <1>1, <1>2 DEF Clean
<1>6. NoGo' => NoGo
  BY <1>1, <1>2 DEF NoGo
<1>. QED BY <1>3, <1>4, <1>5, <1>6
-----------------------------------------------------------------------------
(* A step of the client that leaves no envelope and no body in progress:   *)
(* all of the handshake, every failure and every abandoned call but that   *)
(* of a body.                                                              *)
Aside ==
    /\ at' \notin Sending
    /\ Kept
    /\ \A i \in New : /\ wrote'[i].verb # "BODY"
                      /\ wrote'[i].verb = "DATA" => ~Quiet'
                      /\ cancels' = 0 => wrote'[i].whole
    /\ Consumes
    /\ nsend <= nsend' /\ cancels <= cancels'
    /\ Quiet' => Quiet
    /\ UNCHANGED <<link, oks, serverVars>>

LEMMA AsideStep ==
    ASSUME TypeOK, TypeOK', Ledger, Aside
    PROVE  Ledger'
<1>0. /\ wrote \in Seq(Commands) /\ wrote' \in Seq(Commands) /\ Len(wrote) \in Nat /\ Len(wrote') \in Nat
      /\ nsend \in Nat /\ nsend' \in Nat /\ cancels \in Nat /\ cancels' \in Nat
  BY LenProperties, BoundsAssumption DEF TypeOK
<1>s. UNCHANGED <<mode, open, accepted, served, cut, queue>>
  BY DEF Aside, serverVars
<1>q. served \in Nat /\ served <= Len(wrote) /\ queue \in Seq(Queued) /\ open \in Nat
  BY <1>0 DEF Ledger, ServerOK
<1>1. ServerOK'
  <2>1. \A j \in 1..Len(queue) : queue[j].msg \in Nat /\ queue[j].msg <= nsend'
    <3>1. \A j \in 1..Len(queue) : queue[j] \in Queued
      BY <1>q, ElementOfSeq
    <3>2. \A j \in 1..Len(queue) : queue[j].msg \in Nat
      BY <3>1 DEF Queued
    <3>. QED BY <1>0, <3>2 DEF Ledger, ServerOK, Aside
  <2>. QED BY <1>0, <1>s, <2>1 DEF Ledger, ServerOK, Aside, Kept
<1>2. /\ Trail' /\ GoIsLast' /\ AtBody' /\ AtFinal' /\ NotQueued'
  BY DEF Aside, Sending, Enveloping, Trail, GoIsLast, AtBody, AtFinal, NotQueued
<1>3. Agreed'
  BY DEF Aside, Sending, Enveloping, Agreed
<1>4. NoDataYet'
  <2>. SUFFICES ASSUME Quiet' PROVE NoDataYet'
    BY DEF NoDataYet
  <2>1. Quiet /\ mode' # "data" /\ NoGo
    BY <1>s DEF Aside, Ledger, NoDataYet
  <2>2. NoGo'
    BY <2>1, NoGoConsumed DEF Aside
  <2>3. ASSUME NEW i \in (served + 1)..Len(wrote') PROVE wrote'[i].verb \notin {"DATA", "BODY"}
    <3>1. CASE i <= Len(wrote)
      <4>1. i \in (served + 1)..Len(wrote) /\ wrote'[i] = wrote[i]
        BY <1>0, <1>q, <3>1 DEF Aside, Kept
      <4>. QED BY <2>1, <4>1 DEF Ledger, NoDataYet
    <3>2. CASE i > Len(wrote)
      <4>1. i \in New
        BY <1>0, <1>q, <3>2 DEF New
      <4>. QED BY <4>1 DEF Aside
    <3>. QED BY <1>0, <1>q, <3>1, <3>2
  <2>. QED BY <1>s, <2>1, <2>2, <2>3 DEF NoDataYet
<1>5. PendingBody'
  <2>. SUFFICES ASSUME NEW i \in (served + 1)..Len(wrote'), wrote'[i].verb = "BODY"
                PROVE  /\ mode = "data" /\ i = served + 1
                       /\ open = wrote'[i].msg /\ open <= nsend' /\ accepted = 1..wrote'[i].arg
                       /\ \A j \in 1..Len(queue) : queue[j].msg # open
    BY <1>s DEF PendingBody
  <2>1. i <= Len(wrote)
    <3>1. i > Len(wrote) => i \in New
      BY <1>0, <1>q DEF New
    <3>. QED BY <1>0, <1>q, <3>1 DEF Aside
  <2>2. i \in (served + 1)..Len(wrote) /\ wrote'[i] = wrote[i]
    BY <1>0, <1>q, <2>1 DEF Aside, Kept
  <2>3. open <= nsend'
    BY <1>0, <1>q, <2>2 DEF Aside, Ledger, PendingBody
  <2>. QED BY <2>2, <2>3 DEF Ledger, PendingBody
<1>6. Whole'
  <2>. SUFFICES ASSUME cancels' = 0, NEW i \in 1..Len(wrote') PROVE wrote'[i].whole
    BY DEF Whole
  <2>1. CASE i <= Len(wrote)
    BY <1>0, <2>1 DEF Aside, Kept, Ledger, Whole
  <2>2. CASE i > Len(wrote)
    BY <1>0, <2>2 DEF Aside, New
  <2>. QED BY <1>0, <2>1, <2>2
<1>7. QueuedIsComplete' /\ OkMeansQueued'
  BY <1>s DEF Aside, Ledger, QueuedIsComplete, OkMeansQueued
<1>. QED BY <1>1, <1>2, <1>3, <1>4, <1>5, <1>6, <1>7 DEF Ledger

(* A failed call. *)
LEMMA FailAside ==
    ASSUME TypeOK, NEW ev, NEW err, NEW a, Fail(ev, err, a), Consumes, nsend' = nsend,
           UNCHANGED <<link, oks, serverVars>>
    PROVE  Aside
<1>0. Len(wrote) \in Nat /\ nsend \in Nat /\ cancels \in Nat
  BY LenProperties, BoundsAssumption DEF TypeOK
<1>1. wrote' = wrote /\ cancels' = cancels /\ state' = "Closed" /\ at' = OnError(a)
  BY DEF Fail
<1>2. at' \notin Sending
  BY <1>1 DEF OnError, Sending
<1>3. ~Quiet'
  BY <1>1 DEF Quiet
<1>4. Kept /\ New = {}
  BY <1>0, <1>1 DEF Kept, New
<1>. QED BY <1>0, <1>1, <1>2, <1>3, <1>4 DEF Aside

(* A step that writes nothing. *)
LEMMA SilentAside ==
    ASSUME TypeOK, wrote' = wrote, at' \notin Sending, Consumes, nsend' = nsend,
           cancels <= cancels', Quiet' => Quiet, UNCHANGED <<link, oks, serverVars>>
    PROVE  Aside
<1>0. Len(wrote) \in Nat /\ nsend \in Nat
  BY LenProperties, BoundsAssumption DEF TypeOK
<1>1. Kept /\ New = {}
  BY <1>0 DEF Kept, New
<1>. QED BY <1>0, <1>1 DEF Aside

(* A step that writes commands that are no body, or a part of them. *)
LEMMA WriteAside ==
    ASSUME TypeOK, NEW s, NEW ev, NEW cmds \in Seq(Commands), NEW a, WriteThen(s, ev, cmds, a),
           \A j \in 1..Len(cmds) : /\ cmds[j].verb # "BODY" /\ cmds[j].whole
                                   /\ cmds[j].verb = "DATA" => s = "Data",
           at' \notin Sending, Consumes, nsend <= nsend', Quiet' => Quiet,
           UNCHANGED <<link, oks, serverVars>>
    PROVE  Aside
<1>0. /\ wrote \in Seq(Commands) /\ Len(wrote) \in Nat /\ Len(cmds) \in Nat
      /\ nsend \in Nat /\ cancels \in Nat
  BY LenProperties, BoundsAssumption DEF TypeOK
<1>1. /\ Kept /\ \A i \in New : OneOf(wrote'[i], cmds)
      /\ \/ state' = s /\ at' = a /\ cancels' = cancels /\ wrote' = wrote \o cmds
         \/ state' = "Closed" /\ at' = OnError(a) /\ cancels' = cancels /\ wrote' = wrote
         \/ state' = s /\ at' = OnCancel(a) /\ cancels' = cancels + 1
  BY WriteOutcome
<1>2. cancels <= cancels'
  BY <1>0, <1>1
<1>3. ASSUME NEW i \in New
      PROVE  wrote'[i].verb # "BODY" /\ (wrote'[i].verb = "DATA" => ~Quiet')
  <2>1. PICK j \in 1..Len(cmds) : wrote'[i].verb = cmds[j].verb
    BY <1>1 DEF OneOf
  <2>2. state' = s \/ state' = "Closed"
    BY <1>1
  <2>. QED BY <2>1, <2>2 DEF Quiet
<1>4. ASSUME NEW i \in New, cancels' = 0
      PROVE  wrote'[i].whole
  <2>1. CASE wrote' = wrote
    BY <1>0, <2>1 DEF New
  <2>2. CASE wrote' = wrote \o cmds
    <3>1. Len(wrote') = Len(wrote) + Len(cmds) /\ wrote'[i] = cmds[i - Len(wrote)]
      BY <1>0, <2>2, ConcatProperties DEF New
    <3>2. i - Len(wrote) \in 1..Len(cmds)
      BY <1>0, <3>1 DEF New
    <3>. QED BY <3>1, <3>2
  <2>. QED BY <1>0, <1>1, <1>4, <2>1, <2>2
<1>. QED BY <1>1, <1>2, <1>3, <1>4 DEF Aside

LEMMA WriteOneAside ==
    ASSUME TypeOK, NEW s, NEW ev, NEW c \in Commands, NEW a, WriteThen(s, ev, <<c>>, a),
           c.verb # "BODY", c.whole, c.verb = "DATA" => s = "Data",
           at' \notin Sending, Consumes, nsend <= nsend', Quiet' => Quiet,
           UNCHANGED <<link, oks, serverVars>>
    PROVE  Aside
<1>1. <<c>> \in Seq(Commands) /\ Len(<<c>>) = 1 /\ <<c>>[1] = c
  OBVIOUS
<1>2. \A j \in 1..Len(<<c>>) : /\ <<c>>[j].verb # "BODY" /\ <<c>>[j].whole
                               /\ <<c>>[j].verb = "DATA" => s = "Data"
  BY <1>1
<1>. QED BY <1>1, <1>2, WriteAside

(* A command of the handshake: any verb but those of a transaction.        *)
LEMMA SayAside ==
    ASSUME TypeOK, NEW s, NEW ev, NEW verb \in Verbs, NEW over \in {"plain", "tls"}, NEW a,
           WriteThen(s, ev, <<Command(verb, over, 0, 0)>>, a), a \notin Sending,
           verb \notin {"DATA", "BODY"}, Quiet \/ ~Quiet', Consumes, nsend' = nsend,
           UNCHANGED <<link, oks, serverVars>>
    PROVE  Aside
<1>1. Command(verb, over, 0, 0) \in Commands
  BY CommandType
<1>2. /\ Command(verb, over, 0, 0).verb = verb /\ Command(verb, over, 0, 0).whole
  BY DEF Command
<1>3. at' \notin Sending
  <2>1. at' \in {a, OnError(a), OnCancel(a)}
    BY WriteThenControl
  <2>. QED BY <2>1 DEF OnError, OnCancel, Sending
<1>4. nsend <= nsend'
  BY BoundsAssumption DEF TypeOK
<1>. QED BY <1>1, <1>2, <1>3, <1>4, WriteOneAside

(* Everything but a transaction leaves the ledger alone. *)
Handshake ==
    \/ read_greeting \/ send_ehlo \/ starttls \/ starttls_reply \/ upgrade_to_tls
    \/ login \/ (\E m \in Mechanisms : login_with(m)) \/ run_auth
    \/ (\E k \in {"mail", "utf8", "stream"} : check_send(k))
    \/ quit \/ quit_reply \/ close_transport \/ read_fails
    \/ invalid_input \/ send_message \/ Cancel \/ Drop

LEMMA HandshakeAside ==
    ASSUME Local, Handshake, UNCHANGED serverVars
    PROVE  Aside
<1>0. TypeOK /\ RestOK /\ Control /\ IdleIsReusable
  BY TypeSplit DEF Local
<1>n. 0 \in Nat /\ cancels \in Nat
  BY <1>0, BoundsAssumption DEF TypeOK
<1>c. ASSUME state \notin {"StartTls", "Closed"} PROVE sec \in {"plain", "tls"}
  BY <1>0, <1>c, ActiveChannel DEF Control
<1>r. ASSUME NEW a, Reply(a), UNCHANGED peerVars PROVE Consumes
  BY <1>r DEF Reply, Consumes, peerVars
<1>u. ASSUME UNCHANGED rx, UNCHANGED peerVars PROVE Consumes
  <2>1. rx' = rx /\ net' = net
    BY <1>u DEF peerVars
  <2>. QED BY <2>1 DEF Consumes
<1>w. ASSUME NEW s, NEW ev, NEW verb \in Verbs \ {"DATA", "BODY"}, NEW a, a \notin Sending,
             WriteThen(s, ev, Say(verb), a), state \notin {"StartTls", "Closed"},
             Quiet \/ ~Quiet', Consumes, UNCHANGED peerVars, UNCHANGED sendVars
      PROVE  Aside
  BY <1>0, <1>c, <1>w, SayAside DEF Say, peerVars, sendVars
<1>f. ASSUME NEW ev, NEW err, NEW a, Fail(ev, err, a), Consumes, UNCHANGED peerVars, UNCHANGED sendVars
      PROVE  Aside
  BY <1>0, <1>f, FailAside DEF peerVars, sendVars
<1>i. ASSUME wrote' = wrote, at' \notin Sending, cancels' = cancels, Consumes, UNCHANGED peerVars,
             UNCHANGED sendVars, Quiet' => Quiet
      PROVE  Aside
  BY <1>0, <1>n, <1>i, SilentAside DEF peerVars, sendVars
<1>e. ASSUME NEW err, Refuse(err), at = "idle", UNCHANGED rx, UNCHANGED peerVars, UNCHANGED sendVars
      PROVE  Aside
  <2>1. wrote' = wrote /\ at' \notin Sending /\ cancels' = cancels /\ (Quiet' => Quiet)
    BY <1>e DEF Refuse, Quiet, Sending
  <2>. QED BY <1>e, <1>i, <1>u, <2>1
<1>l. ASSUME NEW m, login_with(m) PROVE Aside
  <2>1. /\ state = "Authentication" /\ Consumes /\ Quiet
        /\ UNCHANGED peerVars /\ UNCHANGED sendVars /\ UNCHANGED rx /\ at = "idle"
    BY <1>l, <1>u DEF login_with, MayLogin, Quiet
  <2>2. CASE WriteThen(state, <<>>, Say("AUTH"), "auth1")
    BY <1>w, <2>1, <2>2 DEF Verbs, Sending
  <2>. QED BY <1>l, <1>e, <1>f, <2>1, <2>2 DEF login_with
<1>1. CASE read_greeting
  <2>1. state = "Greeting" /\ Quiet /\ Consumes /\ UNCHANGED peerVars /\ UNCHANGED sendVars
    BY <1>0, <1>1, <1>r DEF read_greeting, Reply, Control, AtDecidesState, Quiet
  <2>2. CASE WriteThen("Ehlo", <<"GreetingReceived">>, Say("EHLO"), "ehlo")
    BY <1>w, <2>1, <2>2 DEF Verbs, Sending
  <2>. QED BY <1>1, <1>f, <2>1, <2>2 DEF read_greeting
<1>2. CASE send_ehlo
  <2>1. PICK a \in {"ehlo", "reehlo"} :
            /\ Reply(a)
            /\ \/ Done("Authentication", <<"EhloCompleted">>)
               \/ Fail(<<>>, "Protocol", a)
    BY <1>2 DEF send_ehlo
  <2>2. Quiet /\ Consumes /\ UNCHANGED peerVars /\ UNCHANGED sendVars
    BY <1>0, <1>2, <1>r, <2>1 DEF send_ehlo, Reply, Control, AtDecidesState, Quiet
  <2>3. CASE Done("Authentication", <<"EhloCompleted">>)
    BY <1>i, <2>2, <2>3 DEF Done, Sending
  <2>. QED BY <1>f, <2>1, <2>2, <2>3
<1>3. CASE starttls
  <2>1. state = "Authentication" /\ Quiet /\ Consumes /\ UNCHANGED peerVars /\ UNCHANGED sendVars
    BY <1>3, <1>u DEF starttls, Quiet
  <2>2. CASE WriteThen("StartTls", <<>>, Say("STARTTLS"), "starttls")
    BY <1>w, <2>1, <2>2 DEF Verbs, Sending
  <2>. QED BY <1>3, <1>f, <2>1, <2>2 DEF starttls
<1>4. CASE starttls_reply
  <2>1. Quiet /\ Consumes /\ UNCHANGED peerVars /\ UNCHANGED sendVars
    BY <1>0, <1>4, <1>r DEF starttls_reply, Reply, Control, AtDecidesState, Quiet
  <2>2. CASE Await(<<>>, "upgrade")
    BY <1>i, <2>1, <2>2 DEF Await, Sending
  <2>. QED BY <1>4, <1>f, <2>1, <2>2 DEF starttls_reply
<1>5. CASE upgrade_to_tls
  <2>1. Quiet /\ Consumes /\ UNCHANGED peerVars /\ UNCHANGED sendVars
    BY <1>0, <1>5, <1>u DEF upgrade_to_tls, Control, AtDecidesState, Quiet
  <2>2. CASE WriteThen("Ehlo", <<"TlsUpgraded">>, <<Command("EHLO", "tls", 0, 0)>>, "reehlo")
    BY <1>0, <2>1, <2>2, SayAside DEF Verbs, Sending, peerVars, sendVars
  <2>. QED BY <1>5, <1>f, <2>1, <2>2 DEF upgrade_to_tls
<1>6. CASE login
  BY <1>6, <1>l, <1>f, <1>u DEF login
<1>7. CASE \E m \in Mechanisms : login_with(m)
  BY <1>7, <1>l
<1>8. CASE run_auth
  <2>1. PICK a \in {"auth1", "auth2", "auth3"} :
           /\ Reply(a)
           /\ \/ Done("MailFrom", <<"AuthCompleted">>)
              \/ WriteThen(state, <<>>, Say("RESPONSE"), NextAuth[a])
              \/ Fail(<<>>, AuthFailure(a, Head(rx)), a)
    BY <1>8 DEF run_auth
  <2>2. /\ state = "Authentication" /\ Quiet /\ Consumes /\ UNCHANGED peerVars /\ UNCHANGED sendVars
        /\ NextAuth[a] \notin Sending
    BY <1>0, <1>8, <1>r, <2>1 DEF run_auth, Reply, Control, AtDecidesState, Quiet, NextAuth, Sending
  <2>3. CASE Done("MailFrom", <<"AuthCompleted">>)
    BY <1>i, <2>2, <2>3 DEF Done, Sending
  <2>4. CASE WriteThen(state, <<>>, Say("RESPONSE"), NextAuth[a])
    BY <1>w, <2>2, <2>4 DEF Verbs
  <2>. QED BY <1>f, <2>1, <2>2, <2>3, <2>4
<1>9. CASE \E k \in {"mail", "utf8", "stream"} : check_send(k)
  BY <1>9, <1>e, <1>f, <1>u DEF check_send
<1>10. CASE quit
  <2>1. Consumes /\ UNCHANGED peerVars /\ UNCHANGED sendVars /\ at = "idle"
    BY <1>10, <1>u DEF quit
  <2>2. CASE wrote' = wrote /\ state' = state /\ cancels' = cancels /\ at' \in {"gone", "close"}
    BY <1>i, <2>1, <2>2 DEF Quiet, Sending
  <2>3. CASE state # "Closed" /\ can_transition_to(state, "Quit") /\ WriteThen("Quit", <<>>, Say("QUIT"), "quit")
    <3>1. state # "StartTls"
      BY <2>3 DEF can_transition_to
    <3>2. Quiet \/ ~Quiet'
      <4>1. state' \in {"Quit", "Closed"} /\ (cancels' = cancels \/ cancels' = cancels + 1)
        BY <2>3 DEF WriteThen, Fail
      <4>2. cancels' = 0 => cancels = 0
        BY <1>n, <4>1
      <4>. QED BY <1>0, <2>1, <2>3, <4>1, <4>2 DEF Quiet, IdleIsReusable
    <3>. QED BY <1>w, <2>1, <2>3, <3>1, <3>2 DEF Verbs, Sending
  <2>. QED BY <1>10, <2>2, <2>3 DEF quit
<1>11. CASE quit_reply
  <2>1. Consumes /\ UNCHANGED peerVars /\ UNCHANGED sendVars
    BY <1>11, <1>r DEF quit_reply
  <2>2. CASE wrote' = wrote /\ state' = state /\ cancels' = cancels /\ at' = "close"
    BY <1>i, <2>1, <2>2 DEF Quiet, Sending
  <2>. QED BY <1>11, <1>f, <2>1, <2>2 DEF quit_reply
<1>12. CASE close_transport
  <2>1. Consumes /\ UNCHANGED peerVars /\ UNCHANGED sendVars
    BY <1>12, <1>u DEF close_transport
  <2>2. wrote' = wrote /\ cancels' = cancels /\ at' \notin Sending /\ ~Quiet'
    BY <1>12 DEF close_transport, Quiet, Sending
  <2>. QED BY <1>i, <2>1, <2>2
<1>13. CASE read_fails
  <2>1. Consumes /\ UNCHANGED peerVars /\ UNCHANGED sendVars
    BY <1>13 DEF read_fails, Consumes, peerVars
  <2>. QED BY <1>13, <1>f, <2>1 DEF read_fails
<1>14. CASE invalid_input
  BY <1>14, <1>e DEF invalid_input
<1>15. CASE send_message
  BY <1>15, <1>e DEF send_message
<1>16. CASE Cancel
  <2>1. Consumes /\ UNCHANGED peerVars /\ UNCHANGED sendVars
    BY <1>16, <1>u DEF Cancel
  <2>2. wrote' = wrote /\ cancels' = cancels + 1 /\ at' \notin Sending /\ state' = state
    BY <1>16 DEF Cancel, OnCancel, Sending
  <2>3. cancels <= cancels' /\ (Quiet' => Quiet)
    BY <1>n, <2>2 DEF Quiet
  <2>. QED BY <1>0, <2>1, <2>2, <2>3, SilentAside DEF peerVars, sendVars
<1>17. CASE Drop
  <2>1. Consumes /\ UNCHANGED peerVars /\ UNCHANGED sendVars
    BY <1>17, <1>u DEF Drop
  <2>2. wrote' = wrote /\ cancels' = cancels /\ at' \notin Sending /\ (Quiet' => Quiet)
    BY <1>17 DEF Drop, Quiet, Sending
  <2>. QED BY <1>i, <2>1, <2>2
<1>. QED
  BY <1>1, <1>2, <1>3, <1>4, <1>5, <1>6, <1>7, <1>8, <1>9, <1>10, <1>11, <1>12, <1>13, <1>14,
     <1>15, <1>16, <1>17 DEF Handshake
-----------------------------------------------------------------------------
(* A read changes what is unread only in where it is. *)
LEMMA FillStep ==
    ASSUME TypeOK, Ledger, fill_buf, UNCHANGED serverVars
    PROVE  Ledger'
<1>u. /\ UNCHANGED <<mode, open, accepted, served, cut, queue>>
      /\ UNCHANGED <<state, wrote, at, cancels, link, rcpts, todo, pipelining, nsend, oks>>
  BY DEF fill_buf, serverVars, callVars, sendVars
<1>1. PICK k \in 1..Len(net) :
              /\ Len(net) \in Nat /\ rx = <<>> /\ Len(rx) = 0
              /\ Len(rx') = k /\ Len(net') = Len(net) - k
              /\ \A i \in 1..k : i \in 1..Len(net) /\ rx'[i] = net[i]
              /\ \A i \in 1..(Len(net) - k) : k + i \in 1..Len(net) /\ net'[i] = net[k + i]
              /\ rx' \in Seq(Received) /\ net' \in Seq(Received)
  BY Moved
<1>2. (Clean' <=> Clean) /\ (NoGo' <=> NoGo)
  BY UnreadMoved
<1>3. net # <<>> /\ rx' # <<>>
  BY <1>1, Empty DEF TypeOK
<1>4. ServerOK' /\ NotQueued' /\ Whole' /\ QueuedIsComplete' /\ OkMeansQueued'
  BY <1>u DEF Ledger, ServerOK, NotQueued, Whole, QueuedIsComplete, OkMeansQueued
<1>5. Trail'
  BY <1>u DEF Ledger, Trail, Mark, Behind
<1>6. NoDataYet' /\ PendingBody'
  BY <1>u, <1>2 DEF Ledger, NoDataYet, PendingBody, Quiet
<1>7. Agreed'
  BY <1>u, <1>2 DEF Ledger, Agreed, Mark, Behind
<1>8. AtBody'
  BY <1>u, <1>3 DEF Ledger, AtBody
<1>9. GoIsLast'
  <2>. SUFFICES ASSUME at \in Enveloping PROVE GoIsLast'
    BY <1>u DEF GoIsLast
  <2>1. ASSUME NEW i \in 1..Len(net'), net'[i].code = 354
        PROVE  i = Len(net') /\ mode = "data"
    <3>1. k + i \in 1..Len(net) /\ net[k + i].code = 354
      BY <1>1, <2>1
    <3>2. k + i = Len(net) /\ mode = "data"
      BY <3>1 DEF Ledger, GoIsLast
    <3>3. i \in Int /\ k \in Int /\ Len(net) \in Int /\ Len(net') = Len(net) - k
      BY <1>1
    <3>. QED BY <3>2, <3>3
  <2>2. ASSUME NEW i \in 1..Len(rx'), rx'[i].code = 354
        PROVE  i = Len(rx') /\ net' = <<>> /\ mode = "data"
    <3>1. i \in 1..Len(net) /\ net[i].code = 354
      BY <1>1, <2>2
    <3>2. i = Len(net) /\ mode = "data"
      BY <3>1 DEF Ledger, GoIsLast
    <3>3. k = Len(net) /\ Len(net') = 0
      BY <1>1, <2>2, <3>2
    <3>4. net' = <<>>
      BY <1>1, <3>3, Empty
    <3>. QED BY <1>1, <3>2, <3>3, <3>4
  <2>. QED BY <1>u, <2>1, <2>2 DEF Ledger, GoIsLast
<1>10. AtFinal'
  <2>. SUFFICES ASSUME at = "final" PROVE AtFinal'
    BY <1>u DEF AtFinal
  <2>1. Answered
    BY <1>3 DEF Ledger, AtFinal, Unserved
  <2>2. rx'[1] = net[1]
    BY <1>1
  <2>3. Holds(nsend) => Holds(nsend)'
    BY <1>u DEF Holds
  <2>4. Answered'
    BY <1>u, <1>1, <1>2, <1>3, <2>1, <2>2, <2>3 DEF Answered, Class
  <2>. QED BY <1>u, <2>4 DEF Ledger, AtFinal
<1>. QED BY <1>4, <1>5, <1>6, <1>7, <1>8, <1>9, <1>10 DEF Ledger

(* A new transaction: its envelope, or the MAIL of it, is written behind   *)
(* everything the server can mistake it for.                               *)
Starts(c) ==
    /\ Quiet /\ at' = "mail" /\ rcpts' = c /\ nsend' = nsend + 1 /\ cancels' = cancels
    /\ Kept /\ Len(wrote') = Len(wrote) + (IF pipelining' THEN c + 2 ELSE 1)
    /\ LET m == Len(wrote) + 1
       IN  /\ wrote'[m].verb = "MAIL" /\ wrote'[m].msg = nsend + 1 /\ wrote'[m].whole
           /\ pipelining' => \A i \in 1..(c + 1) :
                 /\ wrote'[m + i].whole
                 /\ i <= c => wrote'[m + i].verb = "RCPT" /\ wrote'[m + i].arg = i
                 /\ i > c => wrote'[m + i].verb = "DATA"
    /\ pipelining' => ~Quiet'
    /\ UNCHANGED <<rx, net, link, oks, serverVars>>

LEMMA StartStep ==
    ASSUME TypeOK, TypeOK', Ledger, NEW c \in 1..MaxRcpts, Starts(c)
    PROVE  Ledger'
<1>0. /\ Len(wrote) \in Nat /\ Len(wrote') \in Nat /\ nsend \in Nat /\ c \in Nat
      /\ pipelining' \in BOOLEAN
  BY LenProperties, BoundsAssumption DEF TypeOK
<1>u. UNCHANGED <<mode, open, accepted, served, cut, queue, rx, net, link, oks>>
  BY DEF Starts, serverVars
<1>a. /\ at' = "mail" /\ rcpts' = c /\ nsend' = nsend + 1 /\ cancels' = cancels
      /\ Len(wrote') = Len(wrote) + (IF pipelining' THEN c + 2 ELSE 1)
  BY DEF Starts
<1>s. served \in Nat /\ served <= Len(wrote) /\ queue \in Seq(Queued)
  BY <1>0 DEF Ledger, ServerOK
<1>q. /\ mode # "data" /\ NoGo
      /\ \A i \in (served + 1)..Len(wrote) : wrote[i].verb \notin {"DATA", "BODY"}
  BY DEF Ledger, NoDataYet, Starts
<1>m. Behind' = (IF pipelining' THEN c + 1 ELSE 0) /\ Mark' = Len(wrote) + 1
  <2>1. Behind' = (IF pipelining' THEN c + 1 ELSE 0)
    BY <1>a DEF Behind
  <2>. QED BY <1>0, <1>a, <2>1 DEF Mark
<1>k. \A i \in 1..Len(wrote) : wrote'[i] = wrote[i]
  BY DEF Starts, Kept
<1>n. ASSUME NEW i \in (Len(wrote) + 1)..Len(wrote')
      PROVE  /\ wrote'[i].verb # "BODY" /\ wrote'[i].whole
             /\ wrote'[i].verb = "DATA" => pipelining'
  <2>1. CASE i = Len(wrote) + 1
    BY <2>1 DEF Starts
  <2>2. CASE i # Len(wrote) + 1
    <3>1. pipelining' /\ i - (Len(wrote) + 1) \in 1..(c + 1) /\ (Len(wrote) + 1) + (i - (Len(wrote) + 1)) = i
      BY <1>0, <1>a, <2>2
    <3>. QED BY <1>0, <3>1 DEF Starts
  <2>. QED BY <2>1, <2>2
<1>1. ServerOK'
  <2>1. \A j \in 1..Len(queue) : queue[j] \in Queued
    BY <1>s, ElementOfSeq
  <2>2. \A j \in 1..Len(queue) : queue[j].msg \in Nat
    BY <2>1 DEF Queued
  <2>3. \A j \in 1..Len(queue) : queue[j].msg <= nsend + 1 /\ queue[j].msg # nsend + 1
    BY <1>0, <2>2 DEF Ledger, ServerOK
  <2>4. /\ served \in 0..Len(wrote') /\ cut \in 0..Len(wrote')
    BY <1>0, <1>a DEF Ledger, ServerOK
  <2>. QED BY <1>u, <1>a, <2>3, <2>4 DEF Ledger, ServerOK
<1>2. NotQueued'
  <2>1. \A j \in 1..Len(queue) : queue[j] \in Queued
    BY <1>s, ElementOfSeq
  <2>2. \A j \in 1..Len(queue) : queue[j].msg \in Nat
    BY <2>1 DEF Queued
  <2>3. \A j \in 1..Len(queue) : queue[j].msg # nsend + 1
    BY <1>0, <2>2 DEF Ledger, ServerOK
  <2>. QED BY <1>u, <1>a, <2>3 DEF NotQueued
<1>3. Trail'
  <2>1. /\ wrote'[Mark'].verb = "MAIL" /\ wrote'[Mark'].msg = nsend' /\ wrote'[Mark'].whole
    BY <1>a, <1>m DEF Starts
  <2>2. ASSUME NEW i \in 1..Behind'
        PROVE  /\ wrote'[Mark' + i].whole
               /\ i <= rcpts' => wrote'[Mark' + i].verb = "RCPT" /\ wrote'[Mark' + i].arg = i
               /\ i > rcpts' => wrote'[Mark' + i].verb = "DATA"
    <3>1. pipelining' /\ i \in 1..(c + 1)
      BY <1>0, <1>m
    <3>. QED BY <1>a, <1>m, <3>1 DEF Starts
  <2>3. ASSUME NEW i \in (served + 1)..(Mark' - 1) PROVE wrote'[i].verb \notin {"DATA", "BODY"}
    <3>1. i \in (served + 1)..Len(wrote) /\ i \in 1..Len(wrote)
      BY <1>0, <1>s, <1>m
    <3>. QED BY <1>q, <1>k, <3>1
  <2>4. Mark' >= 1
    BY <1>0, <1>m
  <2>. QED BY <1>u, <2>1, <2>2, <2>3, <2>4 DEF Trail
<1>4. NoDataYet'
  <2>. SUFFICES ASSUME Quiet' PROVE NoDataYet'
    BY DEF NoDataYet
  <2>1. NoGo'
    BY <1>q, <1>u DEF NoGo
  <2>2. ASSUME NEW i \in (served + 1)..Len(wrote') PROVE wrote'[i].verb \notin {"DATA", "BODY"}
    <3>1. CASE i <= Len(wrote)
      <4>1. i \in (served + 1)..Len(wrote) /\ i \in 1..Len(wrote)
        BY <1>0, <1>s, <3>1
      <4>. QED BY <1>q, <1>k, <4>1
    <3>2. CASE i > Len(wrote)
      <4>1. i \in (Len(wrote) + 1)..Len(wrote')
        BY <1>0, <1>s, <3>2
      <4>. QED BY <1>n, <4>1 DEF Starts
    <3>. QED BY <1>0, <1>s, <3>1, <3>2
  <2>. QED BY <1>q, <1>u, <2>1, <2>2 DEF NoDataYet
<1>5. GoIsLast'
  <2>1. mode' # "data" /\ \A i \in 1..Len(net') : net'[i].code # 354
    BY <1>u, <1>q DEF NoGo
  <2>2. \A i \in 1..Len(rx') : rx'[i].code # 354
    BY <1>u, <1>q DEF NoGo
  <2>. QED BY <2>1, <2>2 DEF GoIsLast
<1>6. Agreed'
  <2>1. mode' # "data" /\ ~(served' >= Mark')
    BY <1>0, <1>u, <1>q, <1>s, <1>m
  <2>. QED BY <2>1 DEF Agreed
<1>7. AtBody' /\ AtFinal'
  BY <1>a DEF AtBody, AtFinal
<1>8. PendingBody'
  <2>1. ASSUME NEW i \in (served + 1)..Len(wrote') PROVE wrote'[i].verb # "BODY"
    <3>1. CASE i <= Len(wrote)
      <4>1. i \in (served + 1)..Len(wrote) /\ i \in 1..Len(wrote)
        BY <1>0, <1>s, <3>1
      <4>. QED BY <1>q, <1>k, <4>1
    <3>2. CASE i > Len(wrote)
      <4>1. i \in (Len(wrote) + 1)..Len(wrote')
        BY <1>0, <1>s, <3>2
      <4>. QED BY <1>n, <4>1
    <3>. QED BY <1>0, <1>s, <3>1, <3>2
  <2>. QED BY <1>u, <2>1 DEF PendingBody
<1>9. Whole'
  <2>. SUFFICES ASSUME cancels' = 0, NEW i \in 1..Len(wrote') PROVE wrote'[i].whole
    BY DEF Whole
  <2>1. CASE i <= Len(wrote)
    BY <1>0, <1>a, <1>k, <2>1 DEF Ledger, Whole
  <2>2. CASE i > Len(wrote)
    BY <1>0, <1>n, <2>2
  <2>. QED BY <1>0, <2>1, <2>2
<1>10. QueuedIsComplete' /\ OkMeansQueued'
  BY <1>u DEF Ledger, QueuedIsComplete, OkMeansQueued
<1>. QED BY <1>1, <1>2, <1>3, <1>4, <1>5, <1>6, <1>7, <1>8, <1>9, <1>10 DEF Ledger

(* send_mail starts a transaction, or fails, or is abandoned in its first write. *)
LEMMA SendMailStep ==
    ASSUME Local, TypeOK', Ledger, NEW k, NEW c \in 1..MaxRcpts, send_mail(k, c), UNCHANGED serverVars
    PROVE  Ledger'
<1>0. TypeOK /\ RestOK /\ c \in Nat /\ nsend \in Nat /\ nsend + 1 \in Nat /\ Len(wrote) \in Nat
  BY TypeSplit, LenProperties, BoundsAssumption, SMTT(20) DEF Local, TypeOK
<1>w. wrote \in Seq(Commands)
  BY <1>0 DEF TypeOK
<1>a. /\ Quiet /\ rcpts' = c /\ nsend' = nsend + 1 /\ UNCHANGED <<rx, net, link, oks>>
      /\ state \in {"Authentication", "MailFrom"}
  BY DEF send_mail, Quiet, peerVars
<1>b. sec \in {"plain", "tls"}
  BY <1>0, <1>a, ActiveChannel DEF Local, Control
<1>c. Consumes /\ nsend <= nsend' /\ (Quiet' => Quiet) /\ UNCHANGED <<link, oks, serverVars>>
  BY <1>0, <1>a DEF Consumes
<1>d. ASSUME Aside PROVE Ledger'
  BY <1>0, <1>d, AsideStep
<1>1. CASE pipelining' /\ WriteThen("Data", <<>>, Pipeline(c), "mail")
  <2>. DEFINE P == Pipeline(c)
  <2>1. P \in Seq(Commands) /\ Len(P) = c + 2
    <3>1. P \in Seq(Commands) /\ DOMAIN P = 1..(c + 2)
      BY <1>0, <1>b, PipelineType DEF Pipeline
    <3>. QED BY <1>0, <3>1, LenProperties
  <2>2. \A j \in 1..(c + 2) :
           /\ P[j].whole /\ P[j].verb # "BODY"
           /\ j = 1 => P[j].verb = "MAIL" /\ P[j].msg = nsend + 1
           /\ 1 < j /\ j <= c + 1 => P[j].verb = "RCPT" /\ P[j].arg = j - 1
           /\ j = c + 2 => P[j].verb = "DATA"
    BY <1>0 DEF Pipeline, MailCmd, RcptCmd, DataCmd, Command
  <2>. HIDE DEF P
  <2>3. /\ Kept
        /\ \/ state' = "Data" /\ at' = "mail" /\ cancels' = cancels /\ wrote' = wrote \o P
           \/ state' = "Closed" /\ at' = OnError("mail") /\ cancels' = cancels /\ wrote' = wrote
           \/ state' = "Data" /\ at' = OnCancel("mail") /\ cancels' = cancels + 1
    BY <1>0, <1>1, <2>1, WriteOutcome DEF P
  <2>4. CASE at' # "mail"
    <3>1. at' \notin Sending
      BY <2>3, <2>4 DEF OnError, OnCancel, Sending
    <3>. QED BY <1>0, <1>1, <1>c, <1>d, <2>1, <2>2, <3>1, WriteAside DEF P
  <2>5. CASE state' = "Data" /\ at' = "mail" /\ cancels' = cancels /\ wrote' = wrote \o P
    <3>1. /\ Len(wrote') = Len(wrote) + (c + 2)
          /\ \A j \in 1..(c + 2) : wrote'[Len(wrote) + j] = P[j]
      <4>1. /\ Len(wrote') = Len(wrote) + Len(P)
            /\ \A i \in 1..(Len(wrote) + Len(P)) :
                  wrote'[i] = IF i <= Len(wrote) THEN wrote[i] ELSE P[i - Len(wrote)]
        BY <1>w, <2>1, <2>5, ConcatProperties
      <4>2. ASSUME NEW j \in 1..(c + 2) PROVE wrote'[Len(wrote) + j] = P[j]
        <5>1. /\ Len(wrote) + j \in 1..(Len(wrote) + Len(P)) /\ ~(Len(wrote) + j <= Len(wrote))
              /\ (Len(wrote) + j) - Len(wrote) = j
          BY <1>0, <2>1
        <5>. QED BY <4>1, <5>1
      <4>. QED BY <2>1, <4>1, <4>2
    <3>2. /\ wrote'[Len(wrote) + 1].verb = "MAIL" /\ wrote'[Len(wrote) + 1].msg = nsend + 1
          /\ wrote'[Len(wrote) + 1].whole
      BY <1>0, <2>2, <3>1
    <3>3. ASSUME NEW i \in 1..(c + 1)
          PROVE  /\ wrote'[(Len(wrote) + 1) + i].whole
                 /\ i <= c => /\ wrote'[(Len(wrote) + 1) + i].verb = "RCPT"
                              /\ wrote'[(Len(wrote) + 1) + i].arg = i
                 /\ i > c => wrote'[(Len(wrote) + 1) + i].verb = "DATA"
      <4>1. i + 1 \in 1..(c + 2) /\ (Len(wrote) + 1) + i = Len(wrote) + (i + 1) /\ (i + 1) - 1 = i
        BY <1>0
      <4>2. wrote'[(Len(wrote) + 1) + i] = P[i + 1]
        BY <3>1, <4>1
      <4>3. i <= c => 1 < i + 1 /\ i + 1 <= c + 1
        BY <1>0
      <4>4. i > c => i + 1 = c + 2
        BY <1>0
      <4>. QED BY <2>2, <4>1, <4>2, <4>3, <4>4
    <3>4. ~Quiet'
      BY <2>5 DEF Quiet
    <3>5. Starts(c)
      BY <1>1, <1>a, <2>3, <2>5, <3>1, <3>2, <3>3, <3>4 DEF Starts
    <3>. QED BY <1>0, <3>5, StartStep
  <2>. QED BY <2>3, <2>4, <2>5 DEF OnError, OnCancel
<1>2. CASE ~pipelining' /\ WriteThen("MailFrom", <<>>, <<MailCmd(c)>>, "mail")
  <2>1. MailCmd(c) \in Commands
    BY <1>0, <1>b, CommandType DEF MailCmd, Verbs
  <2>2. /\ MailCmd(c).verb = "MAIL" /\ MailCmd(c).msg = nsend + 1 /\ MailCmd(c).whole
    BY DEF MailCmd, Command
  <2>3. /\ Kept
        /\ \/ /\ state' = "MailFrom" /\ at' = "mail" /\ cancels' = cancels
              /\ Len(wrote') = Len(wrote) + 1 /\ wrote'[Len(wrote) + 1] = MailCmd(c)
           \/ state' = "Closed" /\ at' = OnError("mail") /\ cancels' = cancels /\ wrote' = wrote
           \/ state' = "MailFrom" /\ at' = OnCancel("mail") /\ cancels' = cancels + 1
    BY <1>0, <1>2, <2>1, WriteOne
  <2>4. CASE at' # "mail"
    <3>1. at' \notin Sending
      BY <2>3, <2>4 DEF OnError, OnCancel, Sending
    <3>. QED BY <1>0, <1>2, <1>c, <1>d, <2>1, <2>2, <3>1, WriteOneAside
  <2>5. CASE at' = "mail"
    <3>1. /\ cancels' = cancels /\ Len(wrote') = Len(wrote) + 1
          /\ wrote'[Len(wrote) + 1] = MailCmd(c)
      BY <2>3, <2>5 DEF OnError, OnCancel
    <3>2. Starts(c)
      BY <1>2, <1>a, <2>2, <2>3, <2>5, <3>1 DEF Starts
    <3>. QED BY <1>0, <3>2, StartStep
  <2>. QED BY <2>4, <2>5
<1>. QED BY <1>1, <1>2 DEF send_mail
-----------------------------------------------------------------------------
(* The next reply of the envelope is good; the sequential path then writes *)
(* the next command of it, the pipelined one has written them all.         *)
WritesNext ==
    /\ Quiet /\ Kept /\ Len(wrote') = Len(wrote) + 1 /\ Behind' = Behind + 1
    /\ wrote'[Len(wrote) + 1].whole
    /\ Behind' <= rcpts => /\ wrote'[Len(wrote) + 1].verb = "RCPT"
                           /\ wrote'[Len(wrote) + 1].arg = Behind'
    /\ Behind' > rcpts => wrote'[Len(wrote) + 1].verb = "DATA" /\ ~Quiet'
Advances ==
    /\ at \in Enveloping /\ at' \in {"rcpt", "data"}
    /\ rx # <<>> /\ rx' = Tail(rx) /\ Head(rx).code \notin Bad
    /\ UNCHANGED <<net, link, rcpts, nsend, cancels, oks, serverVars>>
    /\ Behind \in Nat /\ rcpts \in Nat
    /\ (wrote' = wrote /\ Behind' = Behind /\ (Quiet' => Quiet)) \/ WritesNext

LEMMA AdvanceStep ==
    ASSUME TypeOK, TypeOK', Ledger, Advances
    PROVE  Ledger'
<1>0. Len(wrote) \in Nat /\ Len(wrote') \in Nat /\ nsend \in Nat /\ Behind \in Nat /\ rcpts \in Nat
  BY LenProperties, BoundsAssumption DEF TypeOK, Advances
<1>u. UNCHANGED <<mode, open, accepted, served, cut, queue, net, link, rcpts, nsend, cancels, oks>>
  BY DEF Advances, serverVars
<1>s. served \in Nat /\ served <= Len(wrote)
  BY <1>0 DEF Ledger, ServerOK
<1>e. at \in Enveloping /\ at' \in Enveloping /\ at' \notin {"body", "final"}
  BY DEF Advances, Enveloping
<1>c. Consumes
  BY <1>u DEF Advances, Consumes
<1>q. Quiet' => Quiet
  BY DEF Advances, WritesNext
<1>k. /\ Len(wrote) <= Len(wrote') /\ \A i \in 1..Len(wrote) : wrote'[i] = wrote[i]
  BY <1>0 DEF Advances, WritesNext, Kept
<1>m. Mark' = Mark /\ Mark + Behind = Len(wrote) /\ Mark \in Int
  BY <1>0, SMTT(20) DEF Mark, Advances, WritesNext
<1>n. ASSUME NEW i \in (Len(wrote) + 1)..Len(wrote')
      PROVE  WritesNext /\ i = Len(wrote) + 1 /\ Len(wrote') = Len(wrote) + 1
  BY <1>0 DEF Advances, WritesNext
<1>v. ASSUME NEW i \in (Len(wrote) + 1)..Len(wrote')
      PROVE  /\ wrote'[i].whole /\ wrote'[i].verb # "BODY"
             /\ wrote'[i].verb = "DATA" => ~Quiet'
  <2>1. WritesNext /\ i = Len(wrote) + 1 /\ Behind' \in Nat
    BY <1>0, <1>n DEF WritesNext
  <2>. QED BY <1>0, <2>1 DEF WritesNext
<1>1. ServerOK'
  <2>1. /\ served \in 0..Len(wrote') /\ cut \in 0..Len(wrote')
    BY <1>0, <1>k DEF Ledger, ServerOK
  <2>. QED BY <1>u, <2>1 DEF Ledger, ServerOK
<1>2. NotQueued'
  BY <1>u, <1>e DEF Ledger, NotQueued, Enveloping
<1>3. Trail'
  <2>0. /\ Mark >= 1
        /\ wrote[Mark].verb = "MAIL" /\ wrote[Mark].msg = nsend /\ wrote[Mark].whole
        /\ \A i \in 1..Behind :
              /\ wrote[Mark + i].whole
              /\ i <= rcpts => wrote[Mark + i].verb = "RCPT" /\ wrote[Mark + i].arg = i
              /\ i > rcpts => wrote[Mark + i].verb = "DATA"
        /\ \A i \in (served + 1)..(Mark - 1) : wrote[i].verb \notin {"DATA", "BODY"}
    BY <1>e DEF Ledger, Trail
  <2>1. Mark \in 1..Len(wrote)
    BY <1>0, <1>m, <2>0
  <2>2. /\ Mark' >= 1
        /\ wrote'[Mark'].verb = "MAIL" /\ wrote'[Mark'].msg = nsend' /\ wrote'[Mark'].whole
    BY <1>u, <1>m, <1>k, <2>0, <2>1
  <2>3. ASSUME NEW i \in 1..Behind'
        PROVE  /\ wrote'[Mark' + i].whole
               /\ i <= rcpts' => wrote'[Mark' + i].verb = "RCPT" /\ wrote'[Mark' + i].arg = i
               /\ i > rcpts' => wrote'[Mark' + i].verb = "DATA"
    <3>0. i \in Int /\ (Behind' = Behind \/ (WritesNext /\ Behind' = Behind + 1))
      BY <1>0 DEF Advances, WritesNext
    <3>1. CASE i <= Behind
      <4>1. i \in 1..Behind /\ Mark + i \in 1..Len(wrote)
        BY <1>0, <1>m, <2>1, <3>0, <3>1
      <4>. QED BY <1>u, <1>m, <1>k, <2>0, <4>1
    <3>2. CASE i > Behind
      <4>1. WritesNext /\ i = Behind' /\ Mark + i = Len(wrote) + 1
        BY <1>0, <1>m, <3>0, <3>2
      <4>. QED BY <1>u, <1>m, <4>1 DEF WritesNext
    <3>. QED BY <1>0, <3>0, <3>1, <3>2
  <2>4. ASSUME NEW i \in (served + 1)..(Mark' - 1) PROVE wrote'[i].verb \notin {"DATA", "BODY"}
    <3>1. i \in (served + 1)..(Mark - 1) /\ i \in 1..Len(wrote)
      BY <1>0, <1>s, <1>m, <2>1
    <3>. QED BY <1>k, <2>0, <3>1
  <2>. QED BY <1>u, <2>2, <2>3, <2>4 DEF Trail
<1>4. NoDataYet'
  <2>. SUFFICES ASSUME Quiet' PROVE NoDataYet'
    BY DEF NoDataYet
  <2>0. /\ mode # "data" /\ NoGo
        /\ \A i \in (served + 1)..Len(wrote) : wrote[i].verb \notin {"DATA", "BODY"}
    BY <1>q DEF Ledger, NoDataYet
  <2>1. NoGo'
    BY <1>c, <2>0, NoGoConsumed
  <2>2. ASSUME NEW i \in (served + 1)..Len(wrote') PROVE wrote'[i].verb \notin {"DATA", "BODY"}
    <3>1. CASE i <= Len(wrote)
      <4>1. i \in (served + 1)..Len(wrote) /\ i \in 1..Len(wrote)
        BY <1>0, <1>s, <3>1
      <4>. QED BY <2>0, <1>k, <4>1
    <3>2. CASE i > Len(wrote)
      <4>1. i \in (Len(wrote) + 1)..Len(wrote')
        BY <1>0, <1>s, <3>2
      <4>. QED BY <1>v, <4>1
    <3>. QED BY <1>0, <1>s, <3>1, <3>2
  <2>. QED BY <1>u, <2>0, <2>1, <2>2 DEF NoDataYet
<1>5. GoIsLast'
  <2>1. CASE WritesNext
    <3>1. mode # "data" /\ NoGo
      BY <2>1 DEF WritesNext, Ledger, NoDataYet
    <3>2. NoGo'
      BY <1>c, <3>1, NoGoConsumed
    <3>. QED BY <1>u, <3>1, <3>2 DEF GoIsLast, NoGo
  <2>2. CASE wrote' = wrote
    <3>0. /\ mode = "data" => served = Len(wrote)
          /\ \A i \in 1..Len(net) : net[i].code = 354 => i = Len(net) /\ mode = "data"
          /\ \A i \in 1..Len(rx) : rx[i].code = 354 => i = Len(rx) /\ net = <<>> /\ mode = "data"
      BY <1>e DEF Ledger, GoIsLast
    <3>1. ASSUME NEW i \in 1..Len(rx'), rx'[i].code = 354
          PROVE  i = Len(rx') /\ net = <<>> /\ mode = "data"
      <4>1. rx \in Seq(Received)
        BY DEF TypeOK
      <4>2. /\ Len(rx) \in Nat /\ Len(rx') = Len(rx) - 1
            /\ i + 1 \in 1..Len(rx) /\ rx'[i] = rx[i + 1]
        BY <4>1, Rest DEF Advances
      <4>3. i + 1 = Len(rx) /\ net = <<>> /\ mode = "data"
        BY <3>0, <3>1, <4>2
      <4>4. i \in Int
        BY <4>2
      <4>. QED BY <4>2, <4>3, <4>4
    <3>. QED BY <1>u, <2>2, <3>0, <3>1 DEF GoIsLast
  <2>. QED BY <2>1, <2>2 DEF Advances
<1>6. Agreed'
  <2>. SUFFICES ASSUME Clean', link' = "up" \/ ~NoGo'
                PROVE  /\ mode' = "command" /\ served' >= Mark' =>
                             open' = nsend' /\ served' - Mark' <= rcpts' /\ accepted' = 1..(served' - Mark')
                       /\ mode' = "data" => open' = nsend' /\ accepted' = 1..rcpts'
    BY DEF Agreed
  <2>1. Clean
    BY <1>c, CleanConsumed DEF Advances
  <2>2. link = "up" \/ ~NoGo
    BY <1>u, <1>c, NoGoConsumed
  <2>. QED BY <1>u, <1>e, <1>m, <2>1, <2>2 DEF Ledger, Agreed
<1>7. AtBody' /\ AtFinal'
  BY <1>e DEF AtBody, AtFinal
<1>8. PendingBody'
  <2>. SUFFICES ASSUME NEW i \in (served + 1)..Len(wrote'), wrote'[i].verb = "BODY"
                PROVE  /\ mode = "data" /\ i = served + 1
                       /\ open = wrote'[i].msg /\ open <= nsend /\ accepted = 1..wrote'[i].arg
                       /\ \A j \in 1..Len(queue) : queue[j].msg # open
    BY <1>u DEF PendingBody
  <2>1. i <= Len(wrote)
    <3>1. i > Len(wrote) => i \in (Len(wrote) + 1)..Len(wrote')
      BY <1>0, <1>s
    <3>. QED BY <1>0, <1>s, <1>v, <3>1
  <2>2. i \in (served + 1)..Len(wrote) /\ wrote'[i] = wrote[i]
    BY <1>0, <1>s, <1>k, <2>1
  <2>. QED BY <2>2 DEF Ledger, PendingBody
<1>9. Whole'
  <2>. SUFFICES ASSUME cancels' = 0, NEW i \in 1..Len(wrote') PROVE wrote'[i].whole
    BY DEF Whole
  <2>1. CASE i <= Len(wrote)
    BY <1>0, <1>u, <1>k, <2>1 DEF Ledger, Whole
  <2>2. CASE i > Len(wrote)
    BY <1>0, <1>v, <2>2
  <2>. QED BY <1>0, <2>1, <2>2
<1>10. QueuedIsComplete' /\ OkMeansQueued'
  BY <1>u DEF Ledger, QueuedIsComplete, OkMeansQueued
<1>. QED BY <1>1, <1>2, <1>3, <1>4, <1>5, <1>6, <1>7, <1>8, <1>9, <1>10 DEF Ledger

(* A 2xx is neither a refusal nor a 354. *)
LEMMA ClassTwo ==
    ASSUME NEW r, r.code \in Nat, Class(r) = 2
    PROVE  r.code \notin Bad /\ r.code # 354
<1>1. 421 \div 100 = 4 /\ 550 \div 100 = 5 /\ 354 \div 100 = 3
  OBVIOUS
<1>. QED BY <1>1 DEF Class, Bad

(* What a handler of a reply of the envelope leaves alone. *)
LEMMA HeadOfRx ==
    ASSUME TypeOK, NEW a, Reply(a), UNCHANGED peerVars
    PROVE  Consumes /\ Head(rx).code \in Nat /\ rx # <<>> /\ rx' = Tail(rx) /\ net' = net /\ link' = link
<1>1. Head(rx) \in Received
  BY HeadTailProperties DEF TypeOK, Reply
<1>. QED BY <1>1 DEF Received, Reply, Consumes, peerVars

LEMMA MailReplyStep ==
    ASSUME Local, TypeOK', Ledger, mail_reply, UNCHANGED serverVars
    PROVE  Ledger'
<1>0. TypeOK /\ RestOK /\ Control /\ nsend \in Nat /\ rcpts \in Nat /\ todo \in Nat /\ Len(wrote) \in Nat
  BY TypeSplit, LenProperties, BoundsAssumption DEF Local, TypeOK
<1>a. /\ at = "mail" /\ todo = rcpts /\ 1 <= rcpts
      /\ Consumes /\ Head(rx).code \in Nat /\ rx # <<>> /\ rx' = Tail(rx)
      /\ UNCHANGED <<net, link, rcpts, todo, pipelining, nsend, oks>>
  BY <1>0, HeadOfRx DEF mail_reply, Reply, sendVars, Control, Counts
<1>b. state = IF pipelining THEN "Data" ELSE "MailFrom"
  BY <1>0, <1>a DEF Control, AtDecidesState
<1>d. ASSUME Aside PROVE Ledger'
  BY <1>0, <1>d, AsideStep
<1>1. CASE Class(Head(rx)) = 2 /\ pipelining /\ Await(<<"MailFromAccepted">>, "rcpt")
  <2>1. wrote' = wrote /\ at' = "rcpt" /\ cancels' = cancels /\ (Quiet' => Quiet)
    BY <1>1 DEF Await, Quiet
  <2>2. Behind = rcpts + 1 /\ Behind' = Behind /\ Behind \in Nat
    BY <1>0, <1>1, <1>a DEF Behind
  <2>3. Advances
    BY <1>0, <1>1, <1>a, <2>1, <2>2, ClassTwo DEF Advances, Enveloping
  <2>. QED BY <1>0, <2>3, AdvanceStep
<1>2. CASE Class(Head(rx)) = 2 /\ ~pipelining /\ WriteThen("RcptTo", <<"MailFromAccepted">>, <<RcptCmd(1)>>, "rcpt")
  <2>0. Quiet /\ sec \in {"plain", "tls"}
    BY <1>0, <1>2, <1>b, ActiveChannel DEF Quiet, Control
  <2>1. RcptCmd(1) \in Commands
    BY <1>0, <2>0, CommandType DEF RcptCmd, Verbs
  <2>2. /\ RcptCmd(1).verb = "RCPT" /\ RcptCmd(1).arg = 1 /\ RcptCmd(1).whole
    BY DEF RcptCmd, Command
  <2>3. /\ Kept
        /\ \/ /\ state' = "RcptTo" /\ at' = "rcpt" /\ cancels' = cancels
              /\ Len(wrote') = Len(wrote) + 1 /\ wrote'[Len(wrote) + 1] = RcptCmd(1)
           \/ state' = "Closed" /\ at' = OnError("rcpt") /\ cancels' = cancels /\ wrote' = wrote
           \/ state' = "RcptTo" /\ at' = OnCancel("rcpt") /\ cancels' = cancels + 1
    BY <1>0, <1>2, <2>1, WriteOne
  <2>4. CASE at' # "rcpt"
    <3>1. at' \notin Sending
      BY <2>3, <2>4 DEF OnError, OnCancel, Sending
    <3>2. nsend <= nsend'
      BY <1>0, <1>a
    <3>. QED BY <1>0, <1>2, <1>a, <1>d, <2>0, <2>1, <2>2, <3>1, <3>2, WriteOneAside
  <2>5. CASE at' = "rcpt"
    <3>1. /\ cancels' = cancels /\ Len(wrote') = Len(wrote) + 1
          /\ wrote'[Len(wrote) + 1] = RcptCmd(1)
      BY <2>3, <2>5 DEF OnError, OnCancel
    <3>2. Behind = 0 /\ Behind' = 1
      <4>1. Behind = 0
        BY <1>2, <1>a DEF Behind
      <4>2. Behind' = rcpts - todo + 1
        BY <1>2, <1>a, <2>5 DEF Behind
      <4>. QED BY <1>0, <1>a, <4>1, <4>2
    <3>3. WritesNext
      BY <1>0, <1>a, <2>0, <2>2, <2>3, <3>1, <3>2 DEF WritesNext
    <3>4. Advances
      BY <1>0, <1>2, <1>a, <2>5, <3>1, <3>2, <3>3, ClassTwo DEF Advances, Enveloping
    <3>. QED BY <1>0, <3>4, AdvanceStep
  <2>. QED BY <2>4, <2>5
<1>3. CASE Fail(<<>>, "Protocol", "mail")
  BY <1>0, <1>3, <1>a, <1>d, FailAside
<1>. QED BY <1>1, <1>2, <1>3 DEF mail_reply

LEMMA RcptReplyStep ==
    ASSUME Local, TypeOK', Ledger, read_rcpt_reply, UNCHANGED serverVars
    PROVE  Ledger'
<1>0. TypeOK /\ RestOK /\ Control /\ nsend \in Nat /\ rcpts \in Nat /\ todo \in Nat /\ Len(wrote) \in Nat
  BY TypeSplit, LenProperties, BoundsAssumption DEF Local, TypeOK
<1>a. /\ at = "rcpt" /\ 1 <= todo /\ todo <= rcpts
      /\ Consumes /\ Head(rx).code \in Nat /\ rx # <<>> /\ rx' = Tail(rx)
      /\ UNCHANGED <<net, link, rcpts, pipelining, nsend, oks>>
  BY <1>0, HeadOfRx DEF read_rcpt_reply, Reply, Control, Counts
<1>b. state = IF pipelining THEN "Data" ELSE "RcptTo"
  BY <1>0, <1>a DEF Control, AtDecidesState
<1>c. nsend <= nsend'
  BY <1>0, <1>a
<1>d. ASSUME Aside PROVE Ledger'
  BY <1>0, <1>d, AsideStep
<1>1. CASE /\ RcptAccepted(Head(rx)) /\ pipelining
           /\ Await(<<"RecipientAccepted">>, IF LastRecipient THEN "data" ELSE "rcpt")
  <2>1. wrote' = wrote /\ at' \in {"rcpt", "data"} /\ cancels' = cancels /\ (Quiet' => Quiet)
    BY <1>1 DEF Await, Quiet
  <2>2. Behind = rcpts + 1 /\ Behind' = Behind /\ Behind \in Nat
    BY <1>0, <1>1, <1>a DEF Behind
  <2>3. Head(rx).code \notin Bad
    BY <1>1, <1>a, ClassTwo DEF RcptAccepted
  <2>4. Advances
    BY <1>0, <1>a, <2>1, <2>2, <2>3 DEF Advances, Enveloping
  <2>. QED BY <1>0, <2>4, AdvanceStep
<1>2. ASSUME RcptAccepted(Head(rx)), ~pipelining, todo' = todo - 1,
             NEW c \in Commands, NEW s, NEW a \in {"rcpt", "data"}, NEW ev,
             WriteThen(s, ev, <<c>>, a), c.whole,
             a = "rcpt" => ~LastRecipient /\ c.verb = "RCPT" /\ c.arg = rcpts - todo + 2,
             a = "data" => LastRecipient /\ c.verb = "DATA" /\ s = "Data"
      PROVE  Ledger'
  <2>0. Quiet
    BY <1>2, <1>b DEF Quiet
  <2>1. /\ Kept
        /\ \/ /\ state' = s /\ at' = a /\ cancels' = cancels
              /\ Len(wrote') = Len(wrote) + 1 /\ wrote'[Len(wrote) + 1] = c
           \/ state' = "Closed" /\ at' = OnError(a) /\ cancels' = cancels /\ wrote' = wrote
           \/ state' = s /\ at' = OnCancel(a) /\ cancels' = cancels + 1
    BY <1>0, <1>2, WriteOne
  <2>2. CASE at' # a
    <3>1. at' \notin Sending
      BY <1>2, <2>1, <2>2 DEF OnError, OnCancel, Sending
    <3>2. c.verb # "BODY" /\ (c.verb = "DATA" => s = "Data")
      BY <1>2
    <3>. QED BY <1>0, <1>2, <1>a, <1>c, <1>d, <2>0, <3>1, <3>2, WriteOneAside
  <2>3. CASE at' = a
    <3>1. /\ cancels' = cancels /\ Len(wrote') = Len(wrote) + 1 /\ wrote'[Len(wrote) + 1] = c
          /\ state' = s
      BY <1>2, <2>1, <2>3 DEF OnError, OnCancel
    <3>2. Behind = rcpts - todo + 1 /\ Behind \in Nat
      <4>1. Behind = rcpts - todo + 1
        BY <1>2, <1>a DEF Behind
      <4>. QED BY <1>0, <1>a, <4>1
    <3>3. Behind' = Behind + 1
      <4>1. CASE a = "rcpt"
        <5>1. Behind' = rcpts - (todo - 1) + 1
          BY <1>2, <1>a, <2>3, <4>1 DEF Behind
        <5>. QED BY <1>0, <3>2, <5>1
      <4>2. CASE a = "data"
        <5>1. Behind' = rcpts + 1 /\ todo = 1
          BY <1>2, <1>a, <2>3, <4>2 DEF Behind, LastRecipient
        <5>. QED BY <1>0, <3>2, <5>1
      <4>. QED BY <1>2, <4>1, <4>2
    <3>4. WritesNext
      <4>1. CASE a = "rcpt"
        <5>1. todo # 1 /\ c.verb = "RCPT" /\ c.arg = rcpts - todo + 2
          BY <1>2, <4>1 DEF LastRecipient
        <5>2. c.arg = Behind' /\ ~(Behind' > rcpts)
          BY <1>0, <1>a, <3>2, <3>3, <5>1
        <5>. QED BY <1>2, <2>0, <2>1, <3>1, <3>3, <5>1, <5>2 DEF WritesNext
      <4>2. CASE a = "data"
        <5>1. todo = 1 /\ c.verb = "DATA" /\ ~Quiet'
          BY <1>2, <3>1, <4>2 DEF LastRecipient, Quiet
        <5>2. ~(Behind' <= rcpts)
          BY <1>0, <1>a, <3>2, <3>3, <5>1
        <5>. QED BY <1>2, <2>0, <2>1, <3>1, <3>3, <5>1, <5>2 DEF WritesNext
      <4>. QED BY <1>2, <4>1, <4>2
    <3>5. Head(rx).code \notin Bad
      BY <1>2, <1>a, ClassTwo DEF RcptAccepted
    <3>6. Advances
      BY <1>0, <1>2, <1>a, <2>3, <3>1, <3>2, <3>4, <3>5 DEF Advances, Enveloping
    <3>. QED BY <1>0, <3>6, AdvanceStep
  <2>. QED BY <2>2, <2>3
<1>3. CASE /\ RcptAccepted(Head(rx)) /\ todo' = todo - 1 /\ ~pipelining /\ ~LastRecipient
           /\ WriteThen(state, <<"RecipientAccepted">>, <<RcptCmd(rcpts - todo + 2)>>, "rcpt")
  <2>0. sec \in {"plain", "tls"} /\ rcpts - todo + 2 \in Nat
    BY <1>0, <1>3, <1>a, <1>b, ActiveChannel DEF Control
  <2>1. RcptCmd(rcpts - todo + 2) \in Commands
    BY <1>0, <2>0, CommandType DEF RcptCmd, Verbs
  <2>2. /\ RcptCmd(rcpts - todo + 2).verb = "RCPT" /\ RcptCmd(rcpts - todo + 2).whole
        /\ RcptCmd(rcpts - todo + 2).arg = rcpts - todo + 2
    BY DEF RcptCmd, Command
  <2>. QED BY <1>2, <1>3, <2>1, <2>2
<1>4. CASE /\ RcptAccepted(Head(rx)) /\ todo' = todo - 1 /\ ~pipelining /\ LastRecipient
           /\ WriteThen("Data", <<"RecipientAccepted">>, <<DataCmd>>, "data")
  <2>0. sec \in {"plain", "tls"} /\ 0 \in Nat
    BY <1>0, <1>4, <1>b, ActiveChannel DEF Control
  <2>1. DataCmd \in Commands
    BY <1>0, <2>0, CommandType DEF DataCmd, Verbs
  <2>2. DataCmd.verb = "DATA" /\ DataCmd.whole
    BY DEF DataCmd, Command
  <2>. QED BY <1>2, <1>4, <2>1, <2>2
<1>5. CASE Fail(<<"RecipientRejected">>, "Protocol", "rcpt")
  BY <1>0, <1>5, <1>a, <1>d, FailAside
<1>. QED BY <1>1, <1>3, <1>4, <1>5 DEF read_rcpt_reply
-----------------------------------------------------------------------------
(* The server waits for the body of this very message. *)
ReadyForBody ==
    /\ mode = "data" /\ served = Len(wrote) /\ open = nsend /\ accepted = 1..rcpts
    /\ \A j \in 1..Len(queue) : queue[j].msg # nsend

(* A 354 read at "data" says so: it is the last thing the server said, so  *)
(* nothing it said before is unread, so nothing was refused.               *)
LEMMA GoMeansReady ==
    ASSUME TypeOK, Ledger, at = "data", rx # <<>>, Head(rx).code = 354
    PROVE  ReadyForBody /\ Tail(rx) = <<>> /\ net = <<>>
<1>0. rx \in Seq(Received) /\ net \in Seq(Received)
  BY DEF TypeOK
<1>1. /\ Len(rx) \in Nat /\ Len(rx) >= 1 /\ Head(rx) = rx[1]
      /\ Tail(rx) \in Seq(Received) /\ Len(Tail(rx)) = Len(rx) - 1
  BY <1>0, Rest
<1>2. 1 \in 1..Len(rx) /\ rx[1].code = 354
  BY <1>1
<1>3. Len(rx) = 1 /\ net = <<>> /\ mode = "data" /\ served = Len(wrote)
  BY <1>2 DEF Ledger, GoIsLast, Enveloping
<1>4. Tail(rx) = <<>> /\ Len(net) = 0
  <2>1. Len(Tail(rx)) = 0
    BY <1>1, <1>3
  <2>. QED BY <1>0, <1>1, <1>3, <2>1, Empty
<1>5. Clean /\ ~NoGo
  BY <1>1, <1>2, <1>3, <1>4 DEF Clean, NoGo, Bad
<1>6. open = nsend /\ accepted = 1..rcpts
  BY <1>3, <1>5 DEF Ledger, Agreed, Enveloping
<1>. QED BY <1>3, <1>4, <1>6 DEF ReadyForBody, Ledger, NotQueued

(* The body is written, in part written, or about to be. *)
BodyOut ==
    /\ ReadyForBody
    /\ rx' = <<>> /\ net' = <<>> /\ ~Quiet' /\ cancels <= cancels'
    /\ UNCHANGED <<nsend, rcpts, link, oks, serverVars>>
    /\ Kept /\ Len(wrote') <= Len(wrote) + 1
    /\ \A i \in New : /\ wrote'[i].verb = "BODY" /\ wrote'[i].msg = nsend /\ wrote'[i].arg = rcpts
                      /\ cancels' = 0 \/ at' = "final" => wrote'[i].whole
    /\ \/ at' = "body" /\ wrote' = wrote
       \/ at' = "final" /\ Len(wrote') = Len(wrote) + 1
       \/ at' \notin Sending

LEMMA BodyStep ==
    ASSUME TypeOK, TypeOK', Ledger, BodyOut
    PROVE  Ledger'
<1>0. /\ Len(wrote) \in Nat /\ Len(wrote') \in Nat /\ nsend \in Nat
      /\ cancels \in Nat /\ cancels' \in Nat
  BY LenProperties, BoundsAssumption DEF TypeOK
<1>u. UNCHANGED <<mode, open, accepted, served, cut, queue, nsend, rcpts, link, oks>>
  BY DEF BodyOut, serverVars
<1>s. served = Len(wrote) /\ mode = "data" /\ open = nsend /\ accepted = 1..rcpts
  BY DEF BodyOut, ReadyForBody
<1>k. /\ Len(wrote) <= Len(wrote') /\ \A i \in 1..Len(wrote) : wrote'[i] = wrote[i]
  BY DEF BodyOut, Kept
<1>e. at' \notin Enveloping
  BY DEF BodyOut, Enveloping, Sending
<1>1. ServerOK'
  <2>1. /\ served \in 0..Len(wrote') /\ cut \in 0..Len(wrote')
    BY <1>0, <1>k DEF Ledger, ServerOK
  <2>. QED BY <1>u, <2>1 DEF Ledger, ServerOK
<1>2. NotQueued'
  BY <1>u DEF NotQueued, BodyOut, ReadyForBody
<1>3. Trail' /\ GoIsLast' /\ Agreed'
  BY <1>e DEF Trail, GoIsLast, Agreed
<1>4. NoDataYet'
  BY DEF NoDataYet, BodyOut
<1>5. AtBody'
  BY <1>u, <1>s DEF AtBody, BodyOut, Sending
<1>6. AtFinal'
  <2>. SUFFICES ASSUME at' = "final" PROVE AtFinal'
    BY DEF AtFinal
  <2>1. Len(wrote') = Len(wrote) + 1
    BY DEF BodyOut, Sending
  <2>2. Len(wrote') \in New
    BY <1>0, <2>1 DEF New
  <2>3. Unserved'
    BY <1>0, <1>u, <1>s, <2>1 DEF Unserved, BodyOut
  <2>4. Len(wrote') >= 1
    BY <1>0, <2>1
  <2>. QED BY <1>u, <2>2, <2>3, <2>4 DEF AtFinal, BodyOut
<1>7. PendingBody'
  <2>. SUFFICES ASSUME NEW i \in (served + 1)..Len(wrote')
                PROVE  /\ mode = "data" /\ i = served + 1
                       /\ open = wrote'[i].msg /\ open <= nsend /\ accepted = 1..wrote'[i].arg
                       /\ \A j \in 1..Len(queue) : queue[j].msg # open
    BY <1>u DEF PendingBody
  <2>1. i \in New /\ i = served + 1
    BY <1>0, <1>s DEF New, BodyOut
  <2>2. open <= nsend
    BY <1>0, <1>s
  <2>. QED BY <1>s, <2>1, <2>2 DEF BodyOut, ReadyForBody
<1>8. Whole'
  <2>. SUFFICES ASSUME cancels' = 0, NEW i \in 1..Len(wrote') PROVE wrote'[i].whole
    BY DEF Whole
  <2>0. cancels = 0
    BY <1>0 DEF BodyOut
  <2>1. CASE i <= Len(wrote)
    BY <1>0, <1>k, <2>0, <2>1 DEF Ledger, Whole
  <2>2. CASE i > Len(wrote)
    BY <1>0, <2>2 DEF BodyOut, New
  <2>. QED BY <1>0, <2>1, <2>2
<1>9. QueuedIsComplete' /\ OkMeansQueued'
  BY <1>u DEF Ledger, QueuedIsComplete, OkMeansQueued
<1>. QED BY <1>1, <1>2, <1>3, <1>4, <1>5, <1>6, <1>7, <1>8, <1>9 DEF Ledger

(* The write of the body, from either await. *)
LEMMA WriteBody ==
    ASSUME Local, ReadyForBody, state = "Data", WriteThen(state, <<>>, <<BodyCmd>>, "final"),
           rx' = <<>>, net' = <<>>, UNCHANGED <<nsend, rcpts, link, oks, serverVars>>
    PROVE  BodyOut
<1>0. TypeOK /\ RestOK /\ nsend \in Nat /\ rcpts \in Nat /\ Len(wrote) \in Nat /\ cancels \in Nat
  BY TypeSplit, LenProperties, BoundsAssumption DEF Local, TypeOK
<1>1. BodyCmd \in Commands
  <2>1. sec \in {"plain", "tls"}
    BY <1>0, ActiveChannel DEF Local, Control
  <2>. QED BY <1>0, <2>1, CommandType DEF BodyCmd, Verbs
<1>2. BodyCmd.verb = "BODY" /\ BodyCmd.msg = nsend /\ BodyCmd.arg = rcpts /\ BodyCmd.whole
  BY DEF BodyCmd, Command
<1>3. /\ Kept /\ Len(wrote') <= Len(wrote) + 1
      /\ \A i \in New : /\ wrote'[i].verb = BodyCmd.verb
                        /\ wrote'[i].msg = BodyCmd.msg /\ wrote'[i].arg = BodyCmd.arg
      /\ \/ /\ state' = state /\ at' = "final" /\ cancels' = cancels
            /\ Len(wrote') = Len(wrote) + 1 /\ wrote'[Len(wrote) + 1] = BodyCmd
         \/ state' = "Closed" /\ at' = OnError("final") /\ cancels' = cancels /\ wrote' = wrote
         \/ state' = state /\ at' = OnCancel("final") /\ cancels' = cancels + 1
  BY <1>0, <1>1, WriteOne
<1>4. ~Quiet' /\ cancels <= cancels'
  BY <1>0, <1>3 DEF Quiet
<1>5. /\ at' = "final" => Len(wrote') = Len(wrote) + 1 /\ wrote'[Len(wrote) + 1] = BodyCmd
      /\ at' # "final" => at' \notin Sending
  BY <1>3 DEF OnError, OnCancel, Sending
<1>6. ASSUME NEW i \in New, cancels' = 0 \/ at' = "final" PROVE wrote'[i].whole
  <2>1. CASE wrote' = wrote
    BY <1>0, <2>1 DEF New
  <2>2. CASE Len(wrote') = Len(wrote) + 1 /\ wrote'[Len(wrote) + 1] = BodyCmd
    <3>1. i = Len(wrote) + 1
      BY <1>0, <2>2 DEF New
    <3>. QED BY <1>2, <2>2, <3>1
  <2>. QED BY <1>0, <1>3, <1>5, <1>6, <2>1, <2>2
<1>. QED BY <1>2, <1>3, <1>4, <1>5, <1>6 DEF BodyOut

LEMMA DataReplyStep ==
    ASSUME Local, TypeOK', Ledger, data_reply, UNCHANGED serverVars
    PROVE  Ledger'
<1>0. TypeOK /\ Control /\ Len(wrote) \in Nat /\ cancels \in Nat
  BY LenProperties, BoundsAssumption DEF Local, TypeOK
<1>a. /\ at = "data" /\ Consumes /\ rx # <<>> /\ rx' = Tail(rx)
      /\ UNCHANGED <<net, link, rcpts, nsend, oks>>
  BY <1>0, HeadOfRx DEF data_reply, Reply, sendVars
<1>b. state = "Data"
  BY <1>0, <1>a DEF Control, AtDecidesState
<1>1. CASE Head(rx).code = 354 /\ Await(<<>>, "body")
  <2>1. ReadyForBody /\ rx' = <<>> /\ net' = <<>>
    BY <1>0, <1>1, <1>a, GoMeansReady
  <2>2. wrote' = wrote /\ at' = "body" /\ cancels' = cancels /\ state' = state
    BY <1>1 DEF Await
  <2>3. Kept /\ New = {} /\ ~Quiet' /\ cancels <= cancels'
    BY <1>0, <1>b, <2>2 DEF Kept, New, Quiet
  <2>4. BodyOut
    BY <1>0, <1>a, <2>1, <2>2, <2>3 DEF BodyOut
  <2>. QED BY <1>0, <2>4, BodyStep
<1>2. CASE Head(rx).code = 354 /\ WriteThen(state, <<>>, <<BodyCmd>>, "final")
  <2>1. ReadyForBody /\ rx' = <<>> /\ net' = <<>>
    BY <1>0, <1>2, <1>a, GoMeansReady
  <2>2. BodyOut
    BY <1>2, <1>a, <1>b, <2>1, WriteBody
  <2>. QED BY <1>0, <2>2, BodyStep
<1>3. CASE Fail(<<>>, "Protocol", "data")
  BY <1>0, <1>3, <1>a, FailAside, AsideStep
<1>. QED BY <1>1, <1>2, <1>3 DEF data_reply

LEMMA StreamBodyStep ==
    ASSUME Local, TypeOK', Ledger, stream_body, UNCHANGED serverVars
    PROVE  Ledger'
<1>0. TypeOK /\ Control
  BY DEF Local
<1>a. /\ at = "body" /\ state = "Data" /\ UNCHANGED <<rx, net, link, rcpts, nsend, oks>>
  BY <1>0 DEF stream_body, peerVars, sendVars, Control, AtDecidesState
<1>1. CASE Fail(<<>>, "Io", "body")
  <2>1. Consumes
    BY <1>a DEF Consumes
  <2>. QED BY <1>0, <1>1, <1>a, <2>1, FailAside, AsideStep
<1>2. CASE WriteThen(state, <<>>, <<BodyCmd>>, "final")
  <2>1. ReadyForBody /\ rx' = <<>> /\ net' = <<>>
    BY <1>a DEF Ledger, AtBody, NotQueued, ReadyForBody
  <2>2. BodyOut
    BY <1>2, <1>a, <2>1, WriteBody
  <2>. QED BY <1>0, <2>2, BodyStep
<1>. QED BY <1>1, <1>2 DEF stream_body

(* The reply to the body: the one the server gave to this message. *)
LEMMA FinalReplyStep ==
    ASSUME Local, TypeOK', Ledger, final_reply, UNCHANGED serverVars
    PROVE  Ledger'
<1>0. TypeOK /\ Control /\ Len(wrote) \in Nat /\ rx \in Seq(Received)
  BY LenProperties DEF Local, TypeOK
<1>a. /\ at = "final" /\ Consumes /\ rx # <<>> /\ rx' = Tail(rx)
      /\ UNCHANGED <<net, link, rcpts, nsend>>
  BY <1>0, HeadOfRx DEF final_reply, Reply
<1>1. CASE Class(Head(rx)) = 2 /\ oks' = oks \cup {nsend} /\ Done("MailFrom", <<"MessageAccepted">>)
  <2>1. wrote' = wrote /\ at' = "idle" /\ cancels' = cancels
    BY <1>1 DEF Done
  <2>u. UNCHANGED <<mode, open, accepted, served, cut, queue, link, nsend, wrote, cancels>>
    BY <1>a, <2>1 DEF serverVars
  <2>2. Answered
    BY <1>a DEF Ledger, AtFinal, Unserved
  <2>3. Holds(nsend)
    BY <1>0, <1>1, <1>a, <2>2, Rest DEF Answered
  <2>4. NoGo'
    BY <1>0, <1>a, <2>2, NoGoConsumed DEF Answered
  <2>5. NoDataYet'
    BY <1>0, <2>u, <2>2, <2>4 DEF NoDataYet, Answered
  <2>6. OkMeansQueued'
    BY <1>1, <2>u, <2>3 DEF Ledger, OkMeansQueued, Holds
  <2>7. ServerOK' /\ PendingBody' /\ Whole' /\ QueuedIsComplete'
    BY <2>u DEF Ledger, ServerOK, PendingBody, Whole, QueuedIsComplete
  <2>8. Trail' /\ GoIsLast' /\ Agreed' /\ AtBody' /\ AtFinal' /\ NotQueued'
    BY <2>1 DEF Trail, GoIsLast, Agreed, AtBody, AtFinal, NotQueued, Enveloping
  <2>. QED BY <2>5, <2>6, <2>7, <2>8 DEF Ledger
<1>2. CASE Fail(<<>>, "Protocol", "final") /\ UNCHANGED oks
  BY <1>0, <1>2, <1>a, FailAside, AsideStep
<1>. QED BY <1>1, <1>2 DEF final_reply
-----------------------------------------------------------------------------
(* The client hears what the server says, unless there is no one to hear it. *)
Hears == link = "up" /\ at # "gone" /\ sec # "broken"
Says(code) ==
    /\ ~Hears => net' = net
    /\ Hears => /\ net' \in Seq(Received) /\ Len(net') = Len(net) + 1
                /\ \A i \in 1..Len(net) : net'[i] = net[i]
                /\ net'[Len(net) + 1].code = code

LEMMA AnswerSays ==
    ASSUME TypeOK, NEW code \in Nat, NEW offer \in SUBSET Extensions, NEW over,
           over \in {"plain", "tls"} \/ over = sec, Answer(code, offer, over)
    PROVE  Says(code) /\ UNCHANGED clientVars
<1>0. net \in Seq(Received) /\ Len(net) \in Nat /\ sec \in {"plain", "tls", "broken"}
  BY LenProperties DEF TypeOK
<1>1. UNCHANGED clientVars
  BY DEF Answer
<1>2. CASE Hears
  <2>. DEFINE r == [code |-> code, caps |-> offer, ok |-> TRUE, sec |-> over]
  <2>1. net' = Append(net, r)
    BY <1>2 DEF Answer, Hears
  <2>2. r \in Received /\ r.code = code
    BY <1>0, <1>2 DEF Received, Hears
  <2>. HIDE DEF r
  <2>3. /\ net' \in Seq(Received) /\ Len(net') = Len(net) + 1
        /\ \A i \in 1..Len(net) : net'[i] = net[i]
        /\ net'[Len(net) + 1] = r
    BY <1>0, <2>1, <2>2, AppendProperties
  <2>. QED BY <1>1, <1>2, <2>2, <2>3 DEF Says
<1>3. CASE ~Hears
  BY <1>1, <1>3 DEF Answer, Hears, Says
<1>. QED BY <1>2, <1>3

(* One more reply is unread. *)
LEMMA UnreadSaid ==
    ASSUME TypeOK, NEW code, Says(code), UNCHANGED clientVars
    PROVE  /\ Clean' => Clean
           /\ Hears /\ code \in Bad => ~Clean'
           /\ NoGo /\ (~Hears \/ code # 354) => NoGo'
           /\ net' \in Seq(Received)
<1>0. net \in Seq(Received) /\ Len(net) \in Nat /\ rx' = rx
  BY LenProperties DEF TypeOK, clientVars
<1>1. CASE Hears
  <2>1. /\ Len(net') = Len(net) + 1 /\ \A i \in 1..Len(net) : net'[i] = net[i]
        /\ net'[Len(net) + 1].code = code /\ net' \in Seq(Received)
    BY <1>1 DEF Says
  <2>2. \A i \in 1..Len(net) : i \in 1..Len(net')
    BY <1>0, <2>1
  <2>3. Len(net) + 1 \in 1..Len(net')
    BY <1>0, <2>1
  <2>4. \A i \in 1..Len(net') : i \in 1..Len(net) \/ i = Len(net) + 1
    BY <1>0, <2>1
  <2>5. Clean' => Clean
    BY <1>0, <2>1, <2>2 DEF Clean
  <2>6. code \in Bad => ~Clean'
    BY <2>1, <2>3 DEF Clean
  <2>7. NoGo /\ code # 354 => NoGo'
    BY <1>0, <2>1, <2>4 DEF NoGo
  <2>. QED BY <1>1, <2>1, <2>5, <2>6, <2>7
<1>2. CASE ~Hears
  BY <1>0, <1>2 DEF Says, Clean, NoGo
<1>. QED BY <1>1, <1>2

(* The commands of the running envelope, by position. *)
LEMMA Positions ==
    ASSUME TypeOK, Control, at \in Enveloping, Trail, served \in Nat,
           NEW i \in (served + 1)..Len(wrote)
    PROVE  /\ Mark \in Nat /\ Behind \in Nat /\ Mark + Behind = Len(wrote) /\ Behind <= rcpts + 1
           /\ wrote[i].verb = "BODY" => FALSE
           /\ wrote[i].verb = "MAIL" /\ i >= Mark => i = Mark /\ wrote[i].msg = nsend
           /\ wrote[i].verb = "RCPT" /\ i >= Mark => i - Mark \in 1..rcpts /\ wrote[i].arg = i - Mark
           /\ wrote[i].verb = "DATA" => i = Len(wrote) /\ i = Mark + rcpts + 1
           /\ wrote[i].verb \notin {"MAIL", "RCPT", "DATA"} => i < Mark
           /\ i >= Mark => wrote[i].whole
<1>0. Len(wrote) \in Nat /\ rcpts \in Nat /\ todo \in Nat /\ pipelining \in BOOLEAN
  BY LenProperties, BoundsAssumption DEF TypeOK
<1>1. Behind \in Nat /\ Behind <= rcpts + 1
  <2>1. CASE pipelining \/ at = "data"
    BY <1>0, <2>1 DEF Behind
  <2>2. CASE ~pipelining /\ at = "rcpt"
    BY <1>0, <2>2 DEF Behind, Control, Counts
  <2>3. CASE ~pipelining /\ at = "mail"
    BY <1>0, <2>3 DEF Behind
  <2>. QED BY <2>1, <2>2, <2>3 DEF Enveloping
<1>2. /\ Mark >= 1
      /\ wrote[Mark].verb = "MAIL" /\ wrote[Mark].msg = nsend /\ wrote[Mark].whole
      /\ \A j \in 1..Behind :
            /\ wrote[Mark + j].whole
            /\ j <= rcpts => wrote[Mark + j].verb = "RCPT" /\ wrote[Mark + j].arg = j
            /\ j > rcpts => wrote[Mark + j].verb = "DATA"
      /\ \A j \in (served + 1)..(Mark - 1) : wrote[j].verb \notin {"DATA", "BODY"}
  BY DEF Trail
<1>3. Mark \in Nat /\ Mark + Behind = Len(wrote) /\ i \in Nat
  BY <1>0, <1>1, <1>2 DEF Mark
<1>4. CASE i < Mark
  <2>1. i \in (served + 1)..(Mark - 1) /\ ~(i >= Mark)
    BY <1>0, <1>3, <1>4
  <2>. QED BY <1>1, <1>2, <1>3, <1>4, <2>1
<1>5. CASE i = Mark
  BY <1>1, <1>2, <1>3, <1>5
<1>6. CASE i > Mark
  <2>. DEFINE j == i - Mark
  <2>1. j \in 1..Behind /\ Mark + j = i /\ j \in Nat
    BY <1>0, <1>1, <1>3, <1>6
  <2>. HIDE DEF j
  <2>2. CASE j <= rcpts
    <3>1. wrote[i].verb = "RCPT" /\ wrote[i].arg = j /\ wrote[i].whole
      BY <1>2, <2>1, <2>2
    <3>2. j \in 1..rcpts
      BY <1>0, <2>1, <2>2
    <3>. QED BY <1>1, <1>3, <3>1, <3>2 DEF j
  <2>3. CASE j > rcpts
    <3>1. wrote[i].verb = "DATA" /\ wrote[i].whole
      BY <1>2, <2>1, <2>3
    <3>2. j = rcpts + 1 /\ j = Behind
      BY <1>0, <1>1, <2>1, <2>3
    <3>3. i = Len(wrote) /\ i = Mark + rcpts + 1
      BY <1>0, <1>3, <2>1, <3>2
    <3>. QED BY <1>1, <1>3, <3>1, <3>3
  <2>. QED BY <1>0, <2>1, <2>2, <2>3
<1>. QED BY <1>3, <1>4, <1>5, <1>6

(* What is unserved later was unserved before. *)
LEMMA Later ==
    ASSUME NEW a \in Nat, NEW b \in Nat, a <= b, NEW n \in Int
    PROVE  \A i \in (b + 1)..n : i \in (a + 1)..n
  OBVIOUS

(* A command is served: what it does to the transaction. *)
Serves(code) ==
    /\ mode = "command"
    /\ served' \in Nat /\ served < served' /\ served' <= Len(wrote)
    /\ link = "down" => served' <= cut
    /\ Says(code)
    /\ mode' \in {"command", "data", "bye"} /\ open' \in Nat /\ accepted' \in SUBSET Nat
    /\ code = 354 <=> mode' = "data"
    /\ LET c == wrote[served + 1]
       IN  \/ code \in Bad
           \/ mode' = "bye"
           \/ /\ served' = served + 1 /\ mode' = "command"
              /\ \/ c.verb \notin {"MAIL", "RCPT", "DATA"}
                 \/ c.verb = "MAIL" /\ open' = c.msg /\ accepted' = {}
                 \/ c.verb = "RCPT" /\ open' = open /\ accepted' = accepted \cup {c.arg}
           \/ /\ served' = served + 1 /\ mode' = "data"
              /\ c.verb = "DATA" /\ open' = open /\ accepted' = accepted
    /\ UNCHANGED <<clientVars, cut, queue>>

LEMMA ServesStep ==
    ASSUME Local, Ledger, NEW code \in Nat, Serves(code)
    PROVE  Ledger'
<1>0. /\ TypeOK /\ Control /\ Len(wrote) \in Nat /\ nsend \in Nat /\ rcpts \in Nat
      /\ net \in Seq(Received) /\ Len(net) \in Nat
  BY LenProperties, BoundsAssumption DEF Local, TypeOK
<1>u. UNCHANGED <<state, wrote, at, cancels, rx, link, sec, rcpts, todo, pipelining, nsend, oks, cut, queue>>
  BY DEF Serves, clientVars, callVars, sendVars, tlsVars
<1>s. /\ served \in Nat /\ served' \in Nat /\ served < served' /\ served' <= Len(wrote)
      /\ served + 1 \in (served + 1)..Len(wrote) /\ mode = "command"
  BY <1>0 DEF Serves, Ledger, ServerOK
<1>l. \A i \in (served' + 1)..Len(wrote) : i \in (served + 1)..Len(wrote)
  <2>1. served <= served' /\ Len(wrote) \in Int
    BY <1>0, <1>s
  <2>. QED BY <1>s, <2>1, Later
<1>h. /\ Clean' => Clean
      /\ Hears /\ code \in Bad => ~Clean'
      /\ NoGo /\ (~Hears \/ code # 354) => NoGo'
      /\ net' \in Seq(Received)
  BY <1>0, UnreadSaid DEF Serves
<1>d. mode' = "data" => /\ wrote[served + 1].verb = "DATA" /\ code = 354 /\ served' = served + 1
                        /\ open' = open /\ accepted' = accepted
  BY DEF Serves, Bad
<1>1. ServerOK'
  <2>1. served' \in 0..Len(wrote)
    BY <1>0, <1>s
  <2>. QED BY <1>u, <2>1 DEF Ledger, ServerOK, Serves
<1>2. Trail'
  <2>. SUFFICES ASSUME at \in Enveloping PROVE Trail'
    BY <1>u DEF Trail
  <2>1. Mark' = Mark /\ Behind' = Behind
    BY <1>u DEF Mark, Behind
  <2>2. Mark \in Nat
    BY <1>0, <1>s, Positions DEF Ledger
  <2>3. \A i \in (served' + 1)..(Mark - 1) : i \in (served + 1)..(Mark - 1)
    <3>1. served <= served' /\ Mark - 1 \in Int
      BY <1>s, <2>2
    <3>. QED BY <1>s, <3>1, Later
  <2>. QED BY <1>u, <2>1, <2>3 DEF Ledger, Trail
<1>3. NoDataYet'
  <2>. SUFFICES ASSUME Quiet PROVE NoDataYet'
    BY <1>u DEF NoDataYet, Quiet
  <2>1. NoGo /\ \A i \in (served + 1)..Len(wrote) : wrote[i].verb \notin {"DATA", "BODY"}
    BY DEF Ledger, NoDataYet
  <2>2. mode' # "data"
    BY <1>d, <1>s, <2>1
  <2>3. NoGo'
    BY <1>h, <2>1, <2>2 DEF Serves
  <2>4. \A i \in (served' + 1)..Len(wrote) : i \in (served + 1)..Len(wrote)
    BY <1>l
  <2>. QED BY <1>u, <2>1, <2>2, <2>3, <2>4 DEF NoDataYet
<1>g. ASSUME at \in Enveloping PROVE NoGo
  BY <1>g, <1>s DEF Ledger, GoIsLast, NoGo
<1>4. GoIsLast'
  <2>. SUFFICES ASSUME at \in Enveloping PROVE GoIsLast'
    BY <1>u DEF GoIsLast
  <2>1. CASE mode' # "data"
    <3>1. NoGo'
      BY <1>h, <1>g, <2>1 DEF Serves
    <3>. QED BY <2>1, <3>1 DEF GoIsLast, NoGo
  <2>2. CASE mode' = "data"
    <3>1. served' = Len(wrote)
      BY <1>0, <1>s, <1>d, <2>2, Positions DEF Ledger
    <3>2. \A i \in 1..Len(rx') : rx'[i].code # 354
      BY <1>u, <1>g DEF NoGo
    <3>3. ASSUME NEW i \in 1..Len(net'), net'[i].code = 354 PROVE i = Len(net')
      <4>1. CASE ~Hears
        BY <1>g, <3>3, <4>1 DEF Serves, Says, NoGo
      <4>2. CASE Hears
        <5>1. /\ Len(net') = Len(net) + 1 /\ \A j \in 1..Len(net) : net'[j] = net[j]
          BY <4>2 DEF Serves, Says
        <5>2. i \notin 1..Len(net)
          BY <1>g, <3>3, <5>1 DEF NoGo
        <5>. QED BY <1>0, <5>1, <5>2
      <4>. QED BY <4>1, <4>2
    <3>. QED BY <1>u, <2>2, <3>1, <3>2, <3>3 DEF GoIsLast
  <2>. QED BY <2>1, <2>2
<1>5. Agreed'
  <2>. SUFFICES ASSUME at \in Enveloping, Clean', link = "up" \/ ~NoGo'
                PROVE  /\ mode' = "command" /\ served' >= Mark =>
                             open' = nsend /\ served' - Mark <= rcpts /\ accepted' = 1..(served' - Mark)
                       /\ mode' = "data" => open' = nsend /\ accepted' = 1..rcpts
    BY <1>u DEF Agreed, Mark, Behind
  <2>1. link = "up" /\ Clean
    <3>1. ~Hears => NoGo'
      BY <1>h, <1>g
    <3>. QED BY <1>h, <3>1 DEF Hears
  <2>2. Hears
    <3>1. state \notin {"StartTls", "Closed"} /\ at # "gone"
      BY <1>0 DEF Control, AtDecidesState, Enveloping
    <3>. QED BY <1>0, <2>1, <3>1 DEF Hears, Control, NoTlsNoSession
  <2>3. code \notin Bad
    BY <1>h, <2>2
  <2>4. /\ Mark \in Nat
        /\ wrote[served + 1].verb = "MAIL" /\ served + 1 >= Mark =>
              served + 1 = Mark /\ wrote[served + 1].msg = nsend
        /\ wrote[served + 1].verb = "RCPT" /\ served + 1 >= Mark =>
              (served + 1) - Mark \in 1..rcpts /\ wrote[served + 1].arg = (served + 1) - Mark
        /\ wrote[served + 1].verb = "DATA" => served + 1 = Mark + rcpts + 1
        /\ wrote[served + 1].verb \notin {"MAIL", "RCPT", "DATA"} => served + 1 < Mark
    <3>. DEFINE i == served + 1
    <3>1. i \in (served + 1)..Len(wrote)
      BY <1>s
    <3>. HIDE DEF i
    <3>2. /\ Mark \in Nat
          /\ wrote[i].verb = "MAIL" /\ i >= Mark => i = Mark /\ wrote[i].msg = nsend
          /\ wrote[i].verb = "RCPT" /\ i >= Mark => i - Mark \in 1..rcpts /\ wrote[i].arg = i - Mark
          /\ wrote[i].verb = "DATA" => i = Mark + rcpts + 1
          /\ wrote[i].verb \notin {"MAIL", "RCPT", "DATA"} => i < Mark
      BY <1>0, <1>s, <3>1, Positions DEF Ledger
    <3>. QED BY <3>2 DEF i
  <2>5. served >= Mark => open = nsend /\ served - Mark <= rcpts /\ accepted = 1..(served - Mark)
    BY <1>s, <2>1 DEF Ledger, Agreed
  <2>6. CASE mode' = "data"
    <3>1. served = Mark + rcpts /\ served >= Mark /\ served - Mark = rcpts
      BY <1>0, <1>s, <1>d, <2>4, <2>6, SMTT(20)
    <3>. QED BY <1>d, <2>5, <2>6, <3>1
  <2>7. CASE mode' = "command" /\ served' >= Mark
    <3>1. /\ served' = served + 1
          /\ \/ wrote[served + 1].verb \notin {"MAIL", "RCPT", "DATA"}
             \/ wrote[served + 1].verb = "MAIL" /\ open' = wrote[served + 1].msg /\ accepted' = {}
             \/ /\ wrote[served + 1].verb = "RCPT" /\ open' = open
                /\ accepted' = accepted \cup {wrote[served + 1].arg}
      BY <2>3, <2>7 DEF Serves
    <3>2. CASE wrote[served + 1].verb \notin {"MAIL", "RCPT", "DATA"}
      BY <1>s, <2>4, <2>7, <3>1, <3>2
    <3>3. CASE wrote[served + 1].verb = "MAIL" /\ open' = wrote[served + 1].msg /\ accepted' = {}
      <4>1. served + 1 >= Mark
        BY <2>7, <3>1
      <4>2. served + 1 = Mark /\ open' = nsend
        BY <2>4, <3>3, <4>1
      <4>3. served' - Mark = 0 /\ 1..0 = {}
        BY <1>s, <2>4, <3>1, <4>2
      <4>. QED BY <1>0, <2>7, <3>3, <4>2, <4>3
    <3>4. CASE /\ wrote[served + 1].verb = "RCPT" /\ open' = open
               /\ accepted' = accepted \cup {wrote[served + 1].arg}
      <4>1. (served + 1) - Mark \in 1..rcpts /\ wrote[served + 1].arg = (served + 1) - Mark
        BY <2>4, <2>7, <3>1, <3>4
      <4>2. served >= Mark
        BY <1>0, <1>s, <2>4, <4>1
      <4>3. open' = nsend /\ accepted' = 1..(served - Mark) \cup {(served + 1) - Mark}
        BY <2>5, <3>4, <4>1, <4>2
      <4>4. 1..(served - Mark) \cup {(served + 1) - Mark} = 1..(served' - Mark)
        BY <1>s, <2>4, <3>1, <4>2
      <4>5. served' - Mark <= rcpts
        BY <1>0, <1>s, <2>4, <3>1, <4>1
      <4>. QED BY <2>7, <4>3, <4>4, <4>5
    <3>. QED BY <3>1, <3>2, <3>3, <3>4
  <2>. QED BY <2>6, <2>7
<1>6. AtBody'
  BY <1>u, <1>s DEF Ledger, AtBody
<1>7. AtFinal'
  <2>1. at # "final"
    <3>1. served # Len(wrote)
      BY <1>0, <1>s
    <3>. QED BY <1>s, <3>1 DEF Ledger, AtFinal, Unserved, Answered
  <2>. QED BY <1>u, <2>1 DEF AtFinal
<1>8. PendingBody'
  <2>1. \A i \in (served' + 1)..Len(wrote) : i \in (served + 1)..Len(wrote)
    BY <1>l
  <2>2. \A i \in (served + 1)..Len(wrote) : wrote[i].verb # "BODY"
    BY <1>s DEF Ledger, PendingBody
  <2>. QED BY <1>u, <2>1, <2>2 DEF PendingBody
<1>9. NotQueued' /\ Whole' /\ QueuedIsComplete' /\ OkMeansQueued'
  BY <1>u DEF Ledger, NotQueued, Whole, QueuedIsComplete, OkMeansQueued
<1>. QED BY <1>1, <1>2, <1>3, <1>4, <1>5, <1>6, <1>7, <1>8, <1>9 DEF Ledger

(* What the server can read. *)
LEMMA Reachable ==
    ASSUME TypeOK, ServerOK
    PROVE  /\ Len(wrote) \in Nat /\ served \in Nat /\ Reach \in Nat /\ Reach <= Len(wrote)
           /\ link = "down" => Reach = cut
           /\ \A i \in 1..Len(wrote) : wrote[i].over \in {"plain", "tls"} /\ wrote[i].msg \in Nat /\ wrote[i].arg \in Nat
<1>0. wrote \in Seq(Commands) /\ Len(wrote) \in Nat /\ link \in {"up", "down"}
  BY LenProperties DEF TypeOK
<1>1. \A i \in 1..Len(wrote) : wrote[i] \in Commands
  BY <1>0, ElementOfSeq
<1>2. \A i \in 1..Len(wrote) : wrote[i].over \in {"plain", "tls"} /\ wrote[i].msg \in Nat /\ wrote[i].arg \in Nat
  BY <1>1 DEF Commands
<1>. QED BY <1>0, <1>2 DEF ServerOK, Reach

ServesCommand ==
    \/ Refuses \/ ServeEhlo \/ ServeStartTls \/ ServeAuth \/ ServeMail \/ ServeRcpt
    \/ ServeData \/ ServeQuit \/ ServeTorn

LEMMA CommandServed ==
    ASSUME TypeOK, ServerOK, ServesCommand
    PROVE  \E code \in Nat : Serves(code)
<1>0. /\ Len(wrote) \in Nat /\ served \in Nat /\ Reach \in Nat /\ Reach <= Len(wrote)
      /\ link = "down" => Reach = cut
      /\ \A i \in 1..Len(wrote) : wrote[i].over \in {"plain", "tls"} /\ wrote[i].msg \in Nat /\ wrote[i].arg \in Nat
  BY Reachable
<1>o. open \in Nat /\ accepted \in SUBSET Nat
  BY DEF ServerOK
<1>e. {} \in SUBSET Extensions /\ {} \in SUBSET Nat
  OBVIOUS
<1>a. ASSUME Reads("command"), Takes
      PROVE  /\ mode = "command" /\ served' = served + 1 /\ served' \in Nat /\ served < served'
             /\ served' <= Len(wrote) /\ (link = "down" => served' <= cut)
             /\ Cmd = wrote[served + 1] /\ Cmd.over \in {"plain", "tls"} /\ Cmd.msg \in Nat /\ Cmd.arg \in Nat
  <2>1. mode = "command" /\ served < Reach /\ served' = served + 1
    BY <1>a DEF Reads, Takes
  <2>2. served + 1 \in 1..Len(wrote)
    BY <1>0, <2>1
  <2>. QED BY <1>0, <2>1, <2>2 DEF Cmd
<1>1. CASE Refuses
  <2>1. Reads("command") /\ Takes /\ Answer(550, {}, Cmd.over) /\ UNCHANGED <<mode, open, accepted, cut, queue>>
    BY <1>1 DEF Refuses
  <2>2. Says(550) /\ UNCHANGED clientVars
    BY <1>a, <1>e, <2>1, AnswerSays
  <2>3. Serves(550)
    BY <1>a, <1>o, <2>1, <2>2 DEF Serves, Bad
  <2>. QED BY <2>3
<1>2. CASE ServeEhlo
  <2>1. /\ Reads("command") /\ Takes /\ Cmd.verb = "EHLO"
        /\ open' = 0 /\ accepted' = {} /\ UNCHANGED <<mode, cut, queue>>
    BY <1>2 DEF ServeEhlo
  <2>2. PICK offer \in Offers : Answer(250, offer, Cmd.over)
    BY <1>2 DEF ServeEhlo
  <2>3. Says(250) /\ UNCHANGED clientVars
    BY <1>a, <2>1, <2>2, AnswerSays, OffersAssumption
  <2>4. Serves(250)
    BY <1>a, <1>e, <2>1, <2>3 DEF Serves
  <2>. QED BY <2>4
<1>3. CASE ServeStartTls
  <2>1. /\ Reads("command") /\ Takes /\ Cmd.verb = "STARTTLS" /\ Answer(220, {}, Cmd.over)
        /\ UNCHANGED <<mode, open, accepted, cut, queue>>
    BY <1>3 DEF ServeStartTls
  <2>2. Says(220) /\ UNCHANGED clientVars
    BY <1>a, <1>e, <2>1, AnswerSays, ZenonT(30)
  <2>3. Serves(220)
    BY <1>a, <1>o, <2>1, <2>2 DEF Serves
  <2>. QED BY <2>3
<1>4. CASE ServeAuth
  <2>1. /\ Reads("command") /\ Takes /\ Cmd.verb \in {"AUTH", "RESPONSE"}
        /\ UNCHANGED <<mode, open, accepted, cut, queue>>
    BY <1>4 DEF ServeAuth
  <2>2. PICK code \in {235, 334} : Answer(code, {}, Cmd.over)
    BY <1>4 DEF ServeAuth
  <2>3. Says(code) /\ UNCHANGED clientVars /\ code \in Nat /\ code # 354
    BY <1>a, <1>e, <2>1, <2>2, AnswerSays
  <2>4. Serves(code)
    BY <1>a, <1>o, <2>1, <2>3 DEF Serves
  <2>. QED BY <2>3, <2>4
<1>5. CASE ServeMail
  <2>1. /\ Reads("command") /\ Takes /\ Cmd.verb = "MAIL" /\ Answer(250, {}, Cmd.over)
        /\ open' = Cmd.msg /\ accepted' = {} /\ UNCHANGED <<mode, cut, queue>>
    BY <1>5 DEF ServeMail
  <2>2. Says(250) /\ UNCHANGED clientVars
    BY <1>a, <1>e, <2>1, AnswerSays
  <2>3. Serves(250)
    BY <1>a, <1>e, <2>1, <2>2 DEF Serves
  <2>. QED BY <2>3
<1>6. CASE ServeRcpt
  <2>1. /\ Reads("command") /\ Takes /\ Cmd.verb = "RCPT" /\ Answer(250, {}, Cmd.over)
        /\ accepted' = accepted \cup {Cmd.arg} /\ UNCHANGED <<mode, open, cut, queue>>
    BY <1>6 DEF ServeRcpt
  <2>2. Says(250) /\ UNCHANGED clientVars
    BY <1>a, <1>e, <2>1, AnswerSays
  <2>3. open' \in Nat /\ accepted' \in SUBSET Nat
    BY <1>a, <1>o, <2>1
  <2>4. Serves(250)
    BY <1>a, <2>1, <2>2, <2>3 DEF Serves, Cmd
  <2>. QED BY <2>4
<1>7. CASE ServeData
  <2>1. /\ Reads("command") /\ Takes /\ Cmd.verb = "DATA" /\ Answer(354, {}, Cmd.over)
        /\ mode' = "data" /\ UNCHANGED <<open, accepted, cut, queue>>
    BY <1>7 DEF ServeData
  <2>2. Says(354) /\ UNCHANGED clientVars
    <3>1. Answer(354, {}, Cmd.over) /\ Cmd.over \in {"plain", "tls"} /\ 354 \in Nat
      BY <1>a, <2>1
    <3>. QED BY <1>e, <3>1, AnswerSays
  <2>3. Serves(354)
    BY <1>a, <1>o, <2>1, <2>2 DEF Serves
  <2>. QED BY <2>3
<1>8. CASE ServeQuit
  <2>1. /\ Reads("command") /\ Takes /\ Answer(221, {}, Cmd.over)
        /\ mode' = "bye" /\ UNCHANGED <<open, accepted, cut, queue>>
    BY <1>8 DEF ServeQuit
  <2>2. Says(221) /\ UNCHANGED clientVars
    BY <1>a, <1>e, <2>1, AnswerSays
  <2>3. Serves(221)
    BY <1>a, <1>o, <2>1, <2>2 DEF Serves
  <2>. QED BY <2>3
<1>9. CASE ServeTorn
  <2>1. /\ mode = "command" /\ served + 1 < Reach /\ served' = served + 2
        /\ Answer(550, {}, wrote[served + 2].over) /\ UNCHANGED <<mode, open, accepted, cut, queue>>
    BY <1>9 DEF ServeTorn, Reads
  <2>2. /\ served + 2 \in 1..Len(wrote) /\ served' \in Nat /\ served < served' /\ served' <= Len(wrote)
        /\ link = "down" => served' <= cut
    BY <1>0, <2>1
  <2>3. Says(550) /\ UNCHANGED clientVars
    BY <1>0, <1>e, <2>1, <2>2, AnswerSays
  <2>4. Serves(550)
    BY <1>o, <2>1, <2>2, <2>3 DEF Serves, Bad
  <2>. QED BY <2>4
<1>. QED BY <1>1, <1>2, <1>3, <1>4, <1>5, <1>6, <1>7, <1>8, <1>9 DEF ServesCommand

(* Text of a message the client has given up. *)
LEMMA ServeTextStep ==
    ASSUME Local, Ledger, ServeText
    PROVE  Ledger'
<1>0. /\ TypeOK /\ Len(wrote) \in Nat /\ served \in Nat /\ Reach \in Nat /\ Reach <= Len(wrote)
      /\ link = "down" => Reach = cut
  BY Reachable DEF Local, Ledger
<1>u. /\ UNCHANGED <<state, wrote, at, cancels, rx, net, link, sec, rcpts, todo, pipelining, nsend, oks>>
      /\ UNCHANGED <<mode, open, accepted, cut, queue>>
  BY DEF ServeText, vars
<1>1. /\ mode = "data" /\ served < Reach /\ served' = served + 1
      /\ ~(wrote[served + 1].whole /\ wrote[served + 1].verb = "BODY")
  BY DEF ServeText, Reads, Cmd
<1>2. served # Len(wrote) /\ served + 1 <= Len(wrote) /\ served' \in Nat /\ served <= served'
  BY <1>0, <1>1
<1>3. at \notin Enveloping /\ at # "body"
  BY <1>1, <1>2 DEF Ledger, GoIsLast, AtBody
<1>4. at # "final"
  <2>1. served = Len(wrote) - 1 => served + 1 = Len(wrote)
    BY <1>0
  <2>. QED BY <1>1, <2>1 DEF Ledger, AtFinal, Unserved, Answered
<1>5. ServerOK'
  <2>1. served' \in 0..Len(wrote) /\ (link = "down" => served' <= cut)
    BY <1>0, <1>1, <1>2
  <2>. QED BY <1>u, <2>1 DEF Ledger, ServerOK
<1>6. PendingBody'
  <2>. SUFFICES ASSUME NEW i \in (served' + 1)..Len(wrote), wrote[i].verb = "BODY" PROVE FALSE
    BY <1>u DEF PendingBody
  <2>1. i \in (served + 1)..Len(wrote)
    <3>1. Len(wrote) \in Int /\ served \in Nat /\ served' \in Nat /\ served <= served'
      BY <1>0, <1>2
    <3>. QED BY <3>1, Later
  <2>2. i = served + 1
    BY <2>1 DEF Ledger, PendingBody
  <2>. QED BY <1>0, <1>1, <2>2
<1>7. ~Quiet'
  BY <1>1, <1>u DEF Ledger, NoDataYet, Quiet
<1>8. Trail' /\ NoDataYet' /\ GoIsLast' /\ Agreed' /\ AtBody' /\ AtFinal' /\ NotQueued'
  BY <1>u, <1>3, <1>4, <1>7
     DEF Trail, NoDataYet, GoIsLast, Agreed, AtBody, AtFinal, NotQueued, Enveloping
<1>9. Whole' /\ QueuedIsComplete' /\ OkMeansQueued'
  BY <1>u DEF Ledger, Whole, QueuedIsComplete, OkMeansQueued
<1>. QED BY <1>5, <1>6, <1>8, <1>9 DEF Ledger

(* The queue grows by one message, or stays as it is. *)
LEMMA Enqueued ==
    ASSUME queue \in Seq(Queued), NEW q \in Queued, queue' = Append(queue, q)
    PROVE  /\ queue' \in Seq(Queued) /\ Len(queue) \in Nat /\ Len(queue') = Len(queue) + 1
           /\ \A j \in 1..Len(queue) : j \in 1..Len(queue') /\ queue'[j] = queue[j]
           /\ Len(queue) + 1 \in 1..Len(queue') /\ queue'[Len(queue) + 1] = q
           /\ \A j \in 1..Len(queue') : j \in 1..Len(queue) \/ j = Len(queue) + 1
<1>1. Len(queue) \in Nat /\ queue' \in Seq(Queued) /\ Len(queue') = Len(queue) + 1
  BY LenProperties, AppendProperties
<1>2. /\ \A j \in 1..Len(queue) : queue'[j] = queue[j]
      /\ queue'[Len(queue) + 1] = q
  BY <1>1, AppendProperties
<1>. QED BY <1>1, <1>2

(* The terminator is read: what is queued is the message the client sent,  *)
(* for its recipients, and the reply is the reply to it.                   *)
LEMMA ServeBodyStep ==
    ASSUME Local, Ledger, ServeBody
    PROVE  Ledger'
<1>. DEFINE c == wrote[served + 1]
            q == [msg |-> open, body |-> c.msg, to |-> accepted, want |-> c.arg]
<1>0. /\ TypeOK /\ Len(wrote) \in Nat /\ served \in Nat /\ Reach \in Nat /\ Reach <= Len(wrote)
      /\ link = "down" => Reach = cut
      /\ \A i \in 1..Len(wrote) : wrote[i].over \in {"plain", "tls"} /\ wrote[i].msg \in Nat /\ wrote[i].arg \in Nat
  BY Reachable DEF Local, Ledger
<1>1. /\ mode = "data" /\ served < Reach /\ served' = served + 1 /\ c.whole /\ c.verb = "BODY"
      /\ mode' = "command" /\ open' = 0 /\ accepted' = {} /\ cut' = cut
  BY DEF ServeBody, Reads, Takes, Cmd
<1>2. /\ served # Len(wrote) /\ served + 1 <= Len(wrote) /\ served' \in Nat /\ served <= served'
      /\ served + 1 \in (served + 1)..Len(wrote) /\ served + 1 \in 1..Len(wrote)
  BY <1>0, <1>1
<1>3. /\ c.over \in {"plain", "tls"} /\ c.msg \in Nat /\ c.arg \in Nat
  BY <1>0, <1>2
<1>4. /\ open = c.msg /\ open <= nsend /\ accepted = 1..c.arg
      /\ \A j \in 1..Len(queue) : queue[j].msg # open
  BY <1>1, <1>2 DEF Ledger, PendingBody
<1>5. PICK code \in {250, 550} :
        /\ Answer(code, {}, c.over)
        /\ code = 250 => queue' = Append(queue, q)
        /\ code = 550 => queue' = queue
  <2>1. CASE queue' = Append(queue, q) /\ Answer(250, {}, c.over)
    BY <2>1
  <2>2. CASE queue' = queue /\ Answer(550, {}, c.over)
    BY <2>2
  <2>. QED BY <2>1, <2>2 DEF ServeBody, Cmd
<1>6. Says(code) /\ UNCHANGED clientVars
  BY <1>0, <1>3, <1>5, AnswerSays
<1>u. UNCHANGED <<state, wrote, at, cancels, rx, link, sec, rcpts, todo, pipelining, nsend, oks>>
  BY <1>6 DEF clientVars, callVars, sendVars, tlsVars
<1>q. /\ q \in Queued /\ queue \in Seq(Queued)
      /\ q.msg = open /\ q.body = c.msg /\ q.to = accepted /\ q.want = c.arg
  BY <1>3 DEF Queued, Ledger, ServerOK
<1>. HIDE DEF q
<1>7. /\ queue' \in Seq(Queued)
      /\ \A j \in 1..Len(queue) : j \in 1..Len(queue') /\ queue'[j] = queue[j]
      /\ \A j \in 1..Len(queue') : j \in 1..Len(queue) \/ queue'[j] = q
      /\ code = 250 => \E j \in 1..Len(queue') : queue'[j] = q
      /\ \A j, k \in 1..Len(queue') : queue'[j] = q /\ queue'[k] = q => j = k
  <2>1. CASE code = 250
    <3>1. /\ queue' \in Seq(Queued) /\ Len(queue) \in Nat /\ Len(queue') = Len(queue) + 1
          /\ \A j \in 1..Len(queue) : j \in 1..Len(queue') /\ queue'[j] = queue[j]
          /\ Len(queue) + 1 \in 1..Len(queue') /\ queue'[Len(queue) + 1] = q
          /\ \A j \in 1..Len(queue') : j \in 1..Len(queue) \/ j = Len(queue) + 1
      BY <1>5, <1>q, <2>1, Enqueued
    <3>2. \A j \in 1..Len(queue') : queue'[j] = q => j = Len(queue) + 1
      BY <1>4, <1>q, <3>1
    <3>. QED BY <3>1, <3>2
  <2>2. CASE code = 550
    BY <1>4, <1>5, <1>q, <2>2
  <2>. QED BY <1>5, <2>1, <2>2
<1>8. at \notin Enveloping /\ at # "body" /\ ~Quiet'
  BY <1>1, <1>2, <1>u DEF Ledger, GoIsLast, AtBody, NoDataYet, Quiet
<1>9. ServerOK'
  <2>1. served' \in 0..Len(wrote) /\ (link = "down" => served' <= cut)
    BY <1>0, <1>1, <1>2
  <2>2. \A j \in 1..Len(queue') : queue'[j].msg <= nsend
    BY <1>4, <1>7, <1>q DEF Ledger, ServerOK
  <2>. QED BY <1>1, <1>7, <1>u, <2>1, <2>2 DEF Ledger, ServerOK
<1>10. PendingBody'
  <2>. SUFFICES ASSUME NEW i \in (served' + 1)..Len(wrote), wrote[i].verb = "BODY" PROVE FALSE
    BY <1>u DEF PendingBody
  <2>1. i \in (served + 1)..Len(wrote)
    <3>1. Len(wrote) \in Int /\ served \in Nat /\ served' \in Nat /\ served <= served'
      BY <1>0, <1>2
    <3>. QED BY <3>1, Later
  <2>2. i = served + 1
    BY <2>1 DEF Ledger, PendingBody
  <2>. QED BY <1>0, <1>1, <2>2
<1>11. QueuedIsComplete'
  <2>1. ASSUME NEW j \in 1..Len(queue')
        PROVE  queue'[j].msg = queue'[j].body /\ queue'[j].to = 1..queue'[j].want
    BY <1>4, <1>7, <1>q DEF Ledger, QueuedIsComplete
  <2>2. ASSUME NEW j \in 1..Len(queue'), NEW k \in 1..Len(queue'), queue'[j].msg = queue'[k].msg
        PROVE  j = k
    <3>1. CASE j \in 1..Len(queue) /\ k \in 1..Len(queue)
      BY <1>7, <2>2, <3>1 DEF Ledger, QueuedIsComplete
    <3>2. CASE queue'[j] = q
      BY <1>4, <1>7, <1>q, <2>2, <3>2
    <3>3. CASE queue'[k] = q
      BY <1>4, <1>7, <1>q, <2>2, <3>3
    <3>. QED BY <1>7, <3>1, <3>2, <3>3
  <2>. QED BY <2>1, <2>2 DEF QueuedIsComplete
<1>12. OkMeansQueued'
  BY <1>7, <1>u DEF Ledger, OkMeansQueued
<1>13. AtFinal'
  <2>. SUFFICES ASSUME at = "final" PROVE Answered'
    BY <1>u DEF Ledger, AtFinal
  <2>1. /\ served = Len(wrote) - 1 /\ rx = <<>> /\ net = <<>>
        /\ wrote[Len(wrote)].msg = nsend
    BY <1>1 DEF Ledger, AtFinal, Unserved, Answered
  <2>2. served' = Len(wrote) /\ c.msg = nsend
    <3>1. served + 1 = Len(wrote)
      BY <1>0, <2>1
    <3>. QED BY <1>1, <2>1, <3>1
  <2>3. NoGo'
    <3>1. NoGo
      BY <2>1 DEF NoGo
    <3>. QED BY <1>0, <1>5, <1>6, <3>1, UnreadSaid
  <2>4. ASSUME net' # <<>>, Class(net'[1]) = 2 PROVE Holds(nsend)'
    <3>1. Len(net) = 0 /\ net'[1].code = code
      BY <1>6, <2>1, <2>4 DEF Says
    <3>2. code = 250
      BY <1>5, <2>4, <3>1 DEF Class
    <3>. QED BY <1>4, <1>7, <1>q, <1>u, <2>2, <3>2 DEF Holds
  <2>. QED BY <1>1, <1>u, <2>1, <2>2, <2>3, <2>4 DEF Answered, Holds
<1>14. Trail' /\ NoDataYet' /\ GoIsLast' /\ Agreed' /\ AtBody' /\ NotQueued'
  BY <1>u, <1>8 DEF Trail, NoDataYet, GoIsLast, Agreed, AtBody, NotQueued, Enveloping
<1>15. Whole'
  BY <1>u DEF Ledger, Whole
<1>. QED BY <1>9, <1>10, <1>11, <1>12, <1>13, <1>14, <1>15 DEF Ledger

(* The server speaks unasked: its greeting, or a 421 before it hangs up.   *)
Speaks(code) ==
    /\ Says(code) /\ code # 354
    /\ mode \in {"greet", "command"} /\ mode' \in {"command", "bye"}
    /\ mode = "greet" => at \in {"greeting", "gone"}
    /\ mode = "command" => mode' = "bye" /\ code = 421
    /\ UNCHANGED <<clientVars, open, accepted, served, cut, queue>>

LEMMA SpeaksStep ==
    ASSUME Local, Ledger, NEW code \in Nat, Speaks(code)
    PROVE  Ledger'
<1>0. TypeOK /\ net \in Seq(Received) /\ Len(net) \in Nat
  BY LenProperties DEF Local, TypeOK
<1>u. /\ UNCHANGED <<state, wrote, at, cancels, rx, link, sec, rcpts, todo, pipelining, nsend, oks>>
      /\ UNCHANGED <<open, accepted, served, cut, queue>>
  BY DEF Speaks, clientVars, callVars, sendVars, tlsVars
<1>h. NoGo => NoGo'
  BY <1>0, UnreadSaid DEF Speaks
<1>m. mode # "data" /\ mode' # "data" /\ mode' \in {"command", "bye"}
  BY DEF Speaks
<1>1. ServerOK' /\ NotQueued' /\ Whole' /\ QueuedIsComplete' /\ OkMeansQueued'
  BY <1>u, <1>m DEF Ledger, ServerOK, NotQueued, Whole, QueuedIsComplete, OkMeansQueued
<1>2. Trail'
  BY <1>u DEF Ledger, Trail, Mark, Behind
<1>3. NoDataYet'
  BY <1>u, <1>h, <1>m DEF Ledger, NoDataYet, Quiet
<1>4. GoIsLast'
  <2>1. at \in Enveloping => NoGo
    BY <1>m DEF Ledger, GoIsLast, NoGo
  <2>. QED BY <1>u, <1>h, <1>m, <2>1 DEF GoIsLast, NoGo
<1>5. Agreed'
  <2>1. at \in Enveloping => mode' = "bye"
    BY DEF Speaks, Enveloping
  <2>. QED BY <1>u, <2>1 DEF Agreed
<1>6. AtBody'
  BY <1>u, <1>m DEF Ledger, AtBody
<1>7. AtFinal'
  <2>. SUFFICES ASSUME at = "final" PROVE Answered'
    BY <1>u DEF Ledger, AtFinal
  <2>1. Answered
    BY <1>m DEF Ledger, AtFinal, Unserved
  <2>2. ASSUME rx = <<>>, net' # <<>>, Class(net'[1]) = 2 PROVE Holds(nsend)
    <3>1. CASE ~Hears
      BY <2>1, <2>2, <3>1 DEF Speaks, Says, Answered
    <3>2. CASE Hears /\ net # <<>>
      <4>1. 1 \in 1..Len(net)
        BY <1>0, <3>2, Empty
      <4>2. net'[1] = net[1]
        BY <3>2, <4>1 DEF Speaks, Says
      <4>. QED BY <2>1, <2>2, <3>2, <4>2 DEF Answered
    <3>3. CASE Hears /\ net = <<>>
      <4>1. Len(net) = 0
        BY <1>0, <3>3, Empty
      <4>2. net'[1].code = 421
        BY <3>3, <4>1 DEF Speaks, Says
      <4>3. 421 \div 100 = 4
        OBVIOUS
      <4>. QED BY <2>2, <4>2, <4>3 DEF Class
    <3>. QED BY <3>1, <3>2, <3>3
  <2>. QED BY <1>u, <1>h, <1>m, <2>1, <2>2 DEF Answered, Holds
<1>8. PendingBody'
  BY <1>u, <1>m DEF Ledger, PendingBody
<1>. QED BY <1>1, <1>2, <1>3, <1>4, <1>5, <1>6, <1>7, <1>8 DEF Ledger

(* The connection breaks: replies in flight are lost from the end.         *)
Severs ==
    /\ LinkDown
    /\ cut' \in served..Len(wrote)
    /\ UNCHANGED <<mode, open, accepted, served, queue>>

LEMMA SeversStep ==
    ASSUME Local, Ledger, Severs
    PROVE  Ledger'
<1>0. TypeOK /\ net \in Seq(Received) /\ Len(net) \in Nat /\ Len(wrote) \in Nat /\ served \in Nat
  BY LenProperties DEF Local, TypeOK, Ledger, ServerOK
<1>u. /\ UNCHANGED <<state, wrote, at, cancels, rx, sec, rcpts, todo, pipelining, nsend, oks>>
      /\ UNCHANGED <<mode, open, accepted, served, queue>>
      /\ link = "up" /\ link' = "down"
  BY DEF Severs, LinkDown, callVars, sendVars, tlsVars
<1>1. PICK k \in 0..Len(net) : net' = SubSeq(net, 1, k)
  BY DEF Severs, LinkDown
<1>2. /\ Len(net') = k /\ net' \in Seq(Received) /\ k <= Len(net)
      /\ \A i \in 1..k : i \in 1..Len(net) /\ net'[i] = net[i]
  BY <1>0, <1>1, CutInTwo
<1>n. NoGo => NoGo'
  BY <1>u, <1>2 DEF NoGo
<1>e. net = <<>> => net' = <<>>
  BY <1>0, <1>2, Empty
<1>3. ServerOK'
  <2>1. cut' \in 0..Len(wrote) /\ served <= cut'
    BY <1>0 DEF Severs
  <2>. QED BY <1>u, <2>1 DEF Ledger, ServerOK
<1>4. Trail' /\ PendingBody' /\ NotQueued' /\ Whole' /\ QueuedIsComplete' /\ OkMeansQueued'
  BY <1>u DEF Ledger, Trail, Mark, Behind, PendingBody, NotQueued, Whole, QueuedIsComplete, OkMeansQueued
<1>5. NoDataYet'
  BY <1>u, <1>n DEF Ledger, NoDataYet, Quiet
<1>g. ASSUME at \in Enveloping, NEW i \in 1..Len(net'), net'[i].code = 354
      PROVE  i = Len(net) /\ k = Len(net) /\ mode = "data"
  <2>1. i \in 1..Len(net) /\ net[i].code = 354
    BY <1>2, <1>g
  <2>2. i = Len(net) /\ mode = "data"
    BY <1>g, <2>1 DEF Ledger, GoIsLast
  <2>. QED BY <1>0, <1>2, <2>2
<1>6. GoIsLast'
  <2>. SUFFICES ASSUME at \in Enveloping PROVE GoIsLast'
    BY <1>u DEF GoIsLast
  <2>1. \A i \in 1..Len(net') : net'[i].code = 354 => i = Len(net') /\ mode = "data"
    BY <1>2, <1>g
  <2>. QED BY <1>u, <1>e, <2>1 DEF Ledger, GoIsLast
<1>7. Agreed'
  <2>. SUFFICES ASSUME at \in Enveloping, Clean', ~NoGo' PROVE Clean
    BY <1>u DEF Ledger, Agreed, Mark, Behind
  <2>1. CASE \E i \in 1..Len(rx) : rx[i].code = 354
    <3>1. net = <<>>
      BY <2>1 DEF Ledger, GoIsLast
    <3>2. Len(net) = 0
      BY <1>0, <3>1, Empty
    <3>. QED BY <1>u, <3>2 DEF Clean
  <2>2. CASE \E i \in 1..Len(net') : net'[i].code = 354
    <3>1. k = Len(net)
      BY <1>g, <2>2
    <3>. QED BY <1>u, <1>2, <3>1 DEF Clean
  <2>. QED BY <1>u, <2>1, <2>2 DEF NoGo
<1>8. AtBody'
  BY <1>u, <1>e DEF Ledger, AtBody
<1>9. AtFinal'
  <2>. SUFFICES ASSUME at = "final", Unserved \/ Answered PROVE Unserved' \/ Answered'
    BY <1>u DEF Ledger, AtFinal
  <2>1. CASE Unserved
    BY <1>u, <1>e, <2>1 DEF Unserved
  <2>2. CASE Answered
    <3>1. ASSUME net' # <<>> PROVE net # <<>> /\ net'[1] = net[1]
      <4>1. k >= 1
        BY <1>2, <3>1, Empty
      <4>. QED BY <1>0, <1>2, <4>1, Empty
    <3>. QED BY <1>u, <1>n, <2>2, <3>1 DEF Answered, Holds
  <2>. QED BY <2>1, <2>2
<1>. QED BY <1>3, <1>4, <1>5, <1>6, <1>7, <1>8, <1>9 DEF Ledger
-----------------------------------------------------------------------------
(* A session whose transport is broken is closed unless a call was         *)
(* abandoned, and quit closes the transport of no session in between.      *)
LEMMA ClosingStep ==
    ASSUME TypeOK, Control, Unbroken, Closing, [Next]_vars
    PROVE  Unbroken' /\ Closing'
<1>0. /\ cancels \in Nat /\ pipelining \in BOOLEAN
      /\ state \notin {"StartTls", "Closed"} => sec # "broken"
  BY BoundsAssumption DEF TypeOK, Control, NoTlsNoSession
<1>f. ASSUME NEW ev, NEW err, NEW a, Fail(ev, err, a) PROVE Unbroken' /\ Closing'
  BY <1>f DEF Fail, Unbroken, Closing
<1>w. ASSUME NEW s, NEW ev, NEW cmds, NEW a, a # "close", sec' # "broken", WriteThen(s, ev, cmds, a)
      PROVE  Unbroken' /\ Closing'
  <2>1. at' = "close" => state' = "Closed"
    BY <1>w DEF WriteThen, Fail, OnCancel
  <2>. QED BY <1>w, <2>1 DEF Unbroken, Closing
<1>d. ASSUME NEW s, NEW ev, Done(s, ev), sec' # "broken" PROVE Unbroken' /\ Closing'
  BY <1>d DEF Done, Unbroken, Closing
<1>k. ASSUME UNCHANGED <<state, sec, cancels>>, at' # "close" PROVE Unbroken' /\ Closing'
  BY <1>k DEF Unbroken, Closing
<1>r. ASSUME NEW err, Refuse(err), at = "idle", sec' = sec PROVE Unbroken' /\ Closing'
  BY <1>r DEF Refuse, Unbroken, Closing
<1>l. ASSUME NEW m, login_with(m) PROVE Unbroken' /\ Closing'
  <2>1. sec' = sec /\ sec # "broken" /\ at = "idle"
    BY <1>0, <1>l DEF login_with, MayLogin, tlsVars
  <2>. QED BY <1>f, <1>l, <1>r, <1>w, <2>1 DEF login_with
<1>1. CASE read_greeting
  <2>1. sec' = sec /\ sec # "broken"
    BY <1>0, <1>1 DEF read_greeting, Reply, Control, AtDecidesState, tlsVars
  <2>. QED BY <1>1, <1>f, <1>w, <2>1 DEF read_greeting
<1>2. CASE send_ehlo
  <2>1. sec' = sec /\ sec # "broken"
    BY <1>0, <1>2 DEF send_ehlo, Reply, Control, AtDecidesState, tlsVars
  <2>. QED BY <1>2, <1>f, <1>d, <2>1 DEF send_ehlo
<1>3. CASE starttls
  <2>1. sec' = sec /\ sec # "broken"
    BY <1>0, <1>3 DEF starttls
  <2>. QED BY <1>3, <1>f, <1>w, <2>1 DEF starttls
<1>4. CASE starttls_reply
  <2>1. sec' = sec
    BY <1>4 DEF starttls_reply, tlsVars
  <2>. QED BY <1>4, <1>f, <1>k, <2>1 DEF starttls_reply, Await
<1>5. CASE upgrade_to_tls
  BY <1>5, <1>f, <1>w DEF upgrade_to_tls
<1>6. CASE login
  BY <1>6, <1>l, <1>f DEF login
<1>7. CASE \E m \in Mechanisms : login_with(m)
  BY <1>7, <1>l
<1>8. CASE run_auth
  <2>1. PICK a \in {"auth1", "auth2", "auth3"} :
           /\ Reply(a)
           /\ \/ Done("MailFrom", <<"AuthCompleted">>)
              \/ WriteThen(state, <<>>, Say("RESPONSE"), NextAuth[a])
              \/ Fail(<<>>, AuthFailure(a, Head(rx)), a)
    BY <1>8 DEF run_auth
  <2>2. sec' = sec /\ sec # "broken" /\ NextAuth[a] # "close"
    BY <1>0, <1>8, <2>1 DEF run_auth, Reply, Control, AtDecidesState, NextAuth, tlsVars
  <2>. QED BY <1>f, <1>d, <1>w, <2>1, <2>2
<1>9. CASE \E k \in {"mail", "utf8", "stream"} : check_send(k)
  <2>1. sec' = sec
    BY <1>9 DEF check_send, tlsVars
  <2>. QED BY <1>9, <1>f, <1>r, <2>1 DEF check_send
<1>10. CASE \E k \in {"mail", "utf8", "stream"}, c \in 1..MaxRcpts : send_mail(k, c)
  <2>1. PICK k \in {"mail", "utf8", "stream"}, c \in 1..MaxRcpts : send_mail(k, c)
    BY <1>10
  <2>2. sec' = sec /\ sec # "broken"
    BY <1>0, <2>1 DEF send_mail, tlsVars
  <2>. QED BY <1>w, <2>1, <2>2 DEF send_mail
<1>11. CASE mail_reply
  <2>1. sec' = sec /\ sec # "broken"
    BY <1>0, <1>11 DEF mail_reply, Reply, Control, AtDecidesState, tlsVars
  <2>. QED BY <1>11, <1>f, <1>w, <1>k, <2>1 DEF mail_reply, Await
<1>12. CASE read_rcpt_reply
  <2>1. sec' = sec /\ sec # "broken"
    BY <1>0, <1>12 DEF read_rcpt_reply, Reply, Control, AtDecidesState, tlsVars
  <2>2. CASE Await(<<"RecipientAccepted">>, IF LastRecipient THEN "data" ELSE "rcpt")
    BY <1>k, <2>1, <2>2 DEF Await
  <2>. QED BY <1>12, <1>f, <1>w, <2>1, <2>2 DEF read_rcpt_reply
<1>13. CASE data_reply
  <2>1. sec' = sec /\ sec # "broken"
    BY <1>0, <1>13 DEF data_reply, Reply, Control, AtDecidesState, tlsVars
  <2>. QED BY <1>13, <1>f, <1>w, <1>k, <2>1 DEF data_reply, Await
<1>14. CASE stream_body
  <2>1. sec' = sec /\ sec # "broken"
    BY <1>0, <1>14 DEF stream_body, Control, AtDecidesState, tlsVars
  <2>. QED BY <1>14, <1>f, <1>w, <2>1 DEF stream_body
<1>15. CASE final_reply
  <2>1. sec' = sec /\ sec # "broken"
    BY <1>0, <1>15 DEF final_reply, Reply, Control, AtDecidesState, tlsVars
  <2>. QED BY <1>15, <1>f, <1>d, <2>1 DEF final_reply
<1>16. CASE quit
  <2>1. sec' = sec /\ at = "idle"
    BY <1>16 DEF quit, tlsVars
  <2>2. CASE at' = "gone" /\ UNCHANGED <<state, wrote, audit, cancels>>
    BY <1>k, <2>1, <2>2
  <2>3. CASE state # "Closed" /\ can_transition_to(state, "Quit") /\ WriteThen("Quit", <<>>, Say("QUIT"), "quit")
    <3>1. sec # "broken"
      BY <1>0, <2>3 DEF can_transition_to
    <3>. QED BY <1>w, <2>1, <2>3, <3>1
  <2>4. CASE state # "Closed" /\ ~can_transition_to(state, "Quit") /\ UNCHANGED <<state, wrote, audit, cancels>>
    <3>1. state \in {"Quit", "StartTls"}
      BY <2>4 DEF can_transition_to, TypeOK, SessionStates
    <3>. QED BY <2>1, <2>4, <3>1 DEF Unbroken, Closing
  <2>. QED BY <1>16, <2>2, <2>3, <2>4 DEF quit
<1>17. CASE quit_reply
  <2>1. sec' = sec /\ state = "Quit"
    BY <1>17 DEF quit_reply, Reply, Control, AtDecidesState, tlsVars
  <2>2. CASE UNCHANGED <<state, wrote, audit, cancels>>
    BY <2>1, <2>2 DEF Unbroken, Closing
  <2>. QED BY <1>17, <1>f, <2>2 DEF quit_reply
<1>18. CASE close_transport
  BY <1>18 DEF close_transport, Unbroken, Closing
<1>19. CASE fill_buf
  <2>1. UNCHANGED <<state, sec, cancels, at>> /\ at # "close"
    BY <1>19 DEF fill_buf, callVars, tlsVars, Reading
  <2>. QED BY <1>k, <2>1
<1>20. CASE read_fails
  BY <1>20, <1>f DEF read_fails
<1>21. CASE invalid_input \/ send_message
  <2>1. sec' = sec /\ at = "idle"
    BY <1>21 DEF invalid_input, send_message, tlsVars
  <2>. QED BY <1>21, <1>r, <2>1 DEF invalid_input, send_message
<1>22. CASE Cancel
  <2>1. cancels' # 0 /\ at' # "close"
    BY <1>0, <1>22 DEF Cancel, OnCancel
  <2>. QED BY <2>1 DEF Unbroken, Closing
<1>23. CASE Drop
  BY <1>23, <1>k DEF Drop, tlsVars
<1>24. CASE Peer
  <2>1. UNCHANGED <<state, sec, cancels, at>>
    BY <1>24 DEF Peer, PeerReplies, LinkDown, callVars, tlsVars
  <2>. QED BY <2>1 DEF Unbroken, Closing
<1>25. CASE UNCHANGED vars
  BY <1>25 DEF vars, Unbroken, Closing
<1>. QED
  BY <1>1, <1>2, <1>3, <1>4, <1>5, <1>6, <1>7, <1>8, <1>9, <1>10, <1>11, <1>12, <1>13, <1>14,
     <1>15, <1>16, <1>17, <1>18, <1>19, <1>20, <1>21, <1>22, <1>23, <1>24, <1>25
     DEF Next, Client, Call, Resume, Terminated

(* What a step of the server is. *)
LEMMA ServerStep ==
    ASSUME TypeOK, ServerOK, Greeted, Serve \/ HangsUp
    PROVE  \/ ServeText
           \/ ServeBody /\ \E code \in Nat : Says(code) /\ UNCHANGED clientVars
           \/ ServesCommand /\ \E code \in Nat : Serves(code)
           \/ (Greet \/ HangsUp) /\ \E code \in Nat : Speaks(code)
<1>e. {} \in SUBSET Extensions
  OBVIOUS
<1>1. CASE ServesCommand
  BY <1>1, CommandServed
<1>2. CASE ServeBody
  <2>1. PICK code \in {250, 550} : Answer(code, {}, Cmd.over)
    BY <1>2 DEF ServeBody
  <2>2. Cmd.over \in {"plain", "tls"} /\ code \in Nat
    <3>1. /\ Len(wrote) \in Nat /\ served \in Nat /\ Reach \in Nat /\ Reach <= Len(wrote)
          /\ \A i \in 1..Len(wrote) : wrote[i].over \in {"plain", "tls"}
      BY Reachable
    <3>2. served < Reach
      BY <1>2 DEF ServeBody, Reads
    <3>3. served + 1 \in 1..Len(wrote)
      BY <3>1, <3>2
    <3>. QED BY <2>1, <3>1, <3>3 DEF Cmd
  <2>3. Says(code) /\ UNCHANGED clientVars
    BY <1>e, <2>1, <2>2, AnswerSays
  <2>. QED BY <1>2, <2>2, <2>3
<1>3. CASE Greet
  <2>1. /\ mode = "greet" /\ at \in {"greeting", "gone"}
        /\ UNCHANGED <<open, accepted, served, cut, queue>>
    BY <1>3 DEF Greet, Greeted
  <2>2. CASE Answer(220, {}, sec) /\ mode' = "command"
    <3>1. Says(220) /\ UNCHANGED clientVars
      BY <1>e, <2>2, AnswerSays
    <3>2. Speaks(220)
      BY <2>1, <2>2, <3>1 DEF Speaks
    <3>. QED BY <1>3, <3>2
  <2>3. CASE Answer(550, {}, sec) /\ mode' = "bye"
    <3>1. Says(550) /\ UNCHANGED clientVars
      BY <1>e, <2>3, AnswerSays
    <3>2. Speaks(550)
      BY <2>1, <2>3, <3>1 DEF Speaks
    <3>. QED BY <1>3, <3>2
  <2>. QED BY <1>3, <2>2, <2>3 DEF Greet
<1>4. CASE HangsUp
  <2>1. /\ mode = "command" /\ mode' = "bye" /\ Answer(421, {}, sec)
        /\ UNCHANGED <<open, accepted, served, cut, queue>>
    BY <1>4 DEF HangsUp
  <2>2. Says(421) /\ UNCHANGED clientVars
    BY <1>e, <2>1, AnswerSays
  <2>3. Speaks(421)
    BY <2>1, <2>2 DEF Speaks
  <2>. QED BY <1>4, <2>3
<1>. QED BY <1>1, <1>2, <1>3, <1>4 DEF Serve, ServesCommand

(* Hearing the server changes nothing the client knows of itself. *)
LEMMA HearingStep ==
    ASSUME Local, NEW code, Says(code), UNCHANGED clientVars
    PROVE  Local'
<1>1. net' \in Seq(Received)
  BY UnreadSaid DEF Local
<1>2. UNCHANGED <<state, capabilities, capsOver, rx, link, sec, implicit, closed, wrote, audit,
                  at, mech, kind, rcpts, todo, pipelining, nsend, oks, ret, wantTls, cancels>>
  BY DEF clientVars, callVars, capVars, tlsVars, sendVars
<1>3. TypeOK'
  BY <1>1, <1>2 DEF Local, TypeOK
<1>4. Control' /\ IdleIsReusable'
  BY <1>2 DEF Local, Control, AtDecidesState, Counts, NoTlsNoSession, IdleIsReusable
<1>5. Unbroken' /\ Closing'
  BY <1>2 DEF Local, Unbroken, Closing
<1>. QED BY <1>3, <1>4, <1>5 DEF Local

LEMMA LocalStep ==
    ASSUME Local, ServerOK, Greeted, [SysNext]_allVars
    PROVE  Local'
<1>1. ASSUME [Next]_vars PROVE Local'
  BY <1>1, TypeStep, ControlStep, IdleStep, ClosingStep DEF Local
<1>2. CASE Client \/ Breaks \/ ServerCloses \/ Terminated \/ UNCHANGED allVars
  <2>1. [Next]_vars
    BY <1>2 DEF Next, Peer, Breaks, ServerCloses, allVars
  <2>. QED BY <1>1, <2>1
<1>3. CASE Serve \/ HangsUp
  <2>1. CASE ServeText
    <3>1. [Next]_vars
      BY <2>1 DEF ServeText
    <3>. QED BY <1>1, <3>1
  <2>2. CASE \E code \in Nat : Says(code) /\ UNCHANGED clientVars
    BY <2>2, HearingStep
  <2>3. CASE \E code \in Nat : Serves(code)
    BY <2>3, HearingStep DEF Serves
  <2>4. CASE \E code \in Nat : Speaks(code)
    BY <2>4, HearingStep DEF Speaks
  <2>. QED BY <1>3, <2>1, <2>2, <2>3, <2>4, ServerStep DEF Local
<1>. QED BY <1>2, <1>3 DEF SysNext

(* Before the greeting the client can only give up. *)
LEMMA GreetedStep ==
    ASSUME TypeOK, ServerOK, Greeted, [SysNext]_allVars
    PROVE  Greeted'
<1>. SUFFICES ASSUME mode' = "greet" PROVE Greeted'
  BY DEF Greeted
<1>1. mode = "greet" /\ ~Serve /\ ~HangsUp
  <2>1. Serve \/ HangsUp => mode' # "greet"
    BY DEF Serve, HangsUp, Greet, Refuses, ServeEhlo, ServeStartTls, ServeAuth, ServeMail, ServeRcpt,
           ServeData, ServeText, ServeBody, ServeQuit, ServeTorn, Reads
  <2>2. ~Serve /\ ~HangsUp => mode' = mode
    BY DEF SysNext, serverVars, Breaks, ServerCloses, allVars
  <2>. QED BY <2>1, <2>2
<1>2. /\ served = 0 /\ wrote = <<>> /\ rx = <<>> /\ net = <<>> /\ Len(net) = 0
      /\ at \in {"greeting", "gone"}
  BY <1>1, Empty DEF Greeted, TypeOK
<1>3. CASE Client /\ UNCHANGED serverVars
  <2>1. \A k \in 1..Len(net) : FALSE
    BY <1>2
  <2>2. ~fill_buf
    BY <2>1 DEF fill_buf
  <2>3. read_fails \/ Cancel
    BY <1>2, <1>3, <2>2
       DEF Client, Call, Resume, starttls, login, login_with, MayLogin, check_send, send_mail, quit,
           invalid_input, send_message, Drop, read_greeting, send_ehlo, starttls_reply, upgrade_to_tls,
           run_auth, mail_reply, read_rcpt_reply, data_reply, stream_body, final_reply, quit_reply,
           close_transport, Reply
  <2>4. CASE read_fails
    BY <1>2, <1>3, <2>4 DEF read_fails, Fail, OnError, Greeted, serverVars, peerVars, Reading
  <2>5. CASE Cancel
    BY <1>2, <1>3, <2>5 DEF Cancel, OnCancel, Greeted, serverVars, peerVars, Suspended, Reading
  <2>. QED BY <2>3, <2>4, <2>5
<1>4. CASE Breaks \/ ServerCloses
  <2>1. LinkDown /\ served' = served
    BY <1>4 DEF Breaks, ServerCloses
  <2>2. PICK k \in 0..Len(net) : net' = SubSeq(net, 1, k)
    BY <2>1 DEF LinkDown
  <2>3. Len(net') = 0 /\ net' \in Seq(Received)
    BY <1>2, <2>2, CutInTwo DEF TypeOK
  <2>4. net' = <<>>
    BY <2>3, Empty
  <2>. QED BY <1>2, <2>1, <2>4 DEF LinkDown, Greeted, callVars
<1>5. CASE Terminated /\ UNCHANGED serverVars
  BY <1>2, <1>5 DEF Terminated, vars, serverVars, Greeted
<1>6. CASE UNCHANGED allVars
  BY <1>2, <1>6 DEF allVars, vars, serverVars, Greeted
<1>. QED BY <1>1, <1>3, <1>4, <1>5, <1>6 DEF SysNext
-----------------------------------------------------------------------------
(* Every step keeps the ledger. *)
LEMMA LedgerStep ==
    ASSUME Local, Local', Greeted, Ledger, [SysNext]_allVars
    PROVE  Ledger'
<1>0. TypeOK /\ TypeOK' /\ ServerOK
  BY DEF Local, Ledger
<1>1. ASSUME Client, UNCHANGED serverVars PROVE Ledger'
  <2>1. CASE Handshake
    BY <1>0, <1>1, <2>1, HandshakeAside, AsideStep
  <2>2. CASE \E k \in {"mail", "utf8", "stream"}, c \in 1..MaxRcpts : send_mail(k, c)
    BY <1>0, <1>1, <2>2, SendMailStep
  <2>3. CASE fill_buf
    BY <1>0, <1>1, <2>3, FillStep
  <2>4. CASE mail_reply
    BY <1>0, <1>1, <2>4, MailReplyStep
  <2>5. CASE read_rcpt_reply
    BY <1>0, <1>1, <2>5, RcptReplyStep
  <2>6. CASE data_reply
    BY <1>0, <1>1, <2>6, DataReplyStep
  <2>7. CASE stream_body
    BY <1>0, <1>1, <2>7, StreamBodyStep
  <2>8. CASE final_reply
    BY <1>0, <1>1, <2>8, FinalReplyStep
  <2>. QED BY <1>1, <2>1, <2>2, <2>3, <2>4, <2>5, <2>6, <2>7, <2>8
           DEF Client, Call, Resume, Handshake
<1>2. CASE Serve \/ HangsUp
  <2>1. CASE ServeText
    BY <2>1, ServeTextStep
  <2>2. CASE ServeBody
    BY <2>2, ServeBodyStep
  <2>3. CASE \E code \in Nat : Serves(code)
    BY <2>3, ServesStep
  <2>4. CASE \E code \in Nat : Speaks(code)
    BY <2>4, SpeaksStep
  <2>. QED BY <1>0, <1>2, <2>1, <2>2, <2>3, <2>4, ServerStep
<1>3. CASE Breaks \/ ServerCloses
  <2>1. served \in served..Len(wrote)
    <3>1. Len(wrote) \in Nat /\ served \in 0..Len(wrote)
      BY <1>0, LenProperties DEF TypeOK, ServerOK
    <3>. QED BY <3>1
  <2>2. Severs
    BY <1>3, <2>1 DEF Breaks, ServerCloses, Severs
  <2>. QED BY <2>2, SeversStep
<1>4. CASE UNCHANGED allVars
  <2>1. /\ UNCHANGED <<state, wrote, at, cancels, rx, net, link, rcpts, todo, pipelining, nsend, oks>>
        /\ UNCHANGED <<mode, open, accepted, served, cut, queue>>
    BY <1>4 DEF allVars, vars, serverVars
  <2>2. (NoGo' <=> NoGo) /\ (Clean' <=> Clean) /\ (Quiet' <=> Quiet) /\ Mark' = Mark /\ Behind' = Behind
    BY <2>1 DEF NoGo, Clean, Quiet, Mark, Behind
  <2>3. ServerOK' /\ NoDataYet' /\ PendingBody' /\ NotQueued' /\ Whole'
    BY <2>1, <2>2 DEF Ledger, ServerOK, NoDataYet, PendingBody, NotQueued, Whole
  <2>4. Trail' /\ GoIsLast' /\ Agreed'
    BY <2>1, <2>2 DEF Ledger, Trail, GoIsLast, Agreed
  <2>5. AtBody' /\ AtFinal' /\ QueuedIsComplete' /\ OkMeansQueued'
    BY <2>1, <2>2 DEF Ledger, AtBody, AtFinal, Unserved, Answered, Holds, QueuedIsComplete, OkMeansQueued
  <2>. QED BY <2>3, <2>4, <2>5 DEF Ledger
<1>5. CASE Terminated /\ UNCHANGED serverVars
  BY <1>4, <1>5 DEF Terminated, allVars
<1>. QED BY <1>1, <1>2, <1>3, <1>4, <1>5 DEF SysNext
-----------------------------------------------------------------------------
(* How many replies a call reads, by where it is. *)
LEMMA ExpectedIs ==
    /\ at = "mail" => Expected = IF pipelining THEN rcpts + 2 ELSE 1
    /\ at = "rcpt" => Expected = IF pipelining THEN todo + 1 ELSE 1
    /\ at \in Reading \ {"mail", "rcpt"} => Expected = 1
    /\ at \notin Reading => Expected = 0
  BY DEF Expected, Reading

LEMMA ExpectedNext ==
    /\ at' = "mail" => Expected' = IF pipelining' THEN rcpts' + 2 ELSE 1
    /\ at' = "rcpt" => Expected' = IF pipelining' THEN todo' + 1 ELSE 1
    /\ at' \in Reading \ {"mail", "rcpt"} => Expected' = 1
    /\ at' \notin Reading => Expected' = 0
  BY DEF Expected, Reading

(* A step of the client that writes w commands and consumes r replies      *)
(* stays in step when it means to read w more and r less.                  *)
LEMMA KeepsInStep ==
    ASSUME TypeOK, TypeOK', ServerOK, InStep, UNCHANGED serverVars, link' = link,
           cancels' = 0 => cancels = 0, state # "Closed", at # "gone",
           NEW w \in Nat, NEW r \in Nat, Len(wrote') = Len(wrote) + w,
           Len(net') + Len(rx') = (Len(net) + Len(rx)) - r,
           Expected \in Int, Expected' = (Expected + w) - r
    PROVE  InStep'
<1>. SUFFICES ASSUME cancels' = 0, link' = "up", mode' # "bye"
              PROVE  Len(wrote') - served' + Len(net') + Len(rx') + (IF mode' = "greet" THEN 1 ELSE 0) = Expected'
  BY DEF InStep
<1>1. UNCHANGED <<mode, served>>
  BY DEF serverVars
<1>2. Len(wrote) - served + Len(net) + Len(rx) + (IF mode = "greet" THEN 1 ELSE 0) = Expected
  BY <1>1 DEF InStep
<1>3. /\ Len(wrote) \in Nat /\ Len(net) \in Nat /\ Len(rx) \in Nat /\ served \in Nat
      /\ Len(wrote') \in Nat /\ Len(net') \in Nat /\ Len(rx') \in Nat
  BY LenProperties DEF TypeOK, ServerOK
<1>4. PICK g \in {0, 1} : g = IF mode = "greet" THEN 1 ELSE 0
  OBVIOUS
<1>. QED BY <1>1, <1>2, <1>3, <1>4

(* Reading a reply consumes one. *)
LEMMA OneConsumed ==
    ASSUME TypeOK, NEW a, Reply(a), UNCHANGED peerVars
    PROVE  Len(net') + Len(rx') = (Len(net) + Len(rx)) - 1 /\ link' = link
<1>1. rx \in Seq(Received) /\ net \in Seq(Received) /\ rx # <<>> /\ rx' = Tail(rx) /\ net' = net /\ link' = link
  BY DEF TypeOK, Reply, peerVars
<1>2. Len(rx) \in Nat /\ Len(net) \in Nat /\ Len(rx') = Len(rx) - 1
  BY <1>1, Rest, LenProperties
<1>. QED BY <1>1, <1>2

(* Nothing is read. *)
LEMMA NoneConsumed ==
    ASSUME TypeOK, UNCHANGED rx, UNCHANGED peerVars
    PROVE  Len(net') + Len(rx') = (Len(net) + Len(rx)) - 0 /\ link' = link
<1>1. rx' = rx /\ net' = net /\ link' = link
  BY DEF peerVars
<1>2. Len(rx) \in Nat /\ Len(net) \in Nat
  BY LenProperties DEF TypeOK
<1>. QED BY <1>1, <1>2

(* A step that ends the session, abandons a call or loses the client. *)
LEMMA OutOfStep ==
    ASSUME state' = "Closed" \/ cancels' # 0 \/ at' = "gone"
    PROVE  InStep'
  BY DEF InStep

(* A write goes out, fails, or is abandoned. *)
LEMMA WriteInStep ==
    ASSUME TypeOK, TypeOK', ServerOK, InStep, UNCHANGED serverVars, link' = link,
           state # "Closed", at # "gone", NEW s, NEW ev, NEW cmds \in Seq(Commands), NEW a,
           WriteThen(s, ev, cmds, a), NEW r \in Nat,
           Len(net') + Len(rx') = (Len(net) + Len(rx)) - r,
           Expected \in Int, at' = a => Expected' = (Expected + Len(cmds)) - r
    PROVE  InStep'
<1>0. Len(cmds) \in Nat /\ cancels \in Nat /\ wrote \in Seq(Commands)
  BY LenProperties, BoundsAssumption DEF TypeOK
<1>1. \/ state' = s /\ at' = a /\ cancels' = cancels /\ wrote' = wrote \o cmds
      \/ state' = "Closed" /\ at' = OnError(a) /\ cancels' = cancels /\ wrote' = wrote
      \/ state' = s /\ at' = OnCancel(a) /\ cancels' = cancels + 1
  BY WriteOutcome
<1>2. CASE at' = a /\ cancels' = cancels /\ wrote' = wrote \o cmds
  <2>1. Len(wrote') = Len(wrote) + Len(cmds)
    BY <1>0, <1>2, ConcatProperties
  <2>. QED BY <1>0, <1>2, <2>1, KeepsInStep
<1>3. CASE state' = "Closed" \/ cancels' = cancels + 1
  BY <1>0, <1>3, OutOfStep
<1>. QED BY <1>1, <1>2, <1>3

(* The client stays in step, whatever it does. *)
LEMMA ClientInStep ==
    ASSUME Local, TypeOK', ServerOK, InStep, Client, UNCHANGED serverVars
    PROVE  InStep'
<1>0. /\ TypeOK /\ RestOK /\ Control /\ pipelining \in BOOLEAN /\ rcpts \in Nat /\ todo \in Nat
      /\ nsend \in Nat /\ nsend + 1 \in Nat /\ 0 \in Nat /\ 1 \in Nat /\ cancels \in Nat
      /\ wrote \in Seq(Commands) /\ Len(wrote) \in Nat
  BY TypeSplit, BoundsAssumption, LenProperties DEF Local, TypeOK
<1>i. Expected \in Int
  <2>1. Expected \in {rcpts + 2, todo + 1, 0, 1}
    BY <1>0, ExpectedIs
  <2>. QED BY <1>0, <2>1
<1>c. state \notin {"StartTls", "Closed"} => sec \in {"plain", "tls"}
  BY <1>0, ActiveChannel DEF Control
<1>f. ASSUME NEW ev, NEW err, NEW a, Fail(ev, err, a) PROVE InStep'
  BY <1>f, FailControl, OutOfStep
(* One command for one reply, or for none. *)
<1>w. ASSUME state # "Closed", NEW s, NEW ev, NEW verb \in Verbs, NEW over \in {"plain", "tls"},
             NEW msg \in Nat, NEW arg \in Nat, NEW a, NEW r \in {0, 1}, at # "gone", link' = link,
             WriteThen(s, ev, <<Command(verb, over, msg, arg)>>, a),
             Len(net') + Len(rx') = (Len(net) + Len(rx)) - r,
             at' = a => Expected' = 1, Expected = r
      PROVE  InStep'
  <2>1. <<Command(verb, over, msg, arg)>> \in Seq(Commands) /\ Len(<<Command(verb, over, msg, arg)>>) = 1
    BY CommandType
  <2>2. r \in Nat /\ (r + 1) - r = 1
    OBVIOUS
  <2>. QED BY <1>0, <1>i, <1>w, <2>1, <2>2, WriteInStep
(* A reply is read, and no command written. *)
<1>d. ASSUME NEW a \in Reading, Reply(a), UNCHANGED peerVars, state # "Closed", wrote' = wrote,
             cancels' = cancels, Expected' = Expected - 1
      PROVE  InStep'
  <2>1. at # "gone" /\ Expected' = (Expected + 0) - 1 /\ Len(wrote') = Len(wrote) + 0
    BY <1>0, <1>i, <1>d DEF Reply, Reading
  <2>2. Len(net') + Len(rx') = (Len(net) + Len(rx)) - 1 /\ link' = link
    BY <1>0, <1>d, OneConsumed
  <2>. QED BY <1>0, <1>i, <1>d, <2>1, <2>2, KeepsInStep
(* A call that is over at once. *)
<1>r. ASSUME at = "idle", state # "Closed", UNCHANGED rx, UNCHANGED peerVars, wrote' = wrote,
             cancels' = cancels, at' \in {"idle", "close"}
      PROVE  InStep'
  <2>1. Expected = 0 /\ Expected' = 0 /\ at # "gone"
    BY <1>r, ExpectedIs, ExpectedNext DEF Reading
  <2>2. Len(net') + Len(rx') = (Len(net) + Len(rx)) - 0 /\ link' = link
    BY <1>0, <1>r, NoneConsumed
  <2>3. Expected' = (Expected + 0) - 0 /\ Len(wrote') = Len(wrote) + 0
    BY <1>0, <1>r, <2>1
  <2>. QED BY <1>0, <1>i, <1>r, <2>1, <2>2, <2>3, KeepsInStep
<1>s. ASSUME NEW err, Refuse(err), at = "idle", UNCHANGED rx, UNCHANGED peerVars PROVE InStep'
  <2>1. CASE state = "Closed"
    BY <1>s, <2>1, OutOfStep DEF Refuse
  <2>2. CASE state # "Closed"
    BY <1>s, <1>r, <2>2 DEF Refuse
  <2>. QED BY <2>1, <2>2
<1>l. ASSUME NEW m, login_with(m) PROVE InStep'
  <2>1. /\ at = "idle" /\ state = "Authentication" /\ UNCHANGED rx /\ UNCHANGED peerVars
        /\ sec \in {"plain", "tls"} /\ Expected = 0
    BY <1>c, <1>l, ExpectedIs DEF login_with, MayLogin, Reading
  <2>2. Len(net') + Len(rx') = (Len(net) + Len(rx)) - 0 /\ link' = link
    BY <1>0, <2>1, NoneConsumed
  <2>3. CASE WriteThen(state, <<>>, Say("AUTH"), "auth1")
    <3>1. at' = "auth1" => Expected' = 1
      BY ExpectedNext DEF Reading
    <3>. QED BY <1>0, <1>w, <2>1, <2>2, <2>3, <3>1 DEF Say, Verbs
  <2>. QED BY <1>l, <1>f, <1>s, <2>1, <2>3 DEF login_with
<1>1. CASE read_greeting
  <2>1. /\ Reply("greeting") /\ at = "greeting" /\ state = "Greeting" /\ UNCHANGED peerVars
        /\ sec \in {"plain", "tls"} /\ Expected = 1
    BY <1>0, <1>1, <1>c, ExpectedIs DEF read_greeting, Reply, Control, AtDecidesState, Reading
  <2>2. Len(net') + Len(rx') = (Len(net) + Len(rx)) - 1 /\ link' = link
    BY <1>0, <2>1, OneConsumed
  <2>3. CASE WriteThen("Ehlo", <<"GreetingReceived">>, Say("EHLO"), "ehlo")
    <3>1. at' = "ehlo" => Expected' = 1
      BY ExpectedNext DEF Reading
    <3>. QED BY <1>0, <1>w, <2>1, <2>2, <2>3, <3>1 DEF Say, Verbs
  <2>. QED BY <1>1, <1>f, <2>3 DEF read_greeting
<1>2. CASE send_ehlo
  <2>1. PICK a \in {"ehlo", "reehlo"} :
            /\ Reply(a)
            /\ \/ Done("Authentication", <<"EhloCompleted">>)
               \/ Fail(<<>>, "Protocol", a)
    BY <1>2 DEF send_ehlo
  <2>2. state = "Ehlo" /\ UNCHANGED peerVars /\ Expected = 1 /\ a \in Reading
    BY <1>0, <1>2, <2>1, ExpectedIs DEF send_ehlo, Reply, Control, AtDecidesState, Reading
  <2>3. CASE Done("Authentication", <<"EhloCompleted">>)
    <3>1. Expected' = 0
      BY <2>3, ExpectedNext DEF Done, Reading
    <3>. QED BY <1>d, <2>1, <2>2, <2>3, <3>1 DEF Done
  <2>. QED BY <1>f, <2>1, <2>3
<1>3. CASE starttls
  <2>1. /\ at = "idle" /\ state = "Authentication" /\ UNCHANGED rx /\ UNCHANGED peerVars
        /\ sec \in {"plain", "tls"} /\ Expected = 0
    BY <1>c, <1>3, ExpectedIs DEF starttls, Reading
  <2>2. Len(net') + Len(rx') = (Len(net) + Len(rx)) - 0 /\ link' = link
    BY <1>0, <2>1, NoneConsumed
  <2>3. CASE WriteThen("StartTls", <<>>, Say("STARTTLS"), "starttls")
    <3>1. at' = "starttls" => Expected' = 1
      BY ExpectedNext DEF Reading
    <3>. QED BY <1>0, <1>w, <2>1, <2>2, <2>3, <3>1 DEF Say, Verbs
  <2>. QED BY <1>3, <1>f, <2>3 DEF starttls
<1>4. CASE starttls_reply
  <2>1. Reply("starttls") /\ state = "StartTls" /\ UNCHANGED peerVars /\ Expected = 1
    BY <1>0, <1>4, ExpectedIs DEF starttls_reply, Reply, Control, AtDecidesState, Reading
  <2>2. CASE Await(<<>>, "upgrade")
    <3>1. Expected' = 0 /\ "starttls" \in Reading
      BY <2>2, ExpectedNext DEF Await, Reading
    <3>. QED BY <1>d, <2>1, <2>2, <3>1 DEF Await
  <2>. QED BY <1>4, <1>f, <2>2 DEF starttls_reply
<1>5. CASE upgrade_to_tls
  <2>1. at = "upgrade" /\ state = "StartTls" /\ UNCHANGED rx /\ UNCHANGED peerVars /\ Expected = 0
    BY <1>0, <1>5, ExpectedIs DEF upgrade_to_tls, Control, AtDecidesState, Reading
  <2>2. Len(net') + Len(rx') = (Len(net) + Len(rx)) - 0 /\ link' = link
    BY <1>0, <2>1, NoneConsumed
  <2>3. CASE WriteThen("Ehlo", <<"TlsUpgraded">>, <<Command("EHLO", "tls", 0, 0)>>, "reehlo")
    <3>1. at' = "reehlo" => Expected' = 1
      BY ExpectedNext DEF Reading
    <3>. QED BY <1>0, <1>w, <2>1, <2>2, <2>3, <3>1 DEF Verbs
  <2>. QED BY <1>5, <1>f, <2>3 DEF upgrade_to_tls
<1>6. CASE login
  BY <1>6, <1>l, <1>f DEF login
<1>7. CASE \E m \in Mechanisms : login_with(m)
  BY <1>7, <1>l
<1>8. CASE run_auth
  <2>1. PICK a \in {"auth1", "auth2", "auth3"} :
           /\ Reply(a)
           /\ \/ Done("MailFrom", <<"AuthCompleted">>)
              \/ WriteThen(state, <<>>, Say("RESPONSE"), NextAuth[a])
              \/ Fail(<<>>, AuthFailure(a, Head(rx)), a)
    BY <1>8 DEF run_auth
  <2>2. /\ state = "Authentication" /\ UNCHANGED peerVars /\ a \in Reading /\ at = a
        /\ NextAuth[a] \in {"auth1", "auth2", "auth3"}
    BY <1>0, <1>8, <2>1 DEF run_auth, Reply, Control, AtDecidesState, NextAuth, Reading
  <2>3. Expected = 1 /\ sec \in {"plain", "tls"} /\ at # "gone"
    BY <1>c, <2>2, ExpectedIs DEF Reading
  <2>4. Len(net') + Len(rx') = (Len(net) + Len(rx)) - 1 /\ link' = link
    BY <1>0, <2>1, <2>2, OneConsumed
  <2>5. CASE Done("MailFrom", <<"AuthCompleted">>)
    <3>1. Expected' = 0
      BY <2>5, ExpectedNext DEF Done, Reading
    <3>. QED BY <1>d, <2>1, <2>2, <2>3, <2>5, <3>1 DEF Done
  <2>6. CASE WriteThen(state, <<>>, Say("RESPONSE"), NextAuth[a])
    <3>1. at' = NextAuth[a] => Expected' = 1
      BY <2>2, ExpectedNext DEF Reading
    <3>. QED BY <1>0, <1>w, <2>2, <2>3, <2>4, <2>6, <3>1 DEF Say, Verbs
  <2>. QED BY <1>f, <2>1, <2>5, <2>6
<1>9. CASE \E k \in {"mail", "utf8", "stream"} : check_send(k)
  BY <1>9, <1>f, <1>s DEF check_send
<1>10. CASE \E k \in {"mail", "utf8", "stream"}, c \in 1..MaxRcpts : send_mail(k, c)
  <2>1. PICK k \in {"mail", "utf8", "stream"}, c \in 1..MaxRcpts : send_mail(k, c)
    BY <1>10
  <2>2. /\ at = "idle" /\ state \in {"Authentication", "MailFrom"} /\ UNCHANGED rx /\ UNCHANGED peerVars
        /\ sec \in {"plain", "tls"} /\ Expected = 0 /\ rcpts' = c /\ c \in Nat
        /\ pipelining' \in BOOLEAN
    BY <1>c, <2>1, ExpectedIs, BoundsAssumption DEF send_mail, Reading
  <2>3. Len(net') + Len(rx') = (Len(net) + Len(rx)) - 0 /\ link' = link
    BY <1>0, <2>2, NoneConsumed
  <2>4. CASE pipelining' /\ WriteThen("Data", <<>>, Pipeline(c), "mail")
    <3>1. Pipeline(c) \in Seq(Commands) /\ Len(Pipeline(c)) = c + 2
      <4>1. Pipeline(c) \in Seq(Commands)
        BY <1>0, <2>2, PipelineType
      <4>2. DOMAIN Pipeline(c) = 1..(c + 2) /\ c + 2 \in Nat
        BY <2>2 DEF Pipeline
      <4>. QED BY <4>1, <4>2, LenProperties
    <3>2. at' = "mail" => Expected' = (Expected + Len(Pipeline(c))) - 0
      BY <2>2, <2>4, <3>1, ExpectedNext
    <3>. QED BY <1>0, <1>i, <2>2, <2>3, <2>4, <3>1, <3>2, WriteInStep
  <2>5. CASE ~pipelining' /\ WriteThen("MailFrom", <<>>, <<MailCmd(c)>>, "mail")
    <3>1. at' = "mail" => Expected' = 1
      BY <2>5, ExpectedNext
    <3>. QED BY <1>0, <1>w, <2>2, <2>3, <2>5, <3>1 DEF MailCmd, Verbs
  <2>. QED BY <2>1, <2>4, <2>5 DEF send_mail
<1>11. CASE mail_reply
  <2>1. /\ Reply("mail") /\ at = "mail" /\ state # "StartTls" /\ state # "Closed" /\ UNCHANGED peerVars
        /\ todo = rcpts /\ UNCHANGED <<rcpts, todo, pipelining>> /\ "mail" \in Reading
    BY <1>0, <1>11 DEF mail_reply, Reply, Control, AtDecidesState, Counts, sendVars, Reading
  <2>2. Len(net') + Len(rx') = (Len(net) + Len(rx)) - 1 /\ link' = link
    BY <1>0, <2>1, OneConsumed
  <2>3. CASE pipelining /\ Await(<<"MailFromAccepted">>, "rcpt")
    <3>1. Expected = rcpts + 2 /\ Expected' = rcpts + 1
      BY <2>1, <2>3, ExpectedIs, ExpectedNext DEF Await
    <3>2. Expected' = Expected - 1
      BY <1>0, <3>1
    <3>. QED BY <1>d, <2>1, <2>3, <3>2 DEF Await
  <2>4. CASE ~pipelining /\ WriteThen("RcptTo", <<"MailFromAccepted">>, <<RcptCmd(1)>>, "rcpt")
    <3>1. Expected = 1 /\ (at' = "rcpt" => Expected' = 1) /\ sec \in {"plain", "tls"}
      BY <1>c, <2>1, <2>4, ExpectedIs, ExpectedNext
    <3>. QED BY <1>0, <1>w, <2>1, <2>2, <2>4, <3>1 DEF RcptCmd, Verbs
  <2>. QED BY <1>11, <1>f, <2>3, <2>4 DEF mail_reply
<1>12. CASE read_rcpt_reply
  <2>1. /\ Reply("rcpt") /\ at = "rcpt" /\ state # "StartTls" /\ state # "Closed" /\ UNCHANGED peerVars
        /\ 1 <= todo /\ todo <= rcpts /\ UNCHANGED <<rcpts, pipelining>> /\ "rcpt" \in Reading
        /\ todo' = todo - 1 \/ state' = "Closed"
    BY <1>0, <1>12 DEF read_rcpt_reply, Reply, Control, AtDecidesState, Counts, Reading, Fail
  <2>2. Len(net') + Len(rx') = (Len(net) + Len(rx)) - 1 /\ link' = link
    BY <1>0, <2>1, OneConsumed
  <2>3. CASE /\ pipelining /\ todo' = todo - 1
             /\ Await(<<"RecipientAccepted">>, IF LastRecipient THEN "data" ELSE "rcpt")
    <3>1. Expected = todo + 1
      BY <2>1, <2>3, ExpectedIs
    <3>2. CASE LastRecipient
      <4>1. Expected' = 1
        BY <2>3, <3>2, ExpectedNext DEF Await, Reading
      <4>2. Expected' = Expected - 1
        BY <3>1, <3>2, <4>1 DEF LastRecipient
      <4>. QED BY <1>d, <2>1, <2>3, <4>2 DEF Await
    <3>3. CASE ~LastRecipient
      <4>1. Expected' = (todo - 1) + 1
        BY <2>1, <2>3, <3>3, ExpectedNext DEF Await
      <4>2. Expected' = Expected - 1
        BY <1>0, <3>1, <4>1
      <4>. QED BY <1>d, <2>1, <2>3, <4>2 DEF Await
    <3>. QED BY <3>2, <3>3
  <2>4. CASE ~pipelining /\ WriteThen(state, <<"RecipientAccepted">>, <<RcptCmd(rcpts - todo + 2)>>, "rcpt")
    <3>1. Expected = 1 /\ (at' = "rcpt" => Expected' = 1) /\ sec \in {"plain", "tls"}
      BY <1>c, <2>1, <2>4, ExpectedIs, ExpectedNext
    <3>2. rcpts - todo + 2 \in Nat
      BY <1>0, <2>1
    <3>. QED BY <1>0, <1>w, <2>1, <2>2, <2>4, <3>1, <3>2 DEF RcptCmd, Verbs
  <2>5. CASE ~pipelining /\ WriteThen("Data", <<"RecipientAccepted">>, <<DataCmd>>, "data")
    <3>1. Expected = 1 /\ (at' = "data" => Expected' = 1) /\ sec \in {"plain", "tls"}
      BY <1>c, <2>1, <2>5, ExpectedIs, ExpectedNext DEF Reading
    <3>. QED BY <1>0, <1>w, <2>1, <2>2, <2>5, <3>1 DEF DataCmd, Verbs
  <2>. QED BY <1>12, <1>f, <2>3, <2>4, <2>5 DEF read_rcpt_reply
<1>13. CASE data_reply
  <2>1. /\ Reply("data") /\ at = "data" /\ state = "Data" /\ UNCHANGED peerVars
        /\ Expected = 1 /\ "data" \in Reading /\ sec \in {"plain", "tls"}
    BY <1>0, <1>13, <1>c, ExpectedIs DEF data_reply, Reply, Control, AtDecidesState, Reading
  <2>2. Len(net') + Len(rx') = (Len(net) + Len(rx)) - 1 /\ link' = link
    BY <1>0, <2>1, OneConsumed
  <2>3. CASE Await(<<>>, "body")
    <3>1. Expected' = 0
      BY <2>3, ExpectedNext DEF Await, Reading
    <3>. QED BY <1>d, <2>1, <2>3, <3>1 DEF Await
  <2>4. CASE WriteThen(state, <<>>, <<BodyCmd>>, "final")
    <3>1. at' = "final" => Expected' = 1
      BY ExpectedNext DEF Reading
    <3>. QED BY <1>0, <1>w, <2>1, <2>2, <2>4, <3>1 DEF BodyCmd, Verbs
  <2>. QED BY <1>13, <1>f, <2>3, <2>4 DEF data_reply
<1>14. CASE stream_body
  <2>1. /\ at = "body" /\ state = "Data" /\ UNCHANGED rx /\ UNCHANGED peerVars
        /\ Expected = 0 /\ sec \in {"plain", "tls"}
    BY <1>0, <1>14, <1>c, ExpectedIs DEF stream_body, Control, AtDecidesState, Reading
  <2>2. Len(net') + Len(rx') = (Len(net) + Len(rx)) - 0 /\ link' = link
    BY <1>0, <2>1, NoneConsumed
  <2>3. CASE WriteThen(state, <<>>, <<BodyCmd>>, "final")
    <3>1. at' = "final" => Expected' = 1
      BY ExpectedNext DEF Reading
    <3>. QED BY <1>0, <1>w, <2>1, <2>2, <2>3, <3>1 DEF BodyCmd, Verbs
  <2>. QED BY <1>14, <1>f, <2>3 DEF stream_body
<1>15. CASE final_reply
  <2>1. Reply("final") /\ state = "Data" /\ UNCHANGED peerVars /\ Expected = 1 /\ "final" \in Reading
    BY <1>0, <1>15, ExpectedIs DEF final_reply, Reply, Control, AtDecidesState, Reading
  <2>2. CASE Done("MailFrom", <<"MessageAccepted">>)
    <3>1. Expected' = 0
      BY <2>2, ExpectedNext DEF Done, Reading
    <3>. QED BY <1>d, <2>1, <2>2, <3>1 DEF Done
  <2>. QED BY <1>15, <1>f, <2>2 DEF final_reply
<1>16. CASE quit
  <2>1. at = "idle" /\ UNCHANGED rx /\ UNCHANGED peerVars /\ Expected = 0
    BY <1>16, ExpectedIs DEF quit, Reading
  <2>2. Len(net') + Len(rx') = (Len(net) + Len(rx)) - 0 /\ link' = link
    BY <1>0, <2>1, NoneConsumed
  <2>3. CASE at' = "gone"
    BY <2>3, OutOfStep
  <2>4. CASE state # "Closed" /\ can_transition_to(state, "Quit") /\ WriteThen("Quit", <<>>, Say("QUIT"), "quit")
    <3>1. (at' = "quit" => Expected' = 1) /\ sec \in {"plain", "tls"}
      BY <1>c, <2>4, ExpectedNext DEF Reading, can_transition_to
    <3>. QED BY <1>0, <1>w, <2>1, <2>2, <2>4, <3>1 DEF Say, Verbs
  <2>5. CASE state # "Closed" /\ at' = "close" /\ UNCHANGED <<state, wrote, audit, cancels>>
    BY <1>r, <2>1, <2>5
  <2>. QED BY <1>16, <2>3, <2>4, <2>5 DEF quit
<1>17. CASE quit_reply
  <2>1. Reply("quit") /\ state = "Quit" /\ UNCHANGED peerVars /\ Expected = 1 /\ "quit" \in Reading
    BY <1>0, <1>17, ExpectedIs DEF quit_reply, Reply, Control, AtDecidesState, Reading
  <2>2. CASE at' = "close" /\ UNCHANGED <<state, wrote, audit, cancels>>
    <3>1. Expected' = 0
      BY <2>2, ExpectedNext DEF Reading
    <3>. QED BY <1>d, <2>1, <2>2, <3>1
  <2>. QED BY <1>17, <1>f, <2>2 DEF quit_reply
<1>18. CASE close_transport \/ Drop
  BY <1>18, OutOfStep DEF close_transport, Drop
<1>19. CASE fill_buf
  <2>1. PICK k \in 1..Len(net) :
              /\ Len(net) \in Nat /\ Len(rx) = 0
              /\ Len(rx') = k /\ Len(net') = Len(net) - k
    BY <1>0, <1>19, Moved
  <2>2. /\ UNCHANGED <<state, at, wrote, cancels, link, rcpts, todo, pipelining>> /\ at # "gone"
    BY <1>19 DEF fill_buf, callVars, sendVars, Reading
  <2>3. Expected' = Expected
    BY <2>2 DEF Expected
  <2>4. /\ Len(net') + Len(rx') = (Len(net) + Len(rx)) - 0 /\ Len(wrote') = Len(wrote) + 0
        /\ Expected' = (Expected + 0) - 0
    BY <1>0, <1>i, <2>1, <2>2, <2>3
  <2>5. CASE state = "Closed"
    BY <2>2, <2>5, OutOfStep
  <2>6. CASE state # "Closed"
    BY <1>0, <1>i, <2>2, <2>4, <2>6, KeepsInStep
  <2>. QED BY <2>5, <2>6
<1>20. CASE read_fails
  BY <1>20, <1>f DEF read_fails
<1>21. CASE invalid_input \/ send_message
  BY <1>21, <1>s DEF invalid_input, send_message
<1>22. CASE Cancel
  <2>1. cancels' # 0
    BY <1>0, <1>22 DEF Cancel
  <2>. QED BY <2>1, OutOfStep
<1>. QED
  BY <1>1, <1>2, <1>3, <1>4, <1>5, <1>6, <1>7, <1>8, <1>9, <1>10, <1>11, <1>12, <1>13, <1>14,
     <1>15, <1>16, <1>17, <1>18, <1>19, <1>20, <1>21, <1>22 DEF Client, Call, Resume

(* Without an abandoned call there is nothing to be taken for text. *)
LEMMA NoStrayText ==
    ASSUME Local, Ledger, ServeText, cancels = 0, state # "Closed", at # "gone"
    PROVE  FALSE
<1>0. /\ TypeOK /\ Control /\ IdleIsReusable /\ Closing /\ Len(wrote) \in Nat /\ served \in Nat
      /\ Reach \in Nat /\ Reach <= Len(wrote) /\ pipelining \in BOOLEAN
  BY Reachable DEF Local, Ledger, TypeOK
<1>1. /\ mode = "data" /\ served < Reach
      /\ ~(wrote[served + 1].whole /\ wrote[served + 1].verb = "BODY")
  BY DEF ServeText, Reads, Cmd
<1>2. served # Len(wrote) /\ (served = Len(wrote) - 1 => served + 1 = Len(wrote))
  BY <1>0, <1>1
<1>3. at \notin Enveloping /\ at # "body" /\ at # "final"
  BY <1>1, <1>2 DEF Ledger, GoIsLast, AtBody, AtFinal, Unserved, Answered
<1>4. state = "Data"
  BY <1>1 DEF Ledger, NoDataYet, Quiet
<1>. QED BY <1>0, <1>3, <1>4
         DEF TypeOK, Control, AtDecidesState, IdleIsReusable, Closing, Enveloping, Suspended, Reading

(* A command the client wrote whole is served on its own. *)
LEMMA ServedAlone ==
    ASSUME TypeOK, ServerOK, Whole, ServesCommand, cancels = 0
    PROVE  served' = served + 1
<1>0. /\ Len(wrote) \in Nat /\ served \in Nat /\ Reach \in Nat /\ Reach <= Len(wrote)
  BY Reachable
<1>1. ~ServeTorn
  <2>. SUFFICES ASSUME ServeTorn PROVE FALSE
    OBVIOUS
  <2>1. served < Reach /\ ~wrote[served + 1].whole
    BY DEF ServeTorn, Reads, Cmd
  <2>2. served + 1 \in 1..Len(wrote)
    BY <1>0, <2>1
  <2>. QED BY <2>1, <2>2 DEF Whole
<1>. QED BY <1>1 DEF ServesCommand, Refuses, ServeEhlo, ServeStartTls, ServeAuth, ServeMail, ServeRcpt,
                     ServeData, ServeQuit, Takes

(* For each command it serves the server says one thing, and it is heard. *)
LEMMA ServerInStep ==
    ASSUME Local, Greeted, Ledger, InStep, Serve \/ HangsUp
    PROVE  InStep'
<1>0. /\ TypeOK /\ ServerOK /\ Whole /\ Unbroken /\ net \in Seq(Received) /\ Len(wrote) \in Nat
      /\ Len(net) \in Nat /\ Len(rx) \in Nat /\ served \in Nat
  BY LenProperties DEF Local, TypeOK, Ledger, ServerOK
<1>i. Expected \in Int
  <2>1. Expected \in {rcpts + 2, todo + 1, 0, 1} /\ rcpts \in Nat /\ todo \in Nat
    BY <1>0, ExpectedIs, BoundsAssumption DEF TypeOK
  <2>. QED BY <2>1
(* One reply said, d commands served, e of the greeting left. *)
<1>a. ASSUME NEW code, Says(code), UNCHANGED clientVars,
             NEW d \in {0, 1}, served' = served + d,
             mode' # "bye" => /\ mode # "bye"
                              /\ (IF mode' = "greet" THEN 1 ELSE 0) = ((IF mode = "greet" THEN 1 ELSE 0) + d) - 1
      PROVE  InStep'
  <2>u. UNCHANGED <<state, at, wrote, cancels, rx, link, sec, rcpts, todo, pipelining>>
    BY <1>a DEF clientVars, callVars, sendVars, tlsVars
  <2>. SUFFICES ASSUME cancels = 0, link = "up", mode' # "bye", state # "Closed", at # "gone"
                PROVE  Len(wrote) - served' + Len(net') + Len(rx) + (IF mode' = "greet" THEN 1 ELSE 0) = Expected
    <3>1. Expected' = Expected
      BY <2>u DEF Expected
    <3>. QED BY <2>u, <3>1 DEF InStep
  <2>1. Len(net') = Len(net) + 1
    <3>1. Hears
      BY <1>0 DEF Unbroken, Hears
    <3>. QED BY <1>a, <3>1 DEF Says
  <2>2. Len(wrote) - served + Len(net) + Len(rx) + (IF mode = "greet" THEN 1 ELSE 0) = Expected
    BY <1>a DEF InStep
  <2>3. PICK g \in {0, 1} : g = IF mode = "greet" THEN 1 ELSE 0
    OBVIOUS
  <2>4. PICK h \in {0, 1} : h = IF mode' = "greet" THEN 1 ELSE 0
    OBVIOUS
  <2>5. h = (g + d) - 1
    BY <1>a, <2>3, <2>4
  <2>6. Len(wrote) - served + Len(net) + Len(rx) + g = Expected
    BY <2>2, <2>3
  <2>7. Len(wrote) - served' + Len(net') + Len(rx) + h = Expected
    BY <1>0, <1>a, <1>i, <2>1, <2>5, <2>6
  <2>. QED BY <2>4, <2>7
<1>1. CASE ServeText
  <2>1. /\ UNCHANGED <<state, at, cancels>>
    BY <1>1 DEF ServeText, vars
  <2>. QED BY <1>1, <2>1, NoStrayText DEF InStep
<1>2. CASE ServeBody /\ \E code \in Nat : Says(code) /\ UNCHANGED clientVars
  <2>1. served' = served + 1 /\ mode = "data" /\ mode' = "command"
    BY <1>2 DEF ServeBody, Takes, Reads
  <2>2. (IF mode' = "greet" THEN 1 ELSE 0) = ((IF mode = "greet" THEN 1 ELSE 0) + 1) - 1
    BY <2>1
  <2>. QED BY <1>2, <1>a, <2>1, <2>2
<1>3. CASE ServesCommand /\ \E code \in Nat : Serves(code)
  <2>1. PICK code \in Nat : Serves(code)
    BY <1>3
  <2>2. mode = "command" /\ mode' # "greet" /\ Says(code) /\ UNCHANGED clientVars
    BY <2>1 DEF Serves
  <2>3. (IF mode' = "greet" THEN 1 ELSE 0) = ((IF mode = "greet" THEN 1 ELSE 0) + 1) - 1
    BY <2>2
  <2>4. CASE cancels = 0
    BY <1>0, <1>3, <1>a, <2>2, <2>3, <2>4, ServedAlone
  <2>5. CASE cancels # 0
    <3>1. cancels' # 0
      BY <2>2, <2>5 DEF clientVars, callVars
    <3>. QED BY <3>1, OutOfStep
  <2>. QED BY <2>4, <2>5
<1>4. CASE (Greet \/ HangsUp) /\ \E code \in Nat : Speaks(code)
  <2>1. PICK code \in Nat : Speaks(code)
    BY <1>4
  <2>2. Says(code) /\ UNCHANGED clientVars /\ served' = served + 0
    BY <1>0, <2>1 DEF Speaks
  <2>3. mode' # "bye" => mode = "greet" /\ mode' # "greet"
    BY <2>1 DEF Speaks
  <2>4. mode' # "bye" =>
          /\ mode # "bye"
          /\ (IF mode' = "greet" THEN 1 ELSE 0) = ((IF mode = "greet" THEN 1 ELSE 0) + 0) - 1
    BY <2>3
  <2>. QED BY <1>a, <2>2, <2>4
<1>. QED BY <1>0, <1>1, <1>2, <1>3, <1>4, ServerStep

LEMMA StepInStep ==
    ASSUME Local, TypeOK', Greeted, Ledger, InStep, [SysNext]_allVars
    PROVE  InStep'
<1>1. CASE Client /\ UNCHANGED serverVars
  BY <1>1, ClientInStep DEF Ledger
<1>2. CASE Serve \/ HangsUp
  BY <1>2, ServerInStep
<1>3. CASE Breaks \/ ServerCloses
  BY <1>3 DEF Breaks, ServerCloses, LinkDown, InStep
<1>4. CASE UNCHANGED allVars
  BY <1>4 DEF allVars, vars, serverVars, InStep, Expected
<1>5. CASE Terminated /\ UNCHANGED serverVars
  BY <1>4, <1>5 DEF Terminated, allVars
<1>. QED BY <1>1, <1>2, <1>3, <1>4, <1>5 DEF SysNext
-----------------------------------------------------------------------------
LEMMA SysInvInit == SysInit => SysInv
<1>. SUFFICES ASSUME SysInit PROVE SysInv
  OBVIOUS
<1>0. /\ Init /\ mode = "greet" /\ open = 0 /\ accepted = {} /\ served = 0 /\ cut = 0 /\ queue = <<>>
      /\ wrote = <<>> /\ rx = <<>> /\ net = <<>> /\ link = "up" /\ state = "Greeting" /\ at = "greeting"
      /\ oks = {} /\ sec \in {"plain", "tls"} /\ Len(<<>>) = 0
  BY EmptySeq DEF SysInit, Init
<1>1. Local
  BY <1>0, InitInv DEF Local, IdleIsReusable, Unbroken, Closing
<1>2. Greeted
  BY <1>0 DEF Greeted
<1>3. ServerOK
  <2>1. queue \in Seq(Queued) /\ Len(queue) = 0
    BY <1>0, EmptySeq
  <2>. QED BY <1>0, <2>1 DEF ServerOK
<1>4. Trail /\ NoDataYet /\ GoIsLast /\ Agreed /\ AtBody /\ AtFinal /\ NotQueued
  BY <1>0 DEF Trail, NoDataYet, NoGo, GoIsLast, Agreed, AtBody, AtFinal, NotQueued, Enveloping
<1>5. PendingBody /\ Whole /\ QueuedIsComplete /\ OkMeansQueued
  BY <1>0 DEF PendingBody, Whole, QueuedIsComplete, OkMeansQueued
<1>6. InStep
  <2>1. Expected = 1
    BY <1>0, ExpectedIs DEF Reading
  <2>. QED BY <1>0, <2>1 DEF InStep
<1>. QED BY <1>1, <1>2, <1>3, <1>4, <1>5, <1>6 DEF SysInv, Ledger

LEMMA SysInvStep == SysInv /\ [SysNext]_allVars => SysInv'
<1>. SUFFICES ASSUME SysInv, [SysNext]_allVars PROVE SysInv'
  OBVIOUS
<1>0. Local /\ Greeted /\ Ledger /\ InStep /\ ServerOK /\ TypeOK
  BY DEF SysInv, Ledger, Local
<1>1. Local' /\ TypeOK'
  BY <1>0, LocalStep DEF Local
<1>2. Greeted'
  BY <1>0, GreetedStep
<1>3. Ledger'
  BY <1>0, <1>1, LedgerStep
<1>4. InStep'
  BY <1>0, <1>1, StepInStep
<1>. QED BY <1>1, <1>2, <1>3, <1>4 DEF SysInv

(* The invariant of the whole system: the client of SmtpClient keeps its    *)
(* types and its control structure next to a server that follows the        *)
(* protocol, and the two agree on what has been said.                       *)
THEOREM SystemAgrees == SysSpec => []SysInv
  BY SysInvInit, SysInvStep, PTL DEF SysSpec

(* Ok from a send method (send_mail to send_mail_stream) is the server's    *)
(* word for this very message, complete: whatever was pipelined, refused or *)
(* abandoned before it, however often the connection broke.                 *)
THEOREM OkIsQueued == SysSpec => []OkMeansQueued
<1>1. SysInv => OkMeansQueued
  BY DEF SysInv, Ledger
<1>. QED BY <1>1, SystemAgrees, PTL

(* run_envelope is all or nothing: no server that follows the protocol      *)
(* holds a message for some of its recipients, under another envelope, or   *)
(* twice, for any number of recipients on either path.                      *)
THEOREM NeverPartial == SysSpec => []QueuedIsComplete
<1>1. SysInv => QueuedIsComplete
  BY DEF SysInv, Ledger
<1>. QED BY <1>1, SystemAgrees, PTL

(* As long as no call is abandoned the client reads as many replies as      *)
(* commands it has written: none is left for the next command, none is      *)
(* waited for in vain.                                                      *)
THEOREM NeverOutOfStep == SysSpec => []InStep
<1>1. SysInv => InStep
  BY DEF SysInv
<1>. QED BY <1>1, SystemAgrees, PTL
=============================================================================
