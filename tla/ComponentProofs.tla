-------------------------- MODULE ComponentProofs ---------------------------
(***************************************************************************)
(* Theorems about Component: what the exported send says of a message is   *)
(* true, for every server that follows the protocol and every break of the *)
(* link, and it goes only to a server the caller trusts.                   *)
(***************************************************************************)
EXTENDS Component, SmtpSystemProofs, NaturalsInduction, WellFoundedInduction

(* The phases in which a client runs, and the awaits of each. *)
Running == {"connect", "upgrade", "login", "send", "quit"}
Greeting == {"greeting", "ehlo"}
Upgrading == {"starttls", "upgrade", "reehlo"}
LoggingIn == {"auth1", "auth2", "auth3"}
Quitting == {"quit", "close"}

(* The calls of a component are steps of the system it is built on. *)
LEMMA SystemStep == [CNext]_everything => [SysNext]_allVars
<1>. SUFFICES ASSUME [CNext]_everything PROVE [SysNext]_allVars
  OBVIOUS
<1>1. CASE UNCHANGED everything
  BY <1>1 DEF everything
<1>2. CASE create \/ connect \/ send_result
  BY <1>2 DEF create, connect, send_result
<1>3. CASE connect_starttls \/ call_login \/ call_send_mail \/ call_quit
  <2>1. Call /\ UNCHANGED serverVars
    BY <1>3 DEF connect_starttls, call_login, call_send_mail, call_quit, Call
  <2>. QED BY <2>1 DEF SysNext, Client
<1>4. CASE give_up
  <2>1. CASE Drop
    BY <1>4, <2>1 DEF give_up, SysNext, Client, Call
  <2>2. CASE UNCHANGED vars
    BY <1>4, <2>2 DEF give_up, allVars
  <2>. QED BY <1>4, <2>1, <2>2 DEF give_up
<1>5. CASE run_client
  BY <1>5 DEF run_client, SysNext, Client
<1>6. CASE Server \/ Closes \/ Faults
  BY <1>6 DEF Server, Closes, Faults, SysNext
<1>7. CASE Returned
  BY <1>7 DEF Returned, everything
<1>. QED BY <1>1, <1>2, <1>3, <1>4, <1>5, <1>6, <1>7 DEF CNext, Guest

(* A component's call is one of the histories of SmtpSystem: all that is   *)
(* proved of the client and its server holds inside it.                    *)
THEOREM ComponentIsSystem == CSpec => SysSpec
<1>1. CInit => SysInit
  BY DEF CInit
<1>. QED BY <1>1, SystemStep, PTL DEF CSpec, SysSpec
-----------------------------------------------------------------------------
(***************************************************************************)
(* The invariant of a call. What may be running, how the last step ended   *)
(* and what the server may hold is decided by the phase.                   *)
(***************************************************************************)

(* Until the server is reached nothing has happened. *)
Untouched == phase \in {"create", "dial"} => SysInit

AtPhase ==
    /\ phase = "connect" => at \in Greeting \cup {"idle", "gone"}
    /\ phase = "upgrade" => at \in Upgrading \cup {"idle"}
    /\ phase = "login" => at \in LoggingIn \cup {"idle"}
    /\ phase = "send" => at \in Sending \cup {"idle"}
    /\ phase = "quit" => at \in Quitting \cup {"gone"}

(* How the last step ended: only before anything was sent can send_mail    *)
(* say that its input is wrong.                                            *)
Outcome ==
    /\ phase = "connect" /\ at = "idle" => ret = "ok"
    /\ phase = "connect" /\ at = "gone" => ret \in {"Io", "Protocol"}
    /\ phase = "upgrade" => ret \in {"ok", "Io", "Protocol"}
    /\ phase = "login" => ret \in {"ok", "Io", "Protocol", "Auth", "InvalidInput"}
    /\ phase = "send" => ret \in {"ok", "Io", "Protocol"} \/ (ret = "InvalidInput" /\ nsend = 0)

(* There is one transaction; its Ok reaches the caller, and an error that  *)
(* is neither io nor protocol means that there was none.                   *)
Reported ==
    /\ nsend <= 1
    /\ phase \in {"create", "dial", "connect", "upgrade", "login"} => nsend = 0 /\ oks = {}
    /\ phase = "send" => (oks # {} <=> at = "idle" /\ ret = "ok")
    /\ phase = "quit" => oks # {}
    /\ phase = "returned" => /\ result = "ok" <=> oks # {}
                             /\ result \in {"ok", "io", "protocol"} \/ nsend = 0
    /\ result = "none" <=> phase # "returned"

(* The server takes a message for somebody, and one that was announced. *)
Envelopes ==
    /\ mode = "data" => accepted # {}
    /\ accepted # {} => open # 0
    /\ \A j \in 1..Len(queue) : queue[j].msg # 0

(* After the connect the transport is TLS or the client insists on it. *)
Channel ==
    /\ phase = "upgrade" => ~implicit
    /\ phase \in {"upgrade", "login", "send", "quit"} => implicit \/ wantTls
    /\ implicit => sec = "tls"

(* TLS is the result of a handshake with the roots that create resolved. *)
Handshaken ==
    /\ phase \in {"dial"} \cup Running =>
          Anchors!resolve(trust).ok /\ roots = Anchors!resolve(trust).roots
    /\ phase \in Running /\ sec = "tls" => signer \in TrustedRoots

CallInv == Untouched /\ AtPhase /\ Outcome /\ Reported /\ Channel /\ Handshaken
-----------------------------------------------------------------------------
(* Nobody abandons a write: it is done or it fails. *)
LEMMA WritesOrFails ==
    ASSUME TypeOK, NEW s, NEW ev, NEW cmds, NEW a, WriteThen(s, ev, cmds, a)
    PROVE  (at' = a /\ ret' = ret) \/ (at' = OnError(a) /\ ret' = "Io")
<1>1. ~(cancels < MaxCancels)
  BY NeverAbandoned DEF TypeOK
<1>. QED BY <1>1 DEF WriteThen, Fail

(* How a resumed call goes on within its phase. *)
Onward(group) == at \in group /\ at' \in group /\ ret' = ret /\ oks' = oks
Errs == /\ at \in Greeting \cup Upgrading \cup LoggingIn \cup Sending
        /\ at' = OnError(at) /\ ret' \in {"Io", "Protocol"} /\ oks' = oks
RefusedLogin == at \in LoggingIn /\ at' = "idle" /\ ret' = "Auth" /\ oks' = oks
Returns == at \in {"ehlo", "reehlo"} \cup LoggingIn /\ at' = "idle" /\ ret' = "ok" /\ oks' = oks
Accepted == at = "final" /\ at' = "idle" /\ ret' = "ok" /\ oks' = oks \cup {nsend}
Quits == at \in Quitting /\ at' \in Quitting \cup {"gone"} /\ oks' = oks
Resumed ==
    \/ Onward(Greeting) \/ Onward(Upgrading) \/ Onward(LoggingIn) \/ Onward(Sending)
    \/ Errs \/ RefusedLogin \/ Returns \/ Accepted \/ Quits

LEMMA ResumeStep ==
    ASSUME TypeOK, Control, Resume
    PROVE  /\ Resumed
           /\ UNCHANGED <<nsend, implicit, wantTls>>
           /\ at # "upgrade" => sec' = sec
<1>0. /\ OnError("greeting") = "gone" /\ OnError("ehlo") = "gone" /\ OnError("quit") = "close"
      /\ \A a \in Upgrading \cup LoggingIn \cup Sending : OnError(a) = "idle"
  BY DEF OnError, Upgrading, LoggingIn, Sending
<1>. USE DEF Greeting, Upgrading, LoggingIn, Sending, Quitting
<1>f. ASSUME NEW ev, NEW err, NEW a, Fail(ev, err, a) PROVE at' = OnError(a) /\ ret' = err
  BY <1>f DEF Fail
<1>1. CASE fill_buf
  <2>1. at \in Reading /\ at' = at /\ ret' = ret /\ oks' = oks
    BY <1>1 DEF fill_buf, callVars, sendVars
  <2>2. Resumed
    BY <2>1 DEF Resumed, Onward, Quits, Reading
  <2>. QED BY <1>1, <2>2 DEF fill_buf, tlsVars, sendVars
<1>2. CASE read_fails
  <2>1. at \in Reading /\ at' = OnError(at) /\ ret' \in {"Io", "Protocol"} /\ oks' = oks
    BY <1>2, <1>f DEF read_fails, sendVars
  <2>2. Resumed
    BY <1>0, <2>1 DEF Resumed, Errs, Quits, Reading
  <2>. QED BY <1>2, <2>2 DEF read_fails, tlsVars, sendVars
<1>3. CASE read_greeting
  <2>1. at = "greeting" /\ oks' = oks
    BY <1>3 DEF read_greeting, Reply, sendVars
  <2>2. (at' = "ehlo" /\ ret' = ret) \/ (at' = "gone" /\ ret' \in {"Io", "Protocol"})
    BY <1>3, <1>0, <1>f, WritesOrFails DEF read_greeting
  <2>3. Resumed
    BY <1>0, <2>1, <2>2 DEF Resumed, Errs, Onward
  <2>. QED BY <1>3, <2>3 DEF read_greeting, tlsVars, sendVars
<1>4. CASE send_ehlo
  <2>1. at \in {"ehlo", "reehlo"} /\ oks' = oks
    BY <1>4 DEF send_ehlo, Reply, sendVars
  <2>2. (at' = "idle" /\ ret' = "ok") \/ (at' = OnError(at) /\ ret' = "Protocol")
    BY <1>4 DEF send_ehlo, Reply, Done, Fail
  <2>3. Resumed
    BY <1>0, <2>1, <2>2 DEF Resumed, Errs, Returns
  <2>. QED BY <1>4, <2>3 DEF send_ehlo, tlsVars, sendVars
<1>5. CASE starttls_reply
  <2>1. at = "starttls" /\ oks' = oks
    BY <1>5 DEF starttls_reply, Reply, sendVars
  <2>2. (at' = "upgrade" /\ ret' = ret) \/ (at' = OnError(at) /\ ret' = "Protocol")
    BY <1>5, <2>1 DEF starttls_reply, Await, Fail
  <2>3. Resumed
    BY <1>0, <2>1, <2>2 DEF Resumed, Errs, Onward
  <2>. QED BY <1>5, <2>3 DEF starttls_reply, tlsVars, sendVars
<1>6. CASE upgrade_to_tls
  <2>1. at = "upgrade" /\ oks' = oks
    BY <1>6 DEF upgrade_to_tls, sendVars
  <2>2. (at' = "reehlo" /\ ret' = ret) \/ (at' = "idle" /\ ret' = "Io")
    BY <1>6, <1>0, <1>f, WritesOrFails DEF upgrade_to_tls
  <2>3. Resumed
    BY <1>0, <2>1, <2>2 DEF Resumed, Errs, Onward
  <2>. QED BY <1>6, <2>1, <2>3 DEF upgrade_to_tls, sendVars
<1>7. CASE run_auth
  <2>1. PICK a \in LoggingIn :
          /\ at = a
          /\ \/ Done("MailFrom", <<"AuthCompleted">>)
             \/ WriteThen(state, <<>>, Say("RESPONSE"), NextAuth[a])
             \/ Fail(<<>>, AuthFailure(a, Head(rx)), a)
    BY <1>7 DEF run_auth, Reply
  <2>2. oks' = oks /\ NextAuth[a] \in LoggingIn /\ AuthFailure(a, Head(rx)) \in {"Auth", "Protocol"}
    BY <1>7 DEF run_auth, sendVars, NextAuth, AuthFailure
  <2>3. \/ at' = "idle" /\ ret' = "ok"
        \/ at' \in LoggingIn /\ ret' = ret
        \/ at' = "idle" /\ ret' \in {"Io", "Auth", "Protocol"}
    <3>1. CASE WriteThen(state, <<>>, Say("RESPONSE"), NextAuth[a])
      BY <3>1, <2>2, <1>0, WritesOrFails
    <3>2. CASE Fail(<<>>, AuthFailure(a, Head(rx)), a)
      BY <3>2, <2>2, <1>0, <1>f
    <3>. QED BY <2>1, <3>1, <3>2 DEF Done
  <2>4. Resumed
    BY <1>0, <2>1, <2>2, <2>3 DEF Resumed, Errs, Onward, Returns, RefusedLogin
  <2>. QED BY <1>7, <2>4 DEF run_auth, tlsVars, sendVars
<1>8. CASE mail_reply \/ read_rcpt_reply \/ data_reply \/ stream_body
  <2>1. at \in Sending /\ oks' = oks /\ nsend' = nsend
    BY <1>8 DEF mail_reply, read_rcpt_reply, data_reply, stream_body, Reply, sendVars
  <2>2. (at' \in Sending /\ ret' = ret) \/ (at' = "idle" /\ ret' \in {"Io", "Protocol"})
    <3>1. CASE mail_reply
      BY <3>1, <1>0, <1>f, WritesOrFails DEF mail_reply, Await
    <3>2. CASE read_rcpt_reply
      BY <3>2, <1>0, <1>f, WritesOrFails DEF read_rcpt_reply, Await
    <3>3. CASE data_reply
      BY <3>3, <1>0, <1>f, WritesOrFails DEF data_reply, Await
    <3>4. CASE stream_body
      BY <3>4, <1>0, <1>f, WritesOrFails DEF stream_body
    <3>. QED BY <1>8, <3>1, <3>2, <3>3, <3>4
  <2>3. Resumed
    BY <1>0, <2>1, <2>2 DEF Resumed, Errs, Onward
  <2>. QED BY <1>8, <2>1, <2>3 DEF mail_reply, read_rcpt_reply, data_reply, stream_body, tlsVars, sendVars
<1>9. CASE final_reply
  <2>1. at = "final"
    BY <1>9 DEF final_reply, Reply
  <2>2. \/ at' = "idle" /\ ret' = "ok" /\ oks' = oks \cup {nsend}
        \/ at' = OnError(at) /\ ret' = "Protocol" /\ oks' = oks
    BY <1>9, <2>1, <1>f DEF final_reply, Done
  <2>3. Resumed
    BY <1>0, <2>1, <2>2 DEF Resumed, Errs, Accepted
  <2>. QED BY <1>9, <2>3 DEF final_reply, tlsVars
<1>10. CASE quit_reply \/ close_transport
  <2>1. at \in Quitting /\ oks' = oks
    BY <1>10 DEF quit_reply, close_transport, Reply, sendVars
  <2>2. at' \in {"close", "gone"}
    BY <1>10, <1>0, <1>f DEF quit_reply, close_transport
  <2>3. Resumed
    BY <2>1, <2>2 DEF Resumed, Quits
  <2>. QED BY <1>10, <2>3 DEF quit_reply, close_transport, tlsVars, sendVars
<1>. QED BY <1>1, <1>2, <1>3, <1>4, <1>5, <1>6, <1>7, <1>8, <1>9, <1>10 DEF Resume

(* The server and the link decide nothing of all this. *)
LEMMA PeerStep ==
    ASSUME Server \/ Closes \/ Faults
    PROVE  /\ phase \notin {"create", "dial"}
           /\ UNCHANGED <<at, ret, nsend, oks, sec, implicit, wantTls, wrote>>
           /\ UNCHANGED <<trust, roots, signer, phase, result>>
<1>1. phase \notin {"create", "dial"} /\ UNCHANGED <<trust, roots, signer, phase, result>>
  BY DEF Server, Closes, Faults, componentVars
<1>2. ASSUME NEW code, NEW offer, NEW over, Answer(code, offer, over)
      PROVE  UNCHANGED <<at, ret, nsend, oks, sec, implicit, wantTls, wrote>>
  BY <1>2 DEF Answer, clientVars, callVars, sendVars, tlsVars
<1>3. CASE Serve
  <2>1. CASE ServeText
    BY <1>1, <2>1 DEF ServeText, vars
  <2>2. \/ ServeText
        \/ \E code \in Nat, offer \in {{}} \cup Offers, over \in {sec, Cmd.over, wrote[served + 2].over} :
              Answer(code, offer, over)
    BY <1>3 DEF Serve, Greet, Refuses, ServeEhlo, ServeStartTls, ServeAuth, ServeMail, ServeRcpt,
                ServeData, ServeBody, ServeQuit, ServeTorn
  <2>. QED BY <1>1, <1>2, <2>1, <2>2
<1>4. CASE HangsUp
  BY <1>1, <1>2, <1>4 DEF HangsUp
<1>5. CASE LinkDown
  BY <1>1, <1>5 DEF LinkDown, callVars, sendVars, tlsVars
<1>. QED BY <1>3, <1>4, <1>5 DEF Server, Closes, Faults, Breaks, ServerCloses

(* Every step of a call, of its client and of the server keeps the         *)
(* invariant.                                                              *)
LEMMA CallStep ==
    ASSUME TypeOK, Control, CallInv, [CNext]_everything
    PROVE  CallInv'
<1>. USE DEF CallInv
<1>i. ASSUME phase \in {"create", "dial"}
      PROVE  /\ SysInit /\ at = "greeting" /\ ret = "none" /\ nsend = 0 /\ oks = {}
             /\ implicit <=> sec = "tls"
  BY <1>i DEF Untouched, SysInit, Init
<1>u. ASSUME UNCHANGED allVars
      PROVE  /\ SysInit => SysInit'
             /\ UNCHANGED <<at, ret, nsend, oks, sec, implicit, wantTls, wrote>>
  BY <1>u DEF allVars, vars, serverVars, SysInit, Init
<1>1. CASE UNCHANGED everything
  <2>1. UNCHANGED allVars /\ UNCHANGED <<trust, roots, signer, phase, result>>
    BY <1>1 DEF everything, componentVars
  <2>2. Untouched' /\ AtPhase' /\ Outcome' /\ Reported' /\ Channel'
    BY <1>u, <2>1 DEF Untouched, AtPhase, Outcome, Reported, Channel
  <2>3. Handshaken'
    BY <1>u, <2>1 DEF Handshaken, TrustedRoots
  <2>. QED BY <2>2, <2>3
<1>2. CASE create
  <2>0. phase = "create" /\ result = "none" /\ UNCHANGED allVars
    BY <1>2 DEF create, Reported
  <2>1. CASE Return("invalid-input")
    <3>1. phase' = "returned" /\ result' = "invalid-input"
      BY <2>1 DEF Return
    <3>. QED BY <1>i, <1>u, <2>0, <3>1
             DEF Untouched, AtPhase, Outcome, Reported, Channel, Handshaken, Running
  <2>2. CASE /\ Anchors!resolve(trust).ok
             /\ phase' = "dial" /\ roots' = Anchors!resolve(trust).roots
             /\ UNCHANGED <<trust, signer, result>>
    <3>1. Untouched' /\ AtPhase' /\ Outcome' /\ Reported' /\ Channel'
      BY <1>i, <1>u, <2>0, <2>2 DEF Untouched, AtPhase, Outcome, Reported, Channel
    <3>2. Handshaken'
      BY <2>2 DEF Handshaken, Running
    <3>. QED BY <3>1, <3>2
  <2>. QED BY <1>2, <2>1, <2>2 DEF create, validate
<1>3. CASE connect
  <2>0. phase = "dial" /\ result = "none" /\ UNCHANGED allVars
    BY <1>3 DEF connect, Reported
  <2>1. CASE Return("io")
    <3>1. phase' = "returned" /\ result' = "io"
      BY <2>1 DEF Return
    <3>. QED BY <1>i, <1>u, <2>0, <3>1
             DEF Untouched, AtPhase, Outcome, Reported, Channel, Handshaken, Running
  <2>2. CASE (implicit => signer \in TrustedRoots) /\ GoTo("connect")
    <3>0. phase' = "connect" /\ UNCHANGED <<trust, roots, signer, result>>
      BY <2>2 DEF GoTo
    <3>1. Untouched' /\ AtPhase' /\ Outcome' /\ Reported' /\ Channel'
      BY <1>i, <1>u, <2>0, <3>0 DEF Untouched, AtPhase, Outcome, Reported, Channel, Greeting
    <3>2. Handshaken'
      BY <1>i, <1>u, <2>0, <2>2, <3>0 DEF Handshaken, TrustedRoots, Running
    <3>. QED BY <3>1, <3>2
  <2>. QED BY <1>3, <2>1, <2>2 DEF connect
<1>f. ASSUME NEW ev, NEW err, NEW a, Fail(ev, err, a) PROVE at' = OnError(a) /\ ret' = err
  BY <1>f DEF Fail
<1>e. OnError("idle") = "idle" /\ OnError("quit") = "close"
      /\ \A a \in Upgrading \cup LoggingIn \cup Sending : OnError(a) = "idle"
  BY DEF OnError, Upgrading, LoggingIn, Sending
<1>4. CASE connect_starttls
  <2>0. /\ phase = "connect" /\ at = "idle" /\ ~implicit /\ ret = "ok" /\ nsend = 0 /\ oks = {}
        /\ phase' = "upgrade" /\ UNCHANGED <<trust, roots, signer, result>> /\ starttls
    BY <1>4 DEF connect_starttls, GoTo, Outcome, Reported
  <2>1. wantTls' /\ UNCHANGED <<sec, implicit, nsend, oks>>
    BY <2>0 DEF starttls, sendVars
  <2>2. (at' = "starttls" /\ ret' = "ok") \/ (at' = "idle" /\ ret' \in {"Io", "Protocol"})
    BY <2>0, <1>e, <1>f, WritesOrFails DEF starttls, Upgrading
  <2>3. Untouched' /\ AtPhase' /\ Outcome' /\ Reported' /\ Channel'
    BY <2>0, <2>1, <2>2 DEF Untouched, AtPhase, Outcome, Reported, Channel, Upgrading
  <2>4. Handshaken'
    BY <2>0, <2>1 DEF Handshaken, TrustedRoots, Running
  <2>. QED BY <2>3, <2>4
<1>5. CASE call_login
  <2>0. /\ phase \in {"connect", "upgrade"} /\ at = "idle" /\ ret = "ok" /\ nsend = 0 /\ oks = {}
        /\ phase = "connect" => implicit
        /\ phase' = "login" /\ UNCHANGED <<trust, roots, signer, result>> /\ (login \/ invalid_input)
    BY <1>5 DEF call_login, Connected, GoTo, Reported
  <2>1. UNCHANGED <<sec, implicit, wantTls, nsend, oks>>
    BY <2>0 DEF login, login_with, invalid_input, sendVars, tlsVars
  <2>2. \/ at' = "auth1" /\ ret' = "ok"
        \/ at' = "idle" /\ ret' \in {"Io", "Auth", "InvalidInput"}
    <3>1. ASSUME NEW m, login_with(m)
          PROVE  (at' = "auth1" /\ ret' = "ok") \/ (at' = "idle" /\ ret' \in {"Io", "Auth"})
      BY <2>0, <3>1, <1>e, <1>f, WritesOrFails DEF login_with, Refuse, LoggingIn
    <3>. QED BY <2>0, <3>1, <1>e, <1>f DEF login, invalid_input, Refuse
  <2>3. Untouched' /\ AtPhase' /\ Outcome' /\ Reported' /\ Channel'
    BY <2>0, <2>1, <2>2 DEF Untouched, AtPhase, Outcome, Reported, Channel, LoggingIn
  <2>4. Handshaken'
    BY <2>0, <2>1 DEF Handshaken, TrustedRoots, Running
  <2>. QED BY <2>3, <2>4
<1>6. CASE call_send_mail
  <2>0. /\ phase = "login" /\ at = "idle" /\ ret = "ok" /\ nsend = 0 /\ oks = {}
        /\ phase' = "send" /\ UNCHANGED <<trust, roots, signer, result>>
        /\ (\E c \in 1..MaxRcpts : send_mail("mail", c)) \/ invalid_input
    BY <1>6 DEF call_send_mail, GoTo, Reported
  <2>1. UNCHANGED <<sec, implicit, wantTls, oks>> /\ nsend' \in {0, 1}
    <3>1. CASE invalid_input
      BY <2>0, <3>1 DEF invalid_input, sendVars, tlsVars
    <3>2. ASSUME NEW c \in 1..MaxRcpts, send_mail("mail", c)
          PROVE  UNCHANGED <<sec, implicit, wantTls, oks>> /\ nsend' = nsend + 1
      BY <3>2 DEF send_mail, tlsVars
    <3>. QED BY <2>0, <3>1, <3>2
  <2>2. \/ at' = "mail" /\ ret' = "ok"
        \/ at' = "idle" /\ ret' = "Io"
        \/ at' = "idle" /\ ret' = "InvalidInput" /\ nsend' = 0
    <3>1. ASSUME NEW c, send_mail("mail", c)
          PROVE  (at' = "mail" /\ ret' = "ok") \/ (at' = "idle" /\ ret' = "Io")
      BY <2>0, <3>1, <1>e, WritesOrFails DEF send_mail, Sending
    <3>. QED BY <2>0, <3>1 DEF invalid_input, Refuse, sendVars
  <2>3. Untouched' /\ AtPhase' /\ Outcome' /\ Reported' /\ Channel'
    BY <2>0, <2>1, <2>2 DEF Untouched, AtPhase, Outcome, Reported, Channel, Sending
  <2>4. Handshaken'
    BY <2>0, <2>1 DEF Handshaken, TrustedRoots, Running
  <2>. QED BY <2>3, <2>4
<1>7. CASE call_quit
  <2>0. /\ phase = "send" /\ at = "idle" /\ ret = "ok" /\ oks # {}
        /\ phase' = "quit" /\ UNCHANGED <<trust, roots, signer, result>> /\ quit
    BY <1>7 DEF call_quit, GoTo, Reported
  <2>1. UNCHANGED <<sec, implicit, wantTls, nsend, oks>>
    BY <2>0 DEF quit, sendVars, tlsVars
  <2>2. at' \in Quitting \cup {"gone"}
    BY <2>0, <1>e, WritesOrFails DEF quit, Quitting
  <2>3. Untouched' /\ AtPhase' /\ Outcome' /\ Reported' /\ Channel'
    BY <2>0, <2>1, <2>2 DEF Untouched, AtPhase, Outcome, Reported, Channel
  <2>4. Handshaken'
    BY <2>0, <2>1 DEF Handshaken, TrustedRoots, Running
  <2>. QED BY <2>3, <2>4
<1>8. CASE give_up
  <2>0. /\ phase \in {"connect", "upgrade", "login", "send"} /\ phase' = "returned"
        /\ result' = smtp_error_to_wit(ret)
        /\ (at = "idle" /\ ret # "ok") \/ at = "gone"
    BY <1>8 DEF give_up, Return
  <2>1. UNCHANGED <<sec, implicit, wantTls, nsend, oks>>
    BY <1>8 DEF give_up, Drop, vars, sendVars, tlsVars
  <2>2. oks = {} /\ (ret \in {"Io", "Protocol"} \/ (ret \in {"Auth", "InvalidInput"} /\ nsend = 0))
    BY <2>0 DEF AtPhase, Outcome, Reported, Greeting, Upgrading, LoggingIn, Sending
  <2>3. /\ ret \in {"Io", "Protocol"} => result' \in {"io", "protocol"}
        /\ ret \in {"Auth", "InvalidInput"} => result' \in {"auth-rejected", "invalid-input"}
    BY <2>0 DEF smtp_error_to_wit
  <2>. QED BY <2>0, <2>1, <2>2, <2>3
           DEF Untouched, AtPhase, Outcome, Reported, Channel, Handshaken, Running
<1>9. CASE send_result
  <2>0. phase = "quit" /\ phase' = "returned" /\ result' = "ok" /\ oks # {} /\ UNCHANGED allVars
    BY <1>9 DEF send_result, Return, Reported
  <2>. QED BY <1>u, <2>0
           DEF Untouched, AtPhase, Outcome, Reported, Channel, Handshaken, Running
<1>10. CASE run_client
  <2>0. /\ phase \in Running /\ UNCHANGED <<trust, roots, signer, phase, result>>
        /\ Resume /\ (at = "upgrade" => (sec' = "tls" => signer \in TrustedRoots))
    BY <1>10 DEF run_client, componentVars, Running
  <2>1. /\ Resumed /\ UNCHANGED <<nsend, implicit, wantTls>>
        /\ at # "upgrade" => sec' = sec
    BY <2>0, ResumeStep
  <2>2. AtPhase' /\ Outcome' /\ Untouched'
    <3>1. CASE Errs
      BY <2>0, <2>1, <3>1 DEF Errs, OnError, AtPhase, Outcome, Untouched, Running, Greeting, Upgrading,
                              LoggingIn, Sending, Quitting
    <3>2. CASE Onward(Greeting)
      BY <2>0, <2>1, <3>2 DEF Onward, AtPhase, Outcome, Untouched, Running, Greeting, Upgrading,
                              LoggingIn, Sending, Quitting
    <3>3. CASE Onward(Upgrading) \/ Onward(LoggingIn)
      BY <2>0, <2>1, <3>3 DEF Onward, AtPhase, Outcome, Untouched, Running, Greeting, Upgrading,
                              LoggingIn, Sending, Quitting
    <3>4. CASE Onward(Sending)
      BY <2>0, <2>1, <3>4 DEF Onward, AtPhase, Outcome, Untouched, Running, Greeting, Upgrading,
                              LoggingIn, Sending, Quitting
    <3>5. CASE RefusedLogin \/ Returns
      BY <2>0, <2>1, <3>5 DEF RefusedLogin, Returns, AtPhase, Outcome, Untouched, Running, Greeting,
                              Upgrading, LoggingIn, Sending, Quitting
    <3>6. CASE Accepted \/ Quits
      BY <2>0, <2>1, <3>6 DEF Accepted, Quits, AtPhase, Outcome, Untouched, Running, Greeting,
                              Upgrading, LoggingIn, Sending, Quitting
    <3>. QED BY <2>1, <3>1, <3>2, <3>3, <3>4, <3>5, <3>6 DEF Resumed
  <2>3. Reported'
    <3>1. CASE Accepted
      BY <2>0, <2>1, <3>1 DEF Accepted, Reported, AtPhase, Running, Greeting, Upgrading, LoggingIn, Quitting
    <3>2. CASE oks' = oks /\ (phase = "send" => at' # "idle" \/ ret' \in {"Io", "Protocol"}) /\ at # "idle"
      BY <2>0, <2>1, <3>2 DEF Reported, Running
    <3>3. ASSUME ~Accepted
          PROVE  oks' = oks /\ (phase = "send" => at' # "idle" \/ ret' \in {"Io", "Protocol"}) /\ at # "idle"
      BY <2>0, <2>1, <3>3 DEF Resumed, Onward, Errs, RefusedLogin, Returns, Quits, AtPhase, Greeting,
                              Upgrading, LoggingIn, Sending, Quitting
    <3>. QED BY <3>1, <3>2, <3>3
  <2>4. Channel'
    BY <2>0, <2>1 DEF Channel, AtPhase, Running, Greeting, LoggingIn, Sending, Quitting
  <2>5. Handshaken'
    BY <2>0, <2>1 DEF Handshaken, TrustedRoots, Running
  <2>. QED BY <2>2, <2>3, <2>4, <2>5
<1>11. CASE Server \/ Closes \/ Faults
  <2>1. Untouched' /\ AtPhase' /\ Outcome' /\ Reported' /\ Channel'
    BY <1>11, PeerStep DEF Untouched, AtPhase, Outcome, Reported, Channel
  <2>2. Handshaken'
    BY <1>11, PeerStep DEF Handshaken, TrustedRoots
  <2>. QED BY <2>1, <2>2
<1>12. CASE Returned
  BY <1>1, <1>12 DEF Returned
<1>. QED BY <1>1, <1>2, <1>3, <1>4, <1>5, <1>6, <1>7, <1>8, <1>9, <1>10, <1>11, <1>12 DEF CNext, Guest
-----------------------------------------------------------------------------
(* No step of the client takes back what it wrote. *)
LEMMA ClientKeeps ==
    ASSUME Local, Client, UNCHANGED serverVars
    PROVE  Kept
<1>0. /\ TypeOK /\ Control /\ RestOK /\ Len(wrote) \in Nat
      /\ nsend \in Nat /\ nsend + 1 \in Nat /\ rcpts \in Nat /\ 0 \in Nat /\ 1 \in Nat
  BY TypeSplit, LenProperties, BoundsAssumption DEF Local, TypeOK
<1>1. CASE Handshake
  BY <1>1, HandshakeAside DEF Aside
<1>2. ASSUME wrote' = wrote PROVE Kept
  BY <1>0, <1>2 DEF Kept
<1>3. ASSUME NEW c \in Commands, NEW s, NEW ev, NEW a, WriteThen(s, ev, <<c>>, a) PROVE Kept
  BY <1>0, <1>3, WriteOne
<1>c. ASSUME state \notin {"StartTls", "Closed"} PROVE sec \in {"plain", "tls"}
  BY <1>0, <1>c, ActiveChannel DEF Control
<1>s. ASSUME at \in Sending PROVE sec \in {"plain", "tls"}
  BY <1>0, <1>s, <1>c DEF Control, AtDecidesState, Sending
<1>4. CASE fill_buf \/ final_reply
  BY <1>2, <1>4 DEF fill_buf, final_reply, callVars, Done, Fail
<1>5. CASE mail_reply
  <2>1. RcptCmd(1) \in Commands
    BY <1>0, <1>s, <1>5, CommandType DEF mail_reply, Reply, Sending, RcptCmd, Verbs
  <2>. QED BY <1>2, <1>3, <1>5, <2>1 DEF mail_reply, Await, Fail
<1>6. CASE read_rcpt_reply
  <2>1. at = "rcpt" /\ sec \in {"plain", "tls"} /\ rcpts - todo + 2 \in Nat
    BY <1>0, <1>s, <1>6 DEF read_rcpt_reply, Reply, Sending, Control, Counts, RestOK
  <2>2. RcptCmd(rcpts - todo + 2) \in Commands /\ DataCmd \in Commands
    BY <1>0, <2>1, CommandType DEF RcptCmd, DataCmd, Verbs
  <2>. QED BY <1>2, <1>3, <1>6, <2>2 DEF read_rcpt_reply, Await, Fail
<1>7. CASE data_reply \/ stream_body
  <2>1. BodyCmd \in Commands
    BY <1>0, <1>s, <1>7, CommandType DEF data_reply, stream_body, Reply, Sending, BodyCmd, Verbs
  <2>. QED BY <1>2, <1>3, <1>7, <2>1 DEF data_reply, stream_body, Await, Fail
<1>8. CASE \E k \in {"mail", "utf8", "stream"}, c \in 1..MaxRcpts : send_mail(k, c)
  <2>1. PICK k \in {"mail", "utf8", "stream"}, c \in 1..MaxRcpts : send_mail(k, c)
    BY <1>8
  <2>2. sec \in {"plain", "tls"}
    BY <1>c, <2>1 DEF send_mail
  <2>3. Pipeline(c) \in Seq(Commands) /\ MailCmd(c) \in Commands
    BY <1>0, <2>2, PipelineType, CommandType DEF MailCmd, Verbs
  <2>4. CASE WriteThen("Data", <<>>, Pipeline(c), "mail")
    BY <1>0, <2>3, <2>4, WriteOutcome
  <2>. QED BY <1>3, <2>1, <2>3, <2>4 DEF send_mail
<1>. QED BY <1>1, <1>4, <1>5, <1>6, <1>7, <1>8 DEF Client, Call, Resume, Handshake

(* What the caller's trust argument stands for. *)
ResolvedRoots ==
    IF trust.kind = "bundled" THEN BundledRoots
    ELSE Anchors!parse_custom(trust.lines, trust.fits).store

LEMMA RootsAreResolved ==
    ASSUME Anchors!resolve(trust).ok, roots = Anchors!resolve(trust).roots
    PROVE  TrustedRoots = ResolvedRoots
<1>1. CASE trust.kind = "bundled"
  BY <1>1 DEF Anchors!resolve, TrustedRoots, ResolvedRoots
<1>2. CASE trust.kind # "bundled"
  <2>. DEFINE p == Anchors!parse_custom(trust.lines, trust.fits)
  <2>1. Anchors!resolve(trust) = [ok |-> p.ok, roots |-> IF p.ok THEN <<p.store>> ELSE <<>>]
    BY <1>2 DEF Anchors!resolve
  <2>2. roots = <<p.store>>
    <3>. HIDE DEF p
    <3>. QED BY <2>1
  <2>. QED BY <1>2, <2>2 DEF TrustedRoots, ResolvedRoots
<1>. QED BY <1>1, <1>2

(* A login or a message goes to a server behind the resolved roots. *)
OnlyToResolved ==
    \A i \in 1..Len(wrote) : wrote[i].verb \notin {"EHLO", "STARTTLS"} =>
        wrote[i].over = "tls" /\ signer \in ResolvedRoots

LEMMA ResolvedStep ==
    ASSUME Local, CallInv, OnlyToResolved, [CNext]_everything
    PROVE  OnlyToResolved'
<1>0. TypeOK /\ Control /\ Len(wrote) \in Nat
  BY LenProperties DEF Local, TypeOK
<1>1. UNCHANGED <<trust, signer>>
  BY PeerStep
     DEF CNext, Guest, create, validate, connect, connect_starttls, call_login, call_send_mail, call_quit,
         give_up, send_result, run_client, Returned, Return, GoTo, everything, componentVars
<1>2. ResolvedRoots' = ResolvedRoots
  BY <1>1 DEF ResolvedRoots
<1>3. ASSUME wrote' = wrote PROVE OnlyToResolved'
  BY <1>1, <1>2, <1>3 DEF OnlyToResolved
<1>4. ASSUME Client, UNCHANGED serverVars, phase \in Running,
             \A i \in New : wrote'[i].verb \notin {"EHLO", "STARTTLS"} =>
                wrote'[i].over = "tls" /\ signer \in TrustedRoots
      PROVE  OnlyToResolved'
  <2>1. Kept
    BY <1>4, ClientKeeps
  <2>2. TrustedRoots = ResolvedRoots
    BY <1>4, RootsAreResolved DEF CallInv, Handshaken
  <2>3. ASSUME NEW i \in 1..Len(wrote'), wrote'[i].verb \notin {"EHLO", "STARTTLS"}
        PROVE  wrote'[i].over = "tls" /\ signer' \in ResolvedRoots'
    <3>0. Len(wrote') \in Nat
      BY <1>4, <1>0, TypeStep, LenProperties DEF Next, TypeOK
    <3>1. CASE i \in 1..Len(wrote)
      BY <1>1, <1>2, <2>1, <2>3, <3>1 DEF Kept, OnlyToResolved
    <3>2. CASE i \in New
      BY <1>1, <1>2, <1>4, <2>2, <2>3, <3>2
    <3>. QED BY <1>0, <3>0, <3>1, <3>2 DEF New
  <2>. QED BY <2>3 DEF OnlyToResolved
<1>5. ASSUME Client, UNCHANGED serverVars, phase \in Running, sec' = "tls" => signer \in TrustedRoots,
             implicit \/ wantTls \/ at \in Greeting
      PROVE  OnlyToResolved'
  <2>1. \A i \in New : Good(wrote'[i])
    BY <1>0, <1>5, StepWrites DEF Next, OnlyGood, New
  <2>2. \A i \in New : wrote'[i].verb \notin {"EHLO", "STARTTLS"} =>
            wrote'[i].over = "tls" /\ signer \in TrustedRoots
    BY <1>5, <2>1 DEF Good, Greeting, CallInv, Channel
  <2>. QED BY <1>4, <1>5, <2>2
<1>6. CASE create \/ connect \/ send_result
  <2>1. UNCHANGED allVars
    BY <1>6 DEF create, connect, send_result
  <2>. QED BY <1>3, <2>1 DEF allVars, vars
<1>7. CASE connect_starttls
  <2>1. at = "idle" /\ starttls /\ phase = "connect" /\ UNCHANGED serverVars
    BY <1>7 DEF connect_starttls
  <2>2. \A i \in New : wrote'[i].verb = "STARTTLS"
    <3>1. CASE wrote' = wrote
      BY <1>0, <3>1 DEF New
    <3>2. CASE WriteThen("StartTls", <<>>, Say("STARTTLS"), "starttls")
      <4>1. sec \in {"plain", "tls"}
        BY <1>0, <2>1, TypeSplit, ActiveChannel DEF starttls, Control
      <4>2. Command("STARTTLS", sec, 0, 0) \in Commands
        BY <4>1, CommandType DEF Verbs
      <4>3. Command("STARTTLS", sec, 0, 0).verb = "STARTTLS"
        BY DEF Command
      <4>. QED BY <1>0, <3>2, <4>2, <4>3, WriteOne DEF Say
    <3>. QED BY <2>1, <3>1, <3>2 DEF starttls, Fail
  <2>. QED BY <1>4, <2>1, <2>2 DEF Client, Call, Running
<1>8. CASE call_login \/ call_send_mail \/ call_quit
  <2>1. Call /\ UNCHANGED serverVars /\ phase \in Running /\ sec' = sec
    BY <1>8 DEF call_login, Connected, call_send_mail, call_quit, Call, Running, login, login_with,
                invalid_input, send_mail, quit, tlsVars
  <2>2. implicit \/ wantTls
    BY <1>8 DEF call_login, Connected, call_send_mail, call_quit, CallInv, Channel
  <2>. QED BY <1>5, <2>1, <2>2 DEF Client, CallInv, Handshaken
<1>9. CASE give_up
  BY <1>3, <1>9 DEF give_up, Drop, vars
<1>10. CASE run_client
  <2>1. Resume /\ phase \in Running /\ UNCHANGED serverVars
    BY <1>10 DEF run_client, Running
  <2>2. sec' = "tls" => signer \in TrustedRoots
    <3>1. CASE at = "upgrade"
      BY <1>10, <3>1 DEF run_client
    <3>2. CASE at # "upgrade"
      BY <1>0, <2>1, <3>2, ResumeStep DEF CallInv, Handshaken
    <3>. QED BY <3>1, <3>2
  <2>3. CASE at # "idle" /\ at # "gone"
    BY <1>5, <2>1, <2>2, <2>3 DEF Client, CallInv, Channel, AtPhase, Running
  <2>4. at # "idle" /\ at # "gone"
    BY <1>0, <2>1, ResumeStep DEF Resumed, Onward, Errs, RefusedLogin, Returns, Accepted, Quits,
                                  Greeting, Upgrading, LoggingIn, Sending, Quitting
  <2>. QED BY <2>3, <2>4
<1>11. CASE Server \/ Closes \/ Faults
  BY <1>3, <1>11, PeerStep
<1>12. CASE UNCHANGED everything \/ Returned
  BY <1>3, <1>12 DEF Returned, everything, allVars, vars
<1>. QED BY <1>6, <1>7, <1>8, <1>9, <1>10, <1>11, <1>12 DEF CNext, Guest
-----------------------------------------------------------------------------
(* A server that follows the protocol opens its queue to no message that   *)
(* was not announced with MAIL and at least one recipient.                 *)
LEMMA EnvelopesStep ==
    ASSUME ServerOK, Envelopes, [SysNext]_allVars
    PROVE  Envelopes'
<1>1. CASE UNCHANGED <<mode, open, accepted, queue>>
  BY <1>1 DEF Envelopes
<1>2. CASE Serve /\ ~ServeBody
  BY <1>2 DEF Serve, Greet, Refuses, ServeEhlo, ServeStartTls, ServeAuth, ServeMail, ServeRcpt,
              ServeData, ServeText, ServeQuit, ServeTorn, Reads, Envelopes
<1>3. CASE ServeBody
  <2>1. mode = "data" /\ mode' = "command" /\ accepted' = {} /\ open # 0
    BY <1>3 DEF ServeBody, Reads, Envelopes
  <2>2. \A j \in 1..Len(queue') : queue'[j].msg # 0
    <3>1. CASE UNCHANGED queue
      BY <3>1 DEF Envelopes
    <3>. DEFINE q == [msg |-> open, body |-> Cmd.msg, to |-> accepted, want |-> Cmd.arg]
    <3>2. CASE queue' = Append(queue, q)
      <4>1. Len(queue) \in Nat /\ q.msg = open
        BY LenProperties DEF ServerOK
      <4>. HIDE DEF q
      <4>2. /\ Len(queue') = Len(queue) + 1 /\ queue'[Len(queue) + 1] = q
            /\ \A j \in 1..Len(queue) : queue'[j] = queue[j]
        BY <3>2, <4>1 DEF ServerOK
      <4>. QED BY <2>1, <4>1, <4>2 DEF Envelopes
    <3>. QED BY <1>3, <3>1, <3>2 DEF ServeBody
  <2>. QED BY <2>1, <2>2 DEF Envelopes
<1>4. CASE HangsUp
  BY <1>4 DEF HangsUp, Envelopes
<1>. QED BY <1>1, <1>2, <1>3, <1>4 DEF SysNext, Breaks, ServerCloses, serverVars, allVars

(* The invariant of a component's call, and of the system inside it. *)
CInv == SysInv /\ CallInv /\ Envelopes /\ OnlyToResolved

LEMMA CInvInit == CInit => CInv
<1>. SUFFICES ASSUME CInit PROVE CInv
  OBVIOUS
<1>1. SysInit /\ phase = "create" /\ result = "none" /\ SysInv
  BY SysInvInit DEF CInit
<1>2. /\ nsend = 0 /\ oks = {} /\ mode = "greet" /\ accepted = {} /\ queue = <<>> /\ wrote = <<>>
      /\ (implicit <=> sec = "tls") /\ Len(<<>>) = 0
  BY <1>1, EmptySeq DEF SysInit, Init
<1>3. CallInv
  BY <1>1, <1>2 DEF CallInv, Untouched, AtPhase, Outcome, Reported, Channel, Handshaken, Running
<1>4. Envelopes /\ OnlyToResolved
  BY <1>2 DEF Envelopes, OnlyToResolved
<1>. QED BY <1>1, <1>3, <1>4 DEF CInv

LEMMA CInvStep == CInv /\ [CNext]_everything => CInv'
<1>. SUFFICES ASSUME CInv, [CNext]_everything PROVE CInv'
  OBVIOUS
<1>1. SysInv /\ Local /\ ServerOK /\ TypeOK /\ Control /\ CallInv /\ Envelopes /\ OnlyToResolved
  BY DEF CInv, SysInv, Local, Ledger
<1>2. [SysNext]_allVars
  BY SystemStep
<1>3. SysInv'
  BY <1>1, <1>2, SysInvStep
<1>4. CallInv'
  BY <1>1, CallStep
<1>5. Envelopes'
  BY <1>1, <1>2, EnvelopesStep
<1>6. OnlyToResolved'
  BY <1>1, ResolvedStep
<1>. QED BY <1>3, <1>4, <1>5, <1>6 DEF CInv

LEMMA CallInvariant == CSpec => []CInv
  BY CInvInit, CInvStep, PTL DEF CSpec

(* send_impl reports Ok exactly when the server accepted: no failure of     *)
(* QUIT, of its reply or of the close hides an accepted message.            *)
THEOREM AcceptedIsAlwaysReported == CSpec => []AcceptedIsReported
<1>1. CInv => AcceptedIsReported
  BY DEF CInv, CallInv, Reported, AcceptedIsReported
<1>. QED BY <1>1, CallInvariant, PTL

(* Every login, message and QUIT that leaves the component goes over TLS to *)
(* a server behind the roots that create made of the trust argument: the    *)
(* bundled ones, or the store of parse_custom and nothing else.             *)
THEOREM TrustIsEnforced == CSpec => []OnlyToResolved
<1>1. CInv => OnlyToResolved
  BY DEF CInv
<1>. QED BY <1>1, CallInvariant, PTL
-----------------------------------------------------------------------------
(* There is at most one message to hold, and none without a transaction.   *)
OneMessage ==
    /\ Len(queue) \in {0, 1} /\ nsend \in {0, 1}
    /\ nsend = 0 => Len(queue) = 0
    /\ oks # {} => Len(queue) = 1

LEMMA AtMostOne == CInv => OneMessage
<1>. SUFFICES ASSUME CInv PROVE OneMessage
  OBVIOUS
<1>0. /\ ServerOK /\ QueuedIsComplete /\ OkMeansQueued /\ Envelopes /\ TypeOK /\ nsend <= 1
      /\ Len(queue) \in Nat /\ nsend \in Nat
  BY LenProperties, BoundsAssumption
     DEF CInv, SysInv, Local, Ledger, CallInv, Reported, ServerOK, TypeOK
<1>1. \A j \in 1..Len(queue) : queue[j].msg \in Nat
  <2>1. \A j \in 1..Len(queue) : queue[j] \in Queued
    BY <1>0, ElementOfSeq DEF ServerOK
  <2>. QED BY <2>1 DEF Queued
<1>2. \A j \in 1..Len(queue) : 1 <= queue[j].msg /\ queue[j].msg <= nsend
  BY <1>0, <1>1 DEF ServerOK, Envelopes
<1>3. \A j \in 1..Len(queue) : nsend = 1 /\ queue[j].msg = 1
  BY <1>0, <1>1, <1>2
<1>4. Len(queue) <= 1
  <2>1. ASSUME Len(queue) > 1 PROVE FALSE
    <3>1. 1 \in 1..Len(queue) /\ 2 \in 1..Len(queue)
      BY <1>0, <2>1
    <3>2. queue[1].msg = queue[2].msg
      BY <1>3, <3>1
    <3>. QED BY <1>0, <3>1, <3>2 DEF QueuedIsComplete
  <2>. QED BY <1>0, <2>1
<1>5. nsend = 0 => Len(queue) = 0
  <2>1. ASSUME nsend = 0, Len(queue) # 0 PROVE FALSE
    <3>1. 1 \in 1..Len(queue)
      BY <1>0, <2>1
    <3>. QED BY <1>3, <2>1, <3>1
  <2>. QED BY <2>1
<1>6. oks # {} => Len(queue) = 1
  <2>1. ASSUME oks # {} PROVE Len(queue) # 0
    <3>1. PICK m \in oks : TRUE
      BY <2>1
    <3>2. PICK j \in 1..Len(queue) : queue[j].body = m
      BY <1>0, <3>1 DEF OkMeansQueued
    <3>. QED BY <1>0, <3>2
  <2>2. Len(queue) \in Nat
    BY <1>0
  <2>3. Len(queue) # 0 => Len(queue) = 1
    BY <1>4, <2>2
  <2>. QED BY <2>1, <2>3
<1>. QED BY <1>0, <1>4, <1>5, <1>6 DEF OneMessage

LEMMA AtMostOneNext == CInv' => OneMessage'
  BY AtMostOne, PTL


(* Every step is one of Delivery, or none. *)
LEMMA DeliveryStep ==
    ASSUME CInv, CInv', [CNext]_everything
    PROVE  [D!Next]_(D!deliveryVars)
<1>0. /\ Len(queue) \in {0, 1} /\ Len(queue') \in {0, 1} /\ nsend \in {0, 1}
      /\ nsend = 0 => Len(queue) = 0
      /\ oks # {} => Len(queue) = 1
      /\ nsend' = 0 => Len(queue') = 0
      /\ oks' # {} => Len(queue') = 1
  BY AtMostOne, AtMostOneNext DEF OneMessage
<1>1. /\ Reported /\ Reported' /\ Outcome /\ AtPhase /\ ServerOK
  BY DEF CInv, SysInv, Ledger, CallInv
<1>v. /\ result = "none" => Verdict = "pending"
      /\ result = "ok" => Verdict = "sent"
      /\ result \in {"io", "protocol"} => Verdict = "unknown"
      /\ result \notin {"none", "ok", "io", "protocol"} => Verdict = "refused"
  BY DEF Verdict
<1>w. /\ result' = "none" => Verdict' = "pending"
      /\ result' = "ok" => Verdict' = "sent"
      /\ result' \in {"io", "protocol"} => Verdict' = "unknown"
      /\ result' \notin {"none", "ok", "io", "protocol"} => Verdict' = "refused"
  BY DEF Verdict
<1>. HIDE DEF Verdict
<1>2. CASE UNCHANGED <<queue, result>>
  <2>1. Verdict' = Verdict
    BY <1>2 DEF Verdict
  <2>. QED BY <1>2, <2>1 DEF D!deliveryVars
<1>3. CASE Server /\ ServeBody
  <2>1. UNCHANGED <<nsend, oks, result, phase>>
    BY <1>3, PeerStep
  <2>2. CASE UNCHANGED queue
    BY <1>2, <2>1, <2>2
  <2>3. CASE Len(queue') = Len(queue) + 1
    <3>1. Len(queue) = 0 /\ Len(queue') = 1
      BY <1>0, <2>3
    <3>2. nsend # 0 /\ oks = {}
      BY <1>0, <2>1, <3>1
    <3>3. Verdict \in {"pending", "unknown"} /\ Verdict' = Verdict
      BY <1>1, <1>v, <1>w, <2>1, <3>2 DEF Reported
    <3>. QED BY <3>1, <3>3 DEF D!Next, D!Take
  <2>4. UNCHANGED queue \/ Len(queue') = Len(queue) + 1
    <3>1. ASSUME NEW q, queue' = Append(queue, q) PROVE Len(queue') = Len(queue) + 1
      BY <1>1, <3>1, LenProperties DEF ServerOK
    <3>. QED BY <1>3, <3>1 DEF ServeBody
  <2>. QED BY <2>2, <2>3, <2>4
<1>4. CASE (Server /\ ~ServeBody) \/ Closes \/ Faults
  <2>1. result' = result
    BY <1>4, PeerStep
  <2>2. queue' = queue
    BY <1>4
       DEF Server, Closes, Faults, Breaks, ServerCloses, HangsUp, Serve, Greet, Refuses, ServeEhlo,
           ServeStartTls, ServeAuth, ServeMail, ServeRcpt, ServeData, ServeText, ServeQuit, ServeTorn
  <2>. QED BY <1>2, <2>1, <2>2
<1>5. ASSUME NEW r, Return(r), phase # "returned", r # "none", UNCHANGED serverVars,
             r = "ok" => oks # {},
             r \notin {"ok", "io", "protocol"} => nsend = 0
      PROVE  [D!Next]_(D!deliveryVars)
  <2>1. result = "none" /\ result' = r /\ queue' = queue
    BY <1>1, <1>5 DEF Return, serverVars, Reported
  <2>2. CASE r = "ok"
    BY <1>0, <1>5, <1>v, <1>w, <2>1, <2>2 DEF D!Next, D!TellSent
  <2>3. CASE r \in {"io", "protocol"}
    BY <1>0, <1>v, <1>w, <2>1, <2>3 DEF D!Next, D!TellUnknown
  <2>4. CASE r \notin {"ok", "io", "protocol"}
    BY <1>0, <1>5, <1>v, <1>w, <2>1, <2>4 DEF D!Next, D!TellRefused
  <2>. QED BY <2>2, <2>3, <2>4
<1>6. CASE create
  <2>1. phase = "create" /\ nsend = 0 /\ UNCHANGED serverVars
    BY <1>1, <1>6 DEF create, Reported, allVars
  <2>2. CASE Return("invalid-input")
    BY <1>5, <2>1, <2>2
  <2>3. CASE UNCHANGED result
    BY <1>2, <2>1, <2>3 DEF serverVars
  <2>. QED BY <1>6, <2>2, <2>3 DEF create, validate
<1>7. CASE connect
  <2>1. phase = "dial" /\ UNCHANGED serverVars
    BY <1>7 DEF connect, allVars
  <2>2. CASE Return("io")
    BY <1>5, <2>1, <2>2
  <2>3. CASE UNCHANGED result
    BY <1>2, <2>1, <2>3 DEF serverVars
  <2>. QED BY <1>7, <2>2, <2>3 DEF connect, GoTo
<1>8. CASE connect_starttls \/ call_login \/ call_send_mail \/ call_quit \/ run_client
  <2>1. UNCHANGED <<queue, result>>
    BY <1>8 DEF connect_starttls, call_login, call_send_mail, call_quit, run_client, GoTo,
                serverVars, componentVars
  <2>. QED BY <1>2, <2>1
<1>9. CASE give_up
  <2>1. /\ phase \in {"connect", "upgrade", "login", "send"} /\ UNCHANGED serverVars
        /\ (at = "idle" /\ ret # "ok") \/ at = "gone"
        /\ Return(smtp_error_to_wit(ret))
    BY <1>9 DEF give_up
  <2>2. ret \in {"Io", "Protocol"} \/ (ret \in {"Auth", "InvalidInput"} /\ nsend = 0)
    BY <1>1, <2>1 DEF AtPhase, Outcome, Reported, Greeting, Upgrading, LoggingIn, Sending
  <2>3. /\ ret \in {"Io", "Protocol"} => smtp_error_to_wit(ret) \in {"io", "protocol"}
        /\ ret \in {"Auth", "InvalidInput"} => smtp_error_to_wit(ret) \in {"auth-rejected", "invalid-input"}
    BY DEF smtp_error_to_wit
  <2>. QED BY <1>5, <2>1, <2>2, <2>3
<1>10. CASE send_result
  <2>1. phase = "quit" /\ oks # {} /\ UNCHANGED serverVars /\ Return("ok")
    BY <1>1, <1>10 DEF send_result, Reported, allVars
  <2>. QED BY <1>5, <2>1
<1>11. CASE UNCHANGED everything \/ Returned
  <2>1. UNCHANGED <<queue, result>>
    BY <1>11 DEF Returned, everything, allVars, serverVars, componentVars
  <2>. QED BY <1>2, <2>1
<1>. QED BY <1>3, <1>4, <1>6, <1>7, <1>8, <1>9, <1>10, <1>11 DEF CNext, Guest

(* The component's send keeps its promise (Delivery): the message is handed *)
(* over at most once, ok means that the server holds it, and an error that  *)
(* is neither io nor protocol that it neither holds nor will take it.       *)
THEOREM ComponentDelivers == CSpec => Delivers
<1>1. CInit => D!Init
  <2>. SUFFICES ASSUME CInit PROVE D!Init
    OBVIOUS
  <2>1. queue = <<>> /\ result = "none"
    BY DEF CInit, SysInit
  <2>2. Len(queue) = 0 /\ Verdict = "pending"
    BY <2>1 DEF Verdict
  <2>. QED BY <2>2 DEF D!Init
<1>2. CInv /\ CInv' /\ [CNext]_everything => [D!Next]_(D!deliveryVars)
  BY DeliveryStep
<1>. QED BY <1>1, <1>2, CallInvariant, PTL DEF CSpec, Delivers, D!Spec
-----------------------------------------------------------------------------
(***************************************************************************)
(* What parse_custom makes of a text, for any number of lines: all of its  *)
(* certificates or nothing.                                                *)
(***************************************************************************)

(* An induction over the naturals, for a set. *)
LEMMA SetInduction ==
    ASSUME NEW T, 0 \in T, \A k \in T : k + 1 \in T
    PROVE  Nat \subseteq T
<1> SUFFICES ASSUME Nat \ T # {} PROVE FALSE
  OBVIOUS
<1>1. PICK i \in Nat \ T : \A j \in Nat \ T : ~(<<j, i>> \in OpToRel(<, Nat))
  BY NatLessThanWellFounded, WFMin
<1>2. \A j \in Nat \ T : ~(j < i)
  BY <1>1 DEF OpToRel
<1>3. i # 0 /\ i \in Nat
  BY <1>1
<1>4. i - 1 \in Nat /\ i - 1 < i /\ (i - 1) + 1 = i
  BY <1>3
<1>5. i - 1 \in T
  BY <1>2, <1>4
<1> QED
  BY <1>1, <1>4, <1>5

(* The loop over the first k lines, as a function of the lines read. *)
Unfolds(lines, k, g) ==
    g = [n \in 0..k |-> IF n = 0 THEN Anchors!Start ELSE Anchors!ScanLine(g[n - 1], lines[n])]
Scan(lines) == CHOOSE g : Unfolds(lines, Len(lines), g)

LEMMA ScanExists == ASSUME NEW lines, NEW m \in Nat PROVE \E g : Unfolds(lines, m, g)
<1> DEFINE T == {k \in Nat : \E g : Unfolds(lines, k, g)}
<1>1. 0 \in T
  <2> DEFINE g == [n \in 0..0 |-> Anchors!Start]
  <2>1. g = [n \in 0..0 |-> IF n = 0 THEN Anchors!Start ELSE Anchors!ScanLine(g[n - 1], lines[n])]
    OBVIOUS
  <2> HIDE DEF g
  <2> QED
    BY <2>1 DEF Unfolds
<1>2. ASSUME NEW k \in T PROVE k + 1 \in T
  <2>1. k \in Nat /\ \E g : Unfolds(lines, k, g)
    OBVIOUS
  <2>2. PICK g : Unfolds(lines, k, g)
    BY <2>1
  <2> DEFINE h == [n \in 0..(k + 1) |->
                      IF n = k + 1 THEN Anchors!ScanLine(g[k], lines[k + 1]) ELSE g[n]]
             F == [n \in 0..(k + 1) |->
                      IF n = 0 THEN Anchors!Start ELSE Anchors!ScanLine(h[n - 1], lines[n])]
  <2>3. ASSUME NEW n \in 0..(k + 1) PROVE h[n] = F[n]
    <3>1. CASE n = k + 1
      <4>1. n - 1 = k /\ n # 0 /\ k \in 0..(k + 1) /\ k # k + 1
        BY <2>1, <3>1
      <4>2. h[k] = g[k]
        BY <4>1
      <4>3. h[n] = Anchors!ScanLine(g[k], lines[n])
        BY <3>1
      <4>4. F[n] = Anchors!ScanLine(h[n - 1], lines[n])
        BY <4>1
      <4> QED
        BY <4>1, <4>2, <4>3, <4>4
    <3>2. CASE n = 0
      BY <2>1, <2>2, <3>2 DEF Unfolds
    <3>3. CASE n \in 1..k
      <4>1. n # 0 /\ n # k + 1 /\ n \in 0..k /\ n - 1 \in 0..(k + 1) /\ n - 1 # k + 1
        BY <2>1, <3>3
      <4>2. h[n] = g[n] /\ h[n - 1] = g[n - 1]
        BY <4>1
      <4>3. g[n] = Anchors!ScanLine(g[n - 1], lines[n])
        BY <2>2, <4>1 DEF Unfolds
      <4>4. F[n] = Anchors!ScanLine(h[n - 1], lines[n])
        BY <4>1
      <4> QED
        BY <4>2, <4>3, <4>4
    <3> QED
      BY <2>1, <3>1, <3>2, <3>3
  <2>4. h = F
    BY <2>3
  <2>5. Unfolds(lines, k + 1, h)
    BY <2>4 DEF Unfolds
  <2> HIDE DEF h
  <2> QED
    BY <2>1, <2>5
<1> HIDE DEF T
<1>3. m \in T
  BY <1>1, <1>2, SetInduction
<1> QED
  BY <1>3 DEF T

LEMMA ScanTurns ==
    ASSUME NEW lines, Len(lines) \in Nat
    PROVE  /\ Scan(lines)[0] = Anchors!Start
           /\ \A n \in 1..Len(lines) :
                 Scan(lines)[n] = Anchors!ScanLine(Scan(lines)[n - 1], lines[n])
           /\ Anchors!ScanLines(lines) = Scan(lines)[Len(lines)]
<1> DEFINE g == Scan(lines)
<1>1. Unfolds(lines, Len(lines), g)
  BY ScanExists DEF Scan
<1>2. Anchors!ScanLines(lines) = g[Len(lines)]
  BY Zenon DEF Anchors!ScanLines, Scan, Unfolds
<1> HIDE DEF g
<1>3. g = [n \in 0..Len(lines) |->
              IF n = 0 THEN Anchors!Start ELSE Anchors!ScanLine(g[n - 1], lines[n])]
  BY <1>1 DEF Unfolds
<1>4. g[0] = Anchors!Start
  BY <1>3
<1>5. ASSUME NEW n \in 1..Len(lines) PROVE g[n] = Anchors!ScanLine(g[n - 1], lines[n])
  <2>1. n \in 0..Len(lines) /\ n # 0
    OBVIOUS
  <2> QED
    BY <1>3, <2>1
<1> QED
  BY <1>2, <1>4, <1>5 DEF g

(* One line that is not refused: text, the end of a good block, a comment, *)
(* or the beginning of a block.                                            *)
IsState(s) == /\ DOMAIN s = {"blocks", "open", "body", "store", "error"}
              /\ s.open \in BOOLEAN /\ s.blocks \in Nat
LineTaken(s, l, t) ==
    \/ /\ s.open /\ l[1] = "text"
       /\ t.open = TRUE /\ t.body = Append(s.body, l[2]) /\ t.store = s.store
    \/ /\ s.open /\ l = <<"end">> /\ Len(s.body) = 1 /\ s.body[1] \in Certificates
       /\ t.open = FALSE /\ t.body = s.body /\ t.store = s.store \union {s.body[1]}
    \/ /\ ~s.open /\ l[1] = "text" /\ t = s
    \/ /\ ~s.open /\ l = <<"begin", "CERTIFICATE">>
       /\ t.open = TRUE /\ t.body = <<>> /\ t.store = s.store

LEMMA LineStep ==
    ASSUME NEW s, IsState(s), NEW l, Anchors!IsLine(l)
    PROVE  LET t == Anchors!ScanLine(s, l)
           IN /\ IsState(t)
              /\ s.error # <<>> => t = s
              /\ s.error = <<>> /\ t.error = <<>> => LineTaken(s, l, t)
<1> DEFINE t == Anchors!ScanLine(s, l)
<1>1. ASSUME NEW b, NEW r
      PROVE  IsState(Anchors!Failed(s, b, r)) /\ Anchors!Failed(s, b, r).error # <<>>
  BY DEF IsState, Anchors!Failed, Anchors!At
<1>2. l[1] \in {"text", "begin", "end", "misplaced"}
  BY DEF Anchors!IsLine
<1>3. CASE s.error # <<>>
  BY <1>3 DEF Anchors!ScanLine, Anchors!NoError
<1>4. CASE s.error = <<>> /\ s.open
  <2>0. t = Anchors!InsideLine(s, l)
    BY <1>4 DEF Anchors!ScanLine, Anchors!NoError
  <2>1. CASE l[1] = "text"
    <3>1. t = [s EXCEPT !.body = Append(@, l[2])]
      BY <2>0, <2>1 DEF Anchors!InsideLine
    <3> QED
      BY <1>4, <2>1, <3>1 DEF IsState, LineTaken
  <2>2. CASE l[1] = "end"
    <3>0. t = Anchors!EndBlock(s) /\ l = <<"end">>
      BY <2>0, <2>2 DEF Anchors!InsideLine, Anchors!IsLine
    <3>1. CASE Anchors!DecodesBase64(s.body) /\ Anchors!RootStoreTakes(s.body)
      <4>1. t = [s EXCEPT !.open = FALSE, !.store = @ \union {s.body[1]}]
        BY <3>0, <3>1 DEF Anchors!EndBlock
      <4>2. Len(s.body) = 1 /\ s.body[1] \in Certificates
        BY <3>1 DEF Anchors!RootStoreTakes
      <4>3. IsState(t) /\ t.open = FALSE /\ t.body = s.body /\ t.store = s.store \union {s.body[1]}
        BY <4>1 DEF IsState
      <4> QED
        BY <1>4, <3>0, <4>2, <4>3 DEF LineTaken
    <3>2. CASE ~(Anchors!DecodesBase64(s.body) /\ Anchors!RootStoreTakes(s.body))
      <4>1. \E b, r : t = Anchors!Failed(s, b, r)
        BY <3>0, <3>2 DEF Anchors!EndBlock
      <4> QED
        BY <1>1, <1>4, <4>1
    <3> QED
      BY <3>1, <3>2
  <2>3. CASE l[1] \notin {"text", "end"}
    <3>1. \E b, r : t = Anchors!Failed(s, b, r)
      BY <2>0, <2>3 DEF Anchors!InsideLine
    <3> QED
      BY <1>1, <1>4, <3>1
  <2> QED
    BY <2>1, <2>2, <2>3
<1>5. CASE s.error = <<>> /\ ~s.open
  <2>0. t = Anchors!OutsideLine(s, l)
    BY <1>5 DEF Anchors!ScanLine, Anchors!NoError
  <2>1. CASE l[1] = "text"
    <3>1. t = s
      BY <2>0, <2>1 DEF Anchors!OutsideLine
    <3> QED
      BY <1>5, <2>1, <3>1 DEF LineTaken
  <2>2. CASE l[1] = "begin" /\ l[2] = "CERTIFICATE" /\ ~(s.blocks >= 64)
    <3>0. l = <<"begin", "CERTIFICATE">>
      BY <2>2 DEF Anchors!IsLine
    <3>1. t = [s EXCEPT !.blocks = @ + 1, !.open = TRUE, !.body = <<>>]
      BY <2>0, <2>2 DEF Anchors!OutsideLine
    <3>2. IsState(t) /\ t.open = TRUE /\ t.body = <<>> /\ t.store = s.store
      BY <3>1 DEF IsState
    <3> QED
      BY <1>5, <3>0, <3>2 DEF LineTaken
  <2>3. CASE l[1] \in {"end", "misplaced"} \/ (l[1] = "begin" /\ (l[2] # "CERTIFICATE" \/ s.blocks >= 64))
    <3>1. CASE l[1] \in {"end", "misplaced"}
      <4>1. t = Anchors!Failed(s, s.blocks + 1, "MisplacedBoundary")
        BY <2>0, <3>1 DEF Anchors!OutsideLine
      <4> QED
        BY <1>1, <1>5, <4>1
    <3>2. CASE l[1] = "begin" /\ s.blocks >= 64
      <4>1. t = Anchors!Failed(s, s.blocks + 1, "TooManyBlocks")
        BY <2>0, <3>2 DEF Anchors!OutsideLine, IsState
      <4> QED
        BY <1>1, <1>5, <4>1
    <3>3. CASE l[1] = "begin" /\ ~(s.blocks >= 64) /\ l[2] # "CERTIFICATE"
      <4>1. t = Anchors!Failed(s, s.blocks + 1, "NotACertificate")
        BY <2>0, <3>3 DEF Anchors!OutsideLine, IsState
      <4> QED
        BY <1>1, <1>5, <4>1
    <3> QED
      BY <2>3, <3>1, <3>2, <3>3
  <2> QED
    BY <1>2, <2>1, <2>2, <2>3
<1> QED
  BY <1>3, <1>4, <1>5 DEF IsState

(* The state after n lines: the store holds what follows every BEGIN of a  *)
(* certificate, but for the block that is open, whose body is what has     *)
(* been read behind its own.                                               *)
Begun(lines, n) == {j \in 1..n : lines[j] = <<"begin", "CERTIFICATE">>}
After(lines, J) == {lines[j + 1][2] : j \in J}
Scanned(lines, n, s) ==
    /\ IsState(s)
    /\ s.error = <<>> =>
          /\ s.store \subseteq Certificates
          /\ ~s.open => n \notin Begun(lines, n) /\ s.store = After(lines, Begun(lines, n))
          /\ s.open =>
                \E j \in Begun(lines, n) :
                    /\ s.body \in Seq({lines[i][2] : i \in 1..Len(lines)})
                    /\ Len(s.body) = n - j
                    /\ \A i \in 1..(n - j) : s.body[i] = lines[j + i][2]
                    /\ s.store = After(lines, Begun(lines, n) \ {j})

LEMMA ScanStep ==
    ASSUME NEW lines, Len(lines) \in Nat, \A i \in 1..Len(lines) : Anchors!IsLine(lines[i]),
           NEW n \in Nat, n < Len(lines), NEW s, Scanned(lines, n, s)
    PROVE  Scanned(lines, n + 1, Anchors!ScanLine(s, lines[n + 1]))
<1> DEFINE l == lines[n + 1]
           t == Anchors!ScanLine(s, l)
           X == {lines[i][2] : i \in 1..Len(lines)}
<1>1. IsState(t) /\ (s.error # <<>> => t = s) /\ (s.error = <<>> /\ t.error = <<>> => LineTaken(s, l, t))
  <2>1. IsState(s) /\ Anchors!IsLine(l)
    BY DEF Scanned
  <2> QED
    BY <2>1, LineStep
<1> HIDE DEF t
<1> SUFFICES ASSUME t.error = <<>>
             PROVE  /\ t.store \subseteq Certificates
                    /\ ~t.open => /\ n + 1 \notin Begun(lines, n + 1)
                                  /\ t.store = After(lines, Begun(lines, n + 1))
                    /\ t.open =>
                          \E j \in Begun(lines, n + 1) :
                              /\ t.body \in Seq(X)
                              /\ Len(t.body) = (n + 1) - j
                              /\ \A i \in 1..((n + 1) - j) : t.body[i] = lines[j + i][2]
                              /\ t.store = After(lines, Begun(lines, n + 1) \ {j})
  BY <1>1 DEF Scanned, t
<1>2. s.error = <<>> /\ LineTaken(s, l, t)
  BY <1>1
<1>3. l # <<"begin", "CERTIFICATE">> =>
          Begun(lines, n + 1) = Begun(lines, n) /\ n + 1 \notin Begun(lines, n + 1)
  BY DEF Begun
<1>4. l = <<"begin", "CERTIFICATE">> =>
          Begun(lines, n + 1) = Begun(lines, n) \union {n + 1} /\ n + 1 \notin Begun(lines, n)
  BY DEF Begun
<1>5. s.open \in BOOLEAN /\ t.open \in BOOLEAN
  BY <1>1 DEF IsState, Scanned
<1>6. CASE s.open /\ l[1] = "text" /\ t.open = TRUE /\ t.body = Append(s.body, l[2]) /\ t.store = s.store
  <2>1. PICK j \in Begun(lines, n) :
            /\ s.body \in Seq(X) /\ Len(s.body) = n - j
            /\ \A i \in 1..(n - j) : s.body[i] = lines[j + i][2]
            /\ s.store = After(lines, Begun(lines, n) \ {j})
    BY <1>2, <1>6 DEF Scanned
  <2>2. l # <<"begin", "CERTIFICATE">>
    BY <1>6
  <2>3. j \in Nat /\ j <= n /\ l[2] \in X
    BY DEF Begun
  <2>4. /\ t.body \in Seq(X) /\ Len(t.body) = (n + 1) - j
        /\ \A i \in 1..(n - j) : t.body[i] = s.body[i]
        /\ t.body[(n - j) + 1] = l[2]
    <3>1. /\ Append(s.body, l[2]) \in Seq(X) /\ Len(Append(s.body, l[2])) = Len(s.body) + 1
          /\ \A i \in 1..Len(s.body) : Append(s.body, l[2])[i] = s.body[i]
          /\ Append(s.body, l[2])[Len(s.body) + 1] = l[2]
      <4> HIDE DEF X, l
      <4> QED
        BY <2>1, <2>3
    <3>2. (n - j) + 1 = (n + 1) - j
      BY <2>3
    <3> QED
      BY <1>6, <2>1, <3>1, <3>2
  <2>5. ASSUME NEW i \in 1..((n + 1) - j) PROVE t.body[i] = lines[j + i][2]
    <3>1. CASE i \in 1..(n - j)
      BY <2>1, <2>4, <3>1
    <3>2. CASE i = (n - j) + 1
      <4>1. j + i = n + 1
        BY <2>3, <3>2
      <4> QED
        BY <2>4, <3>2, <4>1
    <3> QED
      BY <2>3, <3>1, <3>2
  <2>6. t.store \subseteq Certificates
    BY <1>2, <1>6 DEF Scanned
  <2> QED
    BY <1>3, <1>6, <2>1, <2>2, <2>4, <2>5, <2>6
<1>7. CASE /\ s.open /\ l = <<"end">> /\ Len(s.body) = 1 /\ s.body[1] \in Certificates
           /\ t.open = FALSE /\ t.body = s.body /\ t.store = s.store \union {s.body[1]}
  <2>1. PICK j \in Begun(lines, n) :
            /\ Len(s.body) = n - j
            /\ \A i \in 1..(n - j) : s.body[i] = lines[j + i][2]
            /\ s.store = After(lines, Begun(lines, n) \ {j})
    BY <1>2, <1>7 DEF Scanned
  <2>2. l # <<"begin", "CERTIFICATE">>
    BY <1>7
  <2>3. s.body[1] = lines[j + 1][2]
    <3>1. 1 \in 1..(n - j)
      BY <1>7, <2>1
    <3> QED
      BY <2>1, <3>1
  <2>4. t.store = After(lines, Begun(lines, n))
    BY <1>7, <2>1, <2>3 DEF After
  <2>5. t.store \subseteq Certificates
    BY <1>2, <1>7 DEF Scanned
  <2> QED
    BY <1>3, <1>7, <2>2, <2>4, <2>5
<1>8. CASE ~s.open /\ l[1] = "text" /\ t = s
  <2>1. l # <<"begin", "CERTIFICATE">>
    BY <1>8
  <2> QED
    BY <1>2, <1>3, <1>8, <2>1 DEF Scanned
<1>9. CASE /\ ~s.open /\ l = <<"begin", "CERTIFICATE">>
           /\ t.open = TRUE /\ t.body = <<>> /\ t.store = s.store
  <2>1. s.store = After(lines, Begun(lines, n)) /\ s.store \subseteq Certificates
    BY <1>2, <1>9 DEF Scanned
  <2>2. n + 1 \in Begun(lines, n + 1) /\ Begun(lines, n + 1) \ {n + 1} = Begun(lines, n)
    BY <1>4, <1>9
  <2>3. t.body \in Seq(X) /\ Len(t.body) = 0 /\ (n + 1) - (n + 1) = 0 /\ 1..0 = {}
    <3> HIDE DEF X
    <3> QED
      BY <1>9
  <2>4. /\ t.body \in Seq(X) /\ Len(t.body) = (n + 1) - (n + 1)
        /\ \A i \in 1..((n + 1) - (n + 1)) : t.body[i] = lines[(n + 1) + i][2]
        /\ t.store = After(lines, Begun(lines, n + 1) \ {n + 1})
    BY <1>9, <2>1, <2>2, <2>3
  <2> QED
    BY <1>9, <2>1, <2>2, <2>4
<1> QED
  BY <1>2, <1>6, <1>7, <1>8, <1>9 DEF LineTaken

LEMMA ScanInvariant ==
    ASSUME NEW lines, Len(lines) \in Nat, \A i \in 1..Len(lines) : Anchors!IsLine(lines[i])
    PROVE  Scanned(lines, Len(lines), Anchors!ScanLines(lines))
<1> DEFINE g == Scan(lines)
           T == {k \in Nat : k <= Len(lines) => Scanned(lines, k, g[k])}
<1>1. /\ g[0] = Anchors!Start /\ Anchors!ScanLines(lines) = g[Len(lines)]
      /\ \A n \in 1..Len(lines) : g[n] = Anchors!ScanLine(g[n - 1], lines[n])
  BY ScanTurns
<1> HIDE DEF g
<1>2. 0 \in T
  <2>1. IsState(Anchors!Start) /\ Anchors!Start.open = FALSE /\ Anchors!Start.store = {}
    BY DEF Anchors!Start, IsState
  <2>2. Begun(lines, 0) = {} /\ After(lines, {}) = {}
    BY DEF Begun, After
  <2>3. Scanned(lines, 0, Anchors!Start)
    BY <2>1, <2>2 DEF Scanned
  <2> QED
    BY <1>1, <2>3
<1>3. ASSUME NEW k \in T PROVE k + 1 \in T
  <2>1. k \in Nat /\ (k <= Len(lines) => Scanned(lines, k, g[k]))
    OBVIOUS
  <2>2. ASSUME k + 1 <= Len(lines) PROVE Scanned(lines, k + 1, g[k + 1])
    <3>1. k < Len(lines) /\ Scanned(lines, k, g[k]) /\ k + 1 \in 1..Len(lines) /\ (k + 1) - 1 = k
      BY <2>1, <2>2
    <3>2. g[k + 1] = Anchors!ScanLine(g[k], lines[k + 1])
      BY <1>1, <3>1
    <3> QED
      BY <2>1, <3>1, <3>2, ScanStep
  <2> QED
    BY <2>1, <2>2
<1>4. Len(lines) \in T
  <2> HIDE DEF T
  <2> QED
    BY <1>2, <1>3, SetInduction
<1> QED
  BY <1>1, <1>4
-----------------------------------------------------------------------------
(* The certificates between the boundaries of a text, as in Passed. *)
CertificatesOf(lines) ==
    {lines[i + 1][2] : i \in {j \in 1..(Len(lines) - 1) : lines[j] = <<"begin", "CERTIFICATE">>}}

(* parse_custom takes every certificate of a text, all of them ones the     *)
(* root store takes, or nothing at all: no line a caller passes is skipped  *)
(* and none adds an authority that is not there.                            *)
THEOREM ParserTakesAllOrNothing ==
    \A lines \in Texts, fits \in BOOLEAN :
        LET p == Anchors!parse_custom(lines, fits)
        IN  /\ p.ok => fits /\ p.store = CertificatesOf(lines) /\ p.store \subseteq Certificates
            /\ ~p.ok => p.store = {}
<1> SUFFICES ASSUME NEW lines \in Texts, NEW fits \in BOOLEAN
             PROVE  LET p == Anchors!parse_custom(lines, fits)
                    IN  /\ p.ok => /\ fits /\ p.store = CertificatesOf(lines)
                                   /\ p.store \subseteq Certificates
                        /\ ~p.ok => p.store = {}
  OBVIOUS
<1> DEFINE s == Anchors!ScanLines(lines)
           error == IF ~fits THEN Anchors!At(0, "TooLarge")
                    ELSE IF s.error # <<>> THEN s.error
                    ELSE IF s.open THEN Anchors!At(s.blocks, "Unterminated")
                    ELSE IF s.blocks = 0 THEN Anchors!At(0, "NoCertificates")
                    ELSE <<>>
           p == Anchors!parse_custom(lines, fits)
<1>1. Len(lines) \in Nat /\ \A i \in 1..Len(lines) : Anchors!IsLine(lines[i])
  BY TextsAssumption
<1>2. Scanned(lines, Len(lines), s)
  BY <1>1, ScanInvariant
<1>3. p = [ok |-> error = <<>>, error |-> error, store |-> IF error = <<>> THEN s.store ELSE {}]
  BY DEF Anchors!parse_custom, Anchors!NoError
<1> HIDE DEF s
<1>4. error = <<>> => fits /\ s.error = <<>> /\ ~s.open
  BY DEF Anchors!At
<1> HIDE DEF error, p
<1>5. (p.ok <=> error = <<>>) /\ p.store = IF error = <<>> THEN s.store ELSE {}
  BY <1>3
<1>6. ASSUME error = <<>> PROVE fits /\ s.store = CertificatesOf(lines) /\ s.store \subseteq Certificates
  <2>1. /\ s.store \subseteq Certificates /\ Len(lines) \notin Begun(lines, Len(lines))
        /\ s.store = After(lines, Begun(lines, Len(lines)))
    BY <1>2, <1>4, <1>6 DEF Scanned
  <2>2. Begun(lines, Len(lines))
            = {j \in 1..(Len(lines) - 1) : lines[j] = <<"begin", "CERTIFICATE">>}
    BY <1>1, <2>1 DEF Begun
  <2>3. s.store = CertificatesOf(lines)
    BY <2>1, <2>2 DEF After, CertificatesOf
  <2> QED
    BY <1>4, <1>6, <2>1, <2>3
<1> QED
  BY <1>5, <1>6 DEF p

LEMMA TrustIsGiven == CSpec => [](trust \in TrustArguments)
<1>1. CInit => trust \in TrustArguments
  BY DEF CInit
<1>2. trust \in TrustArguments /\ [CNext]_everything => (trust \in TrustArguments)'
  <2>. SUFFICES ASSUME trust \in TrustArguments, [CNext]_everything PROVE trust' \in TrustArguments'
    OBVIOUS
  <2>1. trust' = trust
    BY PeerStep
       DEF CNext, Guest, create, validate, connect, connect_starttls, call_login, call_send_mail, call_quit,
           give_up, send_result, run_client, Returned, Return, GoTo, everything, componentVars
  <2>. QED BY <2>1 DEF TrustArguments
<1>. QED BY <1>1, <1>2, PTL DEF CSpec

(* OnlyToTrusted: the server that sees a login or a message was signed by   *)
(* a bundled root or, when the caller passed a text, by a certificate of    *)
(* that text and never by a bundled root.                                   *)
THEOREM OnlyTheTrusted == CSpec => []OnlyToTrusted
<1>1. trust \in TrustArguments /\ OnlyToResolved => OnlyToTrusted
  <2>. SUFFICES ASSUME trust \in TrustArguments, OnlyToResolved,
                       NEW i \in 1..Len(wrote), wrote[i].verb \notin {"EHLO", "STARTTLS"}
                PROVE  /\ wrote[i].over = "tls"
                       /\ signer \in IF trust.kind = "bundled" THEN BundledRoots ELSE Passed
    BY DEF OnlyToTrusted
  <2>1. wrote[i].over = "tls" /\ signer \in ResolvedRoots
    BY DEF OnlyToResolved
  <2>2. CASE trust.kind = "bundled"
    BY <2>1, <2>2 DEF ResolvedRoots
  <2>3. CASE trust.kind # "bundled"
    <3>1. trust.lines \in Texts /\ trust.fits \in BOOLEAN
      BY <2>3 DEF TrustArguments
    <3>2. Passed = CertificatesOf(trust.lines)
      BY DEF Passed, CertificatesOf
    <3>3. signer \in Anchors!parse_custom(trust.lines, trust.fits).store
      BY <2>1, <2>3 DEF ResolvedRoots
    <3>4. Anchors!parse_custom(trust.lines, trust.fits).store \subseteq CertificatesOf(trust.lines)
      BY <3>1, ParserTakesAllOrNothing
    <3>. QED BY <2>1, <2>3, <3>2, <3>3, <3>4
  <2>. QED BY <2>2, <2>3
<1>. QED BY <1>1, TrustIsGiven, TrustIsEnforced, PTL
=============================================================================
