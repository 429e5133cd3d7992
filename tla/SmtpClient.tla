----------------------------- MODULE SmtpClient -----------------------------
(***************************************************************************)
(* The SMTP client of crates/wasm-smtp/src/client: one connection, driven  *)
(* by a caller that makes one call at a time (&mut self) and may drop the  *)
(* future of a call it no longer wants to wait for.                        *)
(*                                                                         *)
(* The code is sequential between two awaits, so an action is the code     *)
(* from the resumption of one await up to the next one: it consumes a      *)
(* reply (or a failure), changes the session and issues the next write.    *)
(* at names the await the current call is suspended in, "idle" when no     *)
(* call is running, "gone" once the client has been consumed or dropped.   *)
(*                                                                         *)
(* The peer of this module is arbitrary: it sends any reply of Replies at  *)
(* any time, solicited or not, and the connection may break at any time.   *)
(* SmtpSystem replaces it by a server that follows the protocol.           *)
(***************************************************************************)
EXTENDS SessionState, Integers, Sequences, FiniteSets

CONSTANTS
    Replies,      \* what a peer may say: [code, caps, ok], code 0 = malformed
    MaxRcpts,     \* bound on the recipients of one message
    MaxSends,     \* bound on the transactions started on the connection
    MaxUnread,    \* bound on the replies sent and not yet consumed
    MaxUpgrades,  \* bound on the upgrades of one session
    MaxCancels    \* bound on the calls the caller abandons

Mechanisms == {"SCRAM-SHA-256", "PLAIN", "LOGIN", "XOAUTH2", "OAUTHBEARER"}
Extensions == Mechanisms \cup {"STARTTLS", "PIPELINING", "SMTPUTF8"}

ASSUME RepliesAssumption ==
    Replies \subseteq [code : Nat, caps : SUBSET Extensions, ok : BOOLEAN]
ASSUME BoundsAssumption ==
    /\ MaxRcpts \in Nat \ {0}
    /\ MaxSends \in Nat
    /\ MaxUnread \in Nat
    /\ MaxUpgrades \in Nat
    /\ MaxCancels \in Nat

VARIABLES
    state,        \* SmtpClient.state
    capabilities, \* SmtpClient.capabilities, the keywords only
    capsOver,     \* the channel the EHLO reply behind capabilities came over
    rx,           \* unread replies of rx_buf (rx_buf[rx_pos..])
    net,          \* replies the peer sent that no read has returned yet
    link,         \* "up", or "down" once the connection broke
    sec,          \* the transport: "plain", "tls", or "broken" by a failed upgrade
    implicit,     \* the transport was TLS from the start (port 465)
    closed,       \* Transport::close has been called
    wrote,        \* the commands handed to the transport, in order
    audit,        \* the events the audit sink has received
    at,           \* the await the current call is suspended in
    mech,         \* the AUTH mechanism of the running login
    kind,         \* the send method: "mail" (also bytes, message), "utf8", "stream"
    rcpts,        \* to.len() of the running send
    todo,         \* recipients whose reply has not been read
    pipelining,   \* run_envelope took the pipelined path
    nsend,        \* number of transactions started: names the current message
    oks,          \* the transactions whose send returned Ok
    ret,          \* how the last call ended
    wantTls,      \* the caller has asked for STARTTLS
    cancels       \* number of calls abandoned so far

peerVars  == <<net, link>>
tlsVars   == <<sec, implicit, wantTls>>
capVars   == <<capabilities, capsOver>>
sendVars  == <<kind, rcpts, todo, pipelining, nsend, oks>>
callVars  == <<state, wrote, audit, at, ret, cancels>>
vars == <<state, capabilities, capsOver, rx, net, link, sec, implicit, closed, wrote, audit,
          at, mech, kind, rcpts, todo, pipelining, nsend, oks, ret, wantTls, cancels>>

(* Awaits in which a reply is being read. *)
Reading == {"greeting", "ehlo", "starttls", "reehlo", "auth1", "auth2", "auth3",
            "mail", "rcpt", "data", "final", "quit"}
Suspended == Reading \cup {"upgrade", "body", "close"}

Events == {"Connected", "GreetingReceived", "EhloCompleted", "TlsUpgraded", "AuthCompleted",
           "MailFromAccepted", "RecipientAccepted", "RecipientRejected", "MessageAccepted",
           "QuitCompleted", "SessionAborted"}

Verbs == {"EHLO", "STARTTLS", "AUTH", "RESPONSE", "MAIL", "RCPT", "DATA", "BODY", "QUIT"}

(* A command as it left the client: over which channel, for which message, *)
(* whole or torn; RCPT carries the recipient's position, MAIL and BODY how *)
(* many recipients there are.                                              *)
Commands == [verb : Verbs, over : {"plain", "tls"}, msg : Nat, arg : Nat, whole : BOOLEAN]
Command(verb, over, msg, arg) ==
    [verb |-> verb, over |-> over, msg |-> msg, arg |-> arg, whole |-> TRUE]
Say(verb) == <<Command(verb, sec, 0, 0)>>

Class(r) == r.code \div 100
-----------------------------------------------------------------------------
(* How a failed or abandoned call unwinds from the await it is in: connect *)
(* owns the client and drops it, quit goes on to close the transport.      *)
OnError(a)  == CASE a \in {"greeting", "ehlo"} -> "gone"
                 [] a = "quit" -> "close"
                 [] OTHER -> "idle"
OnCancel(a) == IF a \in {"greeting", "ehlo", "quit", "close"} THEN "gone" ELSE "idle"

(* Mutant: the failure is returned, the session stays as it was. *)
FailOpen(ev, err, a) ==
    /\ audit' = audit \o ev
    /\ ret' = err
    /\ at' = OnError(a)
    /\ UNCHANGED <<state, wrote, cancels>>

(* Mutant: the session closes and the audit sink is not told. *)
FailSilently(ev, err, a) ==
    /\ state' = "Closed"
    /\ audit' = audit \o ev
    /\ ret' = err
    /\ at' = OnError(a)
    /\ UNCHANGED <<wrote, cancels>>

(* mark_closed_on_logical_failure after the events ev, then return err. *)
Fail(ev, err, a) ==
    /\ state' = "Closed"
    /\ audit' = audit \o ev \o (IF state # "Closed" THEN <<"SessionAborted">> ELSE <<>>)
    /\ ret' = err
    /\ at' = OnError(a)
    /\ UNCHANGED <<wrote, cancels>>

(* Suspend in the read at a without having written anything. *)
Await(ev, a) ==
    /\ audit' = audit \o ev
    /\ at' = a
    /\ UNCHANGED <<state, wrote, ret, cancels>>

(* The call returns Ok and leaves the session in state s. *)
Done(s, ev) ==
    /\ state' = s
    /\ audit' = audit \o ev
    /\ ret' = "ok"
    /\ at' = "idle"
    /\ UNCHANGED <<wrote, cancels>>

(* The call returns err before it changed anything. *)
Refuse(err) == ret' = err /\ UNCHANGED <<state, wrote, audit, at, cancels>>

(* In state s, having emitted ev, write cmds and go on to the await a. The *)
(* write can fail once the link is down, and the caller can drop the call  *)
(* in the middle of it: then a prefix of cmds is out, perhaps one more torn.   *)
WriteThen(s, ev, cmds, a) ==
    \/ /\ state' = s
       /\ audit' = audit \o ev
       /\ wrote' = wrote \o cmds
       /\ at' = a
       /\ UNCHANGED <<ret, cancels>>
    \/ /\ link = "down"
       /\ Fail(ev, "Io", a)
    \/ /\ cancels < MaxCancels
       /\ \E k \in 0..(Len(cmds) - 1) :
             \/ wrote' = wrote \o SubSeq(cmds, 1, k)
             \/ wrote' = wrote \o SubSeq(cmds, 1, k) \o <<[cmds[k + 1] EXCEPT !.whole = FALSE]>>
       /\ state' = s
       /\ audit' = audit \o ev
       /\ at' = OnCancel(a)
       /\ ret' = "cancelled"
       /\ cancels' = cancels + 1

(* A whole, well-formed reply is consumed at the await a. *)
Reply(a) ==
    /\ at = a
    /\ rx # <<>>
    /\ Head(rx).code # 0
    /\ rx' = Tail(rx)
-----------------------------------------------------------------------------
(* connect_with has emitted Connected and suspends in read_greeting. *)
Init ==
    /\ state = "Greeting"
    /\ capabilities = {}
    /\ capsOver = "none"
    /\ rx = <<>>
    /\ net = <<>>
    /\ link = "up"
    /\ sec \in {"plain", "tls"}
    /\ implicit = (sec = "tls")
    /\ closed = FALSE
    /\ wrote = <<>>
    /\ audit = <<"Connected">>
    /\ at = "greeting"
    /\ mech = "PLAIN"
    /\ kind = "mail"
    /\ rcpts = 0
    /\ todo = 0
    /\ pipelining = FALSE
    /\ nsend = 0
    /\ oks = {}
    /\ ret = "none"
    /\ wantTls = FALSE
    /\ cancels = 0

(* read_greeting, and the write of send_ehlo that follows it. *)
read_greeting ==
    /\ Reply("greeting")
    /\ \/ /\ Class(Head(rx)) = 2
          /\ can_transition_to(state, "Ehlo")
          /\ WriteThen("Ehlo", <<"GreetingReceived">>, Say("EHLO"), "ehlo")
       \/ /\ Class(Head(rx)) # 2
          /\ Fail(<<>>, "Protocol", "greeting")
    /\ UNCHANGED <<capVars, peerVars, tlsVars, closed, mech, sendVars>>

(* send_ehlo once its reply is there, in connect or after the upgrade. *)
send_ehlo ==
    /\ \E a \in {"ehlo", "reehlo"} :
          /\ Reply(a)
          /\ \/ /\ Class(Head(rx)) = 2
                /\ can_transition_to(state, "Authentication")
                /\ capabilities' = Head(rx).caps
                /\ capsOver' = Head(rx).sec
                /\ Done("Authentication", <<"EhloCompleted">>)
             \/ /\ Class(Head(rx)) # 2
                /\ Fail(<<>>, "Protocol", a)
                /\ UNCHANGED capVars
    /\ UNCHANGED <<peerVars, tlsVars, closed, mech, sendVars>>
-----------------------------------------------------------------------------
(* How often the session has been upgraded. *)
Upgrades == Cardinality({i \in 1..Len(audit) : audit[i] = "TlsUpgraded"})

(* Mutant: a server without STARTTLS is an error the caller may ignore. *)
StartTlsOptional ==
    /\ at = "idle"
    /\ state = "Authentication"
    /\ Upgrades < MaxUpgrades
    /\ wantTls' = TRUE
    /\ \/ "STARTTLS" \notin capabilities /\ Refuse("Protocol")
       \/ "STARTTLS" \in capabilities /\ WriteThen("StartTls", <<>>, Say("STARTTLS"), "starttls")
    /\ UNCHANGED <<rx, capVars, peerVars, sec, implicit, closed, mech, sendVars>>

(* starttls up to its command: no fallback when it is not advertised. The  *)
(* WASI and the Cloudflare transport are StartTlsCapable whatever they were *)
(* opened as, so it can be called on a session that is TLS already.        *)
starttls ==
    /\ at = "idle"
    /\ state = "Authentication"
    /\ Upgrades < MaxUpgrades
    /\ wantTls' = TRUE
    /\ \/ /\ "STARTTLS" \notin capabilities
          /\ Fail(<<>>, "Protocol", "idle")
       \/ /\ "STARTTLS" \in capabilities
          /\ can_transition_to(state, "StartTls")
          /\ WriteThen("StartTls", <<>>, Say("STARTTLS"), "starttls")
    /\ UNCHANGED <<rx, capVars, peerVars, sec, implicit, closed, mech, sendVars>>

(* Mutant: rx_buf is not looked at. *)
NoResidueCheck == FALSE

(* Bytes behind the 220 in rx_buf. *)
residue == Tail(rx) # <<>>

(* Only a 220 with no residue lets the upgrade begin. *)
starttls_reply ==
    /\ Reply("starttls")
    /\ \/ /\ Head(rx).code = 220 /\ ~residue
          /\ capabilities' = {}
          /\ Await(<<>>, "upgrade")
       \/ /\ Head(rx).code # 220 \/ residue
          /\ Fail(<<>>, "Protocol", "starttls")
          /\ UNCHANGED capabilities
    /\ UNCHANGED <<capsOver, peerVars, tlsVars, closed, mech, sendVars>>

(* upgrade_to_tls returns. On success the client goes straight on to a      *)
(* second EHLO over the new channel. A transport that is TLS already stays  *)
(* so: Tokio and WASI refuse to upgrade it, Cloudflare answers Ok.          *)
upgrade_to_tls ==
    /\ at = "upgrade"
    /\ \/ /\ sec # "broken"
          /\ sec' = "tls"
          /\ can_transition_to(state, "Ehlo")
          /\ WriteThen("Ehlo", <<"TlsUpgraded">>, <<Command("EHLO", "tls", 0, 0)>>, "reehlo")
       \/ /\ sec' = IF sec = "tls" THEN "tls" ELSE "broken"
          /\ Fail(<<>>, "Io", "upgrade")
    /\ UNCHANGED <<rx, capVars, peerVars, implicit, wantTls, closed, mech, sendVars>>
-----------------------------------------------------------------------------
(* Mutant: login does not look at the state. *)
LoginAnytime == at = "idle"

(* assert_state_in(&[Authentication]), for every login. *)
MayLogin == at = "idle" /\ state = "Authentication"

(* login_with: a mechanism the server did not offer closes the session; a   *)
(* SCRAM login that gets no randomness for its nonce fails without writing. *)
login_with(m) ==
    /\ MayLogin
    /\ \/ /\ m \notin capabilities
          /\ Fail(<<>>, "Auth", "idle")
          /\ UNCHANGED mech
       \/ /\ m \in capabilities
          /\ mech' = m
          /\ WriteThen(state, <<>>, Say("AUTH"), "auth1")
       \/ /\ m = "SCRAM-SHA-256" /\ m \in capabilities
          /\ Refuse("Auth")
          /\ UNCHANGED mech
    /\ UNCHANGED <<rx, capVars, peerVars, tlsVars, closed, sendVars>>

(* select_auth_mechanism: never a bearer-token mechanism. *)
select_auth_mechanism ==
    CASE "SCRAM-SHA-256" \in capabilities -> "SCRAM-SHA-256"
      [] "PLAIN" \in capabilities -> "PLAIN"
      [] "LOGIN" \in capabilities -> "LOGIN"
      [] OTHER -> "none"

(* login: the preferred mechanism, or the session closes. *)
login ==
    \/ /\ select_auth_mechanism # "none"
       /\ login_with(select_auth_mechanism)
    \/ /\ select_auth_mechanism = "none"
       /\ MayLogin
       /\ Fail(<<>>, "Auth", "idle")
       /\ UNCHANGED <<rx, capVars, peerVars, tlsVars, closed, mech, sendVars>>

(* Where a 235 ends each mechanism's exchange well, and where a 334 makes   *)
(* the client answer and read on. For a bearer token a 334 announces the    *)
(* rejection: the client answers it and fails whatever comes next.          *)
Succeeds == {<<"PLAIN", "auth1">>, <<"LOGIN", "auth3">>, <<"XOAUTH2", "auth1">>,
             <<"OAUTHBEARER", "auth1">>, <<"SCRAM-SHA-256", "auth2">>, <<"SCRAM-SHA-256", "auth3">>}
Continues == [auth1 |-> {"LOGIN", "XOAUTH2", "OAUTHBEARER", "SCRAM-SHA-256"},
              auth2 |-> {"LOGIN", "SCRAM-SHA-256"},
              auth3 |-> {}]
NextAuth == [auth1 |-> "auth2", auth2 |-> "auth3", auth3 |-> "auth3"]

(* The SCRAM client verifies server-first and the server signature. *)
Verified(a, r) == mech = "SCRAM-SHA-256" /\ a \in {"auth1", "auth2"} => r.ok

(* A 5xx, a bad SCRAM message and an announced token rejection are          *)
(* authentication errors; any other reply is a protocol error (convert_auth). *)
AuthFailure(a, r) ==
    IF \/ Class(r) = 5
       \/ mech \in {"XOAUTH2", "OAUTHBEARER"} /\ a = "auth2"
       \/ /\ ~Verified(a, r)
          /\ \/ r.code = 334 /\ mech \in Continues[a]
             \/ r.code = 235 /\ <<mech, a>> \in Succeeds
    THEN "Auth" ELSE "Protocol"

(* One reply of run_auth_plain, _login, _xoauth2, _oauthbearer, _scram_sha256. *)
run_auth ==
    /\ \E a \in {"auth1", "auth2", "auth3"} :
          LET r == Head(rx)
              wins == r.code = 235 /\ <<mech, a>> \in Succeeds /\ Verified(a, r)
              goesOn == r.code = 334 /\ mech \in Continues[a] /\ Verified(a, r)
          IN  /\ Reply(a)
              /\ \/ /\ wins
                    /\ can_transition_to(state, "MailFrom")
                    /\ Done("MailFrom", <<"AuthCompleted">>)
                 \/ /\ goesOn
                    /\ WriteThen(state, <<>>, Say("RESPONSE"), NextAuth[a])
                 \/ /\ ~wins /\ ~goesOn
                    /\ Fail(<<>>, AuthFailure(a, r), a)
    /\ UNCHANGED <<capVars, peerVars, tlsVars, closed, mech, sendVars>>
-----------------------------------------------------------------------------
MailCmd(c) == Command("MAIL", sec, nsend + 1, c)
RcptCmd(i) == Command("RCPT", sec, nsend, i)
DataCmd    == Command("DATA", sec, nsend, 0)
BodyCmd    == Command("BODY", sec, nsend, rcpts)

(* Mutant: DATA is left out of the batch. *)
PipelineWithoutData(c) ==
    [i \in 1..(c + 1) |-> IF i = 1 THEN MailCmd(c) ELSE [RcptCmd(i - 1) EXCEPT !.msg = nsend + 1]]

(* MAIL, every RCPT and DATA, as the pipelined path concatenates them. *)
Pipeline(c) ==
    [i \in 1..(c + 2) |-> IF i = 1 THEN MailCmd(c)
                          ELSE IF i = c + 2 THEN [DataCmd EXCEPT !.msg = nsend + 1]
                          ELSE [RcptCmd(i - 1) EXCEPT !.msg = nsend + 1]]

(* Every send method up to run_envelope: the SMTPUTF8 check (which closes  *)
(* the session), then the policy hooks (which leave it alone).             *)
check_send(k) ==
    /\ at = "idle"
    /\ state \in {"Authentication", "MailFrom"}
    /\ \/ /\ k = "utf8" /\ "SMTPUTF8" \notin capabilities
          /\ Fail(<<>>, "Protocol", "idle")
       \/ /\ k = "utf8" => "SMTPUTF8" \in capabilities
          /\ Refuse("Policy")
    /\ UNCHANGED <<rx, capVars, peerVars, tlsVars, closed, mech, sendVars>>

(* send_mail, send_mail_bytes, send_message, send_mail_stream and           *)
(* send_mail_smtputf8 through the first write of run_envelope. The          *)
(* pipelined path is in state Data before a single reply has been read.     *)
send_mail(k, c) ==
    /\ at = "idle"
    /\ state \in {"Authentication", "MailFrom"}
    /\ k = "utf8" => "SMTPUTF8" \in capabilities
    /\ nsend < MaxSends
    /\ kind' = k
    /\ rcpts' = c
    /\ todo' = c
    /\ nsend' = nsend + 1
    /\ pipelining' = ("PIPELINING" \in capabilities)
    /\ can_transition_to(state, "MailFrom")
    /\ \/ /\ pipelining'
          /\ can_transition_to("MailFrom", "RcptTo") /\ can_transition_to("RcptTo", "Data")
          /\ WriteThen("Data", <<>>, Pipeline(c), "mail")
       \/ /\ ~pipelining'
          /\ WriteThen("MailFrom", <<>>, <<MailCmd(c)>>, "mail")
    /\ UNCHANGED <<rx, capVars, peerVars, tlsVars, closed, mech, oks>>

(* run_envelope: the reply to MAIL FROM. *)
mail_reply ==
    /\ Reply("mail")
    /\ \/ /\ Class(Head(rx)) = 2 /\ pipelining
          /\ Await(<<"MailFromAccepted">>, "rcpt")
       \/ /\ Class(Head(rx)) = 2 /\ ~pipelining
          /\ can_transition_to(state, "RcptTo")
          /\ WriteThen("RcptTo", <<"MailFromAccepted">>, <<RcptCmd(1)>>, "rcpt")
       \/ /\ Class(Head(rx)) # 2
          /\ Fail(<<>>, "Protocol", "mail")
    /\ UNCHANGED <<capVars, peerVars, tlsVars, closed, mech, sendVars>>

(* Mutants: the loop over the recipients runs once too often, or stops early. *)
RecipientTooMany == todo = 0
RecipientTooFew  == todo <= 2

(* The loop over the recipients ends with this reply. *)
LastRecipient == todo = 1

(* Mutant: a refused recipient is skipped. *)
SkipRefused(r) == Class(r) \in {2, 5}

(* reply.class() == 2: one refused recipient fails the whole send. *)
RcptAccepted(r) == Class(r) = 2

(* read_rcpt_reply; the sequential path then writes the next RCPT or DATA. *)
read_rcpt_reply ==
    /\ Reply("rcpt")
    /\ \/ /\ RcptAccepted(Head(rx))
          /\ todo' = todo - 1
          /\ \/ /\ pipelining
                /\ Await(<<"RecipientAccepted">>, IF LastRecipient THEN "data" ELSE "rcpt")
             \/ /\ ~pipelining /\ ~LastRecipient
                /\ WriteThen(state, <<"RecipientAccepted">>, <<RcptCmd(rcpts - todo + 2)>>, "rcpt")
             \/ /\ ~pipelining /\ LastRecipient
                /\ can_transition_to(state, "Data")
                /\ WriteThen("Data", <<"RecipientAccepted">>, <<DataCmd>>, "data")
       \/ /\ ~RcptAccepted(Head(rx))
          /\ Fail(<<"RecipientRejected">>, "Protocol", "rcpt")
          /\ UNCHANGED todo
    /\ UNCHANGED <<capVars, peerVars, tlsVars, closed, mech, kind, rcpts, pipelining, nsend, oks>>

(* The reply to DATA: 354 and nothing else lets the body out. *)
data_reply ==
    /\ Reply("data")
    /\ \/ /\ Head(rx).code = 354 /\ kind = "stream"
          /\ Await(<<>>, "body")
       \/ /\ Head(rx).code = 354 /\ kind # "stream"
          /\ WriteThen(state, <<>>, <<BodyCmd>>, "final")
       \/ /\ Head(rx).code # 354
          /\ Fail(<<>>, "Protocol", "data")
    /\ UNCHANGED <<capVars, peerVars, tlsVars, closed, mech, sendVars>>

(* The chunk loop of send_mail_stream: the source may fail before the body *)
(* is complete; otherwise the last write ends it. A chunk that is not the  *)
(* last one leaves the model's state alone.                                *)
stream_body ==
    /\ at = "body"
    /\ \/ Fail(<<>>, "Io", "body")
       \/ WriteThen(state, <<>>, <<BodyCmd>>, "final")
    /\ UNCHANGED <<rx, capVars, peerVars, tlsVars, closed, mech, sendVars>>

(* Mutant: whatever the server says to the body, the send succeeded. *)
AnyFinalReply ==
    /\ Reply("final")
    /\ oks' = oks \cup {nsend}
    /\ Done("MailFrom", <<"MessageAccepted">>)
    /\ UNCHANGED <<capVars, peerVars, tlsVars, closed, mech, kind, rcpts, todo, pipelining, nsend>>

(* The reply to the message: the send returns. *)
final_reply ==
    /\ Reply("final")
    /\ \/ /\ Class(Head(rx)) = 2
          /\ can_transition_to(state, "MailFrom")
          /\ oks' = oks \cup {nsend}
          /\ Done("MailFrom", <<"MessageAccepted">>)
       \/ /\ Class(Head(rx)) # 2
          /\ Fail(<<>>, "Protocol", "final")
          /\ UNCHANGED oks
    /\ UNCHANGED <<capVars, peerVars, tlsVars, closed, mech, kind, rcpts, todo, pipelining, nsend>>
-----------------------------------------------------------------------------
(* quit: returns at once on a closed session; a refused transition skips   *)
(* the command but not the close.                                          *)
quit ==
    /\ at = "idle"
    /\ \/ /\ state = "Closed"
          /\ ret' = "ok"
          /\ at' = "gone"
          /\ UNCHANGED <<state, wrote, audit, cancels>>
       \/ /\ state # "Closed" /\ can_transition_to(state, "Quit")
          /\ WriteThen("Quit", <<>>, Say("QUIT"), "quit")
       \/ /\ state # "Closed" /\ ~can_transition_to(state, "Quit")
          /\ ret' = "InvalidInput"
          /\ at' = "close"
          /\ UNCHANGED <<state, wrote, audit, cancels>>
    /\ UNCHANGED <<rx, capVars, peerVars, tlsVars, closed, mech, sendVars>>

(* quit reads the reply to QUIT. *)
quit_reply ==
    /\ Reply("quit")
    /\ \/ /\ Head(rx).code = 221
          /\ ret' = "ok"
          /\ at' = "close"
          /\ UNCHANGED <<state, wrote, audit, cancels>>
       \/ /\ Head(rx).code # 221
          /\ Fail(<<>>, "Protocol", "quit")
    /\ UNCHANGED <<capVars, peerVars, tlsVars, closed, mech, sendVars>>

(* quit closes the transport, whatever became of the command. *)
close_transport ==
    /\ at = "close"
    /\ closed' = TRUE
    /\ state' = "Closed"
    /\ at' = "gone"
    /\ \E ok \in BOOLEAN :
          /\ audit' = Append(audit, IF ok /\ ret = "ok" THEN "QuitCompleted" ELSE "SessionAborted")
          /\ ret' = IF ret = "ok" /\ ~ok THEN "Io" ELSE ret
    /\ UNCHANGED <<wrote, cancels, rx, capVars, peerVars, tlsVars, mech, sendVars>>
-----------------------------------------------------------------------------
(* fill_buf: a read returns the next bytes of the channel in use. *)
fill_buf ==
    /\ at \in Reading
    /\ rx = <<>>
    /\ \E k \in 1..Len(net) :
          /\ \A i \in 1..k : net[i].sec = sec
          /\ rx' = SubSeq(net, 1, k)
          /\ net' = SubSeq(net, k + 1, Len(net))
    /\ UNCHANGED <<callVars, capVars, link, tlsVars, closed, mech, sendVars>>

(* read_reply, read_line or fill_buf fails: a reply that cannot be parsed, *)
(* the end of the stream, a transport error, or bytes on a TLS channel     *)
(* that are not TLS.                                                       *)
read_fails ==
    /\ at \in Reading
    /\ \/ /\ rx # <<>> /\ Head(rx).code = 0
          /\ rx' = Tail(rx)
          /\ Fail(<<>>, "Protocol", at)
       \/ /\ rx = <<>> /\ net = <<>> /\ link = "down"
          /\ \E err \in {"Protocol", "Io"} : Fail(<<>>, err, at)
          /\ UNCHANGED rx
       \/ /\ rx = <<>> /\ net # <<>> /\ Head(net).sec # sec
          /\ Fail(<<>>, "Io", at)
          /\ UNCHANGED rx
    /\ UNCHANGED <<capVars, peerVars, tlsVars, closed, mech, sendVars>>

(* The caller's input or its timing is refused by a validator or by        *)
(* assert_state_in: every call does this before it touches anything.       *)
invalid_input ==
    /\ at = "idle"
    /\ Refuse("InvalidInput")
    /\ UNCHANGED <<rx, capVars, peerVars, tlsVars, closed, mech, sendVars>>

(* send_message, when the message cannot be serialized: the error is an Io *)
(* error, raised before send_mail looks at the session.                    *)
send_message ==
    /\ at = "idle"
    /\ Refuse("Io(serialize)")
    /\ UNCHANGED <<rx, capVars, peerVars, tlsVars, closed, mech, sendVars>>

(* The caller drops the future of the running call (a timeout of its own). *)
(* A handshake abandoned half-way leaves the transport without a stream;   *)
(* an upgrade of a TLS transport returns without an await to abandon it in. *)
Cancel ==
    /\ at \in Suspended
    /\ at = "upgrade" => sec # "tls"
    /\ cancels < MaxCancels
    /\ cancels' = cancels + 1
    /\ ret' = "cancelled"
    /\ at' = OnCancel(at)
    /\ sec' = IF at = "upgrade" THEN "broken" ELSE sec
    /\ UNCHANGED <<state, wrote, audit, rx, capVars, peerVars, implicit, wantTls, closed, mech, sendVars>>

(* The caller drops the client. *)
Drop ==
    /\ at = "idle"
    /\ at' = "gone"
    /\ ret' = "dropped"
    /\ UNCHANGED <<state, wrote, audit, cancels, rx, capVars, peerVars, tlsVars, closed, mech, sendVars>>

(* What the caller may do with an idle client. *)
Call ==
    \/ starttls
    \/ login
    \/ \E m \in Mechanisms : login_with(m)
    \/ \E k \in {"mail", "utf8", "stream"} : check_send(k)
    \/ \E k \in {"mail", "utf8", "stream"}, c \in 1..MaxRcpts : send_mail(k, c)
    \/ quit
    \/ invalid_input
    \/ send_message
    \/ Drop

(* The running call is resumed. *)
Resume ==
    \/ fill_buf \/ read_fails
    \/ read_greeting \/ send_ehlo
    \/ starttls_reply \/ upgrade_to_tls
    \/ run_auth
    \/ mail_reply \/ read_rcpt_reply \/ data_reply \/ stream_body \/ final_reply
    \/ quit_reply \/ close_transport

Client == Call \/ Resume \/ Cancel
-----------------------------------------------------------------------------
(* The peer sends a reply, over TLS only when the client's end is TLS.     *)
PeerReplies(r, over) ==
    /\ link = "up"
    /\ at # "gone"
    /\ Len(net) + Len(rx) < MaxUnread
    /\ over = "tls" => sec = "tls"
    /\ net' = Append(net, [code |-> r.code, caps |-> r.caps, ok |-> r.ok, sec |-> over])
    /\ UNCHANGED <<callVars, rx, link, capVars, tlsVars, closed, mech, sendVars>>

(* The connection breaks; replies still in flight may be lost. *)
LinkDown ==
    /\ link = "up"
    /\ at # "gone"
    /\ link' = "down"
    /\ \E k \in 0..Len(net) : net' = SubSeq(net, 1, k)
    /\ UNCHANGED <<callVars, rx, capVars, tlsVars, closed, mech, sendVars>>

Peer ==
    \/ \E r \in Replies, over \in {"plain", "tls"} : PeerReplies(r, over)
    \/ LinkDown

(* A client that is gone takes no further step. *)
Terminated == at = "gone" /\ UNCHANGED vars

Next == Client \/ Peer \/ Terminated

Spec == Init /\ [][Next]_vars
-----------------------------------------------------------------------------
Received == [code : Nat, caps : SUBSET Extensions, ok : BOOLEAN, sec : {"plain", "tls"}]

(* Every variable of the client keeps its type. *)
TypeOK ==
    /\ state \in SessionStates
    /\ capabilities \in SUBSET Extensions
    /\ capsOver \in {"none", "plain", "tls"}
    /\ rx \in Seq(Received) /\ net \in Seq(Received)
    /\ link \in {"up", "down"}
    /\ sec \in {"plain", "tls", "broken"}
    /\ implicit \in BOOLEAN /\ closed \in BOOLEAN /\ wantTls \in BOOLEAN
    /\ wrote \in Seq(Commands)
    /\ audit \in Seq(Events)
    /\ at \in Suspended \cup {"idle", "gone"}
    /\ mech \in Mechanisms
    /\ kind \in {"mail", "utf8", "stream"}
    /\ rcpts \in 0..MaxRcpts /\ todo \in 0..MaxRcpts
    /\ pipelining \in BOOLEAN
    /\ nsend \in 0..MaxSends
    /\ oks \in SUBSET (1..MaxSends)
    /\ ret \in {"none", "ok", "Io", "Protocol", "Auth", "Policy", "InvalidInput",
                "Io(serialize)", "cancelled", "dropped"}
    /\ cancels \in 0..MaxCancels

(* Wherever a handler is about to call transition, the table of session.rs  *)
(* allows it, so no call returns "internal session-state transition         *)
(* rejected" (mod.rs:217), with one exception: the quit that follows an     *)
(* abandoned starttls. The table has no StartTls to Quit, although          *)
(* session.rs:30 says that any state may go there.                          *)
TransitionsAllowed ==
    /\ at \in {"greeting", "upgrade"} => can_transition_to(state, "Ehlo")
    /\ at \in {"ehlo", "reehlo"} => can_transition_to(state, "Authentication")
    /\ at \in {"auth1", "auth2", "auth3", "final"} => can_transition_to(state, "MailFrom")
    /\ at = "mail" /\ ~pipelining => can_transition_to(state, "RcptTo")
    /\ at = "rcpt" /\ ~pipelining => can_transition_to(state, "Data")
    /\ at = "idle" => \/ state = "Closed" \/ can_transition_to(state, "Quit")
                      \/ state = "StartTls" /\ cancels > 0

(* An event after which a session does not go on, and a log that ends in one. *)
Terminal == {"QuitCompleted", "SessionAborted"}
Ended(log) == log[Len(log)] \in Terminal

EndsOnce(log) == \A i \in 1..(Len(log) - 1) : log[i] \notin Terminal

(* Every way into Closed is audited and nothing else is: the session is     *)
(* closed exactly when the last event says it ended, and no event follows   *)
(* an end, unless quit itself fails and reports its failure (AbortedOnce).  *)
ClosedIsAudited ==
    /\ state = "Closed" <=> Ended(audit)
    /\ EndsOnce(audit) \/ (closed /\ ret # "ok")

(* The last c + 1 events of log are MailFromAccepted and c RecipientAccepted. *)
Envelope(log, c) ==
    /\ Len(log) > c
    /\ log[Len(log) - c] = "MailFromAccepted"
    /\ \A i \in (Len(log) - c + 1)..Len(log) : log[i] = "RecipientAccepted"

(* No byte of a message leaves the client, on either path of run_envelope   *)
(* and for every send method, before MAIL FROM and each of its recipients   *)
(* has been accepted, as the audit log shows.                               *)
BodyNeedsEveryRecipient ==
    [][\A i \in (Len(wrote) + 1)..Len(wrote') :
          wrote'[i].verb = "BODY" => wrote'[i].arg = rcpts /\ rcpts > 0 /\ Envelope(audit, rcpts)]_vars

(* Nothing that arrived in the clear is believed on a TLS channel: neither  *)
(* replies left in rx_buf across the upgrade (the residue check of          *)
(* starttls) nor capabilities advertised before it.                         *)
ChannelIntegrity ==
    sec = "tls" => /\ \A i \in 1..Len(rx) : rx[i].sec = "tls"
                   /\ capabilities # {} => capsOver = "tls"

(* Once the caller has asked for STARTTLS, whatever fails and whatever it   *)
(* calls next, only the command STARTTLS itself is written in the clear.    *)
NoPlaintextFallback ==
    [][wantTls => \A i \in (Len(wrote) + 1)..Len(wrote') :
          wrote'[i].over = "tls" \/ wrote'[i].verb = "STARTTLS"]_vars

(* A poisoned session is never used again: no state after Closed, nothing   *)
(* written, no message reported as sent.                                    *)
ClosedIsFinal ==
    [][state = "Closed" => state' = "Closed" /\ wrote' = wrote /\ oks' = oks]_vars

(* A call that nobody abandoned leaves the session either closed or ready   *)
(* for the next transaction, never in the middle of one, and a transport or *)
(* protocol error always leaves it closed (docs/src/concepts/errors.md).    *)
IdleIsReusable ==
    at = "idle" /\ cancels = 0 =>
        \/ state = "Closed"
        \/ state \in {"Authentication", "MailFrom"} /\ ret \notin {"Io", "Protocol"}
-----------------------------------------------------------------------------
(* Stated by the repository, and refuted by the code.                      *)

(* transport.rs:129: after a failed upgrade "the caller will transition to  *)
(* Closed and call Transport::close": here, not even by a quit that says Ok. *)
FailedUpgradeCloses ==
    sec = "broken" /\ at = "gone" /\ ret = "ok" => closed

(* docs/src/core/policy-audit.md:88: "SessionAborted is emitted exactly     *)
(* once per session", and mod.rs:231: "the two cannot both fire". A QUIT    *)
(* that fails closes the session and says so (mod.rs:223-244), and quit     *)
(* then says so again (mod.rs:186).                                         *)
AbortedOnce == EndsOnce(audit)
=============================================================================
