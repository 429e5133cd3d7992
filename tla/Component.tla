----------------------------- MODULE Component ------------------------------
(***************************************************************************)
(* The Component Model export of wasm-smtp-component/src/lib.rs: a         *)
(* configuration is created, then one send runs connect, login, send_mail  *)
(* and quit of the client of SmtpClient over a WASI transport and reports  *)
(* one result. Calls share nothing but the configuration, which nothing    *)
(* writes, so one call stands for each of them. block_on polls each future *)
(* once and the transport blocks inline: a call is never abandoned.        *)
(***************************************************************************)
EXTENDS SmtpSystem

CONSTANTS
    Texts,         \* the PEM texts a caller may pass, as lines of TrustAnchors
    Certificates,  \* what the root store takes
    BundledRoots,  \* the roots of the adapter
    Signers        \* the authorities that may have signed the server's certificate

(* Nobody can drop the future of a running call: block_on owns it to its end. *)
ASSUME NeverAbandoned == MaxCancels = 0

VARIABLES
    trust,   \* the trust argument of create
    roots,   \* ConfigState.roots: <<>> for None
    signer,  \* the authority behind the server
    phase,   \* how far the caller's two calls are
    result   \* what send (or create) returned

componentVars == <<trust, roots, signer, phase, result>>
everything == <<allVars, componentVars>>

Anchors == INSTANCE TrustAnchors WITH MAX_BLOCKS <- 64

ASSUME TextsAssumption ==
    \A t \in Texts : Len(t) \in Nat /\ \A i \in 1..Len(t) : Anchors!IsLine(t[i])

TrustArguments == [kind : {"bundled"}, lines : {<<>>}, fits : {TRUE}]
                    \cup [kind : {"custom"}, lines : Texts, fits : BOOLEAN]

(* ConfigState.tls_mode is the transport the client starts on: implicit or not. *)
CInit ==
    /\ SysInit
    /\ trust \in TrustArguments
    /\ roots = <<>>
    /\ signer \in Signers
    /\ phase = "create"
    /\ result = "none"

Return(r) == phase' = "returned" /\ result' = r /\ UNCHANGED <<trust, roots, signer>>
GoTo(p) == phase' = p /\ UNCHANGED <<trust, roots, signer, result>>
-----------------------------------------------------------------------------
(* Mutant: anchors that are refused are replaced by the bundled ones. *)
FallBack(ehloDomainOk) ==
    LET r == Anchors!resolve(trust)
    IN \/ /\ ~ehloDomainOk
          /\ Return("invalid-input")
       \/ /\ ehloDomainOk
          /\ phase' = "dial" /\ roots' = r.roots
          /\ UNCHANGED <<trust, signer, result>>

(* validate: the EHLO domain, then the trust anchors, all or nothing. *)
validate(ehloDomainOk) ==
    LET r == Anchors!resolve(trust)
    IN \/ /\ ~ehloDomainOk \/ ~r.ok
          /\ Return("invalid-input")
       \/ /\ ehloDomainOk /\ r.ok
          /\ phase' = "dial" /\ roots' = r.roots
          /\ UNCHANGED <<trust, signer, result>>

create ==
    /\ phase = "create"
    /\ \E ehloDomainOk \in BOOLEAN : validate(ehloDomainOk)
    /\ UNCHANGED allVars

(* Mutant: the caller's anchors come on top of the bundled ones. *)
AnchorsAdded == BundledRoots \cup (IF roots = <<>> THEN {} ELSE roots[1])

(* The options of send_impl: custom anchors replace the adapter's roots. *)
TrustedRoots == IF roots = <<>> THEN BundledRoots ELSE roots[1]

(* connect_smtps_with and connect_smtp_starttls_with reach the server; the *)
(* first also completes the handshake here.                                *)
connect ==
    /\ phase = "dial"
    /\ \/ Return("io")
       \/ (implicit => signer \in TrustedRoots) /\ GoTo("connect")
    /\ UNCHANGED allVars

(* connect_starttls goes on to the upgrade. *)
connect_starttls ==
    /\ phase = "connect" /\ at = "idle" /\ ~implicit
    /\ starttls
    /\ UNCHANGED serverVars
    /\ GoTo("upgrade")

Connected == phase = IF implicit THEN "connect" ELSE "upgrade"

call_login ==
    /\ Connected /\ at = "idle" /\ ret = "ok"
    /\ login \/ invalid_input
    /\ UNCHANGED serverVars
    /\ GoTo("login")

call_send_mail ==
    /\ phase = "login" /\ at = "idle" /\ ret = "ok"
    /\ (\E c \in 1..MaxRcpts : send_mail("mail", c)) \/ invalid_input
    /\ UNCHANGED serverVars
    /\ GoTo("send")

(* Mutant: the error of send_mail is ignored like that of quit. *)
QuitAnyway ==
    /\ phase = "send" /\ at = "idle"
    /\ quit
    /\ UNCHANGED serverVars
    /\ GoTo("quit")

call_quit ==
    /\ phase = "send" /\ at = "idle" /\ ret = "ok"
    /\ quit
    /\ UNCHANGED serverVars
    /\ GoTo("quit")

(* The variants of SmtpError, each to its own of send-error. *)
smtp_error_to_wit(e) ==
    CASE e = "Io" -> "io"
      [] e = "Protocol" -> "protocol"
      [] e = "Auth" -> "auth-rejected"
      [] e = "InvalidInput" -> "invalid-input"
      [] e = "Policy" -> "policy-rejected"

(* The error of a step ends send_impl, which drops the client. *)
give_up ==
    /\ phase \in {"connect", "upgrade", "login", "send"}
    /\ \/ /\ at = "idle" /\ ret # "ok"
          /\ Drop
       \/ /\ at = "gone"
          /\ UNCHANGED vars
    /\ Return(smtp_error_to_wit(ret))
    /\ UNCHANGED serverVars

(* Mutant: quit decides on the result. *)
QuitDecides ==
    /\ phase = "quit" /\ at = "gone"
    /\ Return(IF ret = "ok" THEN "ok" ELSE smtp_error_to_wit(ret))
    /\ UNCHANGED allVars

(* Whatever became of quit, the message was sent. *)
send_result ==
    /\ phase = "quit" /\ at = "gone"
    /\ Return("ok")
    /\ UNCHANGED allVars

(* The client inside the call runs on; a handshake needs a trusted server. *)
run_client ==
    /\ phase \in {"connect", "upgrade", "login", "send", "quit"}
    /\ Resume
    /\ at = "upgrade" => (sec' = "tls" => signer \in TrustedRoots)
    /\ UNCHANGED <<serverVars, componentVars>>

Guest == \/ connect \/ connect_starttls \/ call_login \/ call_send_mail \/ call_quit
         \/ give_up \/ send_result \/ run_client

Server == phase \notin {"create", "dial"} /\ Serve /\ UNCHANGED componentVars
Closes == phase \notin {"create", "dial"} /\ ServerCloses /\ UNCHANGED componentVars
Faults == /\ phase \notin {"create", "dial"}
          /\ HangsUp \/ Breaks
          /\ UNCHANGED componentVars

Returned == phase = "returned" /\ UNCHANGED everything

CNext == create \/ Guest \/ Server \/ Closes \/ Faults \/ Returned

CSpec == CInit /\ [][CNext]_everything

(* As in SmtpSystem: the host lets the guest run on, the server serves. *)
CFairSpec == CSpec /\ WF_everything(Guest) /\ WF_everything(Server) /\ WF_everything(Closes)
-----------------------------------------------------------------------------
(* The certificates between the boundaries of the text the caller passed. *)
Passed == {trust.lines[i + 1][2] : i \in {j \in 1..(Len(trust.lines) - 1) :
                                            trust.lines[j] = <<"begin", "CERTIFICATE">>}}

(* Whatever the caller passed to create, the server that sees a login or a *)
(* message sees it over TLS and was signed by exactly what was passed: the *)
(* bundled roots, or every certificate of the text and no other authority. *)
OnlyToTrusted ==
    \A i \in 1..Len(wrote) : wrote[i].verb \notin {"EHLO", "STARTTLS"} =>
        /\ wrote[i].over = "tls"
        /\ signer \in IF trust.kind = "bundled" THEN BundledRoots ELSE Passed

(* A result of send is never wrong: the calls and the server together      *)
(* implement Delivery, where io and protocol leave the outcome open and    *)
(* every other error says that the message was not and will not be taken.  *)
Verdict == CASE result = "none" -> "pending"
             [] result = "ok" -> "sent"
             [] result \in {"io", "protocol"} -> "unknown"
             [] OTHER -> "refused"
D == INSTANCE Delivery WITH held <- Len(queue), told <- Verdict
Delivers == D!Spec

(* A failure after the message was accepted, of QUIT, of its reply or of   *)
(* the close, does not hide that it was (lib.rs:254).                      *)
AcceptedIsReported == phase = "returned" /\ oks # {} => result = "ok"

(* A send returns as long as the server serves or the link breaks: none of *)
(* the five steps waits for a reply that nobody owes.                      *)
SendReturns == phase = "dial" ~> phase = "returned"
=============================================================================
