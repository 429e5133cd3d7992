---------------------------- MODULE SessionState ----------------------------
(***************************************************************************)
(* The session states of the SMTP client and the table of the transitions  *)
(* its state machine permits (crates/wasm-smtp/src/session.rs).            *)
(***************************************************************************)

(* enum SessionState *)
SessionStates == {"Greeting", "Ehlo", "Authentication", "StartTls",
                  "MailFrom", "RcptTo", "Data", "Quit", "Closed"}

(* Mutant: a finished transaction cannot be followed by another. *)
NoNextTransaction(from, to) ==
    \/ to = "Closed"
    \/ from # "StartTls" /\ to = "Quit"
    \/ <<from, to>> \in {<<"Greeting", "Ehlo">>,
                         <<"Ehlo", "Authentication">>,
                         <<"Authentication", "StartTls">>,
                         <<"StartTls", "Ehlo">>,
                         <<"Authentication", "MailFrom">>,
                         <<"MailFrom", "MailFrom">>,
                         <<"MailFrom", "RcptTo">>,
                         <<"RcptTo", "RcptTo">>,
                         <<"RcptTo", "Data">>}

(* SessionState::can_transition_to: every state may close; every active    *)
(* state except StartTls may quit; the rest is the protocol's own order.   *)
can_transition_to(from, to) ==
    \/ to = "Closed"
    \/ /\ from \in {"Greeting", "Ehlo", "Authentication", "MailFrom", "RcptTo", "Data"}
       /\ to = "Quit"
    \/ <<from, to>> \in {<<"Greeting", "Ehlo">>,
                         <<"Ehlo", "Authentication">>,
                         <<"Authentication", "StartTls">>,
                         <<"StartTls", "Ehlo">>,
                         <<"Ehlo", "MailFrom">>,
                         <<"Authentication", "MailFrom">>,
                         <<"MailFrom", "MailFrom">>,
                         <<"MailFrom", "RcptTo">>,
                         <<"RcptTo", "RcptTo">>,
                         <<"RcptTo", "Data">>,
                         <<"Data", "MailFrom">>}

=============================================================================
