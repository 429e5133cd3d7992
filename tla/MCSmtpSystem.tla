---------------------------- MODULE MCSmtpSystem ----------------------------
(* Instances of SmtpSystem for TLC. *)
EXTENDS SmtpSystem

(* The server does not choose from Replies. *)
NoReplies == {}

(* Both paths of run_envelope, each after a login that can be abandoned, one *)
(* of them behind an upgrade.                                                *)
BothOffers == {{"STARTTLS", "PIPELINING", "PLAIN"}, {"LOGIN"}}
=============================================================================
