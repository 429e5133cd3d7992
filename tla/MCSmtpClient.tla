---------------------------- MODULE MCSmtpClient ----------------------------
(* Instances of SmtpClient for TLC. *)
EXTENDS SmtpClient

Plain(codes) == [code : codes, caps : {{}}, ok : {TRUE}]
Offers(sets) == [code : {250}, caps : sets, ok : {TRUE}]

(* The codes of an upgrade, a login and a transaction, each a refusal      *)
(* where another one is due, 235 also with a signature that does not       *)
(* verify, and two offers.                                                 *)
AllReplies == Plain({220, 235, 334, 354})
    \cup Offers({{"STARTTLS", "PIPELINING", "SCRAM-SHA-256"}, {"LOGIN", "XOAUTH2", "SMTPUTF8"}})
    \cup [code : {235}, caps : {{}}, ok : {FALSE}]

(* Only the residue check of starttls looks behind the first reply, so     *)
(* elsewhere a peer that sends them one at a time does everything that one *)
(* does which sends two. Bytes in the clear on a TLS channel end a call    *)
(* like a break of the link: they are followed around the upgrade only.    *)
OneAtATime ==
    /\ Len(rx) + Len(net) > 1 => at \in {"starttls", "upgrade"}
    /\ net # <<>> /\ Head(net).sec # sec => at \in {"upgrade", "reehlo"}
=============================================================================
