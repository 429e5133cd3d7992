---------------------------- MODULE MCComponent -----------------------------
(* An instance of Component for TLC. *)
EXTENDS Component

NoReplies == {}
Block(body) == <<<<"begin", "CERTIFICATE">>, <<"text", body>>, <<"end">>>>

(* One anchor, two, one good and one bad, none at all. *)
SomeTexts == {Block("A"), Block("A") \o <<<<"text", "B">>>> \o Block("B"),
              Block("A") \o Block("other"), <<<<"text", "A">>>>}

SomeOffers == {{"STARTTLS", "PIPELINING", "PLAIN"}, {"STARTTLS", "LOGIN"}, {"PIPELINING"}}
=============================================================================
