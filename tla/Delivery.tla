------------------------------ MODULE Delivery ------------------------------
(***************************************************************************)
(* What a caller of the component's send may rely on: one message, handed  *)
(* over at most once, and a verdict that is never wrong.  "sent" and       *)
(* "refused" are final; "unknown" is what is left when a reply was lost,   *)
(* and then the message may also be taken after the call has returned.     *)
(***************************************************************************)
EXTENDS Naturals

VARIABLES held,  \* copies of the message the server is responsible for
          told   \* the verdict: "pending" while the call runs

deliveryVars == <<held, told>>

Init == held = 0 /\ told = "pending"

Take == /\ held = 0
        /\ told \in {"pending", "unknown"}
        /\ held' = 1
        /\ UNCHANGED told

TellSent == told = "pending" /\ held = 1 /\ told' = "sent" /\ UNCHANGED held
TellRefused == told = "pending" /\ held = 0 /\ told' = "refused" /\ UNCHANGED held
TellUnknown == told = "pending" /\ told' = "unknown" /\ UNCHANGED held

Next == Take \/ TellSent \/ TellRefused \/ TellUnknown

Spec == Init /\ [][Next]_deliveryVars
=============================================================================
