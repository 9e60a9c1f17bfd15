--------------------------- MODULE CommandDelivery ---------------------------
(* What a session promises its owner about the commands it sends to a      *)
(* camera (the "Drw retransmit" of session.py): at-least-once delivery.    *)
(* Commands are numbered in the order they are issued.  The camera may get *)
(* a command at any time after that, more than once and out of order; the  *)
(* session considers a command done (confirmed) only if the camera has     *)
(* received it, and never takes that back.                                 *)
EXTENDS Naturals

VARIABLES
    issued,     \* how many commands have been issued
    delivered,  \* those the camera has received at least once
    confirmed   \* those the session no longer retransmits

vars == <<issued, delivered, confirmed>>

Init == issued = 0 /\ delivered = {} /\ confirmed = {}

Issue ==
    /\ issued' \in Nat /\ issued' > issued
    /\ UNCHANGED <<delivered, confirmed>>

Deliver ==
    /\ \E m \in 1 .. issued : delivered' = delivered \cup {m}
    /\ UNCHANGED <<issued, confirmed>>

Confirm ==
    /\ confirmed \subseteq confirmed' /\ confirmed' \subseteq delivered
    /\ UNCHANGED <<issued, delivered>>

Next == Issue \/ Deliver \/ Confirm

Spec == Init /\ [][Next]_vars
=============================================================================
