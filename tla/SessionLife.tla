----------------------------- MODULE SessionLife -----------------------------
(***************************************************************************)
(* The life of a session (cam_reverse/session.py), without what is sent:   *)
(* what the owner of a session has to reckon with.  A session is connected *)
(* from the start and disconnected once and for all; its endpoint comes    *)
(* some turns of the loop after it, or never, also when it was disconnected *)
(* in between, and then its timeout task runs although nobody is connected. *)
(***************************************************************************)
VARIABLES
    transport,  \* none, open, closed or failed
    peer,       \* unresolved until the connect task reads dst_ip
    connected,
    timing      \* the timeout task runs

vars == <<transport, peer, connected, timing>>

Init ==
    /\ transport = "none" /\ peer = "unresolved"
    /\ connected = TRUE /\ timing = FALSE

Connect ==
    /\ transport = "none" /\ peer = "unresolved"
    /\ peer' = IF connected THEN "camera" ELSE "nowhere"
    /\ UNCHANGED <<transport, connected, timing>>

Fail ==
    /\ transport = "none" /\ peer # "unresolved"
    /\ transport' = "failed"
    /\ UNCHANGED <<peer, connected, timing>>

Open ==
    /\ transport = "none" /\ peer # "unresolved"
    /\ transport' = "open" /\ timing'
    /\ UNCHANGED <<peer, connected>>

(* Only the first of any number of disconnects tears something down.       *)
Disconnect ==
    /\ connected /\ ~connected' /\ ~timing'
    /\ transport' = IF transport = "open" THEN "closed" ELSE transport
    /\ UNCHANGED peer

(* The task gives up on a camera that was disconnected before it opened.   *)
GiveUp ==
    /\ timing /\ ~connected /\ ~timing'
    /\ UNCHANGED <<transport, peer, connected>>

Next == Connect \/ Fail \/ Open \/ Disconnect \/ GiveUp

Spec == Init /\ [][Next]_vars
=============================================================================
