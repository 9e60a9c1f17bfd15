----------------------------- MODULE MCSettings -----------------------------
(* The values TLC gives the files and posted configs of Settings.           *)
EXTENDS Settings
LOCAL INSTANCE TLC

CONSTANTS c1, c2, info, trace, bcast, host

(* An empty file, one with an empty `cameras:` section, one that sets one   *)
(* field of one camera, and a whole one with another address.              *)
FilesValue ==
    {Empty, [cameras |-> Null], [cameras |-> c1 :> [rotate |-> 3]],
     [logging |-> trace, cameras |-> c2 :> DefaultEntry, discovery_ips |-> {host}],
     Garbage}

(* A post with a null, one with single fields of the cameras and a null    *)
(* entry, and one that replaces the addresses.                             *)
PostsValue ==
    {[cameras |-> Null], [logging |-> trace, cameras |-> c1 :> [mirror |-> TRUE] @@ c2 :> Null],
     [discovery_ips |-> {host}]}

(* The form sent as it is, and with a turned camera and another log level. *)
EditsValue ==
    LET untouched == [d \in Devs |-> Empty]
    IN  {[logging |-> Null, cameras |-> untouched, discovery_ips |-> Null],
         [logging |-> trace, discovery_ips |-> {host},
          cameras |-> [untouched EXCEPT ![c1] = [rotate |-> 1]]]}
=============================================================================
