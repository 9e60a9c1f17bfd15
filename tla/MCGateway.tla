------------------------------ MODULE MCGateway ------------------------------
(* Instances of Gateway for TLC: cameras, and who watches which.           *)
EXTENDS Gateway, TLC

CONSTANTS d1, c1, c2, c3

TwoViewers == (c1 :> <<d1, "frame">>) @@ (c2 :> <<d1, "frame">>)
OneListener == c3 :> <<d1, "audio">>
SmallQueues == [m \in Media |-> 1]
TwoFramesOneChunk == [m \in Media |-> IF m = "frame" THEN 2 ELSE 1]
TwoChunks == [m \in Media |-> IF m = "frame" THEN 0 ELSE 2]
ViewerSymmetry == Permutations({c1, c2})
=============================================================================
