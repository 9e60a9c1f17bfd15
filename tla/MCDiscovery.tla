----------------------------- MODULE MCDiscovery -----------------------------
(* A broadcast address that reaches both cameras, and the one's own.        *)
EXTENDS Discovery, TLC

CONSTANTS broadcast, own, c1, c2

ReachesBoth == (broadcast :> {c1, c2}) @@ (own :> {c2})
=============================================================================
