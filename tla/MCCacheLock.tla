---------------------------- MODULE MCCacheLock ----------------------------
(* Small instances of CacheLock. *)
EXTENDS CacheLock, TLC
CONSTANTS a, b, p1, p2, p3
MCProcs == {p1, p2, p3}
MCCaches == {a, b}
MCPlan == p1 :> <<a, b, a>> @@ p2 :> <<b, a>> @@ p3 :> <<a>>
=============================================================================
