----------------------------- MODULE MCCleanup -----------------------------
(* Two levels with two tiles and one tile. *)
EXTENDS Cleanup, TLC
CONSTANTS a, b, c
MCLevelOf == a :> 1 @@ b :> 1 @@ c :> 2
=============================================================================
