--------------------------- MODULE MCTileCreation ---------------------------
(* Small instances of TileCreation. *)
EXTENDS TileCreation, TLC

CONSTANTS r1, r2

Single == [r \in Requests |-> "single"]

\* While the configuration of the cache is changed from a WMS to a tile source.
MetaAndBulk == r1 :> "meta" @@ r2 :> "bulk"
=============================================================================
