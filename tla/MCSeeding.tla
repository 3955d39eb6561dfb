----------------------------- MODULE MCSeeding -----------------------------
(***************************************************************************)
(* A grid with one tile on level 0, two on level 1 and two on level 2:     *)
(* the tile "m" is below both tiles of level 1, as on irregular grids, and *)
(* the subtile <<2>> of level 0 is outside of the coverage.                *)
(***************************************************************************)
EXTENDS Seeding

MCCovered == {<<1>>, <<1, 1>>, <<1, 2>>, <<1, 1, 1>>, <<1, 1, 2>>, <<1, 2, 1>>}

MCTileOf == [p \in MCCovered |->
  CASE p = <<1>> -> "0"
    [] p = <<1, 1>> -> "1a"
    [] p = <<1, 2>> -> "1b"
    [] p = <<1, 1, 1>> -> "2a"
    [] OTHER -> "m"]

MCMaybeCached == {"2a"}
=============================================================================
