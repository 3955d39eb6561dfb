-------------------------- MODULE MCCompactBundle --------------------------
(* Small instances of CompactBundle. *)
EXTENDS CompactBundle, TLC
Perms == Permutations(Procs) \cup Permutations(Inodes) \cup Permutations(Tiles)
=============================================================================
