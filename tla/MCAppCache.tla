----------------------------- MODULE MCAppCache -----------------------------
(* Small instances of AppCache. *)
EXTENDS AppCache, TLC
Perms == Permutations(Threads) \cup Permutations(Names)
=============================================================================
