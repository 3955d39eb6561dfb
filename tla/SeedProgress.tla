---------------------------- MODULE SeedProgress ----------------------------
(***************************************************************************)
(* SeedProgress of mapproxy/seed/seeder.py as operators.  A progress is    *)
(* NoProgress (None) or the sequence of the subtile indices from level 0   *)
(* down to the place the walker has reached.  The code stores pairs        *)
(* (index, number of subtiles); along one path of one grid the second      *)
(* parts of two progresses agree, so the index alone decides.              *)
(***************************************************************************)
EXTENDS Naturals, Sequences
CONSTANT NoProgress

\* p leaves q's path to a subtile that comes earlier.
Before(p, q) ==
  \E k \in DOMAIN p \cap DOMAIN q :
    p[k] < q[k] /\ \A j \in 1 .. k - 1 : p[j] = q[j]

\* Mutant: the subtile the old progress is in counts as processed.
CanSkipSame(old, current) ==
  /\ old # NoProgress /\ current # NoProgress
  /\ old = <<>> \/ Before(current, old) \/ current = old

\* can_skip; the empty progress is the end of the walk
CanSkip(old, current) ==
  /\ old # NoProgress /\ current # NoProgress
  /\ old = <<>> \/ Before(current, old)

\* level_progresses inside of step_down for the last subtile of path
StepDown(progress, path) ==
  Append(IF progress = NoProgress THEN <<>> ELSE SubSeq(progress, 1, Len(path) - 1),
         path[Len(path)])

\* level_progresses after that step_down
StepUp(progress, path) == IF Len(path) = 1 THEN <<>> ELSE progress

\* current_progress_identifier
Identifier(old, progress) ==
  IF CanSkip(old, progress) \/ progress = NoProgress THEN old ELSE progress
=============================================================================
