------------------------------ MODULE LockSpec ------------------------------
(***************************************************************************)
(* What MapProxy expects of a lock file (mapproxy/util/lock.py), without   *)
(* files, descriptors or retries: who is inside the critical section of a  *)
(* path, and whether some process has already left it by unlocking.        *)
(*                                                                         *)
(* A strict lock never has two holders.  The lock of a tile is removed on  *)
(* unlock and is weaker: the comment in FileLock.unlock accepts that "more *)
(* than one process might grab the lock afterwards", because the first     *)
(* process has solved the task by then.  FileLock.tla is shown to          *)
(* implement this specification.                                           *)
(***************************************************************************)
CONSTANTS
  Procs,       \* processes and threads that may lock
  Paths,       \* lock files
  Strict       \* TRUE: two holders are never allowed

VARIABLES
  holders,     \* holders[path]: the processes inside the critical section
  solved       \* solved[path]: some holder has left it with unlock()

vars == <<holders, solved>>

Init ==
  /\ holders = [path \in Paths |-> {}]
  /\ solved = [path \in Paths |-> FALSE]

\* lock() returns: the section is empty, or it was completed once before.
Acquire(p, path) ==
  /\ p \notin holders[path]
  /\ holders[path] = {} \/ (~Strict /\ solved[path])
  /\ holders' = [holders EXCEPT ![path] = @ \cup {p}]
  /\ UNCHANGED solved

\* unlock() by a holder.
Release(p, path) ==
  /\ p \in holders[path]
  /\ holders' = [holders EXCEPT ![path] = @ \ {p}]
  /\ solved' = [solved EXCEPT ![path] = TRUE]

\* A holder dies: it leaves the section without having completed it.
Die(p, path) ==
  /\ p \in holders[path]
  /\ holders' = [holders EXCEPT ![path] = @ \ {p}]
  /\ UNCHANGED solved

Next == \E p \in Procs, path \in Paths :
          Acquire(p, path) \/ Release(p, path) \/ Die(p, path)

Spec == Init /\ [][Next]_vars
=============================================================================
