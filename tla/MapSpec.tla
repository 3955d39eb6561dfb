------------------------------ MODULE MapSpec ------------------------------
(***************************************************************************)
(* What the callers of a thread pool (mapproxy/util/async_.py) rely on:    *)
(* the results of tasks 1 .. N arrive in the order of the tasks, each one  *)
(* once.  Without result objects, a failed task makes the iteration raise: *)
(* then no error is ever handed out as a result, and an iteration that     *)
(* ends regularly had no failed task.  With result objects the caller sees *)
(* the error and may give up.                                              *)
(***************************************************************************)
EXTENDS Naturals, Sequences
CONSTANT N
VARIABLES
  raising,  \* TRUE: called without use_result_objects
  failed,   \* tasks whose call raised an exception
  out,      \* results handed out so far
  status    \* "open", "done", "raised" or "abandoned"

vars == <<raising, failed, out, status>>

Init ==
  /\ raising \in BOOLEAN
  /\ failed = {}
  /\ out = <<>>
  /\ status = "open"

TaskFails(i) ==
  /\ i \notin failed
  /\ failed' = failed \cup {i}
  /\ UNCHANGED <<raising, out, status>>

HandOut ==
  LET i == Len(out) + 1 IN
  /\ status = "open" /\ i <= N
  /\ raising => i \notin failed
  /\ out' = Append(out, i)
  /\ UNCHANGED <<raising, failed, status>>

Finish ==
  /\ status = "open" /\ Len(out) = N
  /\ raising => failed = {}
  /\ status' = "done"
  /\ UNCHANGED <<raising, failed, out>>

Raise ==
  /\ status = "open" /\ raising /\ failed # {}
  /\ status' = "raised"
  /\ UNCHANGED <<raising, failed, out>>

\* The caller was given an error as the last result and stops asking.
GiveUp ==
  /\ status = "open" /\ ~raising
  /\ out # <<>> /\ out[Len(out)] \in failed
  /\ status' = "abandoned"
  /\ UNCHANGED <<raising, failed, out>>

Next == (\E i \in 1 .. N : TaskFails(i)) \/ HandOut \/ Finish \/ Raise \/ GiveUp

Spec == Init /\ [][Next]_vars
=============================================================================
