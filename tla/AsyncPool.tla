----------------------------- MODULE AsyncPool -----------------------------
(***************************************************************************)
(* ThreadPool of mapproxy/util/async_.py: imap/starmap over N tasks with   *)
(* pool_size >= 2 worker threads.  The caller's thread runs the generator  *)
(* map_each (and shutdown), the workers take tasks from task_queue and put *)
(* results into result_queue.  Each operation on a Queue is atomic; the    *)
(* steps of the threads interleave between them.                           *)
(*                                                                         *)
(* A result is known by its task; tasks in failed put the exc_info of an   *)
(* exception in place of a result.                                         *)
(***************************************************************************)
EXTENDS Naturals, Sequences, FiniteSets, SequencesExt

CONSTANTS
  N,        \* number of tasks
  Workers   \* the pool_size worker threads

ASSUME SizeAssumption ==
  N \in Nat /\ IsFiniteSet(Workers) /\ Cardinality(Workers) >= 2

VARIABLES
  taskQ,      \* task_queue: tasks and shutdown sentinels
  unfinished, \* task_queue's count for join()
  resultQ,    \* result_queue
  worker,     \* worker[w]: "idle", "running", "answered" or "ended"
  job,        \* job[w]: the task w runs, or Sentinel
  raising,    \* raise_exceptions
  failed,     \* tasks that raised an exception
  pc,         \* step of the caller's thread
  last,       \* TRUE: second call of _get_results, after the join
  results,    \* results: fetched, but not next
  out,        \* results yielded to the consumer
  why         \* "none", or why shutdown(force=True) was called

poolVars == <<taskQ, unfinished, resultQ, worker, job, failed>>
mainVars == <<pc, last, results, out, why, raising>>
vars == <<poolVars, mainVars>>

Tasks == 1 .. N
Sentinel == 0    \* None in the task queue

\* map_each has started the workers and filled the task queue.
Init ==
  /\ taskQ = [i \in Tasks |-> i]
  /\ unfinished = N
  /\ resultQ = <<>>
  /\ worker = [w \in Workers |-> "idle"]
  /\ job = [w \in Workers |-> Sentinel]
  /\ raising \in BOOLEAN
  /\ failed = {}
  /\ pc = "tasks empty?"
  /\ last = FALSE
  /\ results = {}
  /\ out = <<>>
  /\ why = "none"

Yielded == Len(out)
Running(w) == worker[w] = "running"

-----------------------------------------------------------------------------
(* ThreadWorker.run *)

Take(w) ==
  /\ worker[w] = "idle" /\ taskQ # <<>> /\ Head(taskQ) # Sentinel
  /\ worker' = [worker EXCEPT ![w] = "running"]
  /\ job' = [job EXCEPT ![w] = Head(taskQ)]
  /\ taskQ' = Tail(taskQ)
  /\ UNCHANGED <<unfinished, resultQ, failed, mainVars>>

\* The function returns or raises; its result is put into the result queue.
PutResult(w) ==
  /\ Running(w)
  /\ resultQ' = Append(resultQ, job[w])
  /\ worker' = [worker EXCEPT ![w] = "answered"]
  /\ \/ failed' = failed
     \/ failed' = failed \cup {job[w]}
  /\ job' = [job EXCEPT ![w] = Sentinel]
  /\ UNCHANGED <<taskQ, unfinished, mainVars>>

TaskDone(w) ==
  /\ worker[w] = "answered"
  /\ unfinished' = unfinished - 1
  /\ worker' = [worker EXCEPT ![w] = "idle"]
  /\ UNCHANGED <<taskQ, resultQ, job, failed, mainVars>>

\* The thread gets the sentinel and ends.
GetSentinel(w) ==
  /\ worker[w] = "idle" /\ taskQ # <<>> /\ Head(taskQ) = Sentinel
  /\ taskQ' = Tail(taskQ)
  /\ unfinished' = unfinished - 1
  /\ worker' = [worker EXCEPT ![w] = "ended"]
  /\ UNCHANGED <<resultQ, job, failed, mainVars>>

Worker(w) == Take(w) \/ PutResult(w) \/ TaskDone(w) \/ GetSentinel(w)

-----------------------------------------------------------------------------
(* map_each, _get_results, _fetch_results *)

\* not self.task_queue.empty()
TasksEmpty ==
  /\ pc = "tasks empty?"
  /\ pc' = IF taskQ = <<>> THEN "results empty?" ELSE "fetch"
  /\ UNCHANGED <<poolVars, last, results, out, why, raising>>

\* or not self.result_queue.empty(); both empty: the loop is left
ResultsEmpty ==
  /\ pc = "results empty?"
  /\ pc' = IF resultQ # <<>> THEN "fetch" ELSE IF last THEN "stop" ELSE "join"
  /\ UNCHANGED <<poolVars, last, results, out, why, raising>>

\* result_queue.get() blocks until there is a result.
Fetch ==
  LET i == Head(resultQ)
      raise == raising /\ i \in failed
  IN
  /\ pc = "fetch" /\ resultQ # <<>>
  /\ resultQ' = Tail(resultQ)
  /\ IF raise
     THEN pc' = "drain tasks" /\ why' = "raised" /\ UNCHANGED results
     ELSE /\ results' = results \cup {i}
          /\ pc' = IF i = Yielded + 1 THEN "yield" ELSE "tasks empty?"
          /\ UNCHANGED why
  /\ UNCHANGED <<taskQ, unfinished, worker, job, failed, last, out, raising>>

\* The next result is yielded: the consumer runs.
Yield ==
  /\ pc = "yield"
  /\ out' = Append(out, Yielded + 1)
  /\ results' = results \ {Yielded + 1}
  /\ pc' = "yielded"
  /\ UNCHANGED <<poolVars, last, why, raising>>

\* The consumer asks for more; results that waited for this one are next.
Resume ==
  /\ pc = "yielded"
  /\ pc' = IF Yielded + 1 \in results THEN "yield" ELSE "tasks empty?"
  /\ UNCHANGED <<poolVars, last, results, out, why, raising>>

\* The consumer was given an error, calls shutdown(True) and raises it.
GiveUp ==
  /\ pc = "yielded" /\ Yielded \in failed
  /\ pc' = "drain tasks"
  /\ why' = "abandoned"
  /\ UNCHANGED <<poolVars, last, results, out, raising>>

\* Mutant: the join is forgotten.
NoJoin ==
  /\ pc = "join"
  /\ last' = TRUE
  /\ pc' = "tasks empty?"
  /\ UNCHANGED <<poolVars, results, out, why, raising>>

\* self.task_queue.join()
Join ==
  /\ pc = "join" /\ unfinished = 0
  /\ last' = TRUE
  /\ pc' = "tasks empty?"
  /\ UNCHANGED <<poolVars, results, out, why, raising>>

-----------------------------------------------------------------------------
(* shutdown *)

\* Mutant: the tasks stay in the queue.
KeepTasks ==
  /\ pc = "drain tasks"
  /\ pc' = "drain results"
  /\ UNCHANGED <<poolVars, last, results, out, why, raising>>

\* _consume_queue(self.task_queue)
DrainTasks ==
  /\ pc = "drain tasks"
  /\ IF taskQ = <<>>
     THEN pc' = "drain results" /\ UNCHANGED <<taskQ, unfinished>>
     ELSE taskQ' = Tail(taskQ) /\ unfinished' = unfinished - 1 /\ UNCHANGED pc
  /\ UNCHANGED <<resultQ, worker, job, failed, last, results, out, why, raising>>

\* Mutant: task_done is called on the wrong queue.
DrainResultsDone ==
  /\ pc = "drain results"
  /\ IF resultQ = <<>>
     THEN pc' = "stop" /\ UNCHANGED <<resultQ, unfinished>>
     ELSE resultQ' = Tail(resultQ) /\ unfinished' = unfinished - 1 /\ UNCHANGED pc
  /\ UNCHANGED <<taskQ, worker, job, failed, last, results, out, why, raising>>

\* _consume_queue(self.result_queue)
DrainResults ==
  /\ pc = "drain results"
  /\ IF resultQ = <<>>
     THEN pc' = "stop" /\ UNCHANGED resultQ
     ELSE resultQ' = Tail(resultQ) /\ UNCHANGED pc
  /\ UNCHANGED <<taskQ, unfinished, worker, job, failed, last, results, out, why, raising>>

\* Mutant: one sentinel too few.
SendFewer ==
  /\ pc = "stop"
  /\ taskQ' = taskQ \o [k \in 1 .. Cardinality(Workers) - 1 |-> Sentinel]
  /\ unfinished' = unfinished + Cardinality(Workers) - 1
  /\ pc' = "end"
  /\ UNCHANGED <<resultQ, worker, job, failed, last, results, out, why, raising>>

\* One sentinel per thread; then the generator ends or raises.
SendSentinels ==
  /\ pc = "stop"
  /\ taskQ' = taskQ \o [k \in 1 .. Cardinality(Workers) |-> Sentinel]
  /\ unfinished' = unfinished + Cardinality(Workers)
  /\ pc' = "end"
  /\ UNCHANGED <<resultQ, worker, job, failed, last, results, out, why, raising>>

Main ==
  \/ TasksEmpty \/ ResultsEmpty \/ Fetch \/ Yield \/ Resume \/ GiveUp \/ Join
  \/ DrainTasks \/ DrainResults \/ SendSentinels

Next == Main \/ \E w \in Workers : Worker(w)

\* The functions return, threads run, and the consumer asks for the results.
Fairness == WF_vars(Main) /\ \A w \in Workers : WF_vars(Worker(w))
Spec == Init /\ [][Next]_vars /\ Fairness

-----------------------------------------------------------------------------
(* Properties *)

TypeOK ==
  /\ taskQ \in Seq(Tasks \cup {Sentinel})
  /\ unfinished \in Nat
  /\ resultQ \in Seq(Tasks)
  /\ worker \in [Workers -> {"idle", "running", "answered", "ended"}]
  /\ job \in [Workers -> Tasks \cup {Sentinel}]
  /\ \A w \in Workers : Running(w) <=> job[w] \in Tasks
  /\ raising \in BOOLEAN
  /\ failed \subseteq Tasks
  /\ pc \in {"tasks empty?", "results empty?", "fetch", "yield", "yielded", "join",
             "drain tasks", "drain results", "stop", "end"}
  /\ last \in BOOLEAN
  /\ results \subseteq Tasks
  /\ out \in Seq(Tasks)
  /\ why \in {"none", "raised", "abandoned"}

\* The caller gets the results in order and each one once, a failed task is
\* never taken for a result when exceptions are to be raised, and an iteration
\* that ends without an exception has handed out the results of all tasks.
Promise == INSTANCE MapSpec WITH
  status <- IF why # "none" THEN why ELSE IF pc = "end" THEN "done" ELSE "open"
ImplementsMap == Promise!Spec

\* The iteration ends, and the pool leaves no thread behind, also after an
\* exception.
AllEnd == <>(pc = "end" /\ \A w \in Workers : worker[w] = "ended")

\* After a forced shutdown no thread starts another task.
NothingStartsAfterShutdown ==
  [][pc = "end" => \A w \in Workers : ~Running(w) => ~Running(w)']_vars
=============================================================================
