----------------------------- MODULE CacheLock -----------------------------
(***************************************************************************)
(* The cache locks of mapproxy-seed --use-cache-lock: CacheLocker          *)
(* (seed/cachelock.py), a queue of rows in an SQLite file, and the loop of *)
(* seed() (seed/seeder.py) that puts a task whose cache is locked to the   *)
(* back of its task list.                                                  *)
(*                                                                         *)
(* A process is one mapproxy-seed call with its own pid.  A row carries    *)
(* the time.time() of its creation; rows are polled in that order.  Python *)
(* evaluates time.time() before sqlite3 opens the exclusive transaction of *)
(* the INSERT, so other processes may come in between.  A poll that does   *)
(* not follow an INSERT runs outside of any transaction.                   *)
(***************************************************************************)
EXTENDS Naturals, Sequences

CONSTANTS
  Procs,     \* pids of the seeding processes
  Caches,    \* cache names
  Plan,      \* Plan[p]: task list of p's seed(), each task named by its cache
  NoProc,    \* no pid
  MaxTime    \* bound on the values of time.time()

ASSUME PlanAssumption ==
  \A p \in Procs : Plan[p] \in Seq(Caches) /\ Plan[p] # <<>>
ASSUME ProcAssumption == NoProc \notin Procs
ASSUME TimeAssumption == MaxTime \in Nat

Times == 1 .. MaxTime

VARIABLES
  created,    \* created[c][p]: the row of p in the queue of c; 0: no row
  tasks,      \* tasks[p]: active_tasks, the last one is tried next
  pc,         \* pc[p]: step of p in seed() and lock()
  stamp,      \* stamp[p]: parameter of the INSERT that p is about to run
  victim,     \* victim[p]: process whose row p is about to delete in _poll
  turn,       \* turn[p]: what that _poll is going to return
  overtaken,  \* overtaken[c]: history, a row was inserted before older rows
  crashed     \* crashed[c]: history, a process died and left a row

procVars == <<tasks, pc, stamp, victim, turn>>
vars == <<created, procVars, overtaken, crashed>>

\* "next": at the top of the loop of lock(); "stamped": about to INSERT;
\* "reaping": about to DELETE a row in _poll; "locked": inside the with body.
States == {"next", "stamped", "reaping", "locked", "done", "dead"}
None == 0

Init ==
  /\ created = [c \in Caches |-> [p \in Procs |-> None]]
  /\ tasks = [p \in Procs |-> Plan[p]]
  /\ pc = [p \in Procs |-> "next"]
  /\ stamp = [p \in Procs |-> None]
  /\ victim = [p \in Procs |-> NoProc]
  /\ turn = [p \in Procs |-> FALSE]
  /\ overtaken = [c \in Caches |-> FALSE]
  /\ crashed = [c \in Caches |-> FALSE]

Current(p) == tasks[p][Len(tasks[p])]
Running(p) == pc[p] # "dead"
LastTask(p) == Len(tasks[p]) = 1
Queue(rows) == {q \in Procs : rows[q] # None}
Oldest(ps, rows) == {q \in ps : \A r \in ps : rows[q] <= rows[r]}

\* Mutant: is_running answers TRUE for a process that is gone.
DeadNone(rows) == {}

Dead(rows) == {q \in Queue(rows) : ~Running(q)}

\* Mutant: active locks of others do not count.
TurnAny(p, rows) == p \in Queue(rows)

\* What _poll returns: the oldest row decides, when it is p's own or that of a
\* dead process it is p's turn.
Turn(p, rows) ==
  \E q \in Oldest(Queue(rows), rows) : q = p \/ q \in Dead(rows)

\* The rows _poll deletes: none when the oldest row is p's own, else the first
\* row of a dead process, as the DELETE on the cursor that is being iterated
\* ends the loop.
Victims(p, rows) ==
  IF p \in Oldest(Queue(rows), rows) THEN {} ELSE Oldest(Dead(rows), rows)

-----------------------------------------------------------------------------
\* Mutant: a refused task is popped, with its row left in the table.
DecideDrop(p, granted) ==
  /\ pc' = [pc EXCEPT ![p] = IF granted THEN "locked" ELSE "next"]
  /\ tasks' = [tasks EXCEPT ![p] = IF granted THEN @ ELSE SubSeq(@, 1, Len(@) - 1)]

\* The lock is granted, or refused: then the last task is polled again after a
\* sleep, and any other is put to the back (CacheLockedError).
Decide(p, granted) ==
  /\ pc' = [pc EXCEPT ![p] = IF granted THEN "locked" ELSE "next"]
  /\ tasks' = [tasks EXCEPT ![p] =
       IF granted \/ LastTask(p) THEN @ ELSE <<Current(p)>> \o SubSeq(@, 1, Len(@) - 1)]

\* Only the order of times in one queue matters: the clock shows the least
\* value after all that are in use for c.
After(t, c) ==
  \A q \in Procs : t > created[c][q] /\ (pc[q] = "stamped" /\ Current(q) = c => t > stamp[q])
Now(t, c) == After(t, c) /\ \A u \in Times : After(u, c) => t <= u

\* _add_lock finds no row of p and evaluates time.time().
Stamp(p) ==
  /\ pc[p] = "next" /\ created[Current(p)][p] = None
  /\ \E t \in Times : Now(t, Current(p)) /\ stamp' = [stamp EXCEPT ![p] = t]
  /\ pc' = [pc EXCEPT ![p] = "stamped"]
  /\ UNCHANGED <<created, tasks, victim, turn, overtaken, crashed>>

\* BEGIN EXCLUSIVE, INSERT, the poll with its DELETE, COMMIT.
Insert(p) ==
  LET c == Current(p)
      rows == [created[c] EXCEPT ![p] = stamp[p]]
  IN
  /\ pc[p] = "stamped"
  /\ created' = [created EXCEPT ![c] =
       [q \in Procs |-> IF q \in Victims(p, rows) THEN None ELSE rows[q]]]
  /\ Decide(p, Turn(p, rows))
  /\ overtaken' = [overtaken EXCEPT ![c] =
       @ \/ \E q \in Queue(created[c]) : created[c][q] > stamp[p]]
  /\ stamp' = [stamp EXCEPT ![p] = None]
  /\ UNCHANGED <<victim, turn, crashed>>

\* _add_lock finds the row of an earlier attempt; the poll only reads.
Poll(p) ==
  LET rows == created[Current(p)] IN
  /\ pc[p] = "next" /\ rows[p] # None /\ Victims(p, rows) = {}
  /\ Decide(p, Turn(p, rows))
  /\ UNCHANGED <<created, stamp, victim, turn, overtaken, crashed>>

\* The poll finds the row of a dead process; its DELETE opens a transaction.
PollDead(p) ==
  LET rows == created[Current(p)] IN
  /\ pc[p] = "next" /\ rows[p] # None
  /\ \E q \in Victims(p, rows) : victim' = [victim EXCEPT ![p] = q]
  /\ turn' = [turn EXCEPT ![p] = Turn(p, rows)]
  /\ pc' = [pc EXCEPT ![p] = "reaping"]
  /\ UNCHANGED <<created, tasks, stamp, overtaken, crashed>>

\* Mutant: the DELETE forgets the pid.
ReapAll(p) ==
  /\ pc[p] = "reaping"
  /\ created' = [created EXCEPT ![Current(p)] =
       [q \in Procs |-> IF q = p THEN @[q] ELSE None]]
  /\ Decide(p, turn[p])
  /\ victim' = [victim EXCEPT ![p] = NoProc]
  /\ turn' = [turn EXCEPT ![p] = FALSE]
  /\ UNCHANGED <<stamp, overtaken, crashed>>

\* _remove_lock for the dead process, COMMIT.
Reap(p) ==
  /\ pc[p] = "reaping"
  /\ created' = [created EXCEPT ![Current(p)][victim[p]] = None]
  /\ Decide(p, turn[p])
  /\ victim' = [victim EXCEPT ![p] = NoProc]
  /\ turn' = [turn EXCEPT ![p] = FALSE]
  /\ UNCHANGED <<stamp, overtaken, crashed>>

\* seed_task returns; the row is removed and the task popped.
Finish(p) ==
  LET left == SubSeq(tasks[p], 1, Len(tasks[p]) - 1) IN
  /\ pc[p] = "locked"
  /\ created' = [created EXCEPT ![Current(p)][p] = None]
  /\ tasks' = [tasks EXCEPT ![p] = left]
  /\ pc' = [pc EXCEPT ![p] = IF left = <<>> THEN "done" ELSE "next"]
  /\ UNCHANGED <<stamp, victim, turn, overtaken, crashed>>

\* p ends with its rows in the table.
Vanish(p) ==
  /\ pc' = [pc EXCEPT ![p] = "dead"]
  /\ crashed' = [c \in Caches |-> crashed[c] \/ created'[c][p] # None]
  /\ stamp' = [stamp EXCEPT ![p] = None]
  /\ victim' = [victim EXCEPT ![p] = NoProc]
  /\ turn' = [turn EXCEPT ![p] = FALSE]
  /\ tasks' = [tasks EXCEPT ![p] = <<>>]
  /\ UNCHANGED overtaken

\* seed_task raises: the finally clause removes the row of the current cache
\* only, and the exception ends the process.
Abort(p) ==
  /\ pc[p] = "locked"
  /\ created' = [created EXCEPT ![Current(p)][p] = None]
  /\ Vanish(p)

Die(p) ==
  /\ pc[p] \notin {"done", "dead"}
  /\ UNCHANGED created
  /\ Vanish(p)

Lock(p) == Stamp(p) \/ Insert(p) \/ Poll(p) \/ PollDead(p) \/ Reap(p)
Work(p) == Lock(p) \/ Finish(p)

Next == \E p \in Procs : Work(p) \/ Abort(p) \/ Die(p)

\* mapproxy-seed has ended for all processes: the system stops.
Spec == Init /\ [][Next]_vars
FairSpec == Spec /\ \A p \in Procs : WF_vars(Work(p))

-----------------------------------------------------------------------------
(* Properties *)

TypeOK ==
  /\ created \in [Caches -> [Procs -> Nat]]
  /\ tasks \in [Procs -> Seq(Caches)]
  /\ pc \in [Procs -> States]
  /\ stamp \in [Procs -> Nat]
  /\ victim \in [Procs -> Procs \cup {NoProc}]
  /\ turn \in [Procs -> BOOLEAN]
  /\ overtaken \in [Caches -> BOOLEAN]
  /\ crashed \in [Caches -> BOOLEAN]
  /\ \A p \in Procs : pc[p] \notin {"done", "dead"} => tasks[p] # <<>>
  /\ \A p \in Procs : victim[p] # NoProc <=> pc[p] = "reaping"

Seeding(c) == {p \in Procs : pc[p] = "locked" /\ Current(p) = c}
Alone(c) == \A p, q \in Seeding(c) : p = q

\* One mapproxy-seed call at a time works on a cache, as long as the rows of
\* that cache were inserted in the order of their times and no process died
\* leaving a row in its queue.
OneSeedPerCache == \A c \in Caches : ~overtaken[c] /\ ~crashed[c] => Alone(c)

\* What --use-cache-lock promises, crashes or not (the insertion order is
\* still granted).
OneSeedPerCacheDespiteCrash == \A c \in Caches : ~overtaken[c] => Alone(c)

\* A process that sits in the blocking wait for its last task reserves no
\* other cache: that keeps the queues of several caches free of deadlocks.
BlockedReservesNothing ==
  \A p \in Procs : Running(p) /\ pc[p] # "done" /\ LastTask(p) =>
    \A c \in Caches \ {Current(p)} : created[c][p] = None

\* While a process seeds a cache its row stays in the table, whatever rows the
\* polls of others delete.
SeedingIsRecorded ==
  \A p \in Procs : pc[p] = "locked" => created[Current(p)][p] # None

\* Every mapproxy-seed call gets through its task list, in spite of other
\* calls that come first, skipped tasks and dead processes in the queue.
SeedEnds == \A p \in Procs : <>(pc[p] \in {"done", "dead"})
=============================================================================
