-------------------------- MODULE CacheLockProofs --------------------------
(***************************************************************************)
(* Proofs about CacheLock for any number of processes, caches and tasks.   *)
(*                                                                         *)
(* TypeOK is inductive.  That a process works alone on a cache needs more: *)
(* QueueInv says of every cache whose queue is undisturbed (no row came in *)
(* out of order, no process died with a row in it) that times are not used *)
(* twice, that no row there is about to be deleted for a dead process, and *)
(* that the process inside has the oldest row.                             *)
(***************************************************************************)
EXTENDS CacheLock, TLAPS

Undisturbed(c) == ~overtaken[c] /\ ~crashed[c]

\* A process that is inside, or about to delete a row, has a row of its own.
InsideHasRow ==
  \A p \in Procs : pc[p] \in {"locked", "reaping"} => created[Current(p)][p] # None

\* A process inside has the oldest row of its queue.
SeedingIsOldest ==
  \A p, q \in Procs :
    pc[p] = "locked" /\ Undisturbed(Current(p)) /\ created[Current(p)][q] # None
      => created[Current(p)][p] <= created[Current(p)][q]

\* Rows of a queue, and rows about to be inserted, have different times.
RowsDiffer ==
  \A c \in Caches, p, q \in Procs :
    p # q /\ created[c][p] # None => created[c][p] # created[c][q]
StampDiffers ==
  \A p, q \in Procs :
    pc[p] = "stamped" =>
      /\ stamp[p] # None
      /\ stamp[p] # created[Current(p)][q]
      /\ pc[q] = "stamped" /\ Current(q) = Current(p) /\ p # q => stamp[p] # stamp[q]

\* Rows of a dead process have been noticed, and only such rows are deleted by
\* others.
DeadRowsAreCrashes ==
  /\ \A c \in Caches, p \in Procs : pc[p] = "dead" /\ created[c][p] # None => crashed[c]
  /\ \A p \in Procs : pc[p] = "reaping" => pc[victim[p]] = "dead" /\ crashed[Current(p)]

QueueInv ==
  /\ TypeOK /\ InsideHasRow /\ SeedingIsOldest /\ RowsDiffer /\ StampDiffers
  /\ DeadRowsAreCrashes

-----------------------------------------------------------------------------
(* What the parts of an action change *)

LEMMA CurrentIsCache ==
  ASSUME TypeOK, NEW p \in Procs, pc[p] \notin {"done", "dead"}
  PROVE  Current(p) \in Caches
  BY DEF TypeOK, Current, States

\* Moving the last task to the front, or dropping it, leaves a task list.
LEMMA RotateType ==
  ASSUME NEW s \in Seq(Caches), s # <<>>
  PROVE  /\ <<s[Len(s)]>> \o SubSeq(s, 1, Len(s) - 1) \in Seq(Caches)
         /\ <<s[Len(s)]>> \o SubSeq(s, 1, Len(s) - 1) # <<>>
         /\ SubSeq(s, 1, Len(s) - 1) \in Seq(Caches)
<1>1. SubSeq(s, 1, Len(s) - 1) \in Seq(Caches)
  OBVIOUS
<1>2. <<s[Len(s)]>> \in Seq(Caches)
  OBVIOUS
<1> QED BY <1>1, <1>2

LEMMA InitTyped == Init => QueueInv
  BY PlanAssumption, ProcAssumption
  DEF Init, QueueInv, TypeOK, States, None, InsideHasRow, SeedingIsOldest,
      RowsDiffer, StampDiffers, DeadRowsAreCrashes

\* A decision touches the task list and the step of one process only.
LEMMA Decided ==
  ASSUME TypeOK, NEW p \in Procs, pc[p] \notin {"done", "dead"},
         NEW granted \in BOOLEAN, Decide(p, granted)
  PROVE  /\ tasks' \in [Procs -> Seq(Caches)] /\ pc' \in [Procs -> States]
         /\ pc'[p] = (IF granted THEN "locked" ELSE "next") /\ tasks'[p] # <<>>
         /\ granted => Current(p)' = Current(p)
         /\ \A q \in Procs \ {p} : pc'[q] = pc[q] /\ Current(q)' = Current(q)
                                   /\ tasks'[q] = tasks[q]
<1>1. tasks[p] \in Seq(Caches) /\ tasks[p] # <<>>
  BY DEF TypeOK
<1>2. tasks'[p] \in Seq(Caches) /\ tasks'[p] # <<>>
  BY <1>1, RotateType DEF Decide, Current, TypeOK
<1>3. \A q \in Procs \ {p} : pc'[q] = pc[q] /\ tasks'[q] = tasks[q]
  BY DEF Decide, TypeOK
<1>4. pc'[p] = (IF granted THEN "locked" ELSE "next") /\ (granted => tasks'[p] = tasks[p])
  BY DEF Decide, TypeOK
<1>5. tasks' \in [Procs -> Seq(Caches)]
  BY <1>2 DEF Decide, TypeOK
<1>6. pc' \in [Procs -> States]
  BY DEF Decide, TypeOK, States
<1> QED BY <1>2, <1>3, <1>4, <1>5, <1>6 DEF Current
-----------------------------------------------------------------------------
(* TypeOK is inductive: one lemma per action *)

LEMMA StampTyped ==
  ASSUME TypeOK, NEW p \in Procs, Stamp(p) PROVE TypeOK'
  BY TimeAssumption DEF TypeOK, States, Stamp, Times

LEMMA InsertTyped ==
  ASSUME TypeOK, NEW p \in Procs, Insert(p) PROVE TypeOK'
<1> DEFINE c == Current(p)
           rows == [created[c] EXCEPT ![p] = stamp[p]]
<1>1. c \in Caches /\ pc[p] = "stamped"
  BY CurrentIsCache DEF Insert
<1>2. Decide(p, TRUE) \/ Decide(p, FALSE)
  BY DEF Insert, Decide
<1>3. /\ tasks' \in [Procs -> Seq(Caches)] /\ pc' \in [Procs -> States]
      /\ pc'[p] \in {"locked", "next"} /\ tasks'[p] # <<>>
      /\ \A q \in Procs \ {p} : pc'[q] = pc[q] /\ tasks'[q] = tasks[q]
  BY <1>1, <1>2, Decided
<1>4. rows \in [Procs -> Nat]
  BY <1>1 DEF TypeOK
<1>5. created' = [created EXCEPT ![c] =
        [q \in Procs |-> IF q \in Victims(p, rows) THEN None ELSE rows[q]]]
  BY DEF Insert
<1>6. created' \in [Caches -> [Procs -> Nat]]
  BY <1>1, <1>4, <1>5 DEF TypeOK, None
<1>7. stamp' \in [Procs -> Nat]
  BY DEF Insert, TypeOK, None
<1>8. overtaken' \in [Caches -> BOOLEAN]
  BY DEF Insert, TypeOK
<1>9. UNCHANGED <<victim, turn, crashed>>
  BY DEF Insert
<1> QED BY <1>1, <1>3, <1>6, <1>7, <1>8, <1>9 DEF TypeOK

LEMMA PollTyped ==
  ASSUME TypeOK, NEW p \in Procs, Poll(p) PROVE TypeOK'
<1>1. Decide(p, TRUE) \/ Decide(p, FALSE)
  BY DEF Poll, Decide
<1>2. /\ tasks' \in [Procs -> Seq(Caches)] /\ pc' \in [Procs -> States]
      /\ pc'[p] \in {"locked", "next"} /\ tasks'[p] # <<>>
      /\ \A q \in Procs \ {p} : pc'[q] = pc[q] /\ tasks'[q] = tasks[q]
  BY <1>1, Decided DEF Poll
<1> QED BY <1>2 DEF TypeOK, Poll

LEMMA PollDeadTyped ==
  ASSUME TypeOK, NEW p \in Procs, PollDead(p) PROVE TypeOK'
<1>1. PICK q \in Procs : victim' = [victim EXCEPT ![p] = q]
  BY DEF PollDead, Victims, Oldest, Dead, Queue
<1>2. turn' \in [Procs -> BOOLEAN]
  BY DEF PollDead, TypeOK, Turn
<1> QED BY <1>1, <1>2, ProcAssumption DEF TypeOK, States, PollDead

LEMMA ReapTyped ==
  ASSUME TypeOK, NEW p \in Procs, Reap(p) PROVE TypeOK'
<1>1. Decide(p, TRUE) \/ Decide(p, FALSE)
  BY DEF Reap, Decide
<1>2. /\ tasks' \in [Procs -> Seq(Caches)] /\ pc' \in [Procs -> States]
      /\ pc'[p] \in {"locked", "next"} /\ tasks'[p] # <<>>
      /\ \A q \in Procs \ {p} : pc'[q] = pc[q] /\ tasks'[q] = tasks[q]
  BY <1>1, Decided DEF Reap
<1>3. created' \in [Caches -> [Procs -> Nat]]
  BY DEF Reap, TypeOK, None
<1> QED BY <1>2, <1>3, ProcAssumption DEF TypeOK, Reap

LEMMA FinishTyped ==
  ASSUME TypeOK, NEW p \in Procs, Finish(p) PROVE TypeOK'
<1> DEFINE left == SubSeq(tasks[p], 1, Len(tasks[p]) - 1)
<1>1. left \in Seq(Caches)
  BY RotateType DEF TypeOK, Finish
<1>2. created' \in [Caches -> [Procs -> Nat]]
  BY DEF Finish, TypeOK, None
<1>3. pc' = [pc EXCEPT ![p] = IF left = <<>> THEN "done" ELSE "next"]
      /\ tasks' = [tasks EXCEPT ![p] = left]
  BY DEF Finish
<1>4. tasks' \in [Procs -> Seq(Caches)] /\ pc' \in [Procs -> States]
  BY <1>1, <1>3 DEF TypeOK, States
<1>5. \A q \in Procs : pc'[q] \notin {"done", "dead"} => tasks'[q] # <<>>
  BY <1>3 DEF TypeOK
<1>6. \A q \in Procs : victim'[q] # NoProc <=> pc'[q] = "reaping"
  BY <1>3 DEF TypeOK, Finish
<1> QED BY <1>2, <1>4, <1>5, <1>6 DEF TypeOK, Finish

LEMMA VanishTyped ==
  ASSUME TypeOK, NEW p \in Procs, Vanish(p), created' \in [Caches -> [Procs -> Nat]]
  PROVE  TypeOK'
  BY ProcAssumption DEF TypeOK, States, Vanish, None

LEMMA EndTyped ==
  ASSUME TypeOK, NEW p \in Procs, Abort(p) \/ Die(p) PROVE TypeOK'
<1>1. CASE Abort(p)
  <2>1. created' \in [Caches -> [Procs -> Nat]]
    BY <1>1 DEF Abort, TypeOK, None
  <2> QED BY <1>1, <2>1, VanishTyped DEF Abort
<1>2. CASE Die(p)
  <2>1. created' \in [Caches -> [Procs -> Nat]]
    BY <1>2 DEF Die, TypeOK
  <2> QED BY <1>2, <2>1, VanishTyped DEF Die
<1> QED BY <1>1, <1>2

LEMMA TypeStep == TypeOK /\ [Next]_vars => TypeOK'
<1> SUFFICES ASSUME TypeOK, [Next]_vars PROVE TypeOK'
  OBVIOUS
<1>1. CASE UNCHANGED vars
  BY <1>1 DEF TypeOK, vars, procVars
<1>2. ASSUME NEW p \in Procs, Work(p) \/ Abort(p) \/ Die(p) PROVE TypeOK'
  BY <1>2, StampTyped, InsertTyped, PollTyped, PollDeadTyped, ReapTyped,
     FinishTyped, EndTyped DEF Work, Lock
<1> QED BY <1>1, <1>2 DEF Next

\* Type correctness for any number of processes, caches and tasks: a process
\* that is still at work always has a task, and it has a victim exactly while
\* it is about to delete a dead process's row.
THEOREM TypeCorrect == Spec => []TypeOK
<1>1. Init => TypeOK
  BY InitTyped DEF QueueInv
<1> QED BY <1>1, TypeStep, PTL DEF Spec
-----------------------------------------------------------------------------
(* The other parts of QueueInv, one lemma per action *)

LEMMA StampKeeps ==
  ASSUME QueueInv, NEW p \in Procs, Stamp(p)
  PROVE  /\ InsideHasRow' /\ SeedingIsOldest' /\ RowsDiffer' /\ StampDiffers'
         /\ DeadRowsAreCrashes'
<1> USE DEF QueueInv
<1>1. PICK t \in Times : Now(t, Current(p)) /\ stamp' = [stamp EXCEPT ![p] = t]
  BY DEF Stamp
<1>2. \A q \in Procs : Current(q)' = Current(q)
  BY DEF Stamp, Current
<1>3. /\ pc[p] = "next" /\ pc' = [pc EXCEPT ![p] = "stamped"]
      /\ UNCHANGED <<created, tasks, victim, turn, overtaken, crashed>>
  BY DEF Stamp
<1>4. InsideHasRow' /\ SeedingIsOldest' /\ RowsDiffer'
  BY <1>2, <1>3 DEF InsideHasRow, SeedingIsOldest, RowsDiffer, Undisturbed, TypeOK, None
<1>5. StampDiffers'
  <2>1. t \in Nat /\ t > 0
    BY TimeAssumption DEF Times
  <2>2. \A q \in Procs : /\ t > created[Current(p)][q]
                         /\ pc[q] = "stamped" /\ Current(q) = Current(p) => t > stamp[q]
    BY <1>1 DEF Now, After
  <2>3. Current(p) \in Caches
    BY <1>3, CurrentIsCache
  <2> QED BY <1>1, <1>2, <1>3, <2>1, <2>2, <2>3 DEF StampDiffers, TypeOK, None
<1>6. DeadRowsAreCrashes'
  BY <1>2, <1>3 DEF DeadRowsAreCrashes, TypeOK
<1> QED BY <1>4, <1>5, <1>6

LEMMA PollKeeps ==
  ASSUME QueueInv, NEW p \in Procs, Poll(p)
  PROVE  /\ InsideHasRow' /\ SeedingIsOldest' /\ RowsDiffer' /\ StampDiffers'
         /\ DeadRowsAreCrashes'
<1> USE DEF QueueInv
<1> DEFINE rows == created[Current(p)]
<1>1. /\ pc[p] = "next" /\ rows[p] # None
      /\ UNCHANGED <<created, stamp, victim, turn, overtaken, crashed>>
  BY DEF Poll
<1>2. PICK granted \in BOOLEAN : Decide(p, granted) /\ (granted <=> Turn(p, rows))
  BY DEF Poll, Decide, Turn
<1>3. /\ pc'[p] = (IF granted THEN "locked" ELSE "next")
      /\ granted => Current(p)' = Current(p)
      /\ \A q \in Procs \ {p} : pc'[q] = pc[q] /\ Current(q)' = Current(q)
  BY <1>1, <1>2, Decided
<1>4. Current(p) \in Caches
  BY <1>1, CurrentIsCache
<1>5. ASSUME granted, Undisturbed(Current(p)), NEW q \in Procs, rows[q] # None
      PROVE  rows[p] <= rows[q]
  <2>1. Dead(rows) = {}
    BY <1>4, <1>5 DEF Dead, Queue, Running, DeadRowsAreCrashes, Undisturbed
  <2>2. p \in Oldest(Queue(rows), rows)
    BY <1>2, <1>5, <2>1 DEF Turn
  <2> QED BY <1>5, <2>2 DEF Oldest, Queue
<1>6. InsideHasRow'
  BY <1>1, <1>3 DEF InsideHasRow
<1>7. SeedingIsOldest'
  BY <1>1, <1>3, <1>5 DEF SeedingIsOldest, Undisturbed
<1>8. RowsDiffer' /\ StampDiffers'
  BY <1>1, <1>3 DEF RowsDiffer, StampDiffers
<1>9. DeadRowsAreCrashes'
  <2>1. \A q \in Procs : pc'[q] = "dead" => pc[q] = "dead"
    BY <1>3
  <2>2. \A q \in Procs : pc'[q] = "reaping" => pc[q] = "reaping" /\ q # p
    BY <1>3
  <2>3. \A q \in Procs : pc[q] = "reaping" => pc'[victim[q]] = "dead"
    BY <1>1, <1>3, ProcAssumption DEF DeadRowsAreCrashes, TypeOK
  <2> QED BY <1>1, <1>3, <2>1, <2>2, <2>3 DEF DeadRowsAreCrashes
<1> QED BY <1>6, <1>7, <1>8, <1>9

LEMMA PollDeadKeeps ==
  ASSUME QueueInv, NEW p \in Procs, PollDead(p)
  PROVE  /\ InsideHasRow' /\ SeedingIsOldest' /\ RowsDiffer' /\ StampDiffers'
         /\ DeadRowsAreCrashes'
<1> USE DEF QueueInv
<1> DEFINE rows == created[Current(p)]
<1>1. /\ pc[p] = "next" /\ rows[p] # None /\ pc' = [pc EXCEPT ![p] = "reaping"]
      /\ UNCHANGED <<created, tasks, stamp, overtaken, crashed>>
  BY DEF PollDead
<1>2. PICK v \in Procs : v \in Dead(rows) /\ victim' = [victim EXCEPT ![p] = v]
  BY DEF PollDead, Victims, Oldest, Dead, Queue
<1>3. \A q \in Procs : Current(q)' = Current(q)
  BY <1>1 DEF Current
<1>4. Current(p) \in Caches
  BY <1>1, CurrentIsCache
<1>5. pc[v] = "dead" /\ crashed[Current(p)]
  BY <1>2, <1>4 DEF Dead, Queue, Running, DeadRowsAreCrashes
<1>6. InsideHasRow' /\ SeedingIsOldest'
  BY <1>1, <1>3 DEF InsideHasRow, SeedingIsOldest, Undisturbed, TypeOK
<1>7. RowsDiffer' /\ StampDiffers'
  BY <1>1, <1>3 DEF RowsDiffer, StampDiffers, TypeOK
<1>8. DeadRowsAreCrashes'
  <2>1. \A q \in Procs : pc'[q] = "dead" => pc[q] = "dead"
    BY <1>1 DEF TypeOK
  <2>2. \A c \in Caches, q \in Procs : pc'[q] = "dead" /\ created'[c][q] # None => crashed'[c]
    BY <1>1, <2>1 DEF DeadRowsAreCrashes
  <2>3. ASSUME NEW q \in Procs, pc'[q] = "reaping"
        PROVE  pc'[victim'[q]] = "dead" /\ crashed'[Current(q)']
    <3>1. CASE q = p
      BY <1>1, <1>2, <1>3, <1>5, <3>1 DEF TypeOK
    <3>2. CASE q # p
      BY <1>1, <1>2, <1>3, <2>3, <3>2 DEF TypeOK, DeadRowsAreCrashes
    <3> QED BY <3>1, <3>2
  <2> QED BY <2>2, <2>3 DEF DeadRowsAreCrashes
<1> QED BY <1>6, <1>7, <1>8
LEMMA ReapKeeps ==
  ASSUME QueueInv, NEW p \in Procs, Reap(p)
  PROVE  /\ InsideHasRow' /\ SeedingIsOldest' /\ RowsDiffer' /\ StampDiffers'
         /\ DeadRowsAreCrashes'
<1> USE DEF QueueInv
<1> DEFINE c == Current(p)
           v == victim[p]
<1>1. /\ pc[p] = "reaping" /\ created' = [created EXCEPT ![c][v] = None]
      /\ victim' = [victim EXCEPT ![p] = NoProc]
      /\ UNCHANGED <<stamp, overtaken, crashed>>
  BY DEF Reap
<1>2. PICK granted \in BOOLEAN : Decide(p, granted)
  BY DEF Reap, TypeOK
<1>3. /\ pc'[p] = (IF granted THEN "locked" ELSE "next")
      /\ granted => Current(p)' = c
      /\ \A q \in Procs \ {p} : pc'[q] = pc[q] /\ Current(q)' = Current(q)
  BY <1>1, <1>2, Decided
<1>4. c \in Caches /\ v \in Procs /\ v # p /\ pc[v] = "dead" /\ crashed[c]
  BY <1>1, CurrentIsCache DEF TypeOK, DeadRowsAreCrashes
<1>5. \A d \in Caches, q \in Procs :
        created'[d][q] = (IF d = c /\ q = v THEN None ELSE created[d][q])
  BY <1>1, <1>4 DEF TypeOK
<1> HIDE DEF c, v
<1>6. \A q \in Procs : pc'[q] \in {"locked", "reaping", "stamped"} =>
        /\ Current(q)' \in Caches /\ q # v
        /\ q # p => Current(q)' = Current(q) /\ pc'[q] = pc[q]
        /\ q = p => Current(q)' = c /\ pc'[q] = "locked"
  <2>1. \A q \in Procs \ {p} : pc[q] \in {"locked", "reaping", "stamped"} =>
          Current(q) \in Caches
    BY CurrentIsCache
  <2> QED BY <1>3, <1>4, <2>1
<1>7. InsideHasRow'
  <2>1. created[c][p] # None
    BY <1>1 DEF InsideHasRow, c
  <2> QED BY <1>5, <1>6, <2>1 DEF InsideHasRow
<1>8. SeedingIsOldest'
  <2> SUFFICES ASSUME NEW q \in Procs, NEW r \in Procs, pc'[q] = "locked",
                      Undisturbed(Current(q))', created'[Current(q)'][r] # None
               PROVE  created'[Current(q)'][q] <= created'[Current(q)'][r]
    BY DEF SeedingIsOldest
  <2>1. q # p /\ Current(q)' # c
    BY <1>1, <1>4, <1>6 DEF Undisturbed
  <2> QED BY <1>1, <1>5, <1>6, <2>1 DEF SeedingIsOldest, Undisturbed
<1>9. RowsDiffer'
  BY <1>5 DEF RowsDiffer
<1>10. StampDiffers'
  <2> SUFFICES ASSUME NEW q \in Procs, NEW r \in Procs, pc'[q] = "stamped"
               PROVE  /\ stamp'[q] # None /\ stamp'[q] # created'[Current(q)'][r]
                      /\ pc'[r] = "stamped" /\ Current(r)' = Current(q)' /\ q # r
                           => stamp'[q] # stamp'[r]
    BY DEF StampDiffers
  <2>1. q # p /\ Current(q)' = Current(q) /\ pc[q] = "stamped" /\ Current(q) \in Caches
    BY <1>6
  <2>2. stamp[q] # None /\ stamp[q] # created[Current(q)][r]
    BY <2>1 DEF StampDiffers
  <2>3. pc'[r] = "stamped" => pc[r] = "stamped" /\ Current(r)' = Current(r)
    BY <1>6
  <2> QED BY <1>1, <1>5, <2>1, <2>2, <2>3 DEF StampDiffers
<1>11. DeadRowsAreCrashes'
  <2>1. \A q \in Procs : pc'[q] = "dead" => pc[q] = "dead"
    BY <1>3
  <2>2. \A d \in Caches, q \in Procs : pc'[q] = "dead" /\ created'[d][q] # None => crashed'[d]
    BY <1>1, <1>5, <2>1 DEF DeadRowsAreCrashes
  <2>3. ASSUME NEW q \in Procs, pc'[q] = "reaping"
        PROVE  pc'[victim'[q]] = "dead" /\ crashed'[Current(q)']
    <3>1. q # p /\ pc[q] = "reaping" /\ Current(q)' = Current(q) /\ victim'[q] = victim[q]
      BY <1>1, <1>3, <2>3 DEF TypeOK
    <3>2. pc[victim[q]] = "dead" /\ crashed[Current(q)] /\ victim[q] \in Procs
      BY <3>1 DEF DeadRowsAreCrashes, TypeOK
    <3> QED BY <1>1, <1>3, <3>1, <3>2
  <2> QED BY <2>2, <2>3 DEF DeadRowsAreCrashes
<1> QED BY <1>7, <1>8, <1>9, <1>10, <1>11

\* The end of a task and the end of a process take rows away, at most.
LEMMA RowsLeave ==
  ASSUME QueueInv, NEW p \in Procs, pc[p] \notin {"done", "dead"},
         created' \in [Caches -> [Procs -> Nat]],
         \A d \in Caches, q \in Procs :
           created'[d][q] = created[d][q] \/ (q = p /\ created'[d][q] = None),
         pc'[p] \in {"next", "done", "dead"},
         \A q \in Procs \ {p} : pc'[q] = pc[q] /\ Current(q)' = Current(q)
                                /\ stamp'[q] = stamp[q] /\ victim'[q] = victim[q],
         overtaken' = overtaken,
         \A d \in Caches : crashed[d] => crashed'[d],
         crashed' \in [Caches -> BOOLEAN],
         pc'[p] = "dead" => \A d \in Caches : created'[d][p] # None => crashed'[d]
  PROVE  /\ InsideHasRow' /\ SeedingIsOldest' /\ RowsDiffer' /\ StampDiffers'
         /\ DeadRowsAreCrashes'
<1> USE DEF QueueInv
<1>1. \A q \in Procs : pc'[q] \in {"locked", "reaping", "stamped"} =>
        /\ q # p /\ Current(q)' = Current(q) /\ pc'[q] = pc[q]
        /\ Current(q) \in Caches
  BY CurrentIsCache
<1>2. InsideHasRow'
  BY <1>1 DEF InsideHasRow
<1>3. SeedingIsOldest'
  <2> SUFFICES ASSUME NEW q \in Procs, NEW r \in Procs, pc'[q] = "locked",
                      Undisturbed(Current(q))', created'[Current(q)'][r] # None
               PROVE  created'[Current(q)'][q] <= created'[Current(q)'][r]
    BY DEF SeedingIsOldest
  <2>1. Current(q)' = Current(q) /\ Current(q) \in Caches /\ q # p /\ pc[q] = "locked"
    BY <1>1
  <2>2. Undisturbed(Current(q))
    BY <2>1 DEF Undisturbed, TypeOK
  <2>3. created[Current(q)][r] = created'[Current(q)][r]
        /\ created[Current(q)][q] = created'[Current(q)][q]
    BY <2>1
  <2> QED BY <2>1, <2>2, <2>3 DEF SeedingIsOldest
<1>4. RowsDiffer'
  BY DEF RowsDiffer
<1>5. StampDiffers'
  <2> SUFFICES ASSUME NEW q \in Procs, NEW r \in Procs, pc'[q] = "stamped"
               PROVE  /\ stamp'[q] # None /\ stamp'[q] # created'[Current(q)'][r]
                      /\ pc'[r] = "stamped" /\ Current(r)' = Current(q)' /\ q # r
                           => stamp'[q] # stamp'[r]
    BY DEF StampDiffers
  <2>1. q # p /\ Current(q)' = Current(q) /\ pc[q] = "stamped" /\ Current(q) \in Caches
        /\ stamp'[q] = stamp[q]
    BY <1>1
  <2>2. stamp[q] # None /\ stamp[q] # created[Current(q)][r]
    BY <2>1 DEF StampDiffers
  <2>3. pc'[r] = "stamped" => pc[r] = "stamped" /\ Current(r)' = Current(r) /\ stamp'[r] = stamp[r]
    BY <1>1
  <2> QED BY <2>1, <2>2, <2>3 DEF StampDiffers
<1>6. DeadRowsAreCrashes'
  <2>1. ASSUME NEW d \in Caches, NEW q \in Procs, pc'[q] = "dead", created'[d][q] # None
        PROVE  crashed'[d]
    BY <2>1 DEF DeadRowsAreCrashes
  <2>2. ASSUME NEW q \in Procs, pc'[q] = "reaping"
        PROVE  pc'[victim'[q]] = "dead" /\ crashed'[Current(q)']
    <3>1. q # p /\ pc[q] = "reaping" /\ Current(q)' = Current(q) /\ victim'[q] = victim[q]
          /\ Current(q) \in Caches
      BY <1>1, <2>2
    <3>2. pc[victim[q]] = "dead" /\ crashed[Current(q)] /\ victim[q] \in Procs
      BY <3>1 DEF DeadRowsAreCrashes, TypeOK
    <3> QED BY <3>1, <3>2
  <2> QED BY <2>1, <2>2 DEF DeadRowsAreCrashes
<1> QED BY <1>2, <1>3, <1>4, <1>5, <1>6
LEMMA FinishKeeps ==
  ASSUME QueueInv, NEW p \in Procs, Finish(p)
  PROVE  /\ InsideHasRow' /\ SeedingIsOldest' /\ RowsDiffer' /\ StampDiffers'
         /\ DeadRowsAreCrashes'
<1>1. /\ pc[p] = "locked" /\ pc'[p] \in {"next", "done"}
      /\ \A q \in Procs \ {p} : pc'[q] = pc[q] /\ tasks'[q] = tasks[q]
      /\ created' = [created EXCEPT ![Current(p)][p] = None]
      /\ UNCHANGED <<stamp, victim, overtaken, crashed>>
  BY DEF Finish, QueueInv, TypeOK
<1>2. TypeOK /\ TypeOK'
  BY FinishTyped DEF QueueInv
<1>3. \A d \in Caches, q \in Procs :
        created'[d][q] = created[d][q] \/ (q = p /\ created'[d][q] = None)
  BY <1>1, <1>2 DEF TypeOK
<1>4. \A q \in Procs \ {p} : Current(q)' = Current(q)
  BY <1>1 DEF Current
<1>5. /\ pc[p] \notin {"done", "dead"} /\ pc'[p] \in {"next", "done", "dead"}
      /\ pc'[p] # "dead"
  BY <1>1
<1>6. /\ created' \in [Caches -> [Procs -> Nat]] /\ crashed' \in [Caches -> BOOLEAN]
      /\ \A d \in Caches : crashed[d] => crashed'[d]
  BY <1>1, <1>2 DEF TypeOK
<1>7. \A q \in Procs \ {p} : /\ pc'[q] = pc[q] /\ Current(q)' = Current(q)
                              /\ stamp'[q] = stamp[q] /\ victim'[q] = victim[q]
  BY <1>1, <1>4
<1> HIDE DEF QueueInv
<1> QED BY <1>1, <1>3, <1>5, <1>6, <1>7, RowsLeave

LEMMA EndKeeps ==
  ASSUME QueueInv, NEW p \in Procs, Abort(p) \/ Die(p)
  PROVE  /\ InsideHasRow' /\ SeedingIsOldest' /\ RowsDiffer' /\ StampDiffers'
         /\ DeadRowsAreCrashes'
<1>1. TypeOK /\ TypeOK'
  BY EndTyped DEF QueueInv
<1>2. pc[p] \notin {"done", "dead"} /\ Vanish(p)
  BY DEF Abort, Die
<1>3. \A d \in Caches, q \in Procs :
        created'[d][q] = created[d][q] \/ (q = p /\ created'[d][q] = None)
  <2>1. CASE Die(p)
    BY <2>1 DEF Die
  <2>2. CASE Abort(p)
    BY <1>1, <2>2 DEF Abort, TypeOK
  <2> QED BY <2>1, <2>2
<1>4. /\ pc'[p] = "dead" /\ overtaken' = overtaken
      /\ \A q \in Procs \ {p} : /\ pc'[q] = pc[q] /\ tasks'[q] = tasks[q]
                                /\ stamp'[q] = stamp[q] /\ victim'[q] = victim[q]
      /\ crashed' = [d \in Caches |-> crashed[d] \/ created'[d][p] # None]
  BY <1>1, <1>2 DEF Vanish, TypeOK
<1>5. \A q \in Procs \ {p} : Current(q)' = Current(q)
  BY <1>4 DEF Current
<1> QED BY <1>1, <1>2, <1>3, <1>4, <1>5, RowsLeave DEF TypeOK

\* The rows of p's queue as its poll sees them, with the new row.
LEMMA InsertKeeps ==
  ASSUME QueueInv, NEW p \in Procs, Insert(p)
  PROVE  /\ InsideHasRow' /\ SeedingIsOldest' /\ RowsDiffer' /\ StampDiffers'
         /\ DeadRowsAreCrashes'
<1> USE DEF QueueInv
<1> DEFINE c == Current(p)
           rows == [created[c] EXCEPT ![p] = stamp[p]]
<1>1. /\ pc[p] = "stamped"
      /\ created' = [created EXCEPT ![c] =
           [q \in Procs |-> IF q \in Victims(p, rows) THEN None ELSE rows[q]]]
      /\ overtaken' = [overtaken EXCEPT ![c] =
           @ \/ \E q \in Queue(created[c]) : created[c][q] > stamp[p]]
      /\ stamp' = [stamp EXCEPT ![p] = None]
      /\ UNCHANGED <<victim, turn, crashed>>
  BY DEF Insert
<1>2. PICK granted \in BOOLEAN : Decide(p, granted) /\ (granted <=> Turn(p, rows))
  BY DEF Insert, Decide, Turn
<1>3. /\ pc'[p] = (IF granted THEN "locked" ELSE "next")
      /\ granted => Current(p)' = c
      /\ \A q \in Procs \ {p} : pc'[q] = pc[q] /\ Current(q)' = Current(q)
  BY <1>1, <1>2, Decided
<1>4. c \in Caches /\ stamp[p] # None /\ stamp[p] \in Nat
      /\ \A q \in Procs : stamp[p] # created[c][q]
  BY <1>1, CurrentIsCache DEF TypeOK, StampDiffers
<1>5. rows[p] = stamp[p] /\ \A q \in Procs \ {p} : rows[q] = created[c][q]
  BY <1>4 DEF TypeOK
<1>6. \A q \in Victims(p, rows) : q # p /\ pc[q] = "dead" /\ crashed[c]
  <2> SUFFICES ASSUME NEW q \in Victims(p, rows)
               PROVE  q # p /\ pc[q] = "dead" /\ crashed[c]
    OBVIOUS
  <2>1. q \in Procs /\ pc[q] = "dead" /\ rows[q] # None
    BY DEF Victims, Oldest, Dead, Queue, Running
  <2> QED BY <1>1, <1>4, <1>5, <2>1 DEF DeadRowsAreCrashes
<1>7. \A d \in Caches, q \in Procs :
        created'[d][q] = (IF d = c
                          THEN IF q \in Victims(p, rows) THEN None ELSE rows[q]
                          ELSE created[d][q])
  BY <1>1, <1>4 DEF TypeOK
<1>8. ASSUME NEW d \in Caches, ~overtaken'[d], ~crashed'[d]
      PROVE  /\ Undisturbed(d)
             /\ d = c => \A q \in Procs : created[c][q] # None => created[c][q] < stamp[p]
  <2>1. Undisturbed(d)
    BY <1>1, <1>4, <1>8 DEF Undisturbed, TypeOK
  <2>2. ASSUME d = c, NEW q \in Procs, created[c][q] # None
        PROVE  created[c][q] < stamp[p]
    <3>1. overtaken'[c] = (overtaken[c] \/ \E r \in Queue(created[c]) : created[c][r] > stamp[p])
      BY <1>1, <1>4 DEF TypeOK
    <3>2. ~(created[c][q] > stamp[p])
      BY <1>8, <2>2, <3>1 DEF Queue
    <3>3. created[c][q] \in Nat /\ created[c][q] # stamp[p]
      BY <1>4 DEF TypeOK
    <3> QED BY <1>4, <3>2, <3>3
  <2> QED BY <2>1, <2>2
<1>9. ASSUME granted, ~overtaken'[c], ~crashed'[c], NEW q \in Procs, rows[q] # None
      PROVE  rows[p] <= rows[q]
  <2>1. Undisturbed(c)
    BY <1>4, <1>8, <1>9
  <2>2. Dead(rows) = {}
    BY <1>1, <1>4, <1>5, <2>1 DEF Dead, Queue, Running, DeadRowsAreCrashes, Undisturbed
  <2>3. p \in Oldest(Queue(rows), rows)
    BY <1>2, <1>9, <2>2 DEF Turn
  <2> QED BY <1>9, <2>3 DEF Oldest, Queue
<1> HIDE DEF c, rows
<1>10. \A q \in Procs : pc'[q] \in {"locked", "reaping", "stamped"} =>
        /\ Current(q)' \in Caches
        /\ q # p => Current(q)' = Current(q) /\ pc'[q] = pc[q]
        /\ q = p => Current(q)' = c /\ pc'[q] = "locked" /\ granted
  <2>1. \A q \in Procs \ {p} : pc[q] \in {"locked", "reaping", "stamped"} =>
          Current(q) \in Caches
    BY CurrentIsCache
  <2> QED BY <1>3, <1>4, <2>1
<1>11. InsideHasRow'
  <2> SUFFICES ASSUME NEW q \in Procs, pc'[q] \in {"locked", "reaping"}
               PROVE  created'[Current(q)'][q] # None
    BY DEF InsideHasRow
  <2>1. q \notin Victims(p, rows)
    BY <1>1, <1>6, <1>10
  <2> QED BY <1>4, <1>5, <1>7, <1>10, <2>1 DEF InsideHasRow
<1>12. SeedingIsOldest'
  <2> SUFFICES ASSUME NEW q \in Procs, NEW r \in Procs, pc'[q] = "locked",
                      Undisturbed(Current(q))', created'[Current(q)'][r] # None
               PROVE  created'[Current(q)'][q] <= created'[Current(q)'][r]
    BY DEF SeedingIsOldest
  <2>0. PICK d \in Caches : d = Current(q)'
    BY <1>10
  <2>1. ~overtaken'[d] /\ ~crashed'[d] /\ Undisturbed(d)
    <3>1. ~overtaken'[d] /\ ~crashed'[d]
      BY <2>0 DEF Undisturbed
    <3> QED BY <1>8, <3>1
  <2>2. Victims(p, rows) = {} \/ d # c
    BY <1>6, <2>1 DEF Undisturbed
  <2>3. CASE q = p
    <3>1. d = c /\ granted
      BY <1>10, <2>0, <2>3
    <3>2. \A x \in Procs : created'[c][x] = rows[x]
      BY <1>4, <1>7, <2>2, <3>1
    <3> QED BY <1>9, <2>0, <2>1, <2>3, <3>1, <3>2
  <2>4. CASE q # p
    <3>1. d = Current(q) /\ pc[q] = "locked" /\ created'[d][q] = created[d][q]
      BY <1>5, <1>7, <1>10, <2>0, <2>1, <2>2, <2>4
    <3>2. CASE r # p \/ d # c
      BY <1>5, <1>7, <2>0, <2>1, <2>2, <3>1, <3>2 DEF SeedingIsOldest
    <3>3. CASE r = p /\ d = c
      <4>1. created[d][q] # None /\ created[d][q] < stamp[p]
        BY <1>8, <2>0, <2>1, <3>1, <3>3 DEF InsideHasRow
      <4> QED BY <1>5, <1>7, <2>0, <2>1, <2>2, <3>1, <3>3, <4>1 DEF TypeOK
    <3> QED BY <3>2, <3>3
  <2> QED BY <2>3, <2>4
<1>13. RowsDiffer'
  BY <1>4, <1>5, <1>7 DEF RowsDiffer
<1>14. StampDiffers'
  <2> SUFFICES ASSUME NEW q \in Procs, NEW r \in Procs, pc'[q] = "stamped"
               PROVE  /\ stamp'[q] # None /\ stamp'[q] # created'[Current(q)'][r]
                      /\ pc'[r] = "stamped" /\ Current(r)' = Current(q)' /\ q # r
                           => stamp'[q] # stamp'[r]
    BY DEF StampDiffers
  <2>1. q # p /\ Current(q)' = Current(q) /\ pc[q] = "stamped" /\ Current(q) \in Caches
        /\ stamp'[q] = stamp[q]
    BY <1>1, <1>10 DEF TypeOK
  <2>2. /\ stamp[q] # None /\ stamp[q] # created[Current(q)][r]
        /\ Current(q) = c => stamp[q] # stamp[p]
    BY <1>1, <2>1 DEF StampDiffers, c
  <2>3. pc'[r] = "stamped" => /\ pc[r] = "stamped" /\ Current(r)' = Current(r)
                              /\ stamp'[r] = stamp[r]
    BY <1>1, <1>10 DEF TypeOK
  <2>4. stamp'[q] # created'[Current(q)'][r]
    <3>1. created'[Current(q)][r] \in {None, created[Current(q)][r]}
          \/ (Current(q) = c /\ created'[Current(q)][r] = stamp[p])
      BY <1>5, <1>7, <2>1
    <3>2. stamp[q] # created'[Current(q)][r]
      BY <2>2, <3>1
    <3>3. created'[Current(q)'][r] = created'[Current(q)][r]
      BY <2>1
    <3> QED BY <2>1, <3>2, <3>3
  <2> QED BY <2>1, <2>2, <2>3, <2>4 DEF StampDiffers
<1>15. DeadRowsAreCrashes'
  <2>1. ASSUME NEW d \in Caches, NEW q \in Procs, pc'[q] = "dead", created'[d][q] # None
        PROVE  crashed'[d]
    <3>1. q # p /\ pc[q] = "dead"
      BY <1>3, <2>1
    <3>2. created[d][q] # None
      BY <1>5, <1>7, <2>1, <3>1
    <3> QED BY <1>1, <3>1, <3>2 DEF DeadRowsAreCrashes
  <2>2. ASSUME NEW q \in Procs, pc'[q] = "reaping"
        PROVE  pc'[victim'[q]] = "dead" /\ crashed'[Current(q)']
    <3>1. q # p /\ pc[q] = "reaping" /\ Current(q)' = Current(q) /\ victim'[q] = victim[q]
      BY <1>1, <1>10, <2>2
    <3>2. pc[victim[q]] = "dead" /\ crashed[Current(q)] /\ victim[q] \in Procs
      BY <3>1 DEF DeadRowsAreCrashes, TypeOK
    <3> QED BY <1>1, <1>3, <3>1, <3>2
  <2> QED BY <2>1, <2>2 DEF DeadRowsAreCrashes
<1> QED BY <1>11, <1>12, <1>13, <1>14, <1>15
-----------------------------------------------------------------------------
LEMMA QueueStep == QueueInv /\ [Next]_vars => QueueInv'
<1> SUFFICES ASSUME QueueInv, [Next]_vars PROVE QueueInv'
  OBVIOUS
<1>1. TypeOK'
  BY TypeStep DEF QueueInv
<1>2. CASE UNCHANGED vars
  <2>1. \A q \in Procs : Current(q)' = Current(q)
    BY <1>2 DEF Current, vars, procVars
  <2> QED BY <1>1, <1>2, <2>1
          DEF QueueInv, InsideHasRow, SeedingIsOldest, Undisturbed, RowsDiffer,
              StampDiffers, DeadRowsAreCrashes, vars, procVars
<1>3. ASSUME NEW p \in Procs, Work(p) \/ Abort(p) \/ Die(p) PROVE QueueInv'
  <2>1. /\ InsideHasRow' /\ SeedingIsOldest' /\ RowsDiffer' /\ StampDiffers'
        /\ DeadRowsAreCrashes'
    BY <1>3, StampKeeps, InsertKeeps, PollKeeps, PollDeadKeeps, ReapKeeps,
       FinishKeeps, EndKeeps DEF Work, Lock
  <2> QED BY <1>1, <2>1 DEF QueueInv
<1> QED BY <1>2, <1>3 DEF Next

\* Rows stand for calls: who is inside has the oldest row of its queue.
THEOREM QueueInvariant == Spec => []QueueInv
  BY InitTyped, QueueStep, PTL DEF Spec

\* One mapproxy-seed call at a time works on a cache, for any number of calls,
\* caches and tasks, as long as its rows came in order and no dead process left
\* one.
THEOREM SeedingIsExclusive == Spec => []OneSeedPerCache
<1>1. QueueInv => OneSeedPerCache
  <2> SUFFICES ASSUME QueueInv, NEW c \in Caches, ~overtaken[c] /\ ~crashed[c],
                      NEW p \in Seeding(c), NEW q \in Seeding(c)
               PROVE  p = q
    BY DEF OneSeedPerCache, Alone
  <2>1. /\ p \in Procs /\ pc[p] = "locked" /\ Current(p) = c
        /\ q \in Procs /\ pc[q] = "locked" /\ Current(q) = c
    BY DEF Seeding
  <2>2. created[c][p] # None /\ created[c][q] # None
    BY <2>1 DEF QueueInv, InsideHasRow
  <2>3. created[c][p] <= created[c][q] /\ created[c][q] <= created[c][p]
    BY <2>1, <2>2 DEF QueueInv, SeedingIsOldest, Undisturbed
  <2>4. created[c][p] = created[c][q]
    BY <2>1, <2>3 DEF QueueInv, TypeOK
  <2> QED BY <2>1, <2>2, <2>4 DEF QueueInv, RowsDiffer
<1> QED BY <1>1, QueueInvariant, PTL

\* A process inside keeps its row, whatever the polls of others delete and
\* whoever crashed.
THEOREM RowsStay == Spec => []SeedingIsRecorded
<1>1. QueueInv => SeedingIsRecorded
  BY DEF QueueInv, InsideHasRow, SeedingIsRecorded
<1> QED BY <1>1, QueueInvariant, PTL
-----------------------------------------------------------------------------
(* Rows and task lists *)

\* A call that is still at work only has rows for tasks on its list: a refused
\* task keeps its row and goes to the back, a finished one loses it.
Listed(p, c) == \E i \in DOMAIN tasks[p] : tasks[p][i] = c
RowsAreTasks ==
  \A p \in Procs : pc[p] \notin {"done", "dead"} =>
    \A c \in Caches : created[c][p] # None => Listed(p, c)

ReserveInv == TypeOK /\ RowsAreTasks

\* Rotation keeps the tasks; dropping the last one loses nothing else.
LEMMA RotateKeeps ==
  ASSUME NEW s \in Seq(Caches), s # <<>>, NEW i \in DOMAIN s
  PROVE  /\ \E j \in DOMAIN (<<s[Len(s)]>> \o SubSeq(s, 1, Len(s) - 1)) :
              (<<s[Len(s)]>> \o SubSeq(s, 1, Len(s) - 1))[j] = s[i]
         /\ s[i] # s[Len(s)] =>
              \E j \in DOMAIN SubSeq(s, 1, Len(s) - 1) : SubSeq(s, 1, Len(s) - 1)[j] = s[i]
<1> DEFINE l == SubSeq(s, 1, Len(s) - 1)
           r == <<s[Len(s)]>> \o l
<1>1. Len(s) \in Nat \ {0} /\ i \in 1 .. Len(s)
  OBVIOUS
<1>2. l \in Seq(Caches)
  BY RotateType
<1>3. Len(l) = Len(s) - 1 /\ DOMAIN l = 1 .. Len(s) - 1
  <2>1. \A n \in Nat : Len(SubSeq(s, 1, n)) = n
    OBVIOUS
  <2>2. Len(s) - 1 \in Nat
    BY <1>1
  <2>3. Len(l) = Len(s) - 1
    BY <2>1, <2>2
  <2> QED BY <1>2, <2>3
<1>4. \A j \in 1 .. Len(s) - 1 : l[j] = s[j]
  BY <1>1
<1>5. /\ Len(r) = Len(s) /\ r[1] = s[Len(s)] /\ DOMAIN r = 1 .. Len(s)
      /\ \A j \in 2 .. Len(s) : r[j] = l[j - 1]
  BY <1>1, <1>2, <1>3
<1> HIDE DEF l, r
<1>6. CASE i = Len(s)
  BY <1>1, <1>5, <1>6 DEF l, r
<1>7. CASE i # Len(s)
  <2>1. i \in 1 .. Len(s) - 1 /\ i + 1 \in 2 .. Len(s) /\ (i + 1) - 1 = i
    BY <1>1, <1>7
  <2>2. l[i] = s[i] /\ r[i + 1] = l[i]
    BY <1>4, <1>5, <2>1
  <2>3. i \in DOMAIN l /\ i + 1 \in DOMAIN r
    BY <1>3, <1>5, <2>1
  <2> QED BY <2>2, <2>3 DEF l, r
<1> QED BY <1>6, <1>7

LEMMA DecideListed ==
  ASSUME TypeOK, NEW p \in Procs, pc[p] \notin {"done", "dead"},
         NEW granted \in BOOLEAN, Decide(p, granted), NEW c \in Caches, Listed(p, c)
  PROVE  Listed(p, c)'
<1>1. tasks[p] \in Seq(Caches) /\ tasks[p] # <<>>
  BY DEF TypeOK
<1>2. tasks'[p] = tasks[p]
      \/ tasks'[p] = <<tasks[p][Len(tasks[p])]>> \o SubSeq(tasks[p], 1, Len(tasks[p]) - 1)
  BY DEF Decide, Current, TypeOK
<1>3. PICK i \in DOMAIN tasks[p] : tasks[p][i] = c
  BY DEF Listed
<1>4. CASE tasks'[p] = tasks[p]
  BY <1>3, <1>4 DEF Listed
<1>5. CASE tasks'[p] = <<tasks[p][Len(tasks[p])]>> \o SubSeq(tasks[p], 1, Len(tasks[p]) - 1)
  <2> DEFINE s == tasks[p]
             l == SubSeq(s, 1, Len(s) - 1)
             r == <<s[Len(s)]>> \o l
  <2>1. s \in Seq(Caches) /\ s # <<>> /\ i \in DOMAIN s /\ tasks'[p] = r
    BY <1>1, <1>5
  <2>2. \E j \in DOMAIN r : r[j] = s[i]
    <3> HIDE DEF s
    <3> QED BY <2>1, RotateKeeps
  <2> QED BY <1>3, <2>1, <2>2 DEF Listed
<1> QED BY <1>2, <1>4, <1>5

\* Actions in which p decides after it has at most a new row for its current task.
LEMMA DecideReserves ==
  ASSUME ReserveInv, NEW p \in Procs, pc[p] \notin {"done", "dead"},
         NEW granted \in BOOLEAN, Decide(p, granted),
         \A c \in Caches, q \in Procs :
           created'[c][q] # None => created[c][q] # None \/ (q = p /\ c = Current(p))
  PROVE  RowsAreTasks'
<1>1. Listed(p, Current(p))
  <2>1. tasks[p] \in Seq(Caches) /\ tasks[p] # <<>>
    BY DEF ReserveInv, TypeOK
  <2> QED BY <2>1 DEF Listed, Current
<1>2. \A q \in Procs \ {p} : pc'[q] = pc[q] /\ tasks'[q] = tasks[q]
  BY Decided DEF ReserveInv
<1>3. \A c \in Caches : created'[c][p] # None => Listed(p, c)
  BY <1>1 DEF ReserveInv, RowsAreTasks
<1>4. \A c \in Caches : created'[c][p] # None => Listed(p, c)'
  BY <1>3, DecideListed DEF ReserveInv
<1> QED BY <1>2, <1>4 DEF ReserveInv, RowsAreTasks, Listed

LEMMA ReserveStep == ReserveInv /\ [Next]_vars => ReserveInv'
<1> SUFFICES ASSUME ReserveInv, [Next]_vars PROVE RowsAreTasks'
  BY TypeStep DEF ReserveInv
<1> USE DEF ReserveInv
<1>1. CASE UNCHANGED vars
  BY <1>1 DEF vars, procVars, RowsAreTasks, Listed
<1>2. ASSUME NEW p \in Procs, Stamp(p) \/ PollDead(p) PROVE RowsAreTasks'
  <2>1. /\ pc[p] = "next" /\ created' = created /\ tasks' = tasks
        /\ \A q \in Procs \ {p} : pc'[q] = pc[q]
    BY <1>2 DEF Stamp, PollDead, TypeOK
  <2> QED BY <2>1 DEF RowsAreTasks, Listed
<1>3. ASSUME NEW p \in Procs, Insert(p) PROVE RowsAreTasks'
  <2> DEFINE d == Current(p)
             rows == [created[d] EXCEPT ![p] = stamp[p]]
  <2>1. PICK granted \in BOOLEAN : Decide(p, granted)
    BY <1>3 DEF Insert, Decide
  <2>2. pc[p] = "stamped" /\ d \in Caches
    BY <1>3, CurrentIsCache DEF Insert
  <2>3. created' = [created EXCEPT ![d] =
          [q \in Procs |-> IF q \in Victims(p, rows) THEN None ELSE rows[q]]]
    BY <1>3 DEF Insert
  <2>4. \A q \in Procs \ {p} : rows[q] = created[d][q]
    BY <2>2 DEF TypeOK
  <2>5. \A c \in Caches, q \in Procs :
          created'[c][q] # None => created[c][q] # None \/ (q = p /\ c = d)
    BY <2>2, <2>3, <2>4 DEF TypeOK
  <2> QED BY <2>1, <2>2, <2>5, DecideReserves
<1>4. ASSUME NEW p \in Procs, Poll(p) PROVE RowsAreTasks'
  <2>1. PICK granted \in BOOLEAN : Decide(p, granted)
    BY <1>4 DEF Poll, Decide
  <2> QED BY <1>4, <2>1, DecideReserves DEF Poll
<1>5. ASSUME NEW p \in Procs, Reap(p) PROVE RowsAreTasks'
  <2>1. turn[p] \in BOOLEAN /\ Decide(p, turn[p]) /\ pc[p] = "reaping"
    BY <1>5 DEF Reap, TypeOK
  <2>2. \A c \in Caches, q \in Procs : created'[c][q] # None => created[c][q] # None
    BY <1>5 DEF Reap, TypeOK
  <2> QED BY <2>1, <2>2, DecideReserves
<1>6. ASSUME NEW p \in Procs, Finish(p) PROVE RowsAreTasks'
  <2>1. /\ pc[p] = "locked" /\ created' = [created EXCEPT ![Current(p)][p] = None]
        /\ tasks' = [tasks EXCEPT ![p] = SubSeq(tasks[p], 1, Len(tasks[p]) - 1)]
        /\ \A q \in Procs \ {p} : pc'[q] = pc[q] /\ tasks'[q] = tasks[q]
    BY <1>6 DEF Finish, TypeOK
  <2>2. Current(p) \in Caches
    BY <2>1, CurrentIsCache
  <2>3. \A c \in Caches, q \in Procs :
          created'[c][q] # None => created[c][q] # None /\ (q = p => c # Current(p))
    BY <2>1, <2>2 DEF TypeOK
  <2>4. ASSUME NEW c \in Caches, created'[c][p] # None PROVE Listed(p, c)'
    <3>1. Listed(p, c) /\ c # Current(p)
      BY <2>1, <2>3, <2>4 DEF RowsAreTasks
    <3>2. tasks[p] \in Seq(Caches) /\ tasks[p] # <<>>
      BY <2>1 DEF TypeOK
    <3>3. tasks'[p] = SubSeq(tasks[p], 1, Len(tasks[p]) - 1)
      BY <2>1 DEF TypeOK
    <3>4. PICK i \in DOMAIN tasks[p] : tasks[p][i] = c
      BY <3>1 DEF Listed
    <3>5. tasks[p][i] # tasks[p][Len(tasks[p])]
      BY <3>1, <3>4 DEF Current
    <3> DEFINE s == tasks[p]
               l == SubSeq(s, 1, Len(s) - 1)
    <3>6. s \in Seq(Caches) /\ s # <<>> /\ i \in DOMAIN s /\ s[i] # s[Len(s)]
      BY <3>2, <3>4, <3>5
    <3>7. \E j \in DOMAIN l : l[j] = s[i]
      <4> HIDE DEF s
      <4> QED BY <3>6, RotateKeeps
    <3> QED BY <3>3, <3>4, <3>7 DEF Listed
  <2> QED BY <2>1, <2>3, <2>4 DEF RowsAreTasks, Listed
<1>7. ASSUME NEW p \in Procs, Abort(p) \/ Die(p) PROVE RowsAreTasks'
  <2>0. ASSUME Abort(p), NEW c \in Caches, NEW q \in Procs, created'[c][q] # None
        PROVE  created[c][q] # None
    <3>1. created' = [created EXCEPT ![Current(p)][p] = None]
      BY <2>0 DEF Abort
    <3> QED BY <2>0, <3>1 DEF TypeOK
  <2>1. \A c \in Caches, q \in Procs : created'[c][q] # None => created[c][q] # None
    BY <1>7, <2>0 DEF Die
  <2>2. /\ pc'[p] = "dead"
        /\ \A q \in Procs \ {p} : pc'[q] = pc[q] /\ tasks'[q] = tasks[q]
    BY <1>7 DEF Abort, Die, Vanish, TypeOK
  <2> QED BY <2>1, <2>2 DEF RowsAreTasks, Listed
<1> QED BY <1>1, <1>2, <1>3, <1>4, <1>5, <1>6, <1>7 DEF Next, Work, Lock

\* A call that waits for its last task reserves no other cache, for any number
\* of calls and any task lists: whoever is waited for can get on, so the
\* queues have no deadlock.
THEOREM WaitingReservesNothing == Spec => []BlockedReservesNothing
<1>1. Init => ReserveInv
  BY InitTyped DEF QueueInv, ReserveInv, RowsAreTasks, Init
<1>2. ReserveInv => BlockedReservesNothing
  <2> SUFFICES ASSUME ReserveInv, NEW p \in Procs, pc[p] \notin {"done", "dead"}, LastTask(p),
                      NEW c \in Caches \ {Current(p)}, created[c][p] # None
               PROVE  FALSE
    BY DEF BlockedReservesNothing, Running
  <2>1. Listed(p, c)
    BY DEF ReserveInv, RowsAreTasks
  <2>2. tasks[p] \in Seq(Caches) /\ Len(tasks[p]) = 1
    BY DEF ReserveInv, TypeOK, LastTask
  <2> QED BY <2>1, <2>2 DEF Listed, Current
<1> QED BY <1>1, <1>2, ReserveStep, PTL DEF Spec
=============================================================================
