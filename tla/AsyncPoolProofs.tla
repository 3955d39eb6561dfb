--------------------------- MODULE AsyncPoolProofs ---------------------------
(***************************************************************************)
(* Proofs about AsyncPool, the thread pool of mapproxy/util/async_.py: for *)
(* any number of tasks and any finite number of worker threads, the pool   *)
(* keeps the promise of MapSpec.  The invariant follows every task on its  *)
(* way from the task queue over a thread and the result queue to the       *)
(* caller: it is in at most one place at a time, and as long as nobody     *)
(* calls shutdown(True) it is in one.                                      *)
(***************************************************************************)
EXTENDS AsyncPool, TLAPS, FiniteSetTheorems, SequenceTheorems

-----------------------------------------------------------------------------
(* The inductive invariant *)

In(s, i) == \E k \in DOMAIN s : s[k] = i
Distinct(s) == \A j, k \in DOMAIN s : s[j] = s[k] => j = k

\* The threads that have a task for which task_done is not called yet.
Active == {w \in Workers : worker[w] \in {"running", "answered"}}
Worked(i) == \E w \in Workers : job[w] = i

\* The states of the caller in which no result is next.
Asking == {"tasks empty?", "results empty?", "fetch", "join"}

\* task_queue holds tasks, then sentinels, and join() counts what is in it and
\* what the threads have from it.  After the join both are nothing.
QueueInv ==
  /\ pc # "end" => Distinct(taskQ) /\ ~In(taskQ, Sentinel)
  /\ pc = "end" => \A i \in Tasks : ~In(taskQ, i)
  /\ pc \in {"drain results", "stop"} => taskQ = <<>>
  /\ last => Active = {} /\ (pc # "end" => taskQ = <<>>)
  /\ unfinished = Len(taskQ) + Cardinality(Active)

\* A task is in one place at a time, in order: the task queue, a thread, the
\* result queue, the results that are not next, the results handed out.
OnceInv ==
  /\ \A w, v \in Workers : job[w] \in Tasks /\ job[w] = job[v] => w = v
  /\ Distinct(resultQ)
  /\ \A i \in Tasks :
       /\ In(taskQ, i) => ~Worked(i)
       /\ In(taskQ, i) \/ Worked(i) => ~In(resultQ, i)
       /\ In(taskQ, i) \/ Worked(i) \/ In(resultQ, i) => i \notin results
       /\ In(taskQ, i) \/ Worked(i) \/ In(resultQ, i) \/ i \in results => i > Yielded

\* Without a forced shutdown a task is never in none of them.
NoneLostInv ==
  /\ why = "none" =>
       \A i \in Tasks : \/ In(taskQ, i) \/ Worked(i) \/ In(resultQ, i)
                        \/ i \in results \/ i <= Yielded
  /\ pc = "stop" /\ why = "none" => Yielded = N

\* What the caller's thread has: the first results in order, and no error
\* among the results when exceptions are to be raised.
CallerInv ==
  /\ \A k \in DOMAIN out : out[k] = k
  /\ pc \in Asking \cup {"yield", "yielded"} => why = "none"
  /\ pc \in {"drain tasks", "drain results"} => why # "none"
  /\ pc \in Asking => Yielded + 1 \notin results
  /\ pc = "yield" => Yielded + 1 \in results
  /\ raising => \A i \in failed : i \notin results /\ i > Yielded

PoolInv == TypeOK /\ QueueInv /\ OnceInv /\ NoneLostInv /\ CallerInv

-----------------------------------------------------------------------------
(* Queues *)

LEMMA TailFacts ==
  ASSUME NEW S, NEW s \in Seq(S), s # <<>>
  PROVE  /\ Head(s) \in S /\ Tail(s) \in Seq(S)
         /\ Len(Tail(s)) = Len(s) - 1 /\ Len(s) >= 1
         /\ \A i : In(s, i) <=> (i = Head(s) \/ In(Tail(s), i))
         /\ Distinct(s) => Distinct(Tail(s)) /\ ~In(Tail(s), Head(s))
<1>1. /\ Head(s) \in S /\ Tail(s) \in Seq(S) /\ Len(Tail(s)) = Len(s) - 1
      /\ Head(s) = s[1] /\ Len(s) \in Nat /\ Len(s) # 0
      /\ \A k \in 1 .. Len(Tail(s)) : Tail(s)[k] = s[k + 1]
  BY HeadTailProperties, EmptySeq, LenProperties
<1>2. DOMAIN s = 1 .. Len(s) /\ DOMAIN Tail(s) = 1 .. (Len(s) - 1)
  BY <1>1, LenProperties
<1>3. ASSUME NEW i PROVE In(s, i) <=> (i = Head(s) \/ In(Tail(s), i))
  <2>1. ASSUME In(s, i), i # Head(s) PROVE In(Tail(s), i)
    <3>1. PICK k \in 1 .. Len(s) : s[k] = i
      BY <2>1, <1>2 DEF In
    <3>2. k - 1 \in 1 .. (Len(s) - 1) /\ (k - 1) + 1 = k
      BY <3>1, <2>1, <1>1
    <3>3. Tail(s)[k - 1] = s[k]
      BY <3>2, <1>1
    <3> QED BY <3>1, <3>2, <3>3, <1>2 DEF In
  <2>2. In(s, Head(s))
    BY <1>1, <1>2 DEF In
  <2>3. ASSUME In(Tail(s), i) PROVE In(s, i)
    <3>1. PICK k \in 1 .. (Len(s) - 1) : Tail(s)[k] = i
      BY <2>3, <1>2 DEF In
    <3>2. k + 1 \in 1 .. Len(s) /\ s[k + 1] = i
      BY <3>1, <1>1
    <3> QED BY <3>2, <1>2 DEF In
  <2> QED BY <2>1, <2>2, <2>3
<1>4. ASSUME Distinct(s) PROVE Distinct(Tail(s)) /\ ~In(Tail(s), Head(s))
  <2>1. \A k \in 1 .. (Len(s) - 1) : k + 1 \in 1 .. Len(s) /\ 1 \in 1 .. Len(s) /\ k + 1 # 1
    BY <1>1
  <2>2. ASSUME NEW j \in 1 .. (Len(s) - 1), NEW k \in 1 .. (Len(s) - 1), Tail(s)[j] = Tail(s)[k]
        PROVE  j = k
    <3>1. s[j + 1] = s[k + 1]
      BY <2>2, <1>1
    <3>2. j + 1 = k + 1
      BY <3>1, <2>1, <1>2, <1>4 DEF Distinct
    <3> QED BY <3>2
  <2>3. ASSUME NEW k \in 1 .. (Len(s) - 1), Tail(s)[k] = Head(s) PROVE FALSE
    <3>1. s[k + 1] = s[1]
      BY <2>3, <1>1
    <3>2. k + 1 = 1
      BY <3>1, <2>1, <1>2, <1>4 DEF Distinct
    <3> QED BY <3>2
  <2> QED BY <2>2, <2>3, <1>2 DEF Distinct, In
<1>5. Len(s) >= 1
  BY <1>1
<1> QED BY <1>1, <1>3, <1>4, <1>5

LEMMA AppendFacts ==
  ASSUME NEW S, NEW s \in Seq(S), NEW e \in S
  PROVE  /\ Append(s, e) \in Seq(S)
         /\ \A i : In(Append(s, e), i) <=> (i = e \/ In(s, i))
         /\ Distinct(s) /\ ~In(s, e) => Distinct(Append(s, e))
<1>1. /\ Append(s, e) \in Seq(S) /\ Len(Append(s, e)) = Len(s) + 1 /\ Len(s) \in Nat
      /\ \A k \in 1 .. Len(s) : Append(s, e)[k] = s[k]
      /\ Append(s, e)[Len(s) + 1] = e
  BY AppendProperties, LenProperties
<1>2. DOMAIN s = 1 .. Len(s) /\ DOMAIN Append(s, e) = 1 .. (Len(s) + 1)
  BY <1>1, LenProperties
<1>3. \A k \in 1 .. (Len(s) + 1) : k \in 1 .. Len(s) \/ k = Len(s) + 1
  BY <1>1
<1>4. \A k \in 1 .. Len(s) : k \in 1 .. (Len(s) + 1)
  BY <1>1
<1>5. Len(s) + 1 \in 1 .. (Len(s) + 1)
  BY <1>1
<1>6. \A i : In(Append(s, e), i) <=> (i = e \/ In(s, i))
  BY <1>1, <1>2, <1>3, <1>4, <1>5 DEF In
<1>7. Distinct(s) /\ ~In(s, e) => Distinct(Append(s, e))
  BY <1>1, <1>2, <1>3 DEF In, Distinct
<1> QED BY <1>1, <1>6, <1>7

LEMMA EmptyFacts == \A i : ~In(<<>>, i)
BY DEF In

-----------------------------------------------------------------------------
(* The worker threads *)

LEMMA ActiveIsFinite == IsFiniteSet(Active) /\ Cardinality(Active) \in Nat
BY SizeAssumption, FS_Subset, FS_CardinalityType DEF Active

LEMMA TaskTypes == N \in Nat /\ Tasks = 1 .. N /\ Sentinel = 0 /\ Sentinel \notin Tasks
BY SizeAssumption DEF Tasks, Sentinel

LEMMA SameRange == ASSUME NEW m \in Nat, NEW n \in Nat, 1 .. m = 1 .. n PROVE m = n
<1>1. ASSUME NEW k \in Nat, NEW l \in Nat, k < l, 1 .. k = 1 .. l PROVE FALSE
  <2>1. l \in 1 .. l /\ l \notin 1 .. k
    BY <1>1
  <2> QED BY <2>1, <1>1
<1>2. ~(m < n) /\ ~(n < m)
  BY <1>1
<1> QED BY <1>2

LEMMA Initially == Init => PoolInv
<1> SUFFICES ASSUME Init PROVE PoolInv
  OBVIOUS
<1>1. /\ taskQ = [i \in 1 .. N |-> i] /\ unfinished = N /\ resultQ = <<>>
      /\ worker = [w \in Workers |-> "idle"] /\ job = [w \in Workers |-> Sentinel]
      /\ raising \in BOOLEAN /\ failed = {} /\ pc = "tasks empty?" /\ last = FALSE
      /\ results = {} /\ out = <<>> /\ why = "none" /\ N \in Nat
  BY TaskTypes DEF Init
<1>2. taskQ \in Seq(1 .. N) /\ DOMAIN taskQ = 1 .. N /\ Len(taskQ) = N
  <2>1. taskQ \in [1 .. N -> 1 .. N]
    BY <1>1
  <2>2. taskQ \in Seq(1 .. N)
    <3>1. N \in Nat
      BY TaskTypes
    <3> QED BY ONLY <2>1, <3>1
  <2>3. DOMAIN taskQ = 1 .. N
    BY <2>1
  <2>4. Len(taskQ) = N
    <3>1. Len(taskQ) \in Nat /\ DOMAIN taskQ = 1 .. Len(taskQ) /\ N \in Nat
      BY <2>2, LenProperties, TaskTypes
    <3> QED BY <2>3, <3>1, SameRange
  <2> QED BY <2>2, <2>3, <2>4
<1>3. \A i \in Tasks : In(taskQ, i) /\ ~Worked(i) /\ ~In(resultQ, i) /\ i > Yielded
  <2>1. ASSUME NEW i \in Tasks PROVE In(taskQ, i)
    BY <1>1, <1>2, TaskTypes DEF In
  <2>2. \A i \in Tasks : ~Worked(i)
    BY <1>1, TaskTypes DEF Worked
  <2>3. \A i \in Tasks : i > 0
    BY TaskTypes
  <2>4. Yielded = 0
    BY <1>1, EmptySeq DEF Yielded
  <2> QED BY <1>1, <2>1, <2>2, <2>3, <2>4, EmptyFacts
<1>4. Distinct(taskQ) /\ ~In(taskQ, Sentinel)
  <2>1. \A k \in 1 .. N : taskQ[k] = k
    BY <1>1
  <2> QED BY <2>1, <1>2, TaskTypes DEF Distinct, In
<1>5. TypeOK
  <2>1. taskQ \in Seq(Tasks \cup {Sentinel})
    BY <1>2, TaskTypes, SeqMonotonic
  <2>2. resultQ \in Seq(Tasks) /\ out \in Seq(Tasks)
    BY <1>1, EmptySeq
  <2>3. \A w \in Workers : Running(w) <=> job[w] \in Tasks
    BY <1>1, TaskTypes DEF Running
  <2> QED BY <1>1, <2>1, <2>2, <2>3 DEF TypeOK
<1>6. QueueInv
  <2>1. Active = {}
    BY <1>1 DEF Active
  <2>2. Cardinality(Active) = 0
    BY <2>1, FS_EmptySet
  <2>3. unfinished = Len(taskQ) + Cardinality(Active)
    <3>1. unfinished = N /\ Len(taskQ) = N /\ N \in Nat
      BY <1>1, <1>2
    <3> QED BY ONLY <2>2, <3>1
  <2> QED BY <1>1, <1>4, <2>3 DEF QueueInv
<1>7. OnceInv
  <2>1. Distinct(resultQ)
    <3>1. DOMAIN resultQ = {}
      BY <1>1, EmptyFacts DEF In
    <3> QED BY <3>1 DEF Distinct
  <2> QED BY <1>1, <1>3, <2>1, TaskTypes DEF OnceInv
<1>8. NoneLostInv
  BY <1>1, <1>3 DEF NoneLostInv
<1>9. CallerInv
  <2>1. DOMAIN out = {}
    BY <1>1, EmptyFacts DEF In
  <2> QED BY <1>1, <2>1 DEF CallerInv, Asking
<1> QED BY <1>5, <1>6, <1>7, <1>8, <1>9 DEF PoolInv

\* No thread starts a task after the sentinels are sent.
LEMMA TakeFacts ==
  ASSUME PoolInv, NEW w \in Workers, Take(w)
  PROVE  /\ Head(taskQ) \in Tasks /\ pc # "end"
         /\ In(taskQ, Head(taskQ))
         /\ Distinct(taskQ') /\ ~In(taskQ', Sentinel)
         /\ \A i \in Tasks : In(taskQ', i) <=> (In(taskQ, i) /\ i # Head(taskQ))
         /\ \A i \in Tasks : Worked(i)' <=> (Worked(i) \/ i = Head(taskQ))
         /\ taskQ' \in Seq(Tasks \cup {Sentinel}) /\ Len(taskQ') = Len(taskQ) - 1
         /\ Cardinality(Active)' = Cardinality(Active) + 1
         /\ w \notin Active /\ ~last
<1> USE DEF PoolInv
<1>1. taskQ \in Seq(Tasks \cup {Sentinel}) /\ taskQ # <<>> /\ Head(taskQ) # Sentinel
  BY DEF TypeOK, Take
<1> DEFINE t == Head(taskQ)
<1>2. /\ t \in Tasks \cup {Sentinel} /\ Tail(taskQ) \in Seq(Tasks \cup {Sentinel})
      /\ Len(Tail(taskQ)) = Len(taskQ) - 1
      /\ \A i : In(taskQ, i) <=> (i = t \/ In(Tail(taskQ), i))
      /\ Distinct(taskQ) => Distinct(Tail(taskQ)) /\ ~In(Tail(taskQ), t)
  BY <1>1, TailFacts
<1>3. t \in Tasks
  BY <1>1, <1>2
<1>4. pc # "end"
  BY <1>2, <1>3 DEF QueueInv
<1>5. Distinct(taskQ) /\ ~In(taskQ, Sentinel)
  BY <1>4 DEF QueueInv
<1>6. taskQ' = Tail(taskQ) /\ job' = [job EXCEPT ![w] = t] /\ worker' = [worker EXCEPT ![w] = "running"]
  BY DEF Take
<1> HIDE DEF t
<1>7. job[w] \notin Tasks /\ worker[w] = "idle"
  BY DEF TypeOK, Take, Running
<1>8. ASSUME NEW i \in Tasks PROVE Worked(i)' <=> (Worked(i) \/ i = t)
  <2>1. /\ job'[w] = t
        /\ \A v \in Workers : v # w => job'[v] = job[v]
    BY <1>6 DEF TypeOK
  <2> QED BY <2>1, <1>7 DEF Worked
<1>9. w \notin Active /\ Active' = Active \cup {w}
  BY <1>6, <1>7 DEF Active, TypeOK
<1>10. Cardinality(Active') = Cardinality(Active) + 1
  BY <1>9, ActiveIsFinite, FS_AddElement
<1>11. ~last
  BY <1>1, <1>4 DEF QueueInv
<1> QED BY <1>2, <1>3, <1>4, <1>5, <1>6, <1>8, <1>9, <1>10, <1>11 DEF t

LEMMA TakeStep == ASSUME PoolInv, NEW w \in Workers, Take(w) PROVE PoolInv'
<1> DEFINE t == Head(taskQ)
<1>1. /\ t \in Tasks /\ pc # "end"
      /\ In(taskQ, t)
      /\ Distinct(taskQ') /\ ~In(taskQ', Sentinel)
      /\ \A i \in Tasks : In(taskQ', i) <=> (In(taskQ, i) /\ i # t)
      /\ \A i \in Tasks : Worked(i)' <=> (Worked(i) \/ i = t)
      /\ taskQ' \in Seq(Tasks \cup {Sentinel}) /\ Len(taskQ') = Len(taskQ) - 1
      /\ Cardinality(Active)' = Cardinality(Active) + 1
      /\ w \notin Active /\ ~last
  BY TakeFacts
<1>2. /\ job' = [job EXCEPT ![w] = t] /\ worker' = [worker EXCEPT ![w] = "running"]
      /\ taskQ # <<>>
      /\ UNCHANGED <<unfinished, resultQ, failed, mainVars>>
  BY DEF Take
<1> HIDE DEF t
<1> USE DEF PoolInv, mainVars, Yielded
<1>3. TypeOK'
  BY <1>1, <1>2 DEF TypeOK, Running, Sentinel, Tasks
<1>4. QueueInv'
  <2>1. ~(pc \in {"drain results", "stop"})
    BY <1>2 DEF QueueInv
  <2>2. unfinished = Len(taskQ) + Cardinality(Active)
    BY DEF QueueInv
  <2>3. Len(taskQ) \in Nat /\ Cardinality(Active) \in Nat
    BY ActiveIsFinite, LenProperties DEF TypeOK
  <2>4. unfinished' = Len(taskQ') + Cardinality(Active)'
    BY <2>2, <2>3, <1>1, <1>2
  <2> QED BY <1>1, <1>2, <2>1, <2>4 DEF QueueInv
<1>5. OnceInv'
  <2>1. \A v, u \in Workers : job'[v] \in Tasks /\ job'[v] = job'[u] => v = u
    <3>1. /\ job'[w] = t
          /\ \A v \in Workers : v # w => job'[v] = job[v]
      BY <1>2 DEF TypeOK
    <3>2. ~Worked(t)
      BY <1>1 DEF OnceInv
    <3>3. \A v \in Workers : job[v] # t
      BY <3>2 DEF Worked
    <3> QED BY <3>1, <3>3 DEF OnceInv
  <2> QED BY <1>1, <1>2, <2>1 DEF OnceInv
<1>6. NoneLostInv'
  BY <1>1, <1>2 DEF NoneLostInv
<1>7. CallerInv'
  BY <1>1, <1>2 DEF CallerInv
<1> QED BY <1>3, <1>4, <1>5, <1>6, <1>7

LEMMA PutFacts ==
  ASSUME PoolInv, NEW w \in Workers, PutResult(w)
  PROVE  /\ job[w] \in Tasks /\ Worked(job[w])
         /\ resultQ' \in Seq(Tasks) /\ Distinct(resultQ')
         /\ \A i \in Tasks : In(resultQ', i) <=> (In(resultQ, i) \/ i = job[w])
         /\ \A i \in Tasks : Worked(i)' <=> (Worked(i) /\ i # job[w])
         /\ Active' = Active
<1> USE DEF PoolInv
<1> DEFINE t == job[w]
<1>1. t \in Tasks /\ Worked(t) /\ resultQ \in Seq(Tasks)
  BY DEF TypeOK, PutResult, Worked
<1>2. ~In(resultQ, t) /\ Distinct(resultQ)
  BY <1>1 DEF OnceInv
<1>3. /\ Append(resultQ, t) \in Seq(Tasks)
      /\ \A i : In(Append(resultQ, t), i) <=> (i = t \/ In(resultQ, i))
      /\ Distinct(Append(resultQ, t))
  BY <1>1, <1>2, AppendFacts
<1>4. resultQ' = Append(resultQ, t) /\ job' = [job EXCEPT ![w] = Sentinel]
      /\ worker' = [worker EXCEPT ![w] = "answered"] /\ worker[w] = "running"
  BY DEF PutResult, Running
<1> HIDE DEF t
<1>5. ASSUME NEW i \in Tasks PROVE Worked(i)' <=> (Worked(i) /\ i # t)
  <2>1. /\ job'[w] = Sentinel /\ Sentinel \notin Tasks
        /\ \A v \in Workers : v # w => job'[v] = job[v]
    BY <1>4, TaskTypes DEF TypeOK
  <2>2. \A v \in Workers : job[v] = t => v = w
    BY <1>1 DEF OnceInv, t
  <2> QED BY <2>1, <2>2 DEF Worked, t
<1>6. Active' = Active
  BY <1>4 DEF Active, TypeOK
<1> QED BY <1>1, <1>3, <1>4, <1>5, <1>6 DEF t

LEMMA PutStep == ASSUME PoolInv, NEW w \in Workers, PutResult(w) PROVE PoolInv'
<1> DEFINE t == job[w]
<1>1. /\ t \in Tasks /\ Worked(t)
      /\ resultQ' \in Seq(Tasks) /\ Distinct(resultQ')
      /\ \A i \in Tasks : In(resultQ', i) <=> (In(resultQ, i) \/ i = t)
      /\ \A i \in Tasks : Worked(i)' <=> (Worked(i) /\ i # t)
      /\ Active' = Active
  BY PutFacts
<1>2. /\ job' = [job EXCEPT ![w] = Sentinel] /\ worker' = [worker EXCEPT ![w] = "answered"]
      /\ failed' \in {failed, failed \cup {t}}
      /\ UNCHANGED <<taskQ, unfinished, mainVars>>
  BY DEF PutResult
<1> HIDE DEF t
<1> USE DEF PoolInv, mainVars, Yielded
<1>3. TypeOK'
  <2>1. failed' \subseteq Tasks
    BY <1>1, <1>2 DEF TypeOK
  <2>2. worker' \in [Workers -> {"idle", "running", "answered", "ended"}]
    BY <1>2 DEF TypeOK
  <2>3. job' \in [Workers -> Tasks \cup {Sentinel}]
    BY <1>2 DEF TypeOK
  <2>4. \A v \in Workers : Running(v)' <=> job'[v] \in Tasks
    BY <1>2, TaskTypes DEF TypeOK, Running
  <2> QED BY <1>1, <1>2, <2>1, <2>2, <2>3, <2>4 DEF TypeOK
<1>4. QueueInv'
  BY <1>1, <1>2 DEF QueueInv
<1>5. OnceInv'
  <2>1. \A v, u \in Workers : job'[v] \in Tasks /\ job'[v] = job'[u] => v = u
    <3>1. /\ job'[w] = Sentinel /\ Sentinel \notin Tasks
          /\ \A v \in Workers : v # w => job'[v] = job[v]
      BY <1>2, TaskTypes DEF TypeOK
    <3> QED BY <3>1 DEF OnceInv
  <2> QED BY <1>1, <1>2, <2>1 DEF OnceInv
<1>6. NoneLostInv'
  BY <1>1, <1>2 DEF NoneLostInv
<1>7. CallerInv'
  <2>1. t \notin results /\ t > Yielded
    BY <1>1 DEF OnceInv
  <2> QED BY <1>1, <1>2, <2>1 DEF CallerInv
<1> QED BY <1>3, <1>4, <1>5, <1>6, <1>7

LEMMA DoneStep == ASSUME PoolInv, NEW w \in Workers, TaskDone(w) PROVE PoolInv'
<1> USE DEF PoolInv
<1>1. /\ worker[w] = "answered" /\ worker' = [worker EXCEPT ![w] = "idle"]
      /\ unfinished' = unfinished - 1
      /\ UNCHANGED <<taskQ, resultQ, job, failed, mainVars>>
  BY DEF TaskDone
<1>2. w \in Active /\ Active' = Active \ {w}
  BY <1>1 DEF Active, TypeOK
<1>3. Cardinality(Active') = Cardinality(Active) - 1
  BY <1>2, ActiveIsFinite, FS_RemoveElement
<1>4. Cardinality(Active) > 0
  BY <1>2, ActiveIsFinite, FS_EmptySet
<1>5. Len(taskQ) \in Nat /\ Cardinality(Active) \in Nat
  BY ActiveIsFinite, LenProperties DEF TypeOK
<1>6. unfinished = Len(taskQ) + Cardinality(Active)
  BY DEF QueueInv
<1>7. unfinished' = Len(taskQ) + Cardinality(Active') /\ unfinished' \in Nat
  BY <1>1, <1>3, <1>4, <1>5, <1>6
<1>8. TypeOK'
  BY <1>1, <1>7 DEF TypeOK, mainVars, Running
<1>9. QueueInv'
  BY <1>1, <1>2, <1>7 DEF QueueInv, mainVars
<1>10. OnceInv' /\ NoneLostInv' /\ CallerInv'
  BY <1>1 DEF OnceInv, NoneLostInv, CallerInv, mainVars, Yielded, Worked
<1> QED BY <1>8, <1>9, <1>10

LEMMA SentinelStep == ASSUME PoolInv, NEW w \in Workers, GetSentinel(w) PROVE PoolInv'
<1> USE DEF PoolInv
<1>1. /\ worker[w] = "idle" /\ worker' = [worker EXCEPT ![w] = "ended"]
      /\ taskQ # <<>> /\ Head(taskQ) = Sentinel /\ taskQ' = Tail(taskQ)
      /\ unfinished' = unfinished - 1
      /\ UNCHANGED <<resultQ, job, failed, mainVars>>
  BY DEF GetSentinel
<1>2. taskQ \in Seq(Tasks \cup {Sentinel})
  BY DEF TypeOK
<1>3. /\ Tail(taskQ) \in Seq(Tasks \cup {Sentinel})
      /\ Len(Tail(taskQ)) = Len(taskQ) - 1 /\ Len(taskQ) >= 1
      /\ \A i : In(taskQ, i) <=> (i = Sentinel \/ In(Tail(taskQ), i))
  BY <1>1, <1>2, TailFacts
<1>4. Active' = Active
  BY <1>1 DEF Active, TypeOK
<1>5. pc = "end"
  BY <1>3 DEF QueueInv
<1>6. Len(taskQ) \in Nat /\ Cardinality(Active) \in Nat
  BY <1>2, ActiveIsFinite, LenProperties
<1>7. unfinished = Len(taskQ) + Cardinality(Active)
  BY DEF QueueInv
<1>8. unfinished' = Len(taskQ') + Cardinality(Active') /\ unfinished' \in Nat
  BY <1>1, <1>3, <1>4, <1>6, <1>7
<1>9. TypeOK'
  BY <1>1, <1>3, <1>8 DEF TypeOK, mainVars, Running
<1>10. \A i \in Tasks : ~In(taskQ, i) /\ ~In(taskQ', i)
  BY <1>1, <1>3, <1>5 DEF QueueInv
<1>11. QueueInv'
  BY <1>1, <1>4, <1>5, <1>8, <1>10 DEF QueueInv, mainVars
<1>12. OnceInv' /\ NoneLostInv' /\ CallerInv'
  BY <1>1, <1>10 DEF OnceInv, NoneLostInv, CallerInv, mainVars, Yielded, Worked
<1> QED BY <1>9, <1>11, <1>12

-----------------------------------------------------------------------------
(* The caller's thread *)

LEMMA NextTask == ASSUME NEW n \in Nat, NEW y \in 0 .. n, y # n
                  PROVE  y + 1 \in 1 .. n /\ ~(y + 1 <= y)
OBVIOUS

LEMMA SumIsZero == ASSUME NEW a \in Nat, NEW b \in Nat, a + b = 0 PROVE a = 0 /\ b = 0
OBVIOUS

LEMMA OneLess == ASSUME NEW a \in Nat, NEW b \in Nat, a >= 1
                 PROVE  (a + b) - 1 = (a - 1) + b /\ (a + b) - 1 \in Nat
OBVIOUS

\* A step that leaves the queues and threads alone and moves no result.
LEMMA Untouched ==
  ASSUME PoolInv, UNCHANGED <<poolVars, results, out, raising>>,
         pc' \in {"tasks empty?", "results empty?", "fetch", "yield", "yielded", "join",
                  "drain tasks", "drain results", "stop", "end"},
         last' \in BOOLEAN, why' \in {"none", "raised", "abandoned"}, why' = "none" => why = "none"
  PROVE  /\ TypeOK' /\ OnceInv'
         /\ Active' = Active
         /\ (pc' = "stop" /\ why' = "none" => Yielded = N) => NoneLostInv'
<1> USE DEF PoolInv, poolVars
<1>1. TypeOK'
  BY DEF TypeOK, Running
<1>2. OnceInv'
  BY DEF OnceInv, Worked, Yielded
<1>3. Active' = Active
  BY DEF Active
<1>4. (pc' = "stop" /\ why' = "none" => Yielded = N) => NoneLostInv'
  BY DEF NoneLostInv, Worked, Yielded
<1> QED BY <1>1, <1>2, <1>3, <1>4

LEMMA YieldedTypes == ASSUME PoolInv PROVE Yielded \in 0 .. N
<1>1. out \in Seq(Tasks) /\ Len(out) \in Nat /\ DOMAIN out = 1 .. Len(out)
  BY LenProperties DEF PoolInv, TypeOK
<1>2. \A k \in 1 .. Len(out) : out[k] \in Tasks /\ out[k] = k
  BY <1>1, ElementOfSeq DEF PoolInv, CallerInv
<1>3. CASE Len(out) = 0
  BY <1>3, TaskTypes DEF Yielded
<1>4. CASE Len(out) > 0
  <2>1. Len(out) \in Tasks
    BY <1>1, <1>2, <1>4
  <2> QED BY <2>1, TaskTypes DEF Yielded
<1> QED BY <1>1, <1>3, <1>4

\* The iteration stops by itself when nothing is left, and the last result was
\* the last task's.
LEMMA AllYielded ==
  ASSUME PoolInv, pc = "results empty?", last, resultQ = <<>>
  PROVE  Yielded = N
<1> USE DEF PoolInv
<1>1. taskQ = <<>> /\ Active = {} /\ why = "none" /\ Yielded + 1 \notin results
  BY DEF QueueInv, CallerInv, Asking
<1>2. \A i \in Tasks : ~Worked(i)
  <2> SUFFICES ASSUME NEW w \in Workers, job[w] \in Tasks PROVE FALSE
    BY DEF Worked
  <2>1. Running(w)
    BY DEF TypeOK
  <2> QED BY <1>1, <2>1 DEF Active, Running
<1>3. \A i \in Tasks : i \in results \/ i <= Yielded
  BY <1>1, <1>2, EmptyFacts DEF NoneLostInv
<1>4. SUFFICES ASSUME Yielded # N PROVE FALSE
  OBVIOUS
<1>5. Yielded + 1 \in Tasks /\ ~(Yielded + 1 <= Yielded)
  BY <1>4, YieldedTypes, TaskTypes, NextTask
<1> QED BY <1>1, <1>3, <1>5

LEMMA LookStep ==
  ASSUME PoolInv, TasksEmpty \/ ResultsEmpty \/ Resume \/ GiveUp PROVE PoolInv'
<1> USE DEF PoolInv
<1>1. CASE TasksEmpty
  <2>1. /\ pc = "tasks empty?" /\ pc' \in {"results empty?", "fetch"}
        /\ UNCHANGED <<poolVars, last, results, out, why, raising>>
    BY <1>1 DEF TasksEmpty
  <2>2. TypeOK' /\ OnceInv' /\ Active' = Active /\ NoneLostInv'
    BY <2>1, Untouched DEF TypeOK
  <2>3. QueueInv'
    BY <2>1, <2>2 DEF QueueInv, poolVars
  <2>4. CallerInv'
    BY <2>1 DEF CallerInv, Asking, Yielded, poolVars
  <2> QED BY <2>2, <2>3, <2>4
<1>2. CASE ResultsEmpty
  <2>1. /\ pc = "results empty?" /\ pc' \in {"fetch", "stop", "join"}
        /\ UNCHANGED <<poolVars, last, results, out, why, raising>>
        /\ pc' = "stop" => resultQ = <<>> /\ last
    <3>1. pc = "results empty?" /\ UNCHANGED <<poolVars, last, results, out, why, raising>>
      BY <1>2 DEF ResultsEmpty
    <3>2. CASE resultQ # <<>>
      BY <1>2, <3>1, <3>2 DEF ResultsEmpty
    <3>3. CASE resultQ = <<>> /\ last
      BY <1>2, <3>1, <3>3 DEF ResultsEmpty
    <3>4. CASE resultQ = <<>> /\ ~last
      BY <1>2, <3>1, <3>4 DEF ResultsEmpty
    <3> QED BY <3>1, <3>2, <3>3, <3>4
  <2>2. pc' = "stop" => Yielded = N
    BY <2>1, AllYielded
  <2>3. TypeOK' /\ OnceInv' /\ Active' = Active /\ NoneLostInv'
    BY <2>1, <2>2, Untouched DEF TypeOK
  <2>4. QueueInv'
    BY <2>1, <2>3 DEF QueueInv, poolVars
  <2>5. CallerInv'
    BY <2>1 DEF CallerInv, Asking, Yielded, poolVars
  <2> QED BY <2>3, <2>4, <2>5
<1>3. CASE Resume
  <2>1. /\ pc = "yielded" /\ pc' \in {"yield", "tasks empty?"}
        /\ pc' = "yield" <=> Yielded + 1 \in results
        /\ UNCHANGED <<poolVars, last, results, out, why, raising>>
    BY <1>3 DEF Resume
  <2>2. TypeOK' /\ OnceInv' /\ Active' = Active /\ NoneLostInv'
    BY <2>1, Untouched DEF TypeOK
  <2>3. QueueInv'
    BY <2>1, <2>2 DEF QueueInv, poolVars
  <2>4. CallerInv'
    BY <2>1 DEF CallerInv, Asking, Yielded, poolVars
  <2> QED BY <2>2, <2>3, <2>4
<1>4. CASE GiveUp
  <2>1. /\ pc = "yielded" /\ pc' = "drain tasks" /\ why' = "abandoned"
        /\ UNCHANGED <<poolVars, last, results, out, raising>>
    BY <1>4 DEF GiveUp
  <2>2. TypeOK' /\ OnceInv' /\ Active' = Active /\ NoneLostInv'
    BY <2>1, Untouched DEF TypeOK
  <2>3. QueueInv'
    BY <2>1, <2>2 DEF QueueInv, poolVars
  <2>4. CallerInv'
    BY <2>1 DEF CallerInv, Asking, Yielded, poolVars
  <2> QED BY <2>2, <2>3, <2>4
<1> QED BY <1>1, <1>2, <1>3, <1>4

\* The join returns when the queue is empty and no thread has a task.
LEMMA JoinStep == ASSUME PoolInv, Join PROVE PoolInv'
<1> USE DEF PoolInv
<1>1. /\ pc = "join" /\ unfinished = 0 /\ last' = TRUE /\ pc' = "tasks empty?"
      /\ UNCHANGED <<poolVars, results, out, why, raising>>
  BY DEF Join
<1>2. TypeOK' /\ OnceInv' /\ Active' = Active /\ NoneLostInv'
  BY <1>1, Untouched DEF TypeOK
<1>3. unfinished = Len(taskQ) + Cardinality(Active)
  BY DEF QueueInv
<1>4. taskQ \in Seq(Tasks \cup {Sentinel})
  BY DEF TypeOK
<1>5. Len(taskQ) \in Nat /\ Cardinality(Active) \in Nat
  BY <1>4, ActiveIsFinite, LenProperties
<1>6. Len(taskQ) = 0 /\ Cardinality(Active) = 0
  <2>1. Len(taskQ) + Cardinality(Active) = 0
    BY <1>1, <1>3
  <2> QED BY <2>1, <1>5, SumIsZero
<1>7. taskQ = <<>> /\ Active = {}
  BY <1>4, <1>6, EmptySeq, ActiveIsFinite, FS_EmptySet
<1>8. QueueInv'
  BY <1>1, <1>2, <1>7 DEF QueueInv, poolVars
<1>9. CallerInv'
  BY <1>1 DEF CallerInv, Asking, Yielded, poolVars
<1> QED BY <1>2, <1>8, <1>9

LEMMA FetchStep == ASSUME PoolInv, Fetch PROVE PoolInv'
<1> USE DEF PoolInv
<1> DEFINE i == Head(resultQ)
<1>1. /\ pc = "fetch" /\ resultQ # <<>> /\ resultQ' = Tail(resultQ)
      /\ UNCHANGED <<taskQ, unfinished, worker, job, failed, last, out, raising>>
  BY DEF Fetch
<1>2. resultQ \in Seq(Tasks) /\ Distinct(resultQ)
  BY DEF TypeOK, OnceInv
<1>3. /\ i \in Tasks /\ resultQ' \in Seq(Tasks)
      /\ \A j : In(resultQ, j) <=> (j = i \/ In(resultQ', j))
      /\ Distinct(resultQ') /\ ~In(resultQ', i)
  BY <1>1, <1>2, TailFacts
<1>4. \/ /\ raising /\ i \in failed
         /\ pc' = "drain tasks" /\ why' = "raised" /\ results' = results
      \/ /\ ~(raising /\ i \in failed)
         /\ results' = results \cup {i} /\ why' = why
         /\ pc' \in {"yield", "tasks empty?"} /\ (pc' = "yield" <=> i = Yielded + 1)
  BY DEF Fetch
<1> HIDE DEF i
<1>5. why = "none" /\ Yielded + 1 \notin results /\ Active' = Active
  BY <1>1 DEF CallerInv, Asking, Active
<1>6. TypeOK'
  <2>1. results' \subseteq Tasks
    BY <1>3, <1>4 DEF TypeOK
  <2> QED BY <1>1, <1>3, <1>4, <2>1 DEF TypeOK, Running
<1>7. QueueInv'
  BY <1>1, <1>4, <1>5 DEF QueueInv
<1>8. \A j \in Tasks : Worked(j)' <=> Worked(j)
  BY <1>1 DEF Worked
<1>9. ~In(taskQ, i) /\ ~Worked(i) /\ i \notin results /\ i > Yielded
  BY <1>3 DEF OnceInv
<1>10. OnceInv'
  <2>1. \A w, v \in Workers : job'[w] \in Tasks /\ job'[w] = job'[v] => w = v
    BY <1>1 DEF OnceInv
  <2> QED BY <1>1, <1>3, <1>4, <1>8, <1>9, <2>1 DEF OnceInv, Yielded
<1>11. NoneLostInv'
  BY <1>1, <1>3, <1>4, <1>8 DEF NoneLostInv, Yielded
<1>12. CallerInv'
  BY <1>1, <1>4, <1>5, <1>9 DEF CallerInv, Asking, Yielded
<1> QED BY <1>6, <1>7, <1>10, <1>11, <1>12

LEMMA YieldStep == ASSUME PoolInv, Yield PROVE PoolInv'
<1> USE DEF PoolInv
<1>1. /\ pc = "yield" /\ pc' = "yielded"
      /\ out' = Append(out, Yielded + 1) /\ results' = results \ {Yielded + 1}
      /\ UNCHANGED <<poolVars, last, why, raising>>
  BY DEF Yield
<1>2. Yielded + 1 \in results /\ results \subseteq Tasks /\ Yielded \in Nat /\ out \in Seq(Tasks)
  BY <1>1, YieldedTypes DEF CallerInv, TypeOK
<1>3. /\ out' \in Seq(Tasks) /\ Len(out') = Len(out) + 1
      /\ \A k \in 1 .. Len(out) : out'[k] = out[k]
      /\ out'[Len(out) + 1] = Yielded + 1 /\ Len(out) \in Nat
  BY <1>1, <1>2, AppendProperties, LenProperties
<1>4. /\ Yielded' = Yielded + 1
      /\ \A k \in DOMAIN out' : out'[k] = k
  <2>1. Yielded' = Yielded + 1
    BY <1>3 DEF Yielded
  <2>2. DOMAIN out' = 1 .. (Len(out) + 1) /\ DOMAIN out = 1 .. Len(out)
    BY <1>2, <1>3, LenProperties
  <2>3. \A k \in 1 .. (Len(out) + 1) : k \in 1 .. Len(out) \/ k = Len(out) + 1
    BY <1>3
  <2>4. \A k \in 1 .. Len(out) : out[k] = k
    BY <2>2 DEF CallerInv
  <2> QED BY <1>3, <2>1, <2>2, <2>3, <2>4 DEF Yielded
<1>5. Active' = Active /\ (\A j \in Tasks : Worked(j)' <=> Worked(j))
  BY <1>1 DEF Active, Worked, poolVars
<1>6. TypeOK'
  BY <1>1, <1>2, <1>3 DEF TypeOK, poolVars, Running
<1>7. QueueInv'
  BY <1>1, <1>5 DEF QueueInv, poolVars
<1>8. OnceInv'
  <2>1. \A w, v \in Workers : job'[w] \in Tasks /\ job'[w] = job'[v] => w = v
    BY <1>1 DEF OnceInv, poolVars
  <2>2. Distinct(resultQ')
    BY <1>1 DEF OnceInv, poolVars
  <2>3. ASSUME NEW j \in Tasks, In(taskQ, j) \/ Worked(j) \/ In(resultQ, j) \/ j \in results'
        PROVE  j > Yielded'
    <3>1. j > Yielded /\ j # Yielded + 1
      BY <1>1, <1>2, <2>3 DEF OnceInv
    <3> QED BY <1>2, <1>4, <3>1, TaskTypes
  <2> QED BY <1>1, <1>5, <2>1, <2>2, <2>3 DEF OnceInv, poolVars
<1>9. NoneLostInv'
  <2>1. \A j \in Tasks : (j \in results => j \in results' \/ j <= Yielded') /\ (j <= Yielded => j <= Yielded')
    BY <1>1, <1>2, <1>4, TaskTypes
  <2> QED BY <1>1, <1>5, <2>1 DEF NoneLostInv, poolVars
<1>10. CallerInv'
  <2>1. ASSUME raising, NEW j \in failed PROVE j \notin results' /\ j > Yielded'
    <3>1. j \notin results /\ j > Yielded /\ j \in Tasks
      BY <2>1 DEF CallerInv, TypeOK
    <3> QED BY <3>1, <1>1, <1>2, <1>4, TaskTypes
  <2> QED BY <1>1, <1>4, <2>1 DEF CallerInv, Asking, poolVars
<1> QED BY <1>6, <1>7, <1>8, <1>9, <1>10

LEMMA DrainStep == ASSUME PoolInv, DrainTasks \/ DrainResults PROVE PoolInv'
<1> USE DEF PoolInv
<1>0. /\ pc \in {"drain tasks", "drain results"} /\ why # "none"
      /\ UNCHANGED <<worker, job, failed, last, results, out, why, raising>>
  BY DEF DrainTasks, DrainResults, CallerInv
<1>1. /\ Active' = Active
      /\ \A j \in Tasks : Worked(j)' <=> Worked(j)
      /\ \A w, v \in Workers : job'[w] \in Tasks /\ job'[w] = job'[v] => w = v
  BY <1>0 DEF Active, Worked, OnceInv
<1>2. CASE DrainTasks /\ taskQ = <<>>
  <2>1. pc' = "drain results" /\ UNCHANGED <<taskQ, unfinished, resultQ>>
    BY <1>2 DEF DrainTasks
  <2>2. TypeOK'
    BY <1>0, <2>1 DEF TypeOK, Running
  <2>3. QueueInv'
    BY <1>0, <1>1, <1>2, <2>1 DEF QueueInv
  <2>4. OnceInv' /\ NoneLostInv' /\ CallerInv'
    BY <1>0, <1>1, <2>1 DEF OnceInv, NoneLostInv, CallerInv, Asking, Yielded
  <2> QED BY <2>2, <2>3, <2>4
<1>3. CASE DrainTasks /\ taskQ # <<>>
  <2>1. /\ pc = "drain tasks" /\ pc' = pc /\ resultQ' = resultQ
        /\ taskQ' = Tail(taskQ) /\ unfinished' = unfinished - 1
    BY <1>3 DEF DrainTasks
  <2>2. /\ taskQ \in Seq(Tasks \cup {Sentinel}) /\ Distinct(taskQ) /\ ~In(taskQ, Sentinel) /\ ~last
    BY <1>3, <2>1 DEF TypeOK, QueueInv
  <2>3. /\ taskQ' \in Seq(Tasks \cup {Sentinel}) /\ Distinct(taskQ')
        /\ Len(taskQ') = Len(taskQ) - 1 /\ Len(taskQ) >= 1
        /\ \A i : In(taskQ', i) => In(taskQ, i)
    BY <1>3, <2>1, <2>2, TailFacts
  <2>4. unfinished' = Len(taskQ') + Cardinality(Active') /\ unfinished' \in Nat
    <3>1. Len(taskQ) \in Nat /\ Cardinality(Active) \in Nat
      BY <2>2, ActiveIsFinite, LenProperties
    <3>2. unfinished = Len(taskQ) + Cardinality(Active)
      BY DEF QueueInv
    <3>3. unfinished' = (Len(taskQ) + Cardinality(Active)) - 1
      BY <3>2, <2>1
    <3> QED BY <3>1, <3>3, <1>1, <2>3, OneLess
  <2>5. TypeOK'
    BY <1>0, <2>1, <2>3, <2>4 DEF TypeOK, Running
  <2>6. QueueInv'
    BY <1>0, <2>1, <2>2, <2>3, <2>4 DEF QueueInv
  <2>7. OnceInv' /\ NoneLostInv' /\ CallerInv'
    BY <1>0, <1>1, <2>1, <2>3 DEF OnceInv, NoneLostInv, CallerInv, Asking, Yielded
  <2> QED BY <2>5, <2>6, <2>7
<1>4. CASE DrainResults /\ resultQ = <<>>
  <2>1. pc = "drain results" /\ pc' = "stop" /\ UNCHANGED <<taskQ, unfinished, resultQ>>
    BY <1>4 DEF DrainResults
  <2> QED BY <1>0, <1>1, <2>1 DEF TypeOK, Running, QueueInv, OnceInv, NoneLostInv, CallerInv,
                                  Asking, Yielded
<1>5. CASE DrainResults /\ resultQ # <<>>
  <2>1. /\ pc' = pc /\ UNCHANGED <<taskQ, unfinished>>
        /\ resultQ' = Tail(resultQ)
    BY <1>5 DEF DrainResults
  <2>2. resultQ \in Seq(Tasks) /\ Distinct(resultQ)
    BY DEF TypeOK, OnceInv
  <2>3. /\ resultQ' \in Seq(Tasks) /\ Distinct(resultQ')
        /\ \A i : In(resultQ', i) => In(resultQ, i)
    BY <1>5, <2>1, <2>2, TailFacts
  <2>4. TypeOK'
    BY <1>0, <2>1, <2>3 DEF TypeOK, Running
  <2>5. QueueInv'
    BY <1>0, <1>1, <2>1 DEF QueueInv
  <2>6. OnceInv' /\ NoneLostInv' /\ CallerInv'
    BY <1>0, <1>1, <2>1, <2>3 DEF OnceInv, NoneLostInv, CallerInv, Asking, Yielded
  <2> QED BY <2>4, <2>5, <2>6
<1> QED BY <1>2, <1>3, <1>4, <1>5 DEF DrainTasks, DrainResults

LEMMA StopStep == ASSUME PoolInv, SendSentinels PROVE PoolInv'
<1> USE DEF PoolInv
<1> DEFINE n == Cardinality(Workers)
           sentinels == [k \in 1 .. n |-> Sentinel]
<1>1. /\ pc = "stop" /\ pc' = "end"
      /\ taskQ' = taskQ \o sentinels /\ unfinished' = unfinished + n
      /\ UNCHANGED <<resultQ, worker, job, failed, last, results, out, why, raising>>
  BY DEF SendSentinels
<1>2. n \in Nat
  BY SizeAssumption, FS_CardinalityType
<1> HIDE DEF n
<1>3. sentinels \in Seq({Sentinel}) /\ Len(sentinels) = n
  <2>1. sentinels \in [1 .. n -> {Sentinel}] /\ DOMAIN sentinels = 1 .. n
    OBVIOUS
  <2>2. sentinels \in Seq({Sentinel})
    BY ONLY <2>1, <1>2
  <2>3. Len(sentinels) \in Nat /\ DOMAIN sentinels = 1 .. Len(sentinels)
    BY <2>2, LenProperties
  <2> QED BY <1>2, <2>1, <2>2, <2>3, SameRange
<1> HIDE DEF sentinels
<1>4. taskQ = <<>>
  BY <1>1 DEF QueueInv
<1>5. taskQ' = sentinels
  BY <1>1, <1>3, <1>4, ConcatEmptySeq
<1>6. taskQ' \in Seq(Tasks \cup {Sentinel}) /\ Len(taskQ') = n
  BY <1>3, <1>5, SeqMonotonic
<1>7. \A i \in Tasks : ~In(taskQ', i)
  BY <1>3, <1>5, TaskTypes, ElementOfSeq, LenProperties DEF In
<1>8. Active' = Active /\ (\A j \in Tasks : Worked(j)' <=> Worked(j))
  BY <1>1 DEF Active, Worked
<1>9. unfinished' = Len(taskQ') + Cardinality(Active') /\ unfinished' \in Nat
  <2>1. unfinished = Cardinality(Active) /\ Cardinality(Active) \in Nat
    BY <1>4, ActiveIsFinite, EmptySeq DEF QueueInv
  <2> QED BY <1>1, <1>2, <1>6, <1>8, <2>1
<1>10. TypeOK'
  BY <1>1, <1>6, <1>9 DEF TypeOK, Running
<1>11. QueueInv'
  BY <1>1, <1>7, <1>8, <1>9 DEF QueueInv
<1>12. OnceInv'
  <2>1. \A w, v \in Workers : job'[w] \in Tasks /\ job'[w] = job'[v] => w = v
    BY <1>1 DEF OnceInv
  <2> QED BY <1>1, <1>7, <1>8, <2>1 DEF OnceInv, Yielded
<1>13. NoneLostInv' /\ CallerInv'
  BY <1>1, <1>4, <1>8, EmptyFacts DEF NoneLostInv, CallerInv, Asking, Yielded
<1> QED BY <1>10, <1>11, <1>12, <1>13

LEMMA PoolStep == PoolInv /\ [Next]_vars => PoolInv'
<1> SUFFICES ASSUME PoolInv, [Next]_vars PROVE PoolInv'
  OBVIOUS
<1>1. CASE Next
  BY <1>1, LookStep, JoinStep, FetchStep, YieldStep, DrainStep, StopStep,
     TakeStep, PutStep, DoneStep, SentinelStep DEF Next, Main, Worker
<1>2. CASE UNCHANGED vars
  BY <1>2 DEF vars, poolVars, mainVars, PoolInv, TypeOK, QueueInv, OnceInv, NoneLostInv,
              CallerInv, Running, Active, Worked, Yielded
<1> QED BY <1>1, <1>2

-----------------------------------------------------------------------------
(* The theorems *)

\* No task is lost, duplicated or overtaken on its way through the pool.
THEOREM Invariance == Spec => []PoolInv
<1> QED BY Initially, PoolStep, PTL DEF Spec

\* What is in the queues and in the caller's hands are tasks and sentinels,
\* and the count of unfinished tasks never becomes negative: task_done, which
\* raises a ValueError then, is called once for each get.
THEOREM TypeCorrect == Spec => []TypeOK
<1> QED BY Invariance, PTL DEF PoolInv

\* A forced shutdown empties the task queue before it sends the sentinels: a
\* thread that is not running a task then never starts one again.
THEOREM ShutdownIsFinal == Spec => NothingStartsAfterShutdown
<1>1. ASSUME PoolInv, Next, pc = "end", NEW w \in Workers, ~Running(w) PROVE ~Running(w)'
  <2>1. ASSUME NEW v \in Workers, Take(v) PROVE FALSE
    BY <1>1, <2>1, TakeFacts
  <2>2. CASE Main
    BY <1>1, <2>2 DEF Main, TasksEmpty, ResultsEmpty, Fetch, Yield, Resume, GiveUp, Join,
                      DrainTasks, DrainResults, SendSentinels
  <2>3. CASE \E v \in Workers : PutResult(v) \/ TaskDone(v) \/ GetSentinel(v)
    BY <1>1, <2>3 DEF PutResult, TaskDone, GetSentinel, Running, PoolInv, TypeOK
  <2> QED BY <1>1, <2>1, <2>2, <2>3 DEF Next, Worker
<1>2. ASSUME PoolInv, [Next]_vars
      PROVE  [pc = "end" => \A w \in Workers : ~Running(w) => ~Running(w)']_vars
  BY <1>1, <1>2
<1> QED BY <1>2, Invariance, PTL DEF Spec, NothingStartsAfterShutdown

-----------------------------------------------------------------------------
(* The pool implements MapSpec *)

\* status, as the refinement mapping has it.
Status == IF why # "none" THEN why ELSE IF pc = "end" THEN "done" ELSE "open"

LEMMA StatusOpen == pc # "end" /\ why = "none" => Status = "open"
BY DEF Status

LEMMA StatusDone == pc = "end" /\ why = "none" => Status = "done"
BY DEF Status

LEMMA StatusForced == why # "none" => Status = why
BY DEF Status

LEMMA PromiseInit == Init => Promise!Init
<1> SUFFICES ASSUME Init PROVE Promise!Init
  OBVIOUS
<1>1. Status = "open"
  BY StatusOpen DEF Init
<1> QED BY <1>1 DEF Init, Promise!Init, Status

\* A step that changes nothing the caller of the pool sees.
LEMMA Stutters ==
  ASSUME UNCHANGED <<raising, failed, out>>, Status' = Status
  PROVE  UNCHANGED Promise!vars
BY DEF Promise!vars, Status

LEMMA WorkerPromise ==
  ASSUME PoolInv, NEW w \in Workers, Worker(w)
  PROVE  [Promise!Next]_Promise!vars
<1>1. Status' = Status /\ UNCHANGED <<raising, out>>
  BY DEF Worker, Take, PutResult, TaskDone, GetSentinel, mainVars, Status
<1>2. CASE failed' = failed
  BY <1>1, <1>2, Stutters
<1>3. CASE failed' # failed
  <2>1. failed' = failed \cup {job[w]} /\ job[w] \in Tasks
    BY <1>3, PutFacts DEF Worker, Take, PutResult, TaskDone, GetSentinel
  <2>2. job[w] \notin failed
    BY <1>3, <2>1
  <2>3. Promise!TaskFails(job[w])
    BY <1>1, <2>1, <2>2 DEF Promise!TaskFails, Status
  <2> QED BY <2>1, <2>3 DEF Promise!Next, Tasks
<1> QED BY <1>2, <1>3

\* Only the end of the iteration, an error and the last step of the consumer
\* change the status.
LEMMA QuietPromise ==
  ASSUME PoolInv, TasksEmpty \/ ResultsEmpty \/ Resume \/ Join \/ DrainTasks \/ DrainResults
  PROVE  [Promise!Next]_Promise!vars
<1>1. UNCHANGED <<raising, failed, out, why>> /\ pc # "end" /\ pc' # "end"
  <2>1. CASE ResultsEmpty
    <3>1. pc' \in {"fetch", "stop", "join"}
      <4>1. CASE resultQ # <<>>
        BY <2>1, <4>1 DEF ResultsEmpty
      <4>2. CASE resultQ = <<>> /\ last
        BY <2>1, <4>2 DEF ResultsEmpty
      <4>3. CASE resultQ = <<>> /\ ~last
        BY <2>1, <4>3 DEF ResultsEmpty
      <4> QED BY <4>1, <4>2, <4>3 DEF PoolInv, TypeOK
    <3> QED BY <2>1, <3>1 DEF ResultsEmpty, poolVars
  <2>2. CASE TasksEmpty \/ Resume \/ Join \/ DrainTasks \/ DrainResults
    BY <2>2 DEF TasksEmpty, Resume, Join, DrainTasks, DrainResults, poolVars
  <2> QED BY <2>1, <2>2
<1>2. Status' = Status
  BY <1>1 DEF Status
<1> QED BY <1>1, <1>2, Stutters

LEMMA FetchPromise == ASSUME PoolInv, Fetch PROVE [Promise!Next]_Promise!vars
<1>1. pc = "fetch" /\ why = "none" /\ UNCHANGED <<raising, failed, out>>
  BY DEF Fetch, PoolInv, CallerInv, Asking
<1>2. Status = "open"
  BY <1>1, StatusOpen
<1>3. CASE raising /\ Head(resultQ) \in failed
  <2>1. why' = "raised"
    BY <1>3 DEF Fetch
  <2>2. Status' = "raised"
    BY <2>1 DEF Status
  <2>3. Promise!Raise
    BY <1>1, <1>2, <1>3, <2>2 DEF Promise!Raise, Status
  <2> QED BY <2>3 DEF Promise!Next
<1>4. CASE ~(raising /\ Head(resultQ) \in failed)
  <2>1. why' = "none" /\ pc' # "end"
    BY <1>1, <1>4 DEF Fetch
  <2>2. Status' = Status
    BY <1>2, <2>1 DEF Status
  <2> QED BY <1>1, <2>2, Stutters
<1> QED BY <1>3, <1>4

\* The result yielded is the next one, and no error unless the consumer takes
\* errors as results.
LEMMA YieldPromise == ASSUME PoolInv, Yield PROVE [Promise!Next]_Promise!vars
<1>1. /\ pc = "yield" /\ pc' = "yielded" /\ why = "none" /\ why' = "none"
      /\ out' = Append(out, Yielded + 1) /\ UNCHANGED <<raising, failed>>
  BY DEF Yield, PoolInv, CallerInv, poolVars
<1>2. Status = "open" /\ Status' = "open"
  BY <1>1 DEF Status
<1>3. Yielded + 1 \in results /\ Yielded + 1 \in Tasks
  BY <1>1 DEF PoolInv, CallerInv, TypeOK
<1>4. Yielded + 1 <= N
  BY <1>3, TaskTypes
<1>5. raising => Yielded + 1 \notin failed
  BY <1>3 DEF PoolInv, CallerInv
<1>6. Promise!HandOut
  BY <1>1, <1>2, <1>4, <1>5 DEF Promise!HandOut, Status, Yielded
<1> QED BY <1>6 DEF Promise!Next

LEMMA GiveUpPromise == ASSUME PoolInv, GiveUp PROVE [Promise!Next]_Promise!vars
<1>1. /\ pc = "yielded" /\ why = "none" /\ why' = "abandoned" /\ Yielded \in failed
      /\ UNCHANGED <<raising, failed, out>>
  BY DEF GiveUp, PoolInv, CallerInv, poolVars
<1>2. Status = "open" /\ Status' = "abandoned"
  BY <1>1 DEF Status
<1>3. ~raising
  <2>1. ~(Yielded > Yielded)
    BY YieldedTypes, TaskTypes
  <2> QED BY <1>1, <2>1 DEF PoolInv, CallerInv
<1>4. out # <<>> /\ out[Len(out)] = Len(out)
  <2>1. out \in Seq(Tasks) /\ Len(out) \in Tasks
    BY <1>1 DEF PoolInv, TypeOK, Yielded
  <2>2. Len(out) \in 1 .. Len(out) /\ DOMAIN out = 1 .. Len(out)
    BY <2>1, TaskTypes, LenProperties
  <2>3. out[Len(out)] = Len(out)
    BY <2>2 DEF PoolInv, CallerInv
  <2>4. out # <<>>
    <3>1. Len(out) # 0
      BY <2>1, TaskTypes
    <3> QED BY <3>1, EmptySeq
  <2> QED BY <2>3, <2>4
<1>5. Promise!GiveUp
  BY <1>1, <1>2, <1>3, <1>4 DEF Promise!GiveUp, Status, Yielded
<1> QED BY <1>5 DEF Promise!Next

\* The iteration that ends by itself has handed out all results.
LEMMA StopPromise == ASSUME PoolInv, SendSentinels PROVE [Promise!Next]_Promise!vars
<1>1. pc = "stop" /\ pc' = "end" /\ UNCHANGED <<raising, failed, out, why>>
  BY DEF SendSentinels
<1>2. CASE why # "none"
  <2>1. Status' = Status
    BY <1>1, <1>2 DEF Status
  <2> QED BY <1>1, <2>1, Stutters
<1>3. CASE why = "none"
  <2>1. Status = "open" /\ Status' = "done"
    BY <1>1, <1>3 DEF Status
  <2>2. Len(out) = N
    BY <1>1, <1>3 DEF PoolInv, NoneLostInv, Yielded
  <2>3. raising => failed = {}
    <3> SUFFICES ASSUME raising, NEW i \in failed PROVE FALSE
      OBVIOUS
    <3>1. i \in Tasks /\ i > Yielded
      BY DEF PoolInv, TypeOK, CallerInv
    <3> QED BY <2>2, <3>1, TaskTypes DEF Yielded
  <2>4. Promise!Finish
    BY <1>1, <2>1, <2>2, <2>3 DEF Promise!Finish, Status
  <2> QED BY <2>4 DEF Promise!Next
<1> QED BY <1>2, <1>3

\* imap and starmap: the results arrive in the order of the tasks, each one
\* once; an error is raised and never taken for a result, unless the consumer
\* asked for result objects; and an iteration that ends regularly has handed
\* out the results of all tasks.
THEOREM PoolKeepsItsPromise == Spec => ImplementsMap
<1>1. ASSUME PoolInv, [Next]_vars PROVE [Promise!Next]_Promise!vars
  <2>1. CASE UNCHANGED vars
    BY <2>1, Stutters DEF vars, poolVars, mainVars, Status
  <2>2. CASE Next
    BY <1>1, <2>2, WorkerPromise, QuietPromise, FetchPromise, YieldPromise, GiveUpPromise,
       StopPromise DEF Next, Main
  <2> QED BY <1>1, <2>1, <2>2
<1> QED BY <1>1, PromiseInit, Invariance, PTL DEF Spec, ImplementsMap, Promise!Spec
=============================================================================
