--------------------------- MODULE FileLockProofs ---------------------------
(***************************************************************************)
(* Proofs about FileLock for any number of processes, paths and inodes.    *)
(*                                                                         *)
(* LockTypeOK is inductive.  The exclusion properties rest on LockInv:     *)
(* open files that may still lead to a lock are the inode the directory    *)
(* names, as long as nothing has removed that entry, and an inode has one  *)
(* flock.  Entries are removed by unlock (which sets solved) and by the    *)
(* cleanup, so the invariant and the theorems speak of the files that are  *)
(* not in Aged, while the others are cleaned up at any time.               *)
(***************************************************************************)
EXTENDS FileLock, TLAPS

\* A file that is used often enough is never condemned by a cleanup.
NeverDoomed == \A path \in Paths \ Aged : ~old[path] /\ ~doomed[path]

\* An inode is flocked through one open file at most.
OneFlockPerInode ==
  \A p, q \in Procs : Flocking(p) /\ Flocking(q) /\ fd[p] = fd[q] => p = q

\* Until somebody has removed the entry, every open file is the linked one.
LinkedUntilRemoved ==
  \A p \in Procs :
    /\ lockpc[p] \in {"opened", "locked"}
    /\ target[p] \notin Aged
    /\ ~RemoveOnUnlock \/ ~solved[target[p]]
    => fd[p] = entry[target[p]]

LockInv == LockTypeOK /\ NeverDoomed /\ OneFlockPerInode /\ LinkedUntilRemoved

LEMMA LockTypeInit == LockInit => LockTypeOK
  BY InodeAssumption DEF LockInit, LockTypeOK, LockStates

LEMMA LockTypeStep ==
  ASSUME LockTypeOK, [LockNext]_lockVars
  PROVE  LockTypeOK'
<1> USE InodeAssumption DEF LockTypeOK, LockStates
<1>1. ASSUME NEW p \in Procs, NEW path \in Paths, LockCall(p, path)
      PROVE  LockTypeOK'
  BY <1>1 DEF LockCall
<1>2. ASSUME NEW p \in Procs, Deadline(p) PROVE LockTypeOK'
  BY <1>2 DEF Deadline, Waiting
<1>3. ASSUME NEW p \in Procs, Open(p) PROVE LockTypeOK'
  BY <1>3 DEF Open
<1>4. ASSUME NEW p \in Procs, Flock(p) PROVE LockTypeOK'
  BY <1>4 DEF Flock
<1>5. ASSUME NEW p \in Procs, Retry(p) PROVE LockTypeOK'
  BY <1>5 DEF Retry
<1>6. ASSUME NEW p \in Procs, Timeout(p) PROVE LockTypeOK'
  BY <1>6 DEF Timeout
<1>7. ASSUME NEW p \in Procs, UnlockRemove(p) PROVE LockTypeOK'
  BY <1>7 DEF UnlockRemove
<1>8. ASSUME NEW p \in Procs, UnlockClose(p) PROVE LockTypeOK'
  BY <1>8 DEF UnlockClose
<1>9. ASSUME NEW p \in Procs, Close(p) \/ LockDie(p) PROVE LockTypeOK'
  BY <1>9 DEF Close, LockDie
<1>10. ASSUME NEW path \in Paths,
              Age(path) \/ CleanupCheck(path) \/ CleanupUnlink(path)
       PROVE  LockTypeOK'
  BY <1>10 DEF Age, CleanupCheck, CleanupUnlink
<1>11. CASE UNCHANGED lockVars
  BY <1>11 DEF lockVars
<1> QED
  BY <1>1, <1>2, <1>3, <1>4, <1>5, <1>6, <1>7, <1>8, <1>9, <1>10, <1>11
  DEF LockNext, TryLock, Unlock, Cleanup

\* Type correctness of the lock state, whoever calls, dies or cleans up.
THEOREM LockTypeCorrect == LockSpec => []LockTypeOK
  BY LockTypeInit, LockTypeStep, PTL DEF LockSpec

-----------------------------------------------------------------------------
(* The inductive step of LockInv: one step per action. *)

LEMMA LockInvStep ==
  ASSUME LockInv, [LockNext]_lockVars
  PROVE  LockInv'
<1>1. LockTypeOK'
  BY LockTypeStep DEF LockInv
<1> USE DEF LockInv, LockTypeOK, LockStates, NeverDoomed, OneFlockPerInode,
            LinkedUntilRemoved, Flocking
<1>2. ASSUME NEW p \in Procs, NEW path \in Paths, LockCall(p, path)
      PROVE  LockInv'
  BY <1>1, <1>2 DEF LockCall
<1>3. ASSUME NEW p \in Procs, Deadline(p) PROVE LockInv'
  BY <1>1, <1>3 DEF Deadline
<1>4. ASSUME NEW p \in Procs, Open(p) PROVE LockInv'
  <2> DEFINE path == target[p]
  <2>1. PICK i \in Inodes :
          /\ IF entry[path] = NoInode THEN ~InUse(i) ELSE i = entry[path]
          /\ entry' = [entry EXCEPT ![path] = i]
          /\ fd' = [fd EXCEPT ![p] = i]
    BY <1>4 DEF Open
  <2>2. NeverDoomed'
    BY <1>4 DEF Open
  <2>3. OneFlockPerInode'
    BY <1>4, <2>1 DEF Open
  <2>4. LinkedUntilRemoved'
    <3> SUFFICES ASSUME NEW q \in Procs,
                        lockpc'[q] \in {"opened", "locked"},
                        target'[q] \notin Aged,
                        ~RemoveOnUnlock \/ ~solved'[target'[q]]
                 PROVE  fd'[q] = entry'[target'[q]]
      OBVIOUS
    <3>1. CASE q = p
      BY <1>4, <2>1, <3>1 DEF Open
    <3>2. CASE q # p
      <4>1. /\ lockpc[q] \in {"opened", "locked"} /\ target' = target
            /\ fd'[q] = fd[q] /\ fd[q] = entry[target[q]] /\ fd[q] \in Inodes
        BY <1>4, <2>1, <3>2, InodeAssumption DEF Open
      <4> QED BY <2>1, <4>1, InodeAssumption
    <3> QED BY <3>1, <3>2
  <2> QED BY <1>1, <2>2, <2>3, <2>4
<1>5. ASSUME NEW p \in Procs, Flock(p) PROVE LockInv'
  <2>1. OneFlockPerInode'
    BY <1>5 DEF Flock, Flocked
  <2>2. NeverDoomed' /\ LinkedUntilRemoved'
    BY <1>5 DEF Flock
  <2> QED BY <1>1, <2>1, <2>2
<1>6. ASSUME NEW p \in Procs, Retry(p) \/ Timeout(p) PROVE LockInv'
  BY <1>1, <1>6, InodeAssumption DEF Retry, Timeout
<1>7. ASSUME NEW p \in Procs, UnlockRemove(p) PROVE LockInv'
  BY <1>1, <1>7 DEF UnlockRemove
<1>8. ASSUME NEW p \in Procs, UnlockClose(p) PROVE LockInv'
  BY <1>1, <1>8, InodeAssumption DEF UnlockClose
<1>9. ASSUME NEW p \in Procs, Close(p) \/ LockDie(p) PROVE LockInv'
  BY <1>1, <1>9, InodeAssumption DEF Close, LockDie
<1>10. ASSUME NEW path \in Paths,
              Age(path) \/ CleanupCheck(path) \/ CleanupUnlink(path)
       PROVE  LockInv'
  <2>1. path \in Aged
    BY <1>10 DEF Age, CleanupCheck, CleanupUnlink
  <2>2. NeverDoomed'
    BY <1>10, <2>1 DEF Age, CleanupCheck, CleanupUnlink
  <2>3. OneFlockPerInode'
    BY <1>10 DEF Age, CleanupCheck, CleanupUnlink
  <2>4. LinkedUntilRemoved'
    <3>1. /\ lockpc' = lockpc /\ target' = target /\ fd' = fd /\ solved' = solved
          /\ \A r \in Paths \ Aged : entry'[r] = entry[r]
      BY <1>10, <2>1 DEF Age, CleanupCheck, CleanupUnlink
    <3> QED BY <3>1
  <2> QED BY <1>1, <2>2, <2>3, <2>4
<1>11. CASE UNCHANGED lockVars
  BY <1>1, <1>11 DEF lockVars
<1> QED
  BY <1>2, <1>3, <1>4, <1>5, <1>6, <1>7, <1>8, <1>9, <1>10, <1>11
  DEF LockNext, TryLock, Unlock, Cleanup

THEOREM LockInvariant == LockSpec => []LockInv
<1>1. LockInit => LockInv
  BY LockTypeInit DEF LockInit, LockInv, NeverDoomed, OneFlockPerInode,
     LinkedUntilRemoved, Flocking
<1>2. LockInv /\ [LockNext]_lockVars => LockInv'
  BY LockInvStep
<1> QED BY <1>1, <1>2, PTL DEF LockSpec

-----------------------------------------------------------------------------
\* The comment in FileLock.unlock: nobody joins a holder before some holder
\* has unlocked, whatever callers time out or die, as long as the cleanup does
\* not take the lock file away.
THEOREM FirstHolderIsAlone == LockSpec => []ExclusiveUntilSolved
<1>1. LockInv => ExclusiveUntilSolved
  BY DEF LockInv, OneFlockPerInode, LinkedUntilRemoved, Flocking,
     ExclusiveUntilSolved, Holders
<1> QED BY <1>1, LockInvariant, PTL

\* A lock file that is kept on unlock gives plain mutual exclusion.
THEOREM KeptLockIsExclusive ==
  ASSUME ~RemoveOnUnlock PROVE LockSpec => []MutualExclusion
<1>1. LockInv => MutualExclusion
  BY DEF LockInv, OneFlockPerInode, LinkedUntilRemoved, Flocking,
     MutualExclusion, Holders
<1> QED BY <1>1, LockInvariant, PTL

-----------------------------------------------------------------------------
(* FileLock implements LockSpec. *)

AbsHolders == [path \in Paths \ Aged |-> Holders(path)]
AbsSolved == [path \in Paths \ Aged |-> solved[path]]

LEMMA RefineStep ==
  ASSUME LockInv, [LockNext]_lockVars
  PROVE  [Abstract!Next]_(Abstract!vars)
<1> USE DEF LockInv, LockTypeOK
<1> DEFINE Stutter == AbsHolders' = AbsHolders /\ AbsSolved' = AbsSolved
<1>1. Stutter => UNCHANGED Abstract!vars
  BY DEF Abstract!vars, AbsHolders, AbsSolved
<1>2. ASSUME NEW p \in Procs, NEW path \in Paths,
             LockCall(p, path) \/ Deadline(p) \/ Open(p) \/ Retry(p)
             \/ Timeout(p) \/ Close(p)
      PROVE  Stutter
  BY <1>2 DEF LockCall, Deadline, Open, Retry, Timeout, Close, Waiting,
              AbsHolders, AbsSolved, Holders
<1>3. ASSUME NEW p \in Procs, Flock(p)
      PROVE  Stutter \/ \E path \in Paths \ Aged : Abstract!Acquire(p, path)
  <2>0. PICK path \in Paths : path = target[p]
    OBVIOUS
  <2>1. lockpc[p] = "opened" /\ ~Flocked(fd[p]) /\ path \in Paths
    BY <2>0, <1>3 DEF Flock
  <2>2. p \notin Holders(path)
    BY <2>0, <2>1 DEF Holders
  <2>3. path \notin Aged /\ (~solved[path] \/ ~RemoveOnUnlock) => Holders(path) = {}
    BY <2>0, <2>1 DEF LinkedUntilRemoved, Flocked, Flocking, Holders
  <2>4. \A r \in Paths :
          Holders(r)' = IF r = path THEN Holders(r) \cup {p} ELSE Holders(r)
    BY <2>0, <1>3, <2>1 DEF Flock, Holders
  <2>5. AbsSolved' = AbsSolved
    BY <2>0, <1>3 DEF Flock, AbsSolved
  <2>6. CASE path \in Aged
    BY <2>0, <2>4, <2>5, <2>6 DEF AbsHolders
  <2>7. CASE path \notin Aged
    <3>1. AbsHolders' = [AbsHolders EXCEPT ![path] = @ \cup {p}]
      BY <2>0, <2>1, <2>4, <2>7 DEF AbsHolders
    <3>2. AbsHolders[path] = Holders(path) /\ AbsSolved[path] = solved[path]
      BY <2>0, <2>1, <2>7 DEF AbsHolders, AbsSolved
    <3> QED BY <2>0, <2>2, <2>3, <2>5, <2>7, <3>1, <3>2, Zenon
            DEF Abstract!Acquire, AbsHolders, AbsSolved
  <2> QED BY <2>6, <2>7
<1>4. ASSUME NEW p \in Procs, Unlock(p)
      PROVE  Stutter \/ \E path \in Paths \ Aged : Abstract!Release(p, path)
  <2>0. PICK path \in Paths : path = target[p]
    OBVIOUS
  <2>1. lockpc[p] = "locked" /\ path \in Paths
    BY <2>0, <1>4 DEF Unlock, UnlockRemove, UnlockClose
  <2>2. p \in Holders(path)
    BY <2>0, <2>1 DEF Holders
  <2>3. \A r \in Paths :
          Holders(r)' = IF r = path THEN Holders(r) \ {p} ELSE Holders(r)
    BY <2>0, <1>4, <2>1 DEF Unlock, UnlockRemove, UnlockClose, Holders
  <2>4. solved' = [solved EXCEPT ![path] = TRUE]
    BY <2>0, <1>4 DEF Unlock, UnlockRemove, UnlockClose
  <2>5. CASE path \in Aged
    BY <2>0, <2>3, <2>4, <2>5 DEF AbsHolders, AbsSolved
  <2>6. CASE path \notin Aged
    <3>1. AbsHolders' = [AbsHolders EXCEPT ![path] = @ \ {p}]
      BY <2>0, <2>1, <2>3, <2>6 DEF AbsHolders
    <3>2. AbsSolved' = [AbsSolved EXCEPT ![path] = TRUE]
      BY <2>0, <2>1, <2>4, <2>6 DEF AbsSolved
    <3>3. AbsHolders[path] = Holders(path)
      BY <2>0, <2>1, <2>6 DEF AbsHolders
    <3> QED BY <2>0, <2>2, <2>6, <3>1, <3>2, <3>3, Zenon
            DEF Abstract!Release, AbsHolders, AbsSolved
  <2> QED BY <2>5, <2>6
<1>5. ASSUME NEW p \in Procs, LockDie(p)
      PROVE  Stutter \/ \E path \in Paths \ Aged : Abstract!Die(p, path)
  <2>0. PICK path \in Paths : path = target[p]
    OBVIOUS
  <2>1. AbsSolved' = AbsSolved /\ path \in Paths
    BY <2>0, <1>5 DEF LockDie, AbsSolved
  <2>2. CASE lockpc[p] # "locked" \/ path \in Aged
    BY <2>0, <1>5, <2>1, <2>2 DEF LockDie, AbsHolders, Holders
  <2>3. CASE lockpc[p] = "locked" /\ path \notin Aged
    <3>1. p \in Holders(path) /\ AbsHolders[path] = Holders(path)
      BY <2>0, <2>1, <2>3 DEF Holders, AbsHolders
    <3>2. \A r \in Paths :
            Holders(r)' = IF r = path THEN Holders(r) \ {p} ELSE Holders(r)
      BY <2>0, <1>5, <2>3 DEF LockDie, Holders
    <3>3. AbsHolders' = [AbsHolders EXCEPT ![path] = @ \ {p}]
      BY <2>0, <2>1, <2>3, <3>2 DEF AbsHolders
    <3> QED BY <2>0, <2>1, <2>3, <3>1, <3>3, Zenon
            DEF Abstract!Die, AbsHolders, AbsSolved
  <2> QED BY <2>2, <2>3
<1>6. ASSUME NEW path \in Paths,
             Age(path) \/ CleanupCheck(path) \/ CleanupUnlink(path)
      PROVE  Stutter
  BY <1>6 DEF Age, CleanupCheck, CleanupUnlink, AbsHolders, AbsSolved, Holders
<1>7. ASSUME UNCHANGED lockVars PROVE Stutter
  BY <1>7 DEF lockVars, AbsHolders, AbsSolved, Holders
<1> HIDE DEF Stutter
<1>8. ASSUME NEW p \in Procs,
              \/ \E path \in Paths : LockCall(p, path)
              \/ Deadline(p) \/ TryLock(p) \/ Unlock(p) \/ Close(p) \/ LockDie(p)
       PROVE  Stutter \/ Abstract!Next
  <2>1. CASE Flock(p)
    <3>1. Stutter \/ \E path \in Paths \ Aged : Abstract!Acquire(p, path)
      BY ONLY <1>3, <2>1, Zenon
    <3> QED BY ONLY <3>1, Zenon DEF Abstract!Next
  <2>2. CASE Unlock(p)
    <3>1. Stutter \/ \E path \in Paths \ Aged : Abstract!Release(p, path)
      BY ONLY <1>4, <2>2, Zenon
    <3> QED BY ONLY <3>1, Zenon DEF Abstract!Next
  <2>3. CASE LockDie(p)
    <3>1. Stutter \/ \E path \in Paths \ Aged : Abstract!Die(p, path)
      BY ONLY <1>5, <2>3, Zenon
    <3> QED BY ONLY <3>1, Zenon DEF Abstract!Next
  <2>4. CASE \/ \E path \in Paths : LockCall(p, path)
             \/ Deadline(p) \/ Open(p) \/ Retry(p) \/ Timeout(p) \/ Close(p)
    BY ONLY <1>2, <1>8, <2>4, Paths # {}
  <2> QED BY ONLY <1>8, <2>1, <2>2, <2>3, <2>4 DEF TryLock
<1>9. Stutter \/ Abstract!Next
  BY ONLY [LockNext]_lockVars, <1>6, <1>7, <1>8 DEF LockNext, Cleanup
<1> QED
  BY ONLY <1>1, <1>9

\* The file-level protocol implements the abstract lock of LockSpec.
THEOREM FileLockImplementsLock ==
  LockSpec => ImplementsLock
<1>1. LockInit => Abstract!Init
  BY DEF LockInit, Abstract!Init, Holders
<1>2. LockInv /\ [LockNext]_lockVars => [Abstract!Next]_(Abstract!vars)
  BY RefineStep
<1> QED
  BY <1>1, <1>2, LockInvariant, PTL DEF LockSpec, ImplementsLock, Abstract!Spec
=============================================================================
