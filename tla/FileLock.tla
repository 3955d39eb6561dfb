------------------------------ MODULE FileLock ------------------------------
(***************************************************************************)
(* The lock files of mapproxy/util/lock.py (FileLock, cleanup_lockdir) on  *)
(* top of util/ext/lockfile.py (LockFile).  A lock is an flock() on the    *)
(* inode that open(path, 'w+') returned, so the model keeps directory      *)
(* entries, inodes and open files apart: a path may be unlinked, and       *)
(* created again, while an older inode is still open and locked.           *)
(*                                                                         *)
(* A process is one caller of FileLock.lock() .. FileLock.unlock(): a      *)
(* thread or a process, each with a lock object of its own.                *)
(***************************************************************************)
CONSTANTS
  Procs,          \* callers
  Paths,          \* lock file names
  Inodes,         \* inodes of the lock directory's file system
  NoInode,        \* "no file"
  RemoveOnUnlock, \* remove_on_unlock (TRUE for tile locks, except on Windows)
  Aged,           \* lock files that can get older than max_lock_time, so that
                  \* a call of cleanup_lockdir(force=False) unlinks them
  LongHeld        \* TRUE: a lock may be used for longer than max_lock_time

ASSUME InodeAssumption == NoInode \notin Inodes
ASSUME SwitchAssumption ==
  /\ RemoveOnUnlock \in BOOLEAN
  /\ Aged \subseteq Paths
  /\ LongHeld \in BOOLEAN

VARIABLES
  entry,     \* entry[path]: inode the directory entry points to, or NoInode
  lockpc,    \* lockpc[p]: where p is in lock()/unlock()
  target,    \* target[p]: the path p locks
  fd,        \* fd[p]: inode p has open, or NoInode
  late,      \* late[p]: stop_time of p's lock() has passed
  old,       \* old[path]: the file's mtime is older than max_lock_time
  doomed,    \* doomed[path]: a cleaner saw the old mtime and will unlink
  solved     \* solved[path]: history, some holder has called unlock()

lockVars == <<entry, lockpc, target, fd, late, old, doomed, solved>>

\* "opening": about to open(path, 'w+'); "opened": about to flock();
\* "locked": lock() returned; "unlinked": unlock() removed the path, but the
\* lock object, and with it the file, is not closed yet.
LockStates == {"idle", "opening", "opened", "locked", "unlinked"}

LockInit ==
  /\ entry = [path \in Paths |-> NoInode]
  /\ lockpc = [p \in Procs |-> "idle"]
  /\ target \in [Procs -> Paths]
  /\ fd = [p \in Procs |-> NoInode]
  /\ late = [p \in Procs |-> FALSE]
  /\ old = [path \in Paths |-> FALSE]
  /\ doomed = [path \in Paths |-> FALSE]
  /\ solved = [path \in Paths |-> FALSE]

Flocking(p) == lockpc[p] \in {"locked", "unlinked"}
Flocked(i) == \E q \in Procs : Flocking(q) /\ fd[q] = i
Waiting(p) == lockpc[p] \in {"opening", "opened"}
Holders(path) == {p \in Procs : lockpc[p] = "locked" /\ target[p] = path}
InUse(i) == (\E path \in Paths : entry[path] = i) \/ (\E q \in Procs : fd[q] = i)

-----------------------------------------------------------------------------
(* FileLock.lock *)

\* lock() is called: stop_time is taken, the loop starts.
LockCall(p, path) ==
  /\ lockpc[p] = "idle"
  /\ lockpc' = [lockpc EXCEPT ![p] = "opening"]
  /\ target' = [target EXCEPT ![p] = path]
  /\ late' = [late EXCEPT ![p] = FALSE]
  /\ UNCHANGED <<entry, fd, old, doomed, solved>>

\* time.time() reaches stop_time while p is in the loop.
Deadline(p) ==
  /\ Waiting(p) /\ ~late[p]
  /\ late' = [late EXCEPT ![p] = TRUE]
  /\ UNCHANGED <<entry, lockpc, target, fd, old, doomed, solved>>

\* open(path, 'w+'): creates the file or truncates it, either sets the mtime.
Open(p) ==
  LET path == target[p] IN
  /\ lockpc[p] = "opening"
  /\ \E i \in Inodes :
       /\ IF entry[path] = NoInode THEN ~InUse(i) ELSE i = entry[path]
       /\ entry' = [entry EXCEPT ![path] = i]
       /\ fd' = [fd EXCEPT ![p] = i]
  /\ lockpc' = [lockpc EXCEPT ![p] = "opened"]
  /\ old' = [old EXCEPT ![path] = FALSE]
  /\ UNCHANGED <<target, late, doomed, solved>>

\* Mutant: flock(LOCK_SH), which another holder does not refuse.
FlockShared(p) ==
  /\ lockpc[p] = "opened"
  /\ lockpc' = [lockpc EXCEPT ![p] = "locked"]
  /\ UNCHANGED <<entry, target, fd, late, old, doomed, solved>>

\* flock(LOCK_EX | LOCK_NB) succeeds; lock() returns.
Flock(p) ==
  /\ lockpc[p] = "opened" /\ ~Flocked(fd[p])
  /\ lockpc' = [lockpc EXCEPT ![p] = "locked"]
  /\ old' = [old EXCEPT ![target[p]] = IF entry[target[p]] = fd[p] THEN FALSE ELSE @]
  /\ UNCHANGED <<entry, target, fd, late, doomed, solved>>

\* Mutant: the retry does not look at stop_time.
RetryForever(p) ==
  /\ lockpc[p] = "opened" /\ Flocked(fd[p])
  /\ lockpc' = [lockpc EXCEPT ![p] = "opening"]
  /\ fd' = [fd EXCEPT ![p] = NoInode]
  /\ UNCHANGED <<entry, target, late, old, doomed, solved>>

\* flock() fails, the file is closed; there is time left: sleep and retry.
Retry(p) ==
  /\ lockpc[p] = "opened" /\ Flocked(fd[p]) /\ ~late[p]
  /\ lockpc' = [lockpc EXCEPT ![p] = "opening"]
  /\ fd' = [fd EXCEPT ![p] = NoInode]
  /\ UNCHANGED <<entry, target, late, old, doomed, solved>>

\* Mutant: a caller that gives up removes the lock file, as unlock() does.
TimeoutRemoves(p) ==
  /\ lockpc[p] = "opened" /\ Flocked(fd[p]) /\ late[p]
  /\ lockpc' = [lockpc EXCEPT ![p] = "idle"]
  /\ fd' = [fd EXCEPT ![p] = NoInode]
  /\ entry' = [entry EXCEPT ![target[p]] = NoInode]
  /\ UNCHANGED <<target, late, old, doomed, solved>>

\* Mutant: lock() raises without closing the file.
TimeoutKeepsFile(p) ==
  /\ lockpc[p] = "opened" /\ Flocked(fd[p]) /\ late[p]
  /\ lockpc' = [lockpc EXCEPT ![p] = "idle"]
  /\ UNCHANGED <<entry, target, fd, late, old, doomed, solved>>

\* flock() fails after stop_time: lock() raises LockTimeout.
Timeout(p) ==
  /\ lockpc[p] = "opened" /\ Flocked(fd[p]) /\ late[p]
  /\ lockpc' = [lockpc EXCEPT ![p] = "idle"]
  /\ fd' = [fd EXCEPT ![p] = NoInode]
  /\ UNCHANGED <<entry, target, late, old, doomed, solved>>

-----------------------------------------------------------------------------
(* FileLock.unlock *)

\* os.remove(path) succeeds: whatever file has that name now is unlinked.
UnlockRemove(p) ==
  LET path == target[p] IN
  /\ lockpc[p] = "locked" /\ RemoveOnUnlock /\ entry[path] # NoInode
  /\ entry' = [entry EXCEPT ![path] = NoInode]
  /\ lockpc' = [lockpc EXCEPT ![p] = "unlinked"]
  /\ old' = [old EXCEPT ![path] = FALSE]
  /\ solved' = [solved EXCEPT ![path] = TRUE]
  /\ UNCHANGED <<target, fd, late, doomed>>

\* No removal wanted, or os.remove raised OSError (ENOENT): close the file.
UnlockClose(p) ==
  /\ lockpc[p] = "locked" /\ (RemoveOnUnlock => entry[target[p]] = NoInode)
  /\ lockpc' = [lockpc EXCEPT ![p] = "idle"]
  /\ fd' = [fd EXCEPT ![p] = NoInode]
  /\ solved' = [solved EXCEPT ![target[p]] = TRUE]
  /\ UNCHANGED <<entry, target, late, old, doomed>>

Unlock(p) == UnlockRemove(p) \/ UnlockClose(p)

\* The lock object dies and closes its file, which drops the flock.
Close(p) ==
  /\ lockpc[p] = "unlinked"
  /\ lockpc' = [lockpc EXCEPT ![p] = "idle"]
  /\ fd' = [fd EXCEPT ![p] = NoInode]
  /\ UNCHANGED <<entry, target, late, old, doomed, solved>>

\* The process dies: its file is closed, the directory entry stays.
LockDie(p) ==
  /\ lockpc[p] # "idle"
  /\ lockpc' = [lockpc EXCEPT ![p] = "idle"]
  /\ fd' = [fd EXCEPT ![p] = NoInode]
  /\ UNCHANGED <<entry, target, late, old, doomed, solved>>

-----------------------------------------------------------------------------
(* cleanup_lockdir, run by any process that asks TileLocker for a lock.  It  *)
(* looks at each file of the directory, and unlinks the old ones.            *)

\* Nothing touched the file for max_lock_time.  Unless LongHeld, that only
\* happens to a file no process has open: one left behind by a crash.
Age(path) ==
  /\ path \in Aged
  /\ entry[path] # NoInode /\ ~old[path]
  /\ LongHeld \/ \A p \in Procs : fd[p] # entry[path]
  /\ old' = [old EXCEPT ![path] = TRUE]
  /\ UNCHANGED <<entry, lockpc, target, fd, late, doomed, solved>>

\* os.path.getmtime(name) < expire_time
CleanupCheck(path) ==
  /\ entry[path] # NoInode /\ old[path] /\ ~doomed[path]
  /\ doomed' = [doomed EXCEPT ![path] = TRUE]
  /\ UNCHANGED <<entry, lockpc, target, fd, late, old, solved>>

\* os.unlink(name), or the ENOENT that is ignored.
CleanupUnlink(path) ==
  /\ doomed[path]
  /\ doomed' = [doomed EXCEPT ![path] = FALSE]
  /\ entry' = [entry EXCEPT ![path] = NoInode]
  /\ old' = [old EXCEPT ![path] = FALSE]
  /\ UNCHANGED <<lockpc, target, fd, late, solved>>

Cleanup == \E path \in Paths : Age(path) \/ CleanupCheck(path) \/ CleanupUnlink(path)

-----------------------------------------------------------------------------
\* One pass of the retry loop of lock().
TryLock(p) == Open(p) \/ Flock(p) \/ Retry(p) \/ Timeout(p)

LockNext ==
  \/ \E p \in Procs :
       \/ \E path \in Paths : LockCall(p, path)
       \/ Deadline(p)
       \/ TryLock(p)
       \/ Unlock(p)
       \/ Close(p)
       \/ LockDie(p)
  \/ Cleanup

LockSpec == LockInit /\ [][LockNext]_lockVars

\* A caller inside lock() keeps running and its clock keeps advancing.  A
\* holder need not ever unlock.
LockFairness ==
  \A p \in Procs : WF_lockVars(Deadline(p)) /\ WF_lockVars(TryLock(p))

FairLockSpec == LockSpec /\ LockFairness

-----------------------------------------------------------------------------
(* Properties *)

\* Types of the lock state; an open file is kept exactly while it is needed.
LockTypeOK ==
  /\ entry \in [Paths -> Inodes \cup {NoInode}]
  /\ lockpc \in [Procs -> LockStates]
  /\ target \in [Procs -> Paths]
  /\ fd \in [Procs -> Inodes \cup {NoInode}]
  /\ late \in [Procs -> BOOLEAN]
  /\ old \in [Paths -> BOOLEAN]
  /\ doomed \in [Paths -> BOOLEAN]
  /\ solved \in [Paths -> BOOLEAN]
  /\ \A p \in Procs : fd[p] = NoInode <=> lockpc[p] \in {"idle", "opening"}

\* A lock file that is kept on unlock never has two holders (the locks of
\* Windows tile caches and, per slot, of SemLock).
MutualExclusion ==
  \A path \in Paths \ Aged : \A p, q \in Holders(path) : p = q

\* The contract of the comment in FileLock.unlock: a second process grabs the
\* lock while another is inside only after some holder has unlocked.
ExclusiveUntilSolved ==
  \A path \in Paths \ Aged : ~solved[path] => \A p, q \in Holders(path) : p = q

\* lock() never blocks for ever: it returns or raises LockTimeout, even when
\* the holder never unlocks, other callers keep coming and files are cleaned up.
LockReturns == \A p \in Procs : Waiting(p) ~> ~Waiting(p)

\* FileLock implements the abstract lock, for every file that is not cleaned
\* up, whatever happens to the others in the same directory.
Abstract == INSTANCE LockSpec WITH
              Paths <- Paths \ Aged,
              holders <- [path \in Paths \ Aged |-> Holders(path)],
              solved <- [path \in Paths \ Aged |-> solved[path]],
              Strict <- ~RemoveOnUnlock
ImplementsLock == Abstract!Spec
=============================================================================
