---------------------------- MODULE SqliteCache ----------------------------
(***************************************************************************)
(* One level of a sqlite cache: an MBTiles database file (MBTilesCache and *)
(* MBTilesLevelCache in cache/mbtiles.py), used by threads that keep a     *)
(* connection each, while a cleanup task with remove_all unlinks the file. *)
(* Servers access the cache within TileManager.session, which closes the   *)
(* connection of its thread at the end.                                    *)
(*                                                                         *)
(* Images are known by the time they were stored: 1 + the number of        *)
(* removals so far.                                                        *)
(***************************************************************************)
EXTENDS Naturals

CONSTANTS
  Threads,     \* threads of the servers
  Cleaner,     \* mapproxy-seed with a cleanup task that has remove_all
  Tiles,       \* tiles of the level
  Inodes,      \* inodes of the file system
  NoInode,     \* "no file", "no connection"
  MaxRemovals  \* bound on the removals

VARIABLES
  file,        \* inode the name of the database points to, or NoInode
  tables,      \* tables[i]: the tables of the database are there
  rows,        \* rows[i][t]: image of the tile, 0: no row
  holders,     \* state of the lock file .init.lck, see LockSpec
  solved,
  pc,          \* pc[p]: step
  conn,        \* conn[p]: database the connection of the thread has open
  fd,          \* fd[p]: database the connection of the initialization has open
  op,          \* op[p]: the statement that follows: load, store or unlink
  tile,        \* tile[p]: the tile of the statement
  removed,     \* number of removals so far
  since        \* since[p]: history, removals before the session

Users == Threads \cup {Cleaner}
Lck == "lck"
Lock == INSTANCE LockSpec WITH Procs <- Users, Paths <- {Lck}, Strict <- FALSE

dbVars == <<file, tables, rows>>
lockVars == <<holders, solved>>
callVars == <<op, tile>>
historyVars == <<removed, since>>
vars == <<dbVars, lockVars, pc, conn, fd, callVars, historyVars>>

NoTile == "none"
Inside == {"recheck", "create", "tables", "unlock"}

Init ==
  /\ file = NoInode
  /\ tables = [i \in Inodes |-> FALSE]
  /\ rows = [i \in Inodes |-> [t \in Tiles |-> 0]]
  /\ Lock!Init
  /\ pc = [p \in Users |-> "idle"]
  /\ conn = [p \in Users |-> NoInode]
  /\ fd = [p \in Users |-> NoInode]
  /\ op = [p \in Users |-> "load"]
  /\ tile = [p \in Users |-> NoTile]
  /\ removed = 0
  /\ since = [p \in Users |-> 0]

Goto(p, state) == pc' = [pc EXCEPT ![p] = state]

-----------------------------------------------------------------------------
(* TileManager.session *)

Session(p) ==
  /\ p \in Threads /\ pc[p] = "idle"
  /\ since' = [since EXCEPT ![p] = removed]
  /\ Goto(p, "session")
  /\ UNCHANGED <<dbVars, lockVars, conn, fd, callVars, removed>>

\* The body is done: cleanup closes the connection of this thread.
Cleanup(p) ==
  /\ pc[p] = "session"
  /\ conn' = [conn EXCEPT ![p] = NoInode]
  /\ Goto(p, "idle")
  /\ UNCHANGED <<dbVars, lockVars, fd, callVars, historyVars>>

\* The body raises, a SourceError or a LockTimeout for instance: the
\* generator is left at its yield and cleanup is not called.
Raise(p) ==
  /\ pc[p] = "session"
  /\ Goto(p, "idle")
  /\ UNCHANGED <<dbVars, lockVars, conn, fd, callVars, historyVars>>

\* Within the session tiles are loaded and stored.  The db property: a thread
\* without a connection calls ensure_mbtile and connects.
Statement(p, o, t) ==
  /\ pc[p] = "session"
  /\ op' = [op EXCEPT ![p] = o]
  /\ tile' = [tile EXCEPT ![p] = t]
  /\ Goto(p, IF conn[p] = NoInode THEN "exists" ELSE "execute")
  /\ UNCHANGED <<dbVars, lockVars, conn, fd, historyVars>>

-----------------------------------------------------------------------------
(* ensure_mbtile and connect *)

\* An inode that neither the name nor a connection refers to.
Unused(i) == i # file /\ \A p \in Users : conn[p] # i /\ fd[p] # i

\* sqlite3.connect opens the file; an empty one is created if there is none.
Connect(i) ==
  IF file # NoInode
    THEN i = file /\ UNCHANGED dbVars
    ELSE /\ Unused(i)
         /\ file' = i
         /\ tables' = [tables EXCEPT ![i] = FALSE]
         /\ rows' = [rows EXCEPT ![i] = [t \in Tiles |-> 0]]

Ensured(p) == IF op[p] = "unlink" THEN "unlink" ELSE "connect"

Exists(p) ==
  /\ pc[p] = "exists"
  /\ Goto(p, IF file = NoInode THEN "lock" ELSE Ensured(p))
  /\ UNCHANGED <<dbVars, lockVars, conn, fd, callVars, historyVars>>

Acquire(p) ==
  /\ pc[p] = "lock"
  /\ Lock!Acquire(p, Lck)
  /\ Goto(p, "recheck")
  /\ UNCHANGED <<dbVars, conn, fd, callVars, historyVars>>

Recheck(p) ==
  /\ pc[p] = "recheck"
  /\ Goto(p, IF file = NoInode THEN "create" ELSE "unlock")
  /\ UNCHANGED <<dbVars, lockVars, conn, fd, callVars, historyVars>>

\* _initialize_mbtile: the file appears ...
Create(p) ==
  /\ pc[p] = "create"
  /\ \E i \in Inodes : Connect(i) /\ fd' = [fd EXCEPT ![p] = i]
  /\ Goto(p, "tables")
  /\ UNCHANGED <<lockVars, conn, callVars, historyVars>>

\* ... before it has its tables (three CREATE statements, taken as one).
CreateTables(p) ==
  /\ pc[p] = "tables" /\ ~tables[fd[p]]
  /\ tables' = [tables EXCEPT ![fd[p]] = TRUE]
  /\ fd' = [fd EXCEPT ![p] = NoInode]
  /\ Goto(p, "unlock")
  /\ UNCHANGED <<file, rows, lockVars, conn, callVars, historyVars>>

Unlock(p) ==
  /\ pc[p] = "unlock"
  /\ Lock!Release(p, Lck)
  /\ Goto(p, Ensured(p))
  /\ UNCHANGED <<dbVars, conn, fd, callVars, historyVars>>

\* The tables exist already: the error leaves the lock and the session.
TablesExist(p) ==
  /\ pc[p] = "tables" /\ tables[fd[p]]
  /\ Lock!Release(p, Lck)
  /\ fd' = [fd EXCEPT ![p] = NoInode]
  /\ Goto(p, "idle")
  /\ UNCHANGED <<dbVars, conn, callVars, historyVars>>

\* The connection of the thread: without the lock, the file may be gone again.
Open(p) ==
  /\ pc[p] = "connect"
  /\ \E i \in Inodes : Connect(i) /\ conn' = [conn EXCEPT ![p] = i]
  /\ Goto(p, "execute")
  /\ UNCHANGED <<lockVars, fd, callVars, historyVars>>

-----------------------------------------------------------------------------
(* load_tile, store_tile; without tables both fail with a warning *)

\* What the SELECT finds.
Found(p) == IF tables[conn[p]] THEN rows[conn[p]][tile[p]] ELSE 0

Load(p) ==
  /\ pc[p] = "execute" /\ op[p] = "load"
  /\ Goto(p, "session")
  /\ UNCHANGED <<dbVars, lockVars, conn, fd, callVars, historyVars>>

\* INSERT OR REPLACE and commit, or an error of the database.
Store(p) ==
  /\ pc[p] = "execute" /\ op[p] = "store"
  /\ \/ tables[conn[p]] /\ rows' = [rows EXCEPT ![conn[p]][tile[p]] = removed + 1]
     \/ UNCHANGED rows
  /\ Goto(p, "session")
  /\ UNCHANGED <<file, tables, lockVars, conn, fd, callVars, historyVars>>

-----------------------------------------------------------------------------
(* The cleanup task: remove_level_tiles_before(remove_all=True) *)

\* _get_level creates the MBTilesCache, which calls ensure_mbtile.
RemoveLevel(p) ==
  /\ p = Cleaner /\ pc[p] = "idle" /\ removed < MaxRemovals
  /\ op' = [op EXCEPT ![p] = "unlink"]
  /\ Goto(p, "exists")
  /\ UNCHANGED <<dbVars, lockVars, conn, fd, tile, historyVars>>

\* Its own connection is closed, then the file is unlinked; other processes
\* keep what they have open.
Unlink(p) ==
  /\ pc[p] = "unlink"
  /\ file' = NoInode
  /\ removed' = removed + 1
  /\ Goto(p, "idle")
  /\ UNCHANGED <<tables, rows, lockVars, conn, fd, callVars, since>>

\* A process is killed and started again.
Die(p) ==
  /\ pc[p] # "idle"
  /\ conn' = [conn EXCEPT ![p] = NoInode]
  /\ fd' = [fd EXCEPT ![p] = NoInode]
  /\ IF pc[p] \in Inside THEN Lock!Die(p, Lck) ELSE UNCHANGED lockVars
  /\ Goto(p, "idle")
  /\ UNCHANGED <<dbVars, callVars, historyVars>>

-----------------------------------------------------------------------------
EnsureMbtile(p) == \/ Exists(p) \/ Acquire(p) \/ Recheck(p) \/ Create(p)
                   \/ CreateTables(p) \/ TablesExist(p) \/ Unlock(p)
Use(p) == Session(p) \/ Cleanup(p) \/ Raise(p) \/ Open(p) \/ Load(p) \/ Store(p)

Next == \E p \in Users :
  \/ Use(p) \/ EnsureMbtile(p) \/ RemoveLevel(p) \/ Unlink(p) \/ Die(p)
  \/ \E o \in {"load", "store"}, t \in Tiles : Statement(p, o, t)

Spec == Init /\ [][Next]_vars

-----------------------------------------------------------------------------
\* seed.rst, remove_all: "remove all tiles regardless of the time they were
\* created".  TileManager.session: "Cleans up after usage for connection based
\* caches", so that a session that starts after the removal opens the file
\* anew and finds no tile of before.
RemovedTilesAreGone ==
  \A p \in Threads : pc[p] = "execute" /\ op[p] = "load" =>
    Found(p) = 0 \/ Found(p) > since[p]
=============================================================================
