--------------------------- MODULE CompactBundle ---------------------------
(***************************************************************************)
(* One bundle file of the compact cache, version 2 (BundleV2 in            *)
(* cache/compact.py): an index with the position of each tile, followed by *)
(* the images.  Writers append an image and then point the index at it,    *)
(* under a lock file that is removed on unlock; readers take no lock.      *)
(*                                                                         *)
(* A file is an inode with an index and a sequence of records.  A position *)
(* is the number of a record: the byte offsets, the size that the index    *)
(* keeps beside the offset and the header fields, which no reader of this  *)
(* code looks at, are left out.                                            *)
(***************************************************************************)
EXTENDS Naturals, Sequences

CONSTANTS
  Procs,       \* threads and processes that use the cache
  Tiles,       \* tiles of the bundle
  Inodes,      \* inodes of the file system
  NoInode,     \* "no file"
  MaxStores    \* bound on the number of store_tiles calls

ASSUME BundleAssumption == NoInode \notin Inodes /\ MaxStores \in Nat \ {0}

VARIABLES
  bundle,      \* inode the name of the bundle points to, or NoInode
  data,        \* data[i]: records of the file
  index,       \* index[i][t]: position of the tile's record, 0: not cached
  holders,     \* lock state, see LockSpec
  solved,
  pc,          \* pc[p]: step of the call
  image,       \* image[p]: what the call stores, NoImage for remove_tile
  todo,        \* todo[p]: tiles the call still has to write
  tile,        \* tile[p]: the tile of the current loop pass or of the load
  fd,          \* fd[p]: inode p has open
  pos,         \* pos[p]: position of the current record
  serial,      \* number of images so far
  last,        \* last[t]: history, image the index was last pointed at
  seen,        \* seen[p]: history, images the tile of a load had meanwhile
  recreated,   \* history: a new bundle replaced one that existed
  shared       \* history: two processes were inside the lock

fileVars == <<bundle, data, index>>
lockVars == <<holders, solved, shared>>
callVars == <<pc, image, todo, tile, fd, pos, serial>>
vars == <<fileVars, lockVars, callVars, last, seen, recreated>>

Lck == "lck"
Lock == INSTANCE LockSpec WITH Paths <- {Lck}, Strict <- FALSE

NoImage == 0
Record == [tile : Tiles, image : 1 .. MaxStores]
Torn == [tile |-> "torn", image |-> NoImage]     \* a record half written
NoTile == "none"

Locked == {"locked", "append", "write", "written", "index", "unlock"}
Loading == {"open", "lookup", "read"}
States == {"idle"} \cup Locked \cup Loading \cup {"init", "create", "lock"}

\* What a reader finds for the tile now.
ImageIn(i, t) ==
  IF i = NoInode \/ index[i][t] = 0 THEN NoImage ELSE data[i][index[i][t]].image
Content == [t \in Tiles |-> ImageIn(bundle, t)]

Init ==
  /\ bundle = NoInode
  /\ data = [i \in Inodes |-> <<>>]
  /\ index = [i \in Inodes |-> [t \in Tiles |-> 0]]
  /\ Lock!Init
  /\ pc = [p \in Procs |-> "idle"]
  /\ image = [p \in Procs |-> NoImage]
  /\ todo = [p \in Procs |-> {}]
  /\ tile = [p \in Procs |-> NoTile]
  /\ fd = [p \in Procs |-> NoInode]
  /\ pos = [p \in Procs |-> 0]
  /\ serial = 0
  /\ last = [t \in Tiles |-> NoImage]
  /\ seen = [p \in Procs |-> {}]
  /\ recreated = FALSE /\ shared = FALSE

Goto(p, state) == pc' = [pc EXCEPT ![p] = state]

\* The call ends, and its variables and its open file with it.
End(p) ==
  /\ Goto(p, "idle")
  /\ image' = [image EXCEPT ![p] = NoImage]
  /\ todo' = [todo EXCEPT ![p] = {}]
  /\ tile' = [tile EXCEPT ![p] = NoTile]
  /\ fd' = [fd EXCEPT ![p] = NoInode]
  /\ pos' = [pos EXCEPT ![p] = 0]

-----------------------------------------------------------------------------
(* Writers: store_tiles and remove_tile *)

StoreTiles(p, tiles) ==
  /\ pc[p] = "idle" /\ serial < MaxStores
  /\ serial' = serial + 1
  /\ image' = [image EXCEPT ![p] = serial + 1]
  /\ todo' = [todo EXCEPT ![p] = tiles]
  /\ Goto(p, "init")
  /\ UNCHANGED <<fileVars, lockVars, tile, fd, pos, last, recreated>>

RemoveTile(p, t) ==
  /\ pc[p] = "idle"
  /\ image' = [image EXCEPT ![p] = NoImage]
  /\ todo' = [todo EXCEPT ![p] = {t}]
  /\ Goto(p, "init")
  /\ UNCHANGED <<fileVars, lockVars, tile, fd, pos, serial, last, recreated>>

\* _init_index, called without the lock: does the file exist?
InitIndex(p) ==
  /\ pc[p] = "init"
  /\ Goto(p, IF bundle = NoInode THEN "create" ELSE "lock")
  /\ UNCHANGED <<fileVars, lockVars, image, todo, tile, fd, pos, serial, last, recreated>>

\* An inode that neither the name nor an open file refers to.
Unused(i) == i # bundle /\ \A p \in Procs : fd[p] # i

\* write_atomic: an empty bundle under a temporary name, renamed.
Create(p) ==
  /\ pc[p] = "create"
  /\ \E i \in Inodes :
       /\ Unused(i)
       /\ bundle' = i
       /\ data' = [data EXCEPT ![i] = <<>>]
       /\ index' = [index EXCEPT ![i] = [t \in Tiles |-> 0]]
  /\ recreated' = (recreated \/ bundle # NoInode)
  /\ Goto(p, "lock")
  /\ UNCHANGED <<lockVars, image, todo, tile, fd, pos, serial, last>>

Acquire(p) ==
  /\ pc[p] = "lock"
  /\ Lock!Acquire(p, Lck)
  /\ shared' = (shared \/ holders[Lck] # {})
  /\ Goto(p, "locked")
  /\ UNCHANGED <<fileVars, image, todo, tile, fd, pos, serial, last, recreated>>

\* Mutant: the timeout is swallowed and the call goes on without the lock.
EnterAnyway(p) ==
  /\ pc[p] = "lock" /\ holders[Lck] # {}
  /\ Goto(p, "locked")
  /\ UNCHANGED <<fileVars, lockVars, image, todo, tile, fd, pos, serial, last, recreated>>

\* The lock is busy for 60 seconds: LockTimeout ends the call.
LockTimeout(p) ==
  /\ pc[p] = "lock" /\ holders[Lck] # {}
  /\ End(p)
  /\ UNCHANGED <<fileVars, lockVars, serial, last, recreated>>

\* _readwrite: its _init_index finds the file, which nothing here unlinks.
OpenReadWrite(p) ==
  /\ pc[p] = "locked"
  /\ fd' = [fd EXCEPT ![p] = bundle]
  /\ \E t \in todo[p] : tile' = [tile EXCEPT ![p] = t]
  /\ Goto(p, IF image[p] = NoImage THEN "index" ELSE "append")
  /\ pos' = [pos EXCEPT ![p] = 0]
  /\ UNCHANGED <<fileVars, lockVars, image, todo, serial, last, recreated>>

\* Mutant: the end of the file is looked up once for all tiles of the call.
SeekEndOnce(p) ==
  /\ pc[p] = "append"
  /\ pos' = [pos EXCEPT ![p] = IF @ = 0 THEN Len(data[fd[p]]) + 1 ELSE @]
  /\ Goto(p, "write")
  /\ UNCHANGED <<fileVars, lockVars, image, todo, tile, fd, serial, last, recreated>>

\* Mutant: the space of a record that no tile uses any more is used again.
ReuseSpace(p) ==
  /\ pc[p] = "append"
  /\ \E k \in 1 .. Len(data[fd[p]]) + 1 :
       /\ \A t \in Tiles : index[fd[p]][t] # k
       /\ pos' = [pos EXCEPT ![p] = k]
  /\ Goto(p, "write")
  /\ UNCHANGED <<fileVars, lockVars, image, todo, tile, fd, serial, last, recreated>>

\* _append_tile: fh.seek(0, SEEK_END).  The file is not opened with O_APPEND:
\* the write goes to this position, whatever is there by then.
SeekEnd(p) ==
  /\ pc[p] = "append"
  /\ pos' = [pos EXCEPT ![p] = Len(data[fd[p]]) + 1]
  /\ Goto(p, "write")
  /\ UNCHANGED <<fileVars, lockVars, image, todo, tile, fd, serial, last, recreated>>

\* Put a record at its position, at the end of the file or over another one.
PutRecord(p, record) ==
  data' = [data EXCEPT ![fd[p]] =
             IF pos[p] \in DOMAIN @ THEN [@ EXCEPT ![pos[p]] = record] ELSE Append(@, record)]

\* fh.write: the first bytes reach the file ...
WriteBegin(p) ==
  /\ pc[p] = "write"
  /\ PutRecord(p, Torn)
  /\ Goto(p, "written")
  /\ UNCHANGED <<bundle, index, lockVars, image, todo, tile, fd, pos, serial, last, recreated>>

\* Mutant: the write is buffered past the update of the index.
IndexEarly(p) ==
  /\ pc[p] = "written"
  /\ index' = [index EXCEPT ![fd[p]][tile[p]] = pos[p]]
  /\ last' = [last EXCEPT ![tile[p]] = image[p]]
  /\ Goto(p, "index")
  /\ UNCHANGED <<bundle, data, lockVars, image, todo, tile, fd, pos, serial, recreated>>

\* ... and the rest, at the latest with the flush of the seek that follows.
WriteEnd(p) ==
  /\ pc[p] = "written"
  /\ PutRecord(p, [tile |-> tile[p], image |-> image[p]])
  /\ Goto(p, "index")
  /\ UNCHANGED <<bundle, index, lockVars, image, todo, tile, fd, pos, serial, last, recreated>>

\* _update_tile_offset, and on to the next tile.
UpdateIndex(p) ==
  /\ pc[p] = "index"
  /\ index' = [index EXCEPT ![fd[p]][tile[p]] = pos[p]]
  /\ last' = [last EXCEPT ![tile[p]] = image[p]]
  /\ todo' = [todo EXCEPT ![p] = @ \ {tile[p]}]
  /\ IF todo[p] = {tile[p]}
       THEN Goto(p, "unlock") /\ UNCHANGED tile
       ELSE Goto(p, "append") /\ \E t \in todo'[p] : tile' = [tile EXCEPT ![p] = t]
  /\ UNCHANGED <<bundle, data, lockVars, image, fd, pos, serial, recreated>>

\* The file is closed, the lock released.
Unlock(p) ==
  /\ pc[p] = "unlock"
  /\ Lock!Release(p, Lck)
  /\ End(p)
  /\ UNCHANGED <<fileVars, shared, serial, last, recreated>>

-----------------------------------------------------------------------------
(* Readers: load_tile; is_cached ends with the lookup *)

LoadTile(p, t) ==
  /\ pc[p] = "idle"
  /\ tile' = [tile EXCEPT ![p] = t]
  /\ Goto(p, "open")
  /\ UNCHANGED <<fileVars, lockVars, image, todo, fd, pos, serial, last, recreated>>

\* _readonly: without a file the tile is missing.
OpenReadOnly(p) ==
  /\ pc[p] = "open"
  /\ IF bundle = NoInode
       THEN End(p)
       ELSE /\ fd' = [fd EXCEPT ![p] = bundle]
            /\ Goto(p, "lookup")
            /\ UNCHANGED <<image, todo, tile, pos>>
  /\ UNCHANGED <<fileVars, lockVars, serial, last, recreated>>

\* _tile_offset_size; a size of 0 is a missing tile.
Lookup(p) ==
  /\ pc[p] = "lookup"
  /\ IF index[fd[p]][tile[p]] = 0
       THEN End(p)
       ELSE /\ pos' = [pos EXCEPT ![p] = index[fd[p]][tile[p]]]
            /\ Goto(p, "read")
            /\ UNCHANGED <<image, todo, tile, fd>>
  /\ UNCHANGED <<fileVars, lockVars, serial, last, recreated>>

\* _load_tile reads the image at that position.
Found(p) == data[fd[p]][pos[p]]

Read(p) ==
  /\ pc[p] = "read"
  /\ End(p)
  /\ UNCHANGED <<fileVars, lockVars, serial, last, recreated>>

\* The process is killed anywhere; its files are closed, the lock file stays.
Die(p) ==
  /\ pc[p] # "idle"
  /\ End(p)
  /\ IF pc[p] \in Locked THEN Lock!Die(p, Lck) ELSE UNCHANGED <<holders, solved>>
  /\ UNCHANGED <<fileVars, shared, serial, last, recreated>>

-----------------------------------------------------------------------------
\* The images each load in progress could return.
Watch ==
  seen' = [p \in Procs |->
             IF pc'[p] \in Loading THEN seen[p] \cup {Content'[tile'[p]]} ELSE {}]

Write(p) == SeekEnd(p) \/ WriteBegin(p) \/ WriteEnd(p) \/ UpdateIndex(p)
Step(p) ==
  \/ InitIndex(p) \/ Create(p) \/ Acquire(p) \/ LockTimeout(p) \/ OpenReadWrite(p)
  \/ Write(p) \/ Unlock(p) \/ OpenReadOnly(p) \/ Lookup(p) \/ Read(p)

Call(p) ==
  \/ \E tiles \in (SUBSET Tiles) \ {{}} : StoreTiles(p, tiles)
  \/ \E t \in Tiles : RemoveTile(p, t) \/ LoadTile(p, t)

Next == (\E p \in Procs : Call(p) \/ Step(p) \/ Die(p)) /\ Watch

Spec == Init /\ [][Next]_vars

-----------------------------------------------------------------------------
(* Properties *)

\* Types, and the processes inside the lock.
TypeOK ==
  /\ bundle \in Inodes \cup {NoInode}
  /\ data \in [Inodes -> Seq(Record \cup {Torn})]
  /\ index \in [Inodes -> [Tiles -> Nat]]
  /\ \A i \in Inodes, t \in Tiles : index[i][t] = 0 \/ index[i][t] \in DOMAIN data[i]
  /\ holders[Lck] = {p \in Procs : pc[p] \in Locked}
  /\ pc \in [Procs -> States] /\ image \in [Procs -> 0 .. MaxStores]
  /\ todo \in [Procs -> SUBSET Tiles] /\ tile \in [Procs -> Tiles \cup {NoTile}]
  /\ fd \in [Procs -> Inodes \cup {NoInode}] /\ pos \in [Procs -> Nat]
  /\ serial \in 0 .. MaxStores /\ last \in [Tiles -> 0 .. MaxStores]
  /\ seen \in [Procs -> SUBSET (0 .. MaxStores)]
  /\ recreated \in BOOLEAN /\ shared \in BOOLEAN

\* caches.rst: the format is "append-only to allow parallel read and write
\* operations".  A load never returns half an image or that of another tile.
ReadersGetWholeTiles ==
  \A p \in Procs : pc[p] = "read" => Found(p) # Torn /\ Found(p).tile = tile[p]

\* As long as the lock kept the writers apart, readers need none, even when
\* writers die half way.
WholeTilesUnlessShared == shared \/ ReadersGetWholeTiles

\* A load returns what the cache had at some moment during the call.
ReadsAreCurrent ==
  \A p \in Procs : pc[p] = "read" => shared \/ recreated \/ Found(p).image \in seen[p]

\* A tile stays as the last writer left it, whatever happens to the others:
\* nothing is lost, replaced or brought back.  The exceptions are a bundle
\* that a late _init_index replaced, and a lock that two processes had.
StoresLast == shared \/ recreated \/ Content = last
=============================================================================
