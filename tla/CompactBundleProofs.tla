------------------------ MODULE CompactBundleProofs ------------------------
(***************************************************************************)
(* Proofs about CompactBundle for any number of processes, tiles, inodes   *)
(* and stores.                                                             *)
(*                                                                         *)
(* The invariant has three layers.  BundleInv holds always: types, what a  *)
(* call still has to do, and that positions lie inside of the file.        *)
(* ApartInv holds as long as the lock kept the writers apart: only one     *)
(* position is being written, and no index entry and no reader is at it.   *)
(* CurrentInv needs in addition that no bundle was replaced: then there is *)
(* one file, and its index says what was stored last.                      *)
(***************************************************************************)
EXTENDS CompactBundle, TLAPS

Writing == {"append", "write", "written", "index"}
Preparing == {"init", "create", "lock", "locked"}
Opened == Writing \cup {"unlock", "lookup", "read"}

\* A whole record of the tile t.
Whole(record, t) == record.tile = t /\ record.image # NoImage

-----------------------------------------------------------------------------
(* BundleInv *)

\* The parts of TypeOK: the file, the calls, and who is inside the lock.
FileTypes ==
  /\ bundle \in Inodes \cup {NoInode}
  /\ data \in [Inodes -> Seq(Record \cup {Torn})]
  /\ index \in [Inodes -> [Tiles -> Nat]]
  /\ \A i \in Inodes, t \in Tiles : index[i][t] = 0 \/ index[i][t] \in DOMAIN data[i]
CallTypes ==
  /\ pc \in [Procs -> States] /\ image \in [Procs -> 0 .. MaxStores]
  /\ todo \in [Procs -> SUBSET Tiles] /\ tile \in [Procs -> Tiles \cup {NoTile}]
  /\ fd \in [Procs -> Inodes \cup {NoInode}] /\ pos \in [Procs -> Nat]
  /\ serial \in 0 .. MaxStores /\ last \in [Tiles -> 0 .. MaxStores]
  /\ recreated \in BOOLEAN /\ shared \in BOOLEAN
HoldersInv ==
  holders \in [{Lck} -> SUBSET Procs] /\ holders[Lck] = {p \in Procs : pc[p] \in Locked}

\* What a call knows: its tiles, and its image unless it removes one tile.
CallOK(p) ==
  /\ pc[p] \in Loading => tile[p] \in Tiles
  /\ pc[p] \in Writing => tile[p] \in todo[p]
  /\ pc[p] \in {"append", "write", "written"} => image[p] # NoImage
  /\ pc[p] \in Preparing \cup {"index"} /\ image[p] = NoImage => \E t \in Tiles : todo[p] = {t}

\* Files are there before they are used.
FileOK(p) ==
  /\ pc[p] \in {"lock"} \cup Locked => bundle \in Inodes
  /\ pc[p] \in Opened => fd[p] \in Inodes

\* Positions lie in the file; that of a write may be its end.
PosOK(p) ==
  /\ pc[p] = "write" => pos[p] \in 1 .. Len(data[fd[p]]) + 1
  /\ pc[p] \in {"written", "read"} => pos[p] \in DOMAIN data[fd[p]]
  /\ pc[p] = "index" => IF image[p] = NoImage THEN pos[p] = 0 ELSE pos[p] \in DOMAIN data[fd[p]]

LocalInv == \A p \in Procs : CallOK(p) /\ FileOK(p) /\ PosOK(p)

\* The images a load could return include the one the tile has now.
WatchInv == \A p \in Procs : pc[p] \in Loading => Content[tile[p]] \in seen[p]

BundleInv == TypeOK /\ HoldersInv /\ LocalInv /\ WatchInv

\* No action of p touches the call of another process.
Frame(p) ==
  \A q \in Procs \ {p} :
    /\ pc'[q] = pc[q] /\ image'[q] = image[q] /\ todo'[q] = todo[q]
    /\ tile'[q] = tile[q] /\ fd'[q] = fd[q] /\ pos'[q] = pos[q]

ContentTypes == \A t \in Tiles : Content[t] \in 0 .. MaxStores

LEMMA ContentType == FileTypes => ContentTypes
<1> SUFFICES ASSUME FileTypes, NEW t \in Tiles PROVE Content[t] \in 0 .. MaxStores
  BY DEF ContentTypes
<1>1. CASE bundle = NoInode \/ index[bundle][t] = 0
  BY <1>1, BundleAssumption DEF Content, ImageIn, NoImage
<1>2. CASE bundle # NoInode /\ index[bundle][t] # 0
  <2>1. bundle \in Inodes /\ index[bundle][t] \in DOMAIN data[bundle]
    BY <1>2 DEF FileTypes
  <2>2. data[bundle] \in Seq(Record \cup {Torn})
    BY <2>1 DEF FileTypes
  <2>3. data[bundle][index[bundle][t]] \in Record \cup {Torn}
    BY <2>1, <2>2
  <2>4. \A r \in Record \cup {Torn} : r.image \in 0 .. MaxStores
    BY BundleAssumption DEF Record, Torn, NoImage
  <2> QED BY <1>2, <2>3, <2>4 DEF Content, ImageIn
<1> QED BY <1>1, <1>2

\* BundleInv follows from its parts, those about the history of loads from Watch.
LEMMA Assemble ==
  ASSUME BundleInv, Watch, FileTypes', CallTypes', HoldersInv', LocalInv'
  PROVE  BundleInv'
<1>1. \A p \in Procs : pc'[p] \in Loading => tile'[p] \in Tiles
  BY DEF LocalInv, CallOK
<1>2. (FileTypes => ContentTypes)'
  BY ContentType, PTL
<1>3. seen' \in [Procs -> SUBSET (0 .. MaxStores)]
  BY <1>1, <1>2 DEF ContentTypes, Watch, BundleInv, TypeOK
<1>4. WatchInv'
  BY <1>1 DEF Watch, WatchInv
<1>5. TypeOK'
  BY <1>3 DEF TypeOK, FileTypes, CallTypes, HoldersInv
<1> QED BY <1>4, <1>5 DEF BundleInv

LEMMA Parts == BundleInv => FileTypes /\ CallTypes
  BY DEF BundleInv, TypeOK, FileTypes, CallTypes

\* An action that leaves the file alone only has to answer for its own call.
LEMMA OwnCall ==
  ASSUME BundleInv, Watch, NEW p \in Procs, Frame(p), UNCHANGED fileVars,
         CallTypes', HoldersInv', CallOK(p)', FileOK(p)', PosOK(p)'
  PROVE  BundleInv'
<1>1. FileTypes'
  BY Parts DEF FileTypes, fileVars
<1>2. ASSUME NEW q \in Procs \ {p} PROVE (CallOK(q) /\ FileOK(q) /\ PosOK(q))'
  <2>1. CallOK(q) /\ FileOK(q) /\ PosOK(q)
    BY DEF BundleInv, LocalInv
  <2>2. /\ pc'[q] = pc[q] /\ image'[q] = image[q] /\ todo'[q] = todo[q]
        /\ tile'[q] = tile[q] /\ fd'[q] = fd[q] /\ pos'[q] = pos[q]
    BY DEF Frame
  <2>3. bundle' = bundle /\ data' = data
    BY DEF fileVars
  <2> QED BY <2>1, <2>2, <2>3 DEF CallOK, FileOK, PosOK
<1>3. LocalInv'
  BY <1>2 DEF LocalInv
<1> QED BY <1>1, <1>3, Assemble

\* The end of a call.
LEMMA EndCall ==
  ASSUME BundleInv, NEW p \in Procs, End(p)
  PROVE  /\ pc'[p] = "idle" /\ Frame(p)
         /\ pc' \in [Procs -> States] /\ image' \in [Procs -> 0 .. MaxStores]
         /\ todo' \in [Procs -> SUBSET Tiles] /\ tile' \in [Procs -> Tiles \cup {NoTile}]
         /\ fd' \in [Procs -> Inodes \cup {NoInode}] /\ pos' \in [Procs -> Nat]
  BY BundleAssumption DEF BundleInv, TypeOK, End, Goto, Frame, States, NoImage

LEMMA IdleOK ==
  ASSUME NEW p \in Procs, pc[p] = "idle" PROVE CallOK(p) /\ FileOK(p) /\ PosOK(p)
  BY DEF CallOK, FileOK, PosOK, Loading, Writing, Preparing, Opened, Locked

\* Nobody enters or leaves the critical section.
LEMMA SameHolders ==
  ASSUME BundleInv, NEW p \in Procs, Frame(p), holders' = holders,
         pc[p] \in Locked <=> pc'[p] \in Locked
  PROVE  HoldersInv'
<1>1. {q \in Procs : pc'[q] \in Locked} = {q \in Procs : pc[q] \in Locked}
  BY DEF Frame
<1> QED BY <1>1 DEF BundleInv, HoldersInv

\* p enters, or p leaves.
LEMMA NewHolders ==
  ASSUME BundleInv, NEW p \in Procs, Frame(p),
         \/ pc'[p] \in Locked /\ holders' = [holders EXCEPT ![Lck] = @ \cup {p}]
         \/ pc'[p] \notin Locked /\ holders' = [holders EXCEPT ![Lck] = @ \ {p}]
  PROVE  HoldersInv'
<1>1. holders \in [{Lck} -> SUBSET Procs] /\ holders[Lck] = {q \in Procs : pc[q] \in Locked}
  BY DEF BundleInv, HoldersInv
<1>2. CASE pc'[p] \in Locked /\ holders' = [holders EXCEPT ![Lck] = @ \cup {p}]
  BY <1>1, <1>2 DEF HoldersInv, Frame
<1>3. CASE pc'[p] \notin Locked /\ holders' = [holders EXCEPT ![Lck] = @ \ {p}]
  BY <1>1, <1>3 DEF HoldersInv, Frame
<1> QED BY <1>2, <1>3
-----------------------------------------------------------------------------
(* One lemma per action: BundleInv is inductive *)

LEMMA StoreTilesKeeps ==
  ASSUME BundleInv, Watch, NEW p \in Procs, NEW tiles \in SUBSET Tiles, StoreTiles(p, tiles)
  PROVE  BundleInv'
<1>1. CallTypes' /\ Frame(p) /\ UNCHANGED fileVars /\ holders' = holders
  <2>1. CallTypes /\ serial < MaxStores
    BY Parts DEF StoreTiles
  <2>2. serial + 1 \in 0 .. MaxStores
    BY <2>1, BundleAssumption DEF CallTypes
  <2>3. Frame(p) /\ UNCHANGED fileVars /\ holders' = holders
    BY DEF StoreTiles, Frame, Goto, lockVars
  <2> QED BY <2>1, <2>2, <2>3 DEF StoreTiles, CallTypes, Goto, States, lockVars
<1>2. pc[p] = "idle" /\ pc'[p] = "init" /\ image'[p] # NoImage
  BY Parts, BundleAssumption DEF StoreTiles, CallTypes, Goto, NoImage
<1>3. CallOK(p)' /\ FileOK(p)' /\ PosOK(p)'
  BY <1>2 DEF CallOK, FileOK, PosOK, Loading, Writing, Locked, Opened
<1>4. HoldersInv'
  BY <1>1, <1>2, SameHolders DEF Locked
<1> QED BY <1>1, <1>3, <1>4, OwnCall

LEMMA RemoveTileKeeps ==
  ASSUME BundleInv, Watch, NEW p \in Procs, NEW t \in Tiles, RemoveTile(p, t)
  PROVE  BundleInv'
<1>1. CallTypes' /\ Frame(p) /\ UNCHANGED fileVars /\ holders' = holders
  <2>1. NoImage \in 0 .. MaxStores
    BY BundleAssumption DEF NoImage
  <2>2. Frame(p) /\ UNCHANGED fileVars /\ holders' = holders
    BY DEF RemoveTile, Frame, Goto, lockVars
  <2> QED BY <2>1, <2>2, Parts DEF RemoveTile, CallTypes, Goto, States, lockVars
<1>2. pc[p] = "idle" /\ pc'[p] = "init" /\ todo'[p] = {t}
  BY Parts DEF RemoveTile, CallTypes, Goto
<1>3. CallOK(p)' /\ FileOK(p)' /\ PosOK(p)'
  BY <1>2 DEF CallOK, FileOK, PosOK, Loading, Writing, Locked, Opened
<1>4. HoldersInv'
  BY <1>1, <1>2, SameHolders DEF Locked
<1> QED BY <1>1, <1>3, <1>4, OwnCall

LEMMA LoadTileKeeps ==
  ASSUME BundleInv, Watch, NEW p \in Procs, NEW t \in Tiles, LoadTile(p, t)
  PROVE  BundleInv'
<1>1. CallTypes' /\ Frame(p) /\ UNCHANGED fileVars /\ holders' = holders
  BY Parts DEF LoadTile, CallTypes, Frame, Goto, States, Loading, lockVars
<1>2. pc[p] = "idle" /\ pc'[p] = "open" /\ tile'[p] = t
  BY Parts DEF LoadTile, CallTypes, Goto
<1>3. CallOK(p)' /\ FileOK(p)' /\ PosOK(p)'
  BY <1>2 DEF CallOK, FileOK, PosOK, Loading, Writing, Preparing, Locked, Opened
<1>4. HoldersInv'
  BY <1>1, <1>2, SameHolders DEF Locked
<1> QED BY <1>1, <1>3, <1>4, OwnCall

LEMMA InitIndexKeeps ==
  ASSUME BundleInv, Watch, NEW p \in Procs, InitIndex(p)
  PROVE  BundleInv'
<1>1. CallTypes' /\ Frame(p) /\ UNCHANGED fileVars /\ holders' = holders
  BY Parts DEF InitIndex, CallTypes, Frame, Goto, States, lockVars
<1>2. /\ pc[p] = "init" /\ pc'[p] \in {"create", "lock"}
      /\ pc'[p] = "lock" => bundle' \in Inodes
      /\ image'[p] = image[p] /\ todo'[p] = todo[p]
  BY Parts DEF InitIndex, CallTypes, FileTypes, Goto, fileVars
<1>3. CallOK(p)
  BY DEF BundleInv, LocalInv
<1>4. CallOK(p)' /\ FileOK(p)' /\ PosOK(p)'
  BY <1>2, <1>3 DEF CallOK, FileOK, PosOK, Loading, Writing, Preparing, Locked, Opened
<1>5. HoldersInv'
  BY <1>1, <1>2, SameHolders DEF Locked
<1> QED BY <1>1, <1>4, <1>5, OwnCall

LEMMA AcquireKeeps ==
  ASSUME BundleInv, Watch, NEW p \in Procs, Acquire(p)
  PROVE  BundleInv'
<1>1. CallTypes' /\ Frame(p) /\ UNCHANGED fileVars
  BY Parts DEF Acquire, CallTypes, Frame, Goto, States, Locked
<1>2. /\ pc[p] = "lock" /\ pc'[p] = "locked" /\ bundle' = bundle
      /\ image'[p] = image[p] /\ todo'[p] = todo[p]
  BY Parts DEF Acquire, CallTypes, Goto, fileVars
<1>3. CallOK(p) /\ FileOK(p)
  BY DEF BundleInv, LocalInv
<1>4. CallOK(p)' /\ FileOK(p)' /\ PosOK(p)'
  BY <1>2, <1>3 DEF CallOK, FileOK, PosOK, Loading, Writing, Preparing, Locked, Opened
<1>5. HoldersInv'
  <2>1. holders' = [holders EXCEPT ![Lck] = @ \cup {p}]
    BY DEF Acquire, Lock!Acquire
  <2> QED BY <1>1, <1>2, <2>1, NewHolders DEF Locked
<1> QED BY <1>1, <1>4, <1>5, OwnCall

\* The call ends outside of the critical section.
LEMMA EndsOutside ==
  ASSUME BundleInv, Watch, NEW p \in Procs, End(p), pc[p] \notin Locked,
         UNCHANGED <<fileVars, lockVars, serial, last, recreated>>
  PROVE  BundleInv'
<1>1. pc'[p] = "idle" /\ Frame(p) /\ CallTypes' /\ UNCHANGED fileVars /\ holders' = holders
  BY EndCall, Parts DEF CallTypes, lockVars
<1>2. CallOK(p)' /\ FileOK(p)' /\ PosOK(p)'
  BY <1>1 DEF CallOK, FileOK, PosOK, Loading, Writing, Preparing, Opened, Locked
<1>3. HoldersInv'
  BY <1>1, SameHolders DEF Locked
<1> QED BY <1>1, <1>2, <1>3, OwnCall

LEMMA LockTimeoutKeeps ==
  ASSUME BundleInv, Watch, NEW p \in Procs, LockTimeout(p)
  PROVE  BundleInv'
  BY EndsOutside DEF LockTimeout, Locked

LEMMA OpenReadWriteKeeps ==
  ASSUME BundleInv, Watch, NEW p \in Procs, OpenReadWrite(p)
  PROVE  BundleInv'
<1>1. PICK t \in todo[p] : tile' = [tile EXCEPT ![p] = t]
  BY DEF OpenReadWrite
<1>2. todo[p] \subseteq Tiles /\ bundle \in Inodes /\ pc[p] = "locked"
  <2>1. FileOK(p) /\ pc[p] = "locked"
    BY DEF BundleInv, LocalInv, OpenReadWrite
  <2> QED BY <2>1, Parts DEF CallTypes, FileOK, Locked
<1>3. CallTypes' /\ Frame(p) /\ UNCHANGED fileVars /\ holders' = holders
  BY <1>1, <1>2, Parts DEF OpenReadWrite, CallTypes, Frame, Goto, States, Locked, lockVars
<1>4. /\ pc'[p] = IF image[p] = NoImage THEN "index" ELSE "append"
      /\ image'[p] = image[p] /\ todo'[p] = todo[p] /\ tile'[p] = t /\ t \in todo'[p]
      /\ fd'[p] = bundle /\ bundle' = bundle /\ pos'[p] = 0
  BY <1>1, Parts DEF OpenReadWrite, CallTypes, Goto, fileVars
<1>5. CallOK(p)
  BY DEF BundleInv, LocalInv
<1>6. CallOK(p)'
  BY <1>2, <1>4, <1>5 DEF CallOK, Loading, Writing, Preparing
<1>7. FileOK(p)' /\ PosOK(p)'
  BY <1>2, <1>4 DEF FileOK, PosOK
<1>8. HoldersInv'
  BY <1>2, <1>3, <1>4, SameHolders DEF Locked
<1> QED BY <1>3, <1>6, <1>7, <1>8, OwnCall

LEMMA SeekEndKeeps ==
  ASSUME BundleInv, Watch, NEW p \in Procs, SeekEnd(p)
  PROVE  BundleInv'
<1>1. CallOK(p) /\ FileOK(p) /\ pc[p] = "append"
  BY DEF BundleInv, LocalInv, SeekEnd
<1>2. fd[p] \in Inodes /\ data[fd[p]] \in Seq(Record \cup {Torn})
  BY <1>1, Parts DEF FileOK, FileTypes, Opened, Writing
<1>3. Len(data[fd[p]]) \in Nat
  BY <1>2
<1>4. CallTypes' /\ Frame(p) /\ UNCHANGED fileVars /\ holders' = holders
  BY <1>3, Parts DEF SeekEnd, CallTypes, Frame, Goto, States, Locked, lockVars
<1>5. /\ pc'[p] = "write" /\ image'[p] = image[p] /\ todo'[p] = todo[p] /\ tile'[p] = tile[p]
      /\ fd'[p] = fd[p] /\ bundle' = bundle /\ data' = data /\ pos'[p] = Len(data[fd[p]]) + 1
  BY Parts DEF SeekEnd, CallTypes, Goto, fileVars
<1>6. CallOK(p)' /\ FileOK(p)'
  BY <1>1, <1>5 DEF CallOK, FileOK, Loading, Writing, Preparing, Opened, Locked
<1>7. PosOK(p)'
  BY <1>3, <1>5 DEF PosOK
<1>8. HoldersInv'
  BY <1>1, <1>4, <1>5, SameHolders DEF Locked
<1> QED BY <1>4, <1>6, <1>7, <1>8, OwnCall

LEMMA UnlockKeeps ==
  ASSUME BundleInv, Watch, NEW p \in Procs, Unlock(p)
  PROVE  BundleInv'
<1>1. pc'[p] = "idle" /\ Frame(p) /\ CallTypes' /\ UNCHANGED fileVars
  BY EndCall, Parts DEF Unlock, CallTypes
<1>2. CallOK(p)' /\ FileOK(p)' /\ PosOK(p)'
  BY <1>1 DEF CallOK, FileOK, PosOK, Loading, Writing, Preparing, Opened, Locked
<1>3. HoldersInv'
  <2>1. holders' = [holders EXCEPT ![Lck] = @ \ {p}]
    BY DEF Unlock, Lock!Release
  <2> QED BY <1>1, <2>1, NewHolders DEF Locked
<1> QED BY <1>1, <1>2, <1>3, OwnCall

LEMMA OpenReadOnlyKeeps ==
  ASSUME BundleInv, Watch, NEW p \in Procs, OpenReadOnly(p)
  PROVE  BundleInv'
<1>1. CASE bundle = NoInode
  BY <1>1, EndsOutside DEF OpenReadOnly, Locked
<1>2. CASE bundle # NoInode
  <2>1. CallTypes' /\ Frame(p) /\ UNCHANGED fileVars /\ holders' = holders
    BY <1>2, Parts DEF OpenReadOnly, CallTypes, FileTypes, Frame, Goto, States, Loading, lockVars
  <2>2. pc[p] = "open" /\ pc'[p] = "lookup" /\ fd'[p] \in Inodes /\ tile'[p] = tile[p]
    BY <1>2, Parts DEF OpenReadOnly, CallTypes, FileTypes, Goto
  <2>3. CallOK(p)
    BY DEF BundleInv, LocalInv
  <2>4. CallOK(p)' /\ FileOK(p)' /\ PosOK(p)'
    BY <2>2, <2>3 DEF CallOK, FileOK, PosOK, Loading, Writing, Preparing, Locked, Opened
  <2>5. HoldersInv'
    BY <2>1, <2>2, SameHolders DEF Locked
  <2> QED BY <2>1, <2>4, <2>5, OwnCall
<1> QED BY <1>1, <1>2

LEMMA LookupKeeps ==
  ASSUME BundleInv, Watch, NEW p \in Procs, Lookup(p)
  PROVE  BundleInv'
<1>1. CASE index[fd[p]][tile[p]] = 0
  BY <1>1, EndsOutside DEF Lookup, Locked
<1>2. CASE index[fd[p]][tile[p]] # 0
  <2>1. CallOK(p) /\ FileOK(p) /\ pc[p] = "lookup"
    BY DEF BundleInv, LocalInv, Lookup
  <2>2. fd[p] \in Inodes /\ tile[p] \in Tiles
    BY <2>1 DEF CallOK, FileOK, Loading, Opened
  <2>3. index[fd[p]][tile[p]] \in Nat /\ index[fd[p]][tile[p]] \in DOMAIN data[fd[p]]
    BY <1>2, <2>2, Parts DEF FileTypes
  <2>4. CallTypes' /\ Frame(p) /\ UNCHANGED fileVars /\ holders' = holders
    BY <1>2, <2>3, Parts DEF Lookup, CallTypes, Frame, Goto, States, Loading, lockVars
  <2>5. /\ pc'[p] = "read" /\ fd'[p] = fd[p] /\ tile'[p] = tile[p] /\ data' = data
        /\ pos'[p] = index[fd[p]][tile[p]]
    BY <1>2, Parts DEF Lookup, CallTypes, Goto, fileVars
  <2>6. CallOK(p)' /\ FileOK(p)' /\ PosOK(p)'
    BY <2>1, <2>2, <2>3, <2>5 DEF CallOK, FileOK, PosOK, Loading, Writing, Preparing, Locked, Opened
  <2>7. HoldersInv'
    BY <2>1, <2>4, <2>5, SameHolders DEF Locked
  <2> QED BY <2>4, <2>6, <2>7, OwnCall
<1> QED BY <1>1, <1>2

LEMMA ReadKeeps ==
  ASSUME BundleInv, Watch, NEW p \in Procs, Read(p)
  PROVE  BundleInv'
  BY EndsOutside DEF Read, Locked

LEMMA DieKeeps ==
  ASSUME BundleInv, Watch, NEW p \in Procs, Die(p)
  PROVE  BundleInv'
<1>1. CASE pc[p] \notin Locked
  BY <1>1, EndsOutside DEF Die, lockVars
<1>2. CASE pc[p] \in Locked
  <2>1. pc'[p] = "idle" /\ Frame(p) /\ CallTypes' /\ UNCHANGED fileVars
    BY EndCall, Parts DEF Die, CallTypes
  <2>2. CallOK(p)' /\ FileOK(p)' /\ PosOK(p)'
    BY <2>1 DEF CallOK, FileOK, PosOK, Loading, Writing, Preparing, Opened, Locked
  <2>3. HoldersInv'
    <3>1. holders' = [holders EXCEPT ![Lck] = @ \ {p}]
      BY <1>2 DEF Die, Lock!Die
    <3> QED BY <2>1, <3>1, NewHolders DEF Locked
  <2> QED BY <2>1, <2>2, <2>3, OwnCall
<1> QED BY <1>1, <1>2

\* A new bundle takes an inode that is neither the bundle nor open.
LEMMA CreateKeeps ==
  ASSUME BundleInv, Watch, NEW p \in Procs, Create(p)
  PROVE  BundleInv'
<1>1. PICK i \in Inodes : /\ Unused(i) /\ bundle' = i
                          /\ data' = [data EXCEPT ![i] = <<>>]
                          /\ index' = [index EXCEPT ![i] = [t \in Tiles |-> 0]]
  BY DEF Create
<1>2. FileTypes'
  BY <1>1, Parts DEF FileTypes
<1>3. CallTypes' /\ Frame(p) /\ holders' = holders
  BY Parts DEF Create, CallTypes, Frame, Goto, States, lockVars
<1>4. /\ pc[p] = "create" /\ pc'[p] = "lock" /\ image'[p] = image[p] /\ todo'[p] = todo[p]
  BY Parts DEF Create, CallTypes, Goto
<1>5. (CallOK(p) /\ FileOK(p) /\ PosOK(p))'
  <2>1. CallOK(p)
    BY DEF BundleInv, LocalInv
  <2> QED BY <1>1, <1>4, <2>1
             DEF CallOK, FileOK, PosOK, Loading, Writing, Preparing, Locked, Opened
<1>6. ASSUME NEW q \in Procs \ {p} PROVE (CallOK(q) /\ FileOK(q) /\ PosOK(q))'
  <2>1. CallOK(q) /\ FileOK(q) /\ PosOK(q)
    BY DEF BundleInv, LocalInv
  <2>2. /\ pc'[q] = pc[q] /\ image'[q] = image[q] /\ todo'[q] = todo[q]
        /\ tile'[q] = tile[q] /\ fd'[q] = fd[q] /\ pos'[q] = pos[q]
    BY <1>3 DEF Frame
  <2>3. data'[fd[q]] = data[fd[q]] \/ fd[q] \notin Inodes
    BY <1>1, Parts DEF Unused, FileTypes
  <2>4. CallOK(q)' /\ FileOK(q)'
    BY <1>1, <2>1, <2>2 DEF CallOK, FileOK
  <2>5. PosOK(q)'
    BY <2>1, <2>2, <2>3 DEF PosOK, FileOK, Opened, Writing
  <2> QED BY <2>4, <2>5
<1>7. LocalInv'
  BY <1>5, <1>6 DEF LocalInv
<1>8. HoldersInv'
  BY <1>3, <1>4, SameHolders DEF Locked
<1> QED BY <1>2, <1>3, <1>7, <1>8, Assemble

\* What a write does to the file: the record is at its position, nothing else
\* changes, and the file does not get shorter.
Put(p, record) ==
  /\ \A i \in Inodes \ {fd[p]} : data'[i] = data[i]
  /\ data'[fd[p]][pos[p]] = record
  /\ \A k \in DOMAIN data[fd[p]] \ {pos[p]} : data'[fd[p]][k] = data[fd[p]][k]
  /\ DOMAIN data[fd[p]] \subseteq DOMAIN data'[fd[p]]
  /\ DOMAIN data'[fd[p]] = DOMAIN data[fd[p]] \cup {pos[p]}
  /\ Len(data[fd[p]]) \in Nat /\ Len(data'[fd[p]]) \in Nat
  /\ Len(data'[fd[p]]) >= Len(data[fd[p]])

LEMMA PutLemma ==
  ASSUME FileTypes, NEW p \in Procs, fd[p] \in Inodes, pos[p] \in 1 .. Len(data[fd[p]]) + 1,
         NEW record \in Record \cup {Torn}, PutRecord(p, record)
  PROVE  Put(p, record) /\ data' \in [Inodes -> Seq(Record \cup {Torn})]
<1> DEFINE i == fd[p]
           k == pos[p]
           s == data[i]
           new == IF k \in DOMAIN s THEN [s EXCEPT ![k] = record] ELSE Append(s, record)
<1>1. s \in Seq(Record \cup {Torn}) /\ Len(s) \in Nat /\ DOMAIN s = 1 .. Len(s)
  BY DEF FileTypes
<1>2. data' = [data EXCEPT ![i] = new]
  BY DEF PutRecord
<1>3. data'[i] = new /\ \A j \in Inodes \ {i} : data'[j] = data[j]
  BY <1>2 DEF FileTypes
<1>4. /\ new \in Seq(Record \cup {Torn}) /\ new[k] = record /\ Len(new) >= Len(s) /\ Len(new) \in Nat
      /\ DOMAIN new = DOMAIN s \cup {k}
      /\ \A j \in DOMAIN s \ {k} : new[j] = s[j]
  <2>1. CASE k \in DOMAIN s
    <3>1. new = [s EXCEPT ![k] = record]
      BY <2>1
    <3>2. DOMAIN new = 1 .. Len(s) /\ \A j \in 1 .. Len(s) : new[j] \in Record \cup {Torn}
      BY <1>1, <2>1, <3>1
    <3>3. new \in Seq(Record \cup {Torn}) /\ Len(new) = Len(s)
      BY <1>1, <2>1, <3>1
    <3> QED BY <1>1, <2>1, <3>1, <3>2, <3>3
  <2>2. CASE k \notin DOMAIN s
    <3>1. new = Append(s, record) /\ k = Len(s) + 1
      BY <1>1, <2>2
    <3>2. new \in Seq(Record \cup {Torn}) /\ Len(new) = Len(s) + 1
      BY <1>1, <3>1
    <3>3. new[k] = record /\ \A j \in DOMAIN s : new[j] = s[j]
      BY <1>1, <3>1
    <3>4. DOMAIN new = 1 .. Len(s) + 1
      BY <3>2
    <3> QED BY <1>1, <3>1, <3>2, <3>3, <3>4
  <2> QED BY <2>1, <2>2
<1>5. data' \in [Inodes -> Seq(Record \cup {Torn})]
  BY <1>2, <1>4 DEF FileTypes
<1> QED BY <1>1, <1>3, <1>4, <1>5 DEF Put

\* The two halves of a write.
LEMMA WriteKeeps ==
  ASSUME BundleInv, Watch, NEW p \in Procs, NEW record \in Record \cup {Torn},
         PutRecord(p, record), UNCHANGED <<bundle, index>>, Frame(p), CallTypes', HoldersInv',
         fd[p] \in Inodes, pos[p] \in 1 .. Len(data[fd[p]]) + 1,
         image'[p] = image[p], todo'[p] = todo[p], tile'[p] = tile[p],
         fd'[p] = fd[p], pos'[p] = pos[p], image[p] # NoImage,
         pc[p] \in {"write", "written"}, pc'[p] \in {"written", "index"}
  PROVE  BundleInv'
<1>1. Put(p, record) /\ data' \in [Inodes -> Seq(Record \cup {Torn})]
  BY PutLemma, Parts
<1>2. \A i \in Inodes : DOMAIN data[i] \subseteq DOMAIN data'[i]
  BY <1>1 DEF Put
<1>3. FileTypes'
  BY <1>1, <1>2, Parts DEF FileTypes
<1>4. (CallOK(p) /\ FileOK(p) /\ PosOK(p))'
  <2>1. CallOK(p) /\ FileOK(p)
    BY DEF BundleInv, LocalInv
  <2>2. pos[p] \in DOMAIN data'[fd[p]]
    BY <1>1 DEF Put
  <2>3. CallOK(p)' /\ FileOK(p)'
    BY <2>1 DEF CallOK, FileOK, Loading, Writing, Preparing, Locked, Opened
  <2>4. PosOK(p)'
    BY <2>2 DEF PosOK
  <2> QED BY <2>3, <2>4
<1>5. ASSUME NEW q \in Procs \ {p} PROVE (CallOK(q) /\ FileOK(q) /\ PosOK(q))'
  <2>1. CallOK(q) /\ FileOK(q) /\ PosOK(q)
    BY DEF BundleInv, LocalInv
  <2>2. /\ pc'[q] = pc[q] /\ image'[q] = image[q] /\ todo'[q] = todo[q]
        /\ tile'[q] = tile[q] /\ fd'[q] = fd[q] /\ pos'[q] = pos[q]
    BY DEF Frame
  <2>3. CallOK(q)' /\ FileOK(q)'
    BY <2>1, <2>2 DEF CallOK, FileOK
  <2>4. CASE pc[q] \in {"write", "written", "read", "index"}
    <3>1. fd[q] \in Inodes
      BY <2>1, <2>4 DEF FileOK, Opened, Writing
    <3>2. DOMAIN data[fd[q]] \subseteq DOMAIN data'[fd[q]]
      BY <1>2, <3>1
    <3>3. Len(data[fd[q]]) \in Nat /\ Len(data'[fd[q]]) \in Nat /\ Len(data[fd[q]]) <= Len(data'[fd[q]])
      <4>1. CASE fd[q] = fd[p]
        BY <1>1, <4>1 DEF Put
      <4>2. CASE fd[q] # fd[p]
        <5>1. data'[fd[q]] = data[fd[q]] /\ data[fd[q]] \in Seq(Record \cup {Torn})
          BY <1>1, <3>1, <4>2, Parts DEF Put, FileTypes
        <5>2. Len(data[fd[q]]) \in Nat
          BY <5>1
        <5> QED BY <5>1, <5>2
      <4> QED BY <4>1, <4>2
    <3>4. pos[q] \in 1 .. Len(data[fd[q]]) + 1 => pos[q] \in 1 .. Len(data'[fd[q]]) + 1
      BY <3>3
    <3> QED BY <2>1, <2>2, <2>3, <3>2, <3>4 DEF PosOK
  <2>5. CASE pc[q] \notin {"write", "written", "read", "index"}
    BY <2>2, <2>3, <2>5 DEF PosOK
  <2> QED BY <2>4, <2>5
<1>6. LocalInv'
  BY <1>4, <1>5 DEF LocalInv
<1> QED BY <1>3, <1>6, Assemble

LEMMA WriteBeginKeeps ==
  ASSUME BundleInv, Watch, NEW p \in Procs, WriteBegin(p)
  PROVE  BundleInv'
<1>1. CallOK(p) /\ FileOK(p) /\ PosOK(p) /\ pc[p] = "write"
  BY DEF BundleInv, LocalInv, WriteBegin
<1>2. /\ fd[p] \in Inodes /\ pos[p] \in 1 .. Len(data[fd[p]]) + 1 /\ image[p] # NoImage
  BY <1>1 DEF CallOK, FileOK, PosOK, Opened, Writing
<1>3. CallTypes' /\ Frame(p) /\ holders' = holders
  BY Parts DEF WriteBegin, CallTypes, Frame, Goto, States, Locked, lockVars
<1>4. /\ pc'[p] = "written" /\ image'[p] = image[p] /\ todo'[p] = todo[p] /\ tile'[p] = tile[p]
      /\ fd'[p] = fd[p] /\ pos'[p] = pos[p] /\ UNCHANGED <<bundle, index>>
  BY Parts DEF WriteBegin, CallTypes, Goto
<1>5. HoldersInv'
  BY <1>1, <1>3, <1>4, SameHolders DEF Locked
<1>6. PutRecord(p, Torn)
  BY DEF WriteBegin
<1> QED BY <1>1, <1>2, <1>3, <1>4, <1>5, <1>6, WriteKeeps

\* The record of a writer that has written the first half.
LEMMA RecordType ==
  ASSUME BundleInv, NEW p \in Procs, pc[p] = "written"
  PROVE  [tile |-> tile[p], image |-> image[p]] \in Record
<1>1. CallOK(p)
  BY DEF BundleInv, LocalInv
<1>2. tile[p] \in Tiles /\ image[p] # NoImage
  BY <1>1, Parts DEF CallOK, CallTypes, Writing
<1>3. image[p] \in 1 .. MaxStores
  BY <1>2, Parts, BundleAssumption DEF CallTypes, NoImage
<1> QED BY <1>2, <1>3 DEF Record

LEMMA WriteEndKeeps ==
  ASSUME BundleInv, Watch, NEW p \in Procs, WriteEnd(p)
  PROVE  BundleInv'
<1>1. CallOK(p) /\ FileOK(p) /\ PosOK(p) /\ pc[p] = "written"
  BY DEF BundleInv, LocalInv, WriteEnd
<1>2. /\ fd[p] \in Inodes /\ pos[p] \in DOMAIN data[fd[p]] /\ image[p] # NoImage
  BY <1>1 DEF CallOK, FileOK, PosOK, Opened, Writing
<1>3. pos[p] \in 1 .. Len(data[fd[p]]) + 1
  BY <1>2, Parts DEF FileTypes
<1>4. CallTypes' /\ Frame(p) /\ holders' = holders
  BY Parts DEF WriteEnd, CallTypes, Frame, Goto, States, Locked, lockVars
<1>5. /\ pc'[p] = "index" /\ image'[p] = image[p] /\ todo'[p] = todo[p] /\ tile'[p] = tile[p]
      /\ fd'[p] = fd[p] /\ pos'[p] = pos[p] /\ UNCHANGED <<bundle, index>>
  BY Parts DEF WriteEnd, CallTypes, Goto
<1>6. HoldersInv'
  BY <1>1, <1>4, <1>5, SameHolders DEF Locked
<1>7. PutRecord(p, [tile |-> tile[p], image |-> image[p]])
  BY DEF WriteEnd
<1> QED BY <1>1, <1>2, <1>3, <1>4, <1>5, <1>6, <1>7, RecordType, WriteKeeps

LEMMA UpdateIndexKeeps ==
  ASSUME BundleInv, Watch, NEW p \in Procs, UpdateIndex(p)
  PROVE  BundleInv'
<1>1. CallOK(p) /\ FileOK(p) /\ PosOK(p) /\ pc[p] = "index"
  BY DEF BundleInv, LocalInv, UpdateIndex
<1>2. fd[p] \in Inodes /\ bundle \in Inodes /\ tile[p] \in todo[p] /\ todo[p] \subseteq Tiles
  BY <1>1, Parts DEF CallOK, FileOK, CallTypes, Opened, Writing, Locked
<1>3. tile[p] \in Tiles
  BY <1>2
<1>4. pos[p] \in Nat /\ (pos[p] = 0 \/ pos[p] \in DOMAIN data[fd[p]])
  BY <1>1, Parts DEF PosOK, CallTypes
<1>5. index' = [index EXCEPT ![fd[p]][tile[p]] = pos[p]] /\ data' = data /\ bundle' = bundle
  BY DEF UpdateIndex
<1>6. \A i \in Inodes, t \in Tiles : index'[i][t] = IF i = fd[p] /\ t = tile[p] THEN pos[p]
                                                                        ELSE index[i][t]
  BY <1>2, <1>3, <1>5, Parts DEF FileTypes
<1>7. FileTypes'
  <2>1. index' \in [Inodes -> [Tiles -> Nat]]
    BY <1>2, <1>3, <1>4, <1>5, Parts DEF FileTypes
  <2> QED BY <1>4, <1>5, <1>6, <2>1, Parts DEF FileTypes
<1>8. /\ pc'[p] \in {"unlock", "append"} /\ image'[p] = image[p] /\ fd'[p] = fd[p] /\ pos'[p] = pos[p]
      /\ todo'[p] = todo[p] \ {tile[p]}
      /\ pc'[p] = "append" => tile'[p] \in todo'[p] /\ todo[p] # {tile[p]}
      /\ tile' \in [Procs -> Tiles \cup {NoTile}] /\ pc' \in [Procs -> States]
      /\ Frame(p) /\ holders' = holders
  <2>1. CASE todo[p] = {tile[p]}
    BY <2>1, Parts DEF UpdateIndex, CallTypes, Goto, Frame, States, Locked, lockVars
  <2>2. CASE todo[p] # {tile[p]}
    <3>1. PICK t \in todo'[p] : tile' = [tile EXCEPT ![p] = t]
      BY <2>2 DEF UpdateIndex
    <3>2. todo'[p] = todo[p] \ {tile[p]}
      BY Parts DEF UpdateIndex, CallTypes
    <3>3. t \in Tiles
      BY <1>2, <3>1, <3>2
    <3> QED BY <2>2, <3>1, <3>2, <3>3, Parts
               DEF UpdateIndex, CallTypes, Goto, Frame, States, Locked, lockVars
  <2> QED BY <2>1, <2>2
<1>9. CallTypes'
  BY <1>2, <1>3, <1>8, Parts DEF UpdateIndex, CallTypes, lockVars
<1>10. (CallOK(p) /\ FileOK(p) /\ PosOK(p))'
  <2>1. pc'[p] = "append" => image[p] # NoImage
    BY <1>1, <1>2, <1>8 DEF CallOK, Preparing
  <2>2. CallOK(p)'
    BY <1>8, <2>1 DEF CallOK, Loading, Writing, Preparing, Locked
  <2>3. FileOK(p)' /\ PosOK(p)'
    BY <1>2, <1>5, <1>8 DEF FileOK, PosOK
  <2> QED BY <2>2, <2>3
<1>11. ASSUME NEW q \in Procs \ {p} PROVE (CallOK(q) /\ FileOK(q) /\ PosOK(q))'
  <2>1. CallOK(q) /\ FileOK(q) /\ PosOK(q)
    BY DEF BundleInv, LocalInv
  <2>2. /\ pc'[q] = pc[q] /\ image'[q] = image[q] /\ todo'[q] = todo[q]
        /\ tile'[q] = tile[q] /\ fd'[q] = fd[q] /\ pos'[q] = pos[q]
    BY <1>8 DEF Frame
  <2> QED BY <1>5, <2>1, <2>2 DEF CallOK, FileOK, PosOK
<1>12. LocalInv'
  BY <1>10, <1>11 DEF LocalInv
<1>13. HoldersInv'
  BY <1>1, <1>8, SameHolders DEF Locked
<1> QED BY <1>7, <1>9, <1>12, <1>13, Assemble

LEMMA BundleInit == Init => BundleInv
<1> SUFFICES ASSUME Init PROVE BundleInv
  OBVIOUS
<1>1. TypeOK
  <2>1. <<>> \in Seq(Record \cup {Torn}) /\ NoImage \in 0 .. MaxStores
    BY BundleAssumption DEF NoImage
  <2>2. data \in [Inodes -> Seq(Record \cup {Torn})]
    BY <2>1 DEF Init
  <2>3. holders[Lck] = {p \in Procs : pc[p] \in Locked}
    BY DEF Init, Lock!Init, Locked
  <2>4. \A i \in Inodes, t \in Tiles : index[i][t] = 0
    BY DEF Init
  <2>5. CallTypes
    BY <2>1, BundleAssumption DEF Init, CallTypes, States, NoImage
  <2>6. seen \in [Procs -> SUBSET (0 .. MaxStores)]
    BY DEF Init
  <2>7. bundle \in Inodes \cup {NoInode} /\ index \in [Inodes -> [Tiles -> Nat]]
    BY DEF Init
  <2> QED BY <2>2, <2>3, <2>4, <2>5, <2>6, <2>7 DEF TypeOK, CallTypes
<1>2. HoldersInv
  BY DEF Init, HoldersInv, Lock!Init, Locked
<1>3. LocalInv
  BY IdleOK DEF Init, LocalInv
<1>4. WatchInv
  BY DEF Init, WatchInv, Loading
<1> QED BY <1>1, <1>2, <1>3, <1>4 DEF BundleInv

LEMMA BundleStep == BundleInv /\ [Next]_vars => BundleInv'
<1> SUFFICES ASSUME BundleInv, [Next]_vars PROVE BundleInv'
  OBVIOUS
<1>1. CASE Next
  <2>1. PICK p \in Procs : Call(p) \/ Step(p) \/ Die(p)
    BY <1>1 DEF Next
  <2>2. Watch
    BY <1>1 DEF Next
  <2>3. CASE Call(p)
    BY <2>2, <2>3, StoreTilesKeeps, RemoveTileKeeps, LoadTileKeeps DEF Call
  <2>4. CASE Step(p)
    BY <2>2, <2>4, InitIndexKeeps, CreateKeeps, AcquireKeeps, LockTimeoutKeeps,
       OpenReadWriteKeeps, SeekEndKeeps, WriteBeginKeeps, WriteEndKeeps, UpdateIndexKeeps,
       UnlockKeeps, OpenReadOnlyKeeps, LookupKeeps, ReadKeeps DEF Step, Write
  <2>5. CASE Die(p)
    BY <2>2, <2>5, DieKeeps
  <2> QED BY <2>1, <2>3, <2>4, <2>5
<1>2. CASE UNCHANGED vars
  BY <1>2 DEF vars, fileVars, lockVars, callVars, BundleInv, TypeOK, HoldersInv, LocalInv,
     CallOK, FileOK, PosOK, WatchInv, Content, ImageIn
<1> QED BY <1>1, <1>2

LEMMA AlwaysBundleInv == Spec => []BundleInv
  BY BundleInit, BundleStep, PTL DEF Spec

\* Types hold, and the lock's holders are the calls in its critical section.
THEOREM TypeCorrect == Spec => []TypeOK
<1>1. BundleInv => TypeOK
  BY DEF BundleInv
<1> QED BY <1>1, AlwaysBundleInv, PTL

-----------------------------------------------------------------------------
(* ApartInv: what the lock gives as long as it kept the writers apart *)

OneWriter == \A p, q \in Procs : pc[p] \in Locked /\ pc[q] \in Locked => p = q

\* Index entries, and the readers that looked one up, are at whole records.
IndexIsWhole ==
  \A i \in Inodes, t \in Tiles : index[i][t] # 0 => Whole(data[i][index[i][t]], t)
ReadOK(p) == pc[p] = "read" => Whole(Found(p), tile[p])

\* A record is written at the end, is torn until it is complete, and goes into
\* the index after that.
WriteOK(p) ==
  /\ pc[p] = "write" => pos[p] = Len(data[fd[p]]) + 1
  /\ pc[p] = "written" => Found(p).image = NoImage
  /\ pc[p] = "index" /\ image[p] # NoImage => Found(p).tile = tile[p] /\ Found(p).image = image[p]

Apart == OneWriter /\ IndexIsWhole /\ \A p \in Procs : ReadOK(p) /\ WriteOK(p)
ApartInv == shared \/ Apart

\* Nobody enters the critical section that somebody is in.
LEMMA StillOneWriter ==
  ASSUME BundleInv, Apart, NEW p \in Procs, Frame(p),
         pc'[p] \in Locked => pc[p] \in Locked \/ \A q \in Procs : pc[q] \notin Locked
  PROVE  OneWriter'
  BY DEF Apart, OneWriter, Frame

\* An action that leaves the file alone only has to answer for its own call.
LEMMA OwnRecord ==
  ASSUME BundleInv, Apart, NEW p \in Procs, Frame(p), UNCHANGED <<data, index>>,
         pc'[p] \in Locked => pc[p] \in Locked \/ \A q \in Procs : pc[q] \notin Locked,
         ReadOK(p)', WriteOK(p)'
  PROVE  Apart'
<1>1. ASSUME NEW q \in Procs \ {p} PROVE (ReadOK(q) /\ WriteOK(q))'
  <2>1. ReadOK(q) /\ WriteOK(q)
    BY DEF Apart
  <2>2. /\ pc'[q] = pc[q] /\ image'[q] = image[q] /\ tile'[q] = tile[q]
        /\ fd'[q] = fd[q] /\ pos'[q] = pos[q]
    BY DEF Frame
  <2> QED BY <2>1, <2>2 DEF ReadOK, WriteOK, Found, Whole
<1>2. IndexIsWhole'
  BY DEF Apart, IndexIsWhole, Whole
<1> QED BY <1>1, <1>2, StillOneWriter DEF Apart

\* Most steps of a call are neither before a read nor in the middle of a write.
Harmless(p) == \/ pc[p] \in States \ {"read", "write", "written", "index"}
               \/ pc[p] = "index" /\ image[p] = NoImage

LEMMA HarmlessStep ==
  ASSUME BundleInv, Apart, NEW p \in Procs, Frame(p), UNCHANGED <<data, index>>,
         pc'[p] \in Locked => pc[p] \in Locked \/ \A q \in Procs : pc[q] \notin Locked,
         Harmless(p)'
  PROVE  Apart'
<1>1. ReadOK(p)' /\ WriteOK(p)'
  BY DEF Harmless, ReadOK, WriteOK
<1> QED BY <1>1, OwnRecord

\* The calls of an action that leaves the file alone and does not look it up.
Quiet(p) == \/ Call(p) \/ Die(p) \/ InitIndex(p) \/ Acquire(p) \/ LockTimeout(p)
            \/ OpenReadWrite(p) \/ Unlock(p) \/ OpenReadOnly(p) \/ Read(p)

\* What these actions have in common.
QuietFrame(p) ==
  /\ Frame(p) /\ UNCHANGED fileVars /\ last' = last /\ recreated' = recreated
  /\ Harmless(p)'
  /\ pc'[p] \in Opened => fd'[p] = IF pc[p] \in Opened THEN fd[p] ELSE bundle
  /\ \/ shared' = shared /\ (pc'[p] \in Locked => pc[p] \in Locked)
     \/ shared' = (shared \/ holders[Lck] # {})

LEMMA QuietActions ==
  ASSUME BundleInv, NEW p \in Procs, Quiet(p)
  PROVE  QuietFrame(p)
<1> USE DEF QuietFrame
<1>1. ASSUME End(p), UNCHANGED <<fileVars, last, recreated, shared>> PROVE QuietFrame(p)
  <2>1. pc'[p] = "idle" /\ Frame(p)
    BY <1>1, EndCall
  <2> QED BY <1>1, <2>1 DEF Harmless, States, Opened, Writing, Locked
<1>2. CASE Call(p)
  <2>1. pc'[p] \in {"init", "open"} /\ Frame(p)
    BY <1>2, Parts DEF Call, StoreTiles, RemoveTile, LoadTile, Goto, Frame, CallTypes
  <2>2. UNCHANGED <<fileVars, last, recreated, shared>>
    BY <1>2 DEF Call, StoreTiles, RemoveTile, LoadTile, lockVars
  <2> QED BY <2>1, <2>2 DEF Harmless, States, Loading, Opened, Writing, Locked
<1>3. CASE Die(p) \/ LockTimeout(p) \/ Unlock(p) \/ Read(p)
  BY <1>1, <1>3 DEF Die, LockTimeout, Unlock, Read, lockVars
<1>4. CASE InitIndex(p)
  <2>1. pc'[p] \in {"create", "lock"} /\ Frame(p)
    BY <1>4, Parts DEF InitIndex, Goto, Frame, CallTypes
  <2>2. UNCHANGED <<fileVars, last, recreated, shared>>
    BY <1>4 DEF InitIndex, lockVars
  <2> QED BY <2>1, <2>2 DEF Harmless, States, Opened, Writing, Locked
<1>5. CASE Acquire(p)
  <2>1. pc'[p] = "locked" /\ Frame(p)
    BY <1>5, Parts DEF Acquire, Goto, Frame, CallTypes
  <2>2. UNCHANGED <<fileVars, last, recreated>> /\ shared' = (shared \/ holders[Lck] # {})
    BY <1>5 DEF Acquire
  <2> QED BY <2>1, <2>2 DEF Harmless, States, Opened, Writing, Locked
<1>6. CASE OpenReadWrite(p)
  <2>1. PICK t \in todo[p] : tile' = [tile EXCEPT ![p] = t]
    BY <1>6 DEF OpenReadWrite
  <2>2. /\ pc[p] = "locked" /\ pc'[p] = IF image[p] = NoImage THEN "index" ELSE "append"
        /\ image'[p] = image[p] /\ fd'[p] = bundle /\ Frame(p)
    BY <1>6, <2>1, Parts DEF OpenReadWrite, Goto, Frame, CallTypes
  <2>3. UNCHANGED <<fileVars, last, recreated, shared>>
    BY <1>6 DEF OpenReadWrite, lockVars
  <2> QED BY <2>2, <2>3 DEF Harmless, States, Opened, Writing, Locked
<1>7. CASE OpenReadOnly(p)
  <2>1. CASE bundle = NoInode
    BY <1>1, <1>7, <2>1 DEF OpenReadOnly, lockVars
  <2>2. CASE bundle # NoInode
    <3>1. pc[p] = "open" /\ pc'[p] = "lookup" /\ fd'[p] = bundle /\ Frame(p)
      BY <1>7, <2>2, Parts DEF OpenReadOnly, Goto, Frame, CallTypes
    <3>2. UNCHANGED <<fileVars, last, recreated, shared>>
      BY <1>7 DEF OpenReadOnly, lockVars
    <3> QED BY <3>1, <3>2 DEF Harmless, States, Loading, Opened, Writing, Locked
  <2> QED BY <2>1, <2>2
<1> QED BY <1>2, <1>3, <1>4, <1>5, <1>6, <1>7 DEF Quiet

LEMMA QuietApart ==
  ASSUME BundleInv, ApartInv, NEW p \in Procs, Quiet(p), ~shared'
  PROVE  Apart'
<1>1. QuietFrame(p)
  BY QuietActions
<1>2. Apart /\ UNCHANGED <<data, index>>
  <2>1. ~shared
    BY <1>1 DEF QuietFrame
  <2> QED BY <1>1, <2>1 DEF ApartInv, QuietFrame, fileVars
<1>3. pc'[p] \in Locked => pc[p] \in Locked \/ \A q \in Procs : pc[q] \notin Locked
  BY <1>1 DEF QuietFrame, BundleInv, HoldersInv
<1> QED BY <1>1, <1>2, <1>3, HarmlessStep DEF QuietFrame

LEMMA SeekEndApart ==
  ASSUME BundleInv, Apart, NEW p \in Procs, SeekEnd(p)
  PROVE  Apart'
<1>1. Frame(p) /\ UNCHANGED <<data, index>>
  BY DEF SeekEnd, Frame, Goto, fileVars
<1>2. /\ pc[p] = "append" /\ pc'[p] = "write" /\ data' = data /\ fd'[p] = fd[p]
      /\ pos'[p] = Len(data[fd[p]]) + 1
  BY Parts DEF SeekEnd, CallTypes, Goto, fileVars
<1>3. ReadOK(p)' /\ WriteOK(p)'
  BY <1>2 DEF ReadOK, WriteOK
<1> QED BY <1>1, <1>2, <1>3, OwnRecord DEF Locked

LEMMA LookupApart ==
  ASSUME BundleInv, Apart, NEW p \in Procs, Lookup(p)
  PROVE  Apart'
<1>1. pc[p] = "lookup" /\ UNCHANGED <<data, index>>
  BY DEF Lookup, fileVars
<1>2. CASE index[fd[p]][tile[p]] = 0
  <2>1. pc'[p] = "idle" /\ Frame(p)
    BY <1>2, EndCall DEF Lookup
  <2> QED BY <1>1, <2>1, HarmlessStep DEF Harmless, States, Locked
<1>3. CASE index[fd[p]][tile[p]] # 0
  <2>1. CallOK(p) /\ FileOK(p)
    BY DEF BundleInv, LocalInv
  <2>2. fd[p] \in Inodes /\ tile[p] \in Tiles
    BY <1>1, <2>1 DEF CallOK, FileOK, Loading, Opened
  <2>3. Whole(data[fd[p]][index[fd[p]][tile[p]]], tile[p])
    BY <1>3, <2>2 DEF Apart, IndexIsWhole
  <2>4. /\ pc'[p] = "read" /\ fd'[p] = fd[p] /\ tile'[p] = tile[p] /\ data' = data
        /\ pos'[p] = index[fd[p]][tile[p]] /\ Frame(p)
    BY <1>3, Parts DEF Lookup, CallTypes, Goto, Frame, fileVars
  <2>5. ReadOK(p)' /\ WriteOK(p)'
    BY <2>3, <2>4 DEF ReadOK, WriteOK, Found, Whole
  <2> QED BY <1>1, <2>4, <2>5, OwnRecord DEF Locked
<1> QED BY <1>2, <1>3

LEMMA CreateApart ==
  ASSUME BundleInv, Apart, NEW p \in Procs, Create(p)
  PROVE  Apart'
<1>1. PICK i \in Inodes : /\ Unused(i) /\ bundle' = i
                          /\ data' = [data EXCEPT ![i] = <<>>]
                          /\ index' = [index EXCEPT ![i] = [t \in Tiles |-> 0]]
  BY DEF Create
<1>2. pc[p] = "create" /\ pc'[p] = "lock" /\ Frame(p)
  BY Parts DEF Create, CallTypes, Frame, Goto
<1>3. OneWriter'
  BY <1>2, StillOneWriter DEF Locked
<1>4. IndexIsWhole'
  BY <1>1, Parts DEF Apart, IndexIsWhole, Whole, FileTypes
<1>5. ReadOK(p)' /\ WriteOK(p)'
  BY <1>2 DEF ReadOK, WriteOK
<1>6. ASSUME NEW q \in Procs \ {p} PROVE (ReadOK(q) /\ WriteOK(q))'
  <2>1. ReadOK(q) /\ WriteOK(q) /\ FileOK(q)
    BY DEF Apart, BundleInv, LocalInv
  <2>2. /\ pc'[q] = pc[q] /\ image'[q] = image[q] /\ tile'[q] = tile[q]
        /\ fd'[q] = fd[q] /\ pos'[q] = pos[q]
    BY <1>2 DEF Frame
  <2>3. pc[q] \in Opened => data'[fd[q]] = data[fd[q]]
    BY <1>1, <2>1, Parts DEF Unused, FileTypes, FileOK
  <2> QED BY <2>1, <2>2, <2>3 DEF ReadOK, WriteOK, Found, Whole, Opened, Writing
<1> QED BY <1>3, <1>4, <1>5, <1>6 DEF Apart

\* A write touches no record that the index or a reader is at.
Untouched ==
  /\ \A i \in Inodes, t \in Tiles :
       index[i][t] # 0 => data'[i][index[i][t]] = data[i][index[i][t]]
  /\ \A q \in Procs : pc[q] = "read" => data'[fd[q]][pos[q]] = data[fd[q]][pos[q]]

LEMMA WriteUntouched ==
  ASSUME BundleInv, Apart, NEW p \in Procs, pc[p] \in {"write", "written"},
         NEW record \in Record \cup {Torn}, PutRecord(p, record)
  PROVE  Untouched /\ Put(p, record)
<1>1. FileOK(p) /\ PosOK(p) /\ WriteOK(p)
  BY DEF BundleInv, LocalInv, Apart
<1>2. fd[p] \in Inodes /\ pos[p] \in 1 .. Len(data[fd[p]]) + 1
  <2>1. fd[p] \in Inodes
    BY <1>1 DEF FileOK, Opened, Writing
  <2>2. data[fd[p]] \in Seq(Record \cup {Torn})
    BY <2>1, Parts DEF FileTypes
  <2>3. Len(data[fd[p]]) \in Nat /\ DOMAIN data[fd[p]] = 1 .. Len(data[fd[p]])
    BY <2>2
  <2> QED BY <1>1, <2>1, <2>3 DEF PosOK
<1>3. Put(p, record)
  BY <1>2, PutLemma, Parts
<1>4. data[fd[p]] \in Seq(Record \cup {Torn})
  BY <1>2, Parts DEF FileTypes
<1>5. ASSUME NEW k \in DOMAIN data[fd[p]], data[fd[p]][k].image # NoImage
      PROVE  data'[fd[p]][k] = data[fd[p]][k]
  <2>1. k # pos[p]
    BY <1>1, <1>4, <1>5 DEF WriteOK, Found
  <2> QED BY <1>3, <2>1 DEF Put
<1>6. ASSUME NEW i \in Inodes, NEW t \in Tiles, index[i][t] # 0
      PROVE  data'[i][index[i][t]] = data[i][index[i][t]]
  <2>1. index[i][t] \in DOMAIN data[i] /\ Whole(data[i][index[i][t]], t)
    BY <1>6, Parts DEF FileTypes, Apart, IndexIsWhole
  <2>2. CASE i = fd[p]
    BY <1>5, <2>1, <2>2 DEF Whole
  <2>3. CASE i # fd[p]
    BY <1>3, <2>3 DEF Put
  <2> QED BY <2>2, <2>3
<1>7. ASSUME NEW q \in Procs, pc[q] = "read"
      PROVE  data'[fd[q]][pos[q]] = data[fd[q]][pos[q]]
  <2>1. FileOK(q) /\ PosOK(q) /\ ReadOK(q)
    BY DEF BundleInv, LocalInv, Apart
  <2>2. fd[q] \in Inodes /\ pos[q] \in DOMAIN data[fd[q]] /\ Whole(data[fd[q]][pos[q]], tile[q])
    BY <1>7, <2>1 DEF FileOK, PosOK, ReadOK, Found, Opened
  <2>3. CASE fd[q] = fd[p]
    BY <1>5, <2>2, <2>3 DEF Whole
  <2>4. CASE fd[q] # fd[p]
    BY <1>3, <2>2, <2>4 DEF Put
  <2> QED BY <2>3, <2>4
<1> QED BY <1>3, <1>6, <1>7 DEF Untouched

LEMMA WriteApart ==
  ASSUME BundleInv, Apart, NEW p \in Procs, pc[p] \in {"write", "written"},
         NEW record \in Record \cup {Torn}, PutRecord(p, record), index' = index, Frame(p),
         image'[p] = image[p], tile'[p] = tile[p], fd'[p] = fd[p], pos'[p] = pos[p],
         \/ pc'[p] = "written" /\ record.image = NoImage
         \/ pc'[p] = "index" /\ record.image = image[p] /\ record.tile = tile[p]
  PROVE  Apart'
<1>1. Untouched /\ Put(p, record)
  BY WriteUntouched
<1>2. OneWriter'
  BY StillOneWriter DEF Locked
<1>3. IndexIsWhole'
  BY <1>1 DEF Apart, IndexIsWhole, Whole, Untouched
<1>4. ReadOK(p)' /\ WriteOK(p)'
  BY <1>1 DEF ReadOK, WriteOK, Found, Put
<1>5. ASSUME NEW q \in Procs \ {p} PROVE (ReadOK(q) /\ WriteOK(q))'
  <2>1. ReadOK(q) /\ pc[q] \notin Locked
    BY DEF Apart, OneWriter, Locked
  <2>2. pc'[q] = pc[q] /\ tile'[q] = tile[q] /\ fd'[q] = fd[q] /\ pos'[q] = pos[q]
    BY DEF Frame
  <2>3. WriteOK(q)'
    BY <2>1, <2>2 DEF WriteOK, Locked
  <2> QED BY <1>1, <2>1, <2>2, <2>3 DEF ReadOK, Found, Whole, Untouched
<1> QED BY <1>2, <1>3, <1>4, <1>5 DEF Apart

LEMMA WriteBeginApart ==
  ASSUME BundleInv, Apart, NEW p \in Procs, WriteBegin(p)
  PROVE  Apart'
<1>1. PutRecord(p, Torn) /\ Torn \in Record \cup {Torn} /\ Torn.image = NoImage
  BY DEF WriteBegin, Torn
<1>2. /\ pc[p] = "write" /\ pc'[p] = "written" /\ index' = index /\ Frame(p)
      /\ image'[p] = image[p] /\ tile'[p] = tile[p] /\ fd'[p] = fd[p] /\ pos'[p] = pos[p]
  BY Parts DEF WriteBegin, CallTypes, Goto, Frame
<1> QED BY <1>1, <1>2, WriteApart

LEMMA WriteEndApart ==
  ASSUME BundleInv, Apart, NEW p \in Procs, WriteEnd(p)
  PROVE  Apart'
<1> DEFINE record == [tile |-> tile[p], image |-> image[p]]
<1>1. /\ pc[p] = "written" /\ pc'[p] = "index" /\ index' = index /\ Frame(p)
      /\ image'[p] = image[p] /\ tile'[p] = tile[p] /\ fd'[p] = fd[p] /\ pos'[p] = pos[p]
  BY Parts DEF WriteEnd, CallTypes, Goto, Frame
<1>2. PutRecord(p, record) /\ record \in Record \cup {Torn}
  BY <1>1, RecordType DEF WriteEnd
<1>3. record.image = image[p] /\ record.tile = tile[p]
  OBVIOUS
<1> HIDE DEF record
<1> QED BY <1>1, <1>2, <1>3, WriteApart

\* The new index, entry by entry.
LEMMA NewIndex ==
  ASSUME BundleInv, NEW p \in Procs, UpdateIndex(p)
  PROVE  /\ fd[p] \in Inodes /\ tile[p] \in Tiles /\ data' = data /\ bundle' = bundle
         /\ \A i \in Inodes, t \in Tiles :
              index'[i][t] = IF i = fd[p] /\ t = tile[p] THEN pos[p] ELSE index[i][t]
         /\ pc'[p] \in {"unlock", "append"} /\ Frame(p)
         /\ image'[p] = image[p] /\ fd'[p] = fd[p]
<1>1. CallOK(p) /\ FileOK(p) /\ pc[p] = "index"
  BY DEF BundleInv, LocalInv, UpdateIndex
<1>2. fd[p] \in Inodes /\ tile[p] \in todo[p] /\ todo[p] \subseteq Tiles
  BY <1>1, Parts DEF CallOK, FileOK, CallTypes, Opened, Writing
<1>3. index' = [index EXCEPT ![fd[p]][tile[p]] = pos[p]] /\ data' = data /\ bundle' = bundle
  BY DEF UpdateIndex
<1>4. \A i \in Inodes, t \in Tiles :
        index'[i][t] = IF i = fd[p] /\ t = tile[p] THEN pos[p] ELSE index[i][t]
  BY <1>2, <1>3, Parts DEF FileTypes
<1>5. pc'[p] \in {"unlock", "append"} /\ Frame(p)
  <2>1. CASE todo[p] = {tile[p]}
    BY <2>1, Parts DEF UpdateIndex, CallTypes, Goto, Frame
  <2>2. CASE todo[p] # {tile[p]}
    <3>1. PICK t \in todo'[p] : tile' = [tile EXCEPT ![p] = t]
      BY <2>2 DEF UpdateIndex
    <3> QED BY <2>2, <3>1, Parts DEF UpdateIndex, CallTypes, Goto, Frame
  <2> QED BY <2>1, <2>2
<1>6. image'[p] = image[p] /\ fd'[p] = fd[p]
  BY DEF UpdateIndex
<1> QED BY <1>2, <1>3, <1>4, <1>5, <1>6

\* The record of the writer is whole when its position goes into the index.
LEMMA UpdateIndexApart ==
  ASSUME BundleInv, Apart, NEW p \in Procs, UpdateIndex(p)
  PROVE  Apart'
<1>1. /\ fd[p] \in Inodes /\ tile[p] \in Tiles /\ data' = data
      /\ \A i \in Inodes, t \in Tiles :
           index'[i][t] = IF i = fd[p] /\ t = tile[p] THEN pos[p] ELSE index[i][t]
      /\ pc'[p] \in {"unlock", "append"} /\ Frame(p)
  BY NewIndex
<1>2. PosOK(p) /\ WriteOK(p) /\ pc[p] = "index"
  BY DEF BundleInv, LocalInv, Apart, UpdateIndex
<1>3. pos[p] # 0 => Whole(data[fd[p]][pos[p]], tile[p])
  BY <1>2 DEF PosOK, WriteOK, Found, Whole
<1>4. IndexIsWhole'
  BY <1>1, <1>3 DEF Apart, IndexIsWhole, Whole
<1>5. OneWriter'
  BY <1>1, <1>2, StillOneWriter DEF Locked
<1>6. ReadOK(p)' /\ WriteOK(p)'
  BY <1>1 DEF ReadOK, WriteOK
<1>7. ASSUME NEW q \in Procs \ {p} PROVE (ReadOK(q) /\ WriteOK(q))'
  <2>1. ReadOK(q) /\ WriteOK(q)
    BY DEF Apart
  <2>2. /\ pc'[q] = pc[q] /\ image'[q] = image[q] /\ tile'[q] = tile[q]
        /\ fd'[q] = fd[q] /\ pos'[q] = pos[q]
    BY <1>1 DEF Frame
  <2> QED BY <1>1, <2>1, <2>2 DEF ReadOK, WriteOK, Found, Whole
<1> QED BY <1>4, <1>5, <1>6, <1>7 DEF Apart

LEMMA ApartStep == BundleInv /\ ApartInv /\ [Next]_vars => ApartInv'
<1> SUFFICES ASSUME BundleInv, ApartInv, [Next]_vars, ~shared' PROVE Apart'
  BY DEF ApartInv
<1>1. CASE Next
  <2>1. PICK p \in Procs : Call(p) \/ Step(p) \/ Die(p)
    BY <1>1 DEF Next
  <2>2. CASE Quiet(p)
    BY <2>2, QuietApart
  <2>3. CASE Create(p) \/ Lookup(p) \/ Write(p)
    <3>1. shared' = shared
      BY <2>3 DEF Create, Lookup, Write, SeekEnd, WriteBegin, WriteEnd, UpdateIndex, lockVars
    <3>2. Apart
      BY <3>1 DEF ApartInv
    <3> QED BY <2>3, <3>2, CreateApart, LookupApart, SeekEndApart, WriteBeginApart,
               WriteEndApart, UpdateIndexApart DEF Write
  <2> QED BY <2>1, <2>2, <2>3 DEF Step, Quiet
<1>2. CASE UNCHANGED vars
  BY <1>2 DEF vars, fileVars, lockVars, callVars, ApartInv, Apart, OneWriter, IndexIsWhole,
     ReadOK, WriteOK, Found, Whole
<1> QED BY <1>1, <1>2

LEMMA AlwaysApartInv == Spec => []ApartInv
<1>1. Init => ApartInv
  BY DEF Init, ApartInv, Apart, OneWriter, IndexIsWhole, ReadOK, WriteOK, Locked
<1> QED BY <1>1, ApartStep, AlwaysBundleInv, PTL DEF Spec

\* A load returns neither half an image nor another tile's, without any lock,
\* as long as the lock kept the writers apart and whoever died half way.
THEOREM WholeTiles == Spec => []WholeTilesUnlessShared
<1>1. ASSUME BundleInv, ApartInv PROVE WholeTilesUnlessShared
  <2> SUFFICES ASSUME Apart, NEW p \in Procs, pc[p] = "read"
               PROVE  Found(p) # Torn /\ Found(p).tile = tile[p]
    BY <1>1 DEF ApartInv, WholeTilesUnlessShared, ReadersGetWholeTiles
  <2>1. Whole(Found(p), tile[p])
    BY DEF Apart, ReadOK
  <2> QED BY <2>1 DEF Whole, Torn
<1> QED BY <1>1, AlwaysBundleInv, AlwaysApartInv, PTL

-----------------------------------------------------------------------------
(* CurrentInv: one bundle, whose index says what was stored last *)

\* Every open file is the bundle.
FdOK(p) == pc[p] \in Opened => fd[p] = bundle

\* What a load is about to return is one of the images its tile had meanwhile.
SeenOK(p) == pc[p] = "read" => Found(p).image \in seen[p]

Current == Content = last /\ \A p \in Procs : FdOK(p) /\ SeenOK(p)
CurrentInv == shared \/ recreated \/ Current

\* The images a load could return only get more.
LEMMA SeenGrows ==
  ASSUME BundleInv, Watch, NEW q \in Procs, pc[q] = "read", pc'[q] = "read"
  PROVE  seen[q] \subseteq seen'[q]
  BY DEF Watch, Loading

LEMMA ContentCases ==
  ASSUME FileTypes, NEW t \in Tiles
  PROVE  Content[t] = IF bundle = NoInode \/ index[bundle][t] = 0
                      THEN NoImage ELSE data[bundle][index[bundle][t]].image
  BY DEF Content, ImageIn

\* The same file with the same content, and p answers for its own call.
LEMMA SameContent ==
  ASSUME BundleInv, Watch, Current, NEW p \in Procs, Frame(p), bundle' = bundle,
         Content' = Content, last' = last,
         \A q \in Procs : pc[q] = "read" => data'[fd[q]][pos[q]] = data[fd[q]][pos[q]],
         FdOK(p)', SeenOK(p)'
  PROVE  Current'
<1>1. ASSUME NEW q \in Procs \ {p} PROVE (FdOK(q) /\ SeenOK(q))'
  <2>1. FdOK(q) /\ SeenOK(q)
    BY DEF Current
  <2>2. pc'[q] = pc[q] /\ fd'[q] = fd[q] /\ pos'[q] = pos[q]
    BY DEF Frame
  <2>3. pc[q] = "read" => seen[q] \subseteq seen'[q]
    BY <2>2, SeenGrows
  <2> QED BY <2>1, <2>2, <2>3 DEF FdOK, SeenOK, Found
<1> QED BY <1>1 DEF Current

LEMMA QuietCurrent ==
  ASSUME BundleInv, Watch, Current, NEW p \in Procs, Quiet(p)
  PROVE  Current'
<1>1. QuietFrame(p)
  BY QuietActions
<1>2. bundle' = bundle /\ data' = data /\ Content' = Content /\ last' = last
  BY <1>1 DEF QuietFrame, fileVars, Content, ImageIn
<1>3. FdOK(p)'
  BY <1>1, <1>2 DEF QuietFrame, Current, FdOK
<1>4. SeenOK(p)'
  BY <1>1 DEF QuietFrame, Harmless, SeenOK
<1> QED BY <1>1, <1>2, <1>3, <1>4, SameContent DEF QuietFrame

LEMMA SeekEndCurrent ==
  ASSUME BundleInv, Watch, Current, NEW p \in Procs, SeekEnd(p)
  PROVE  Current'
<1>1. /\ Frame(p) /\ bundle' = bundle /\ data' = data /\ Content' = Content /\ last' = last
      /\ pc[p] = "append" /\ pc'[p] = "write" /\ fd'[p] = fd[p]
  BY Parts DEF SeekEnd, CallTypes, Frame, Goto, fileVars, Content, ImageIn
<1>2. FdOK(p)' /\ SeenOK(p)'
  BY <1>1 DEF Current, FdOK, SeenOK, Opened, Writing
<1> QED BY <1>1, <1>2, SameContent

\* The image at the position in the index is the one the tile has now.
LEMMA LookupCurrent ==
  ASSUME BundleInv, Watch, Current, NEW p \in Procs, Lookup(p)
  PROVE  Current'
<1>1. /\ bundle' = bundle /\ data' = data /\ Content' = Content /\ last' = last
      /\ pc[p] = "lookup"
  BY DEF Lookup, fileVars, Content, ImageIn
<1>2. CASE index[fd[p]][tile[p]] = 0
  <2>1. pc'[p] = "idle" /\ Frame(p)
    BY <1>2, EndCall DEF Lookup
  <2>2. FdOK(p)' /\ SeenOK(p)'
    BY <2>1 DEF FdOK, SeenOK, Opened, Writing
  <2> QED BY <1>1, <2>1, <2>2, SameContent
<1>3. CASE index[fd[p]][tile[p]] # 0
  <2>1. /\ pc'[p] = "read" /\ fd'[p] = fd[p] /\ tile'[p] = tile[p]
        /\ pos'[p] = index[fd[p]][tile[p]] /\ Frame(p)
    BY <1>3, Parts DEF Lookup, CallTypes, Goto, Frame
  <2>2. CallOK(p) /\ FileOK(p) /\ fd[p] = bundle
    BY <1>1 DEF BundleInv, LocalInv, Current, FdOK, Opened
  <2>3. fd[p] \in Inodes /\ tile[p] \in Tiles
    BY <1>1, <2>2 DEF CallOK, FileOK, Loading, Opened
  <2>4. Content[tile[p]] = data[fd[p]][index[fd[p]][tile[p]]].image
    BY <1>3, <2>2, <2>3, ContentCases, Parts, BundleAssumption
  <2>5. Content'[tile'[p]] \in seen'[p]
    BY <2>1 DEF Watch, Loading
  <2>6. FdOK(p)' /\ SeenOK(p)'
    BY <1>1, <2>1, <2>2, <2>4, <2>5 DEF FdOK, SeenOK, Found
  <2> QED BY <1>1, <2>1, <2>6, SameContent
<1> QED BY <1>2, <1>3

\* The first bundle is as empty as no bundle.
LEMMA CreateCurrent ==
  ASSUME BundleInv, Watch, Current, NEW p \in Procs, Create(p), ~recreated'
  PROVE  Current'
<1>1. PICK i \in Inodes : /\ Unused(i) /\ bundle' = i
                          /\ index' = [index EXCEPT ![i] = [t \in Tiles |-> 0]]
  BY DEF Create
<1>2. bundle = NoInode /\ pc[p] = "create" /\ pc'[p] = "lock" /\ last' = last /\ Frame(p)
  BY Parts DEF Create, CallTypes, Goto, Frame
<1>3. Content = [t \in Tiles |-> NoImage]
  BY <1>2 DEF Content, ImageIn
<1>4. \A t \in Tiles : index'[i][t] = 0
  BY <1>1, Parts DEF FileTypes
<1>5. Content' = [t \in Tiles |-> NoImage]
  BY <1>1, <1>4 DEF Content, ImageIn
<1>6. ASSUME NEW q \in Procs PROVE (FdOK(q) /\ SeenOK(q))'
  <2>1. pc[q] \notin Opened
    BY <1>2, BundleAssumption DEF BundleInv, LocalInv, FileOK, Current, FdOK
  <2>2. pc'[q] \notin Opened
    BY <1>2, <2>1 DEF Frame, Opened, Writing
  <2> QED BY <2>2 DEF FdOK, SeenOK, Opened
<1> QED BY <1>2, <1>3, <1>5, <1>6 DEF Current

\* Records that the index does not point at are not part of the content.
LEMMA WriteCurrent ==
  ASSUME BundleInv, Apart, Watch, Current, NEW p \in Procs, WriteBegin(p) \/ WriteEnd(p)
  PROVE  Current'
<1> DEFINE record == IF pc[p] = "write" THEN Torn ELSE [tile |-> tile[p], image |-> image[p]]
<1>1. /\ pc[p] \in {"write", "written"} /\ pc'[p] \in {"written", "index"} /\ Frame(p)
      /\ bundle' = bundle /\ index' = index /\ last' = last /\ fd'[p] = fd[p]
  BY Parts DEF WriteBegin, WriteEnd, CallTypes, Goto, Frame
<1>2. PutRecord(p, record) /\ record \in Record \cup {Torn}
  BY RecordType DEF WriteBegin, WriteEnd
<1> HIDE DEF record
<1>3. Untouched
  BY <1>1, <1>2, WriteUntouched
<1>4. Content' = Content
  <2>1. ASSUME NEW t \in Tiles PROVE ImageIn(bundle, t)' = ImageIn(bundle, t)
    BY <1>1, <1>3, Parts DEF ImageIn, Untouched, FileTypes
  <2> QED BY <1>1, <2>1 DEF Content
<1>5. FdOK(p)' /\ SeenOK(p)'
  BY <1>1 DEF Current, FdOK, SeenOK, Opened, Writing
<1> QED BY <1>1, <1>3, <1>4, <1>5, SameContent DEF Untouched

\* The tile gets the image of the writer, the other tiles keep theirs.
LEMMA UpdateIndexCurrent ==
  ASSUME BundleInv, Apart, Watch, Current, NEW p \in Procs, UpdateIndex(p)
  PROVE  Current'
<1>1. /\ fd[p] \in Inodes /\ tile[p] \in Tiles /\ data' = data /\ bundle' = bundle
      /\ \A i \in Inodes, t \in Tiles :
           index'[i][t] = IF i = fd[p] /\ t = tile[p] THEN pos[p] ELSE index[i][t]
      /\ pc'[p] \in {"unlock", "append"} /\ Frame(p) /\ fd'[p] = fd[p]
  BY NewIndex
<1>2. PosOK(p) /\ WriteOK(p) /\ FdOK(p) /\ pc[p] = "index"
  BY DEF BundleInv, LocalInv, Apart, Current, UpdateIndex
<1>3. bundle = fd[p] /\ bundle # NoInode
  BY <1>1, <1>2, BundleAssumption DEF FdOK, Opened, Writing
<1>4. ASSUME NEW t \in Tiles PROVE Content'[t] = last'[t]
  <2>1. last'[t] = IF t = tile[p] THEN image[p] ELSE last[t]
    BY Parts DEF UpdateIndex, CallTypes
  <2>2. Content'[t] = IF index'[bundle][t] = 0 THEN NoImage
                      ELSE data[bundle][index'[bundle][t]].image
    BY <1>1, <1>3 DEF Content, ImageIn
  <2>3. CASE t # tile[p]
    <3>1. index'[bundle][t] = index[bundle][t]
      BY <1>1, <1>3, <2>3
    <3>2. Content'[t] = Content[t]
      BY <1>3, <2>2, <3>1 DEF Content, ImageIn
    <3> QED BY <2>1, <2>3, <3>2 DEF Current
  <2>4. CASE t = tile[p]
    <3>1. index'[bundle][t] = pos[p]
      BY <1>1, <1>3, <2>4
    <3>2. CASE image[p] = NoImage
      BY <1>2, <2>1, <2>2, <2>4, <3>1, <3>2 DEF PosOK
    <3>3. CASE image[p] # NoImage
      <4>1. Found(p).image = image[p] /\ pos[p] # 0
        <5>1. data[fd[p]] \in Seq(Record \cup {Torn}) /\ pos[p] \in DOMAIN data[fd[p]]
          BY <1>1, <1>2, <3>3, Parts DEF PosOK, FileTypes
        <5> QED BY <1>2, <3>3, <5>1 DEF WriteOK
      <4> QED BY <1>3, <2>1, <2>2, <2>4, <3>1, <4>1 DEF Found
    <3> QED BY <3>2, <3>3
  <2> QED BY <2>3, <2>4
<1>5. Content' = last'
  <2>1. last' = [t \in Tiles |-> last'[t]]
    BY Parts DEF UpdateIndex, CallTypes
  <2>2. Content' = [t \in Tiles |-> Content'[t]]
    BY DEF Content
  <2> QED BY <1>4, <2>1, <2>2
<1>6. (FdOK(p) /\ SeenOK(p))'
  BY <1>1, <1>3 DEF FdOK, SeenOK
<1>7. ASSUME NEW q \in Procs \ {p} PROVE (FdOK(q) /\ SeenOK(q))'
  <2>1. FdOK(q) /\ SeenOK(q)
    BY DEF Current
  <2>2. pc'[q] = pc[q] /\ fd'[q] = fd[q] /\ pos'[q] = pos[q]
    BY <1>1 DEF Frame
  <2>3. pc[q] = "read" => seen[q] \subseteq seen'[q]
    BY <2>2, SeenGrows
  <2> QED BY <1>1, <2>1, <2>2, <2>3 DEF FdOK, SeenOK, Found
<1> QED BY <1>5, <1>6, <1>7 DEF Current

LEMMA CurrentStep == BundleInv /\ ApartInv /\ CurrentInv /\ [Next]_vars => CurrentInv'
<1> SUFFICES ASSUME BundleInv, ApartInv, CurrentInv, [Next]_vars, ~shared', ~recreated'
             PROVE Current'
  BY DEF CurrentInv
<1>1. CASE Next
  <2>1. PICK p \in Procs : Call(p) \/ Step(p) \/ Die(p)
    BY <1>1 DEF Next
  <2>2. Watch
    BY <1>1 DEF Next
  <2>3. CASE Quiet(p)
    <3>1. QuietFrame(p)
      BY <2>3, QuietActions
    <3>2. ~shared
      BY <3>1 DEF QuietFrame
    <3>3. ~recreated
      BY <3>1 DEF QuietFrame
    <3> QED BY <2>2, <2>3, <3>2, <3>3, QuietCurrent DEF CurrentInv
  <2>4. CASE Create(p) \/ Lookup(p) \/ Write(p)
    <3>1. ~shared
      BY <2>4 DEF Create, Lookup, Write, SeekEnd, WriteBegin, WriteEnd, UpdateIndex, lockVars
    <3>2. ~recreated
      BY <2>4 DEF Create, Lookup, Write, SeekEnd, WriteBegin, WriteEnd, UpdateIndex
    <3>3. Apart /\ Current
      BY <3>1, <3>2 DEF ApartInv, CurrentInv
    <3> QED BY <2>2, <2>4, <3>3, CreateCurrent, LookupCurrent, SeekEndCurrent, WriteCurrent,
               UpdateIndexCurrent DEF Write
  <2> QED BY <2>1, <2>3, <2>4 DEF Step, Quiet
<1>2. CASE UNCHANGED vars
  BY <1>2 DEF vars, fileVars, lockVars, callVars, CurrentInv, Current, FdOK, SeenOK, Found,
     Content, ImageIn
<1> QED BY <1>1, <1>2

LEMMA AlwaysCurrentInv == Spec => []CurrentInv
<1>1. Init => CurrentInv
  BY DEF Init, CurrentInv, Current, FdOK, SeenOK, Content, ImageIn, Opened, Writing
<1> QED BY <1>1, CurrentStep, AlwaysBundleInv, AlwaysApartInv, PTL DEF Spec

\* A load returns what the cache had for its tile at some moment of the call.
THEOREM LoadsAreCurrent == Spec => []ReadsAreCurrent
<1>1. CurrentInv => ReadsAreCurrent
  BY DEF CurrentInv, Current, SeenOK, ReadsAreCurrent
<1> QED BY <1>1, AlwaysCurrentInv, PTL

\* Every tile is as the last store or removal of it left it.
THEOREM LastStoreWins == Spec => []StoresLast
<1>1. CurrentInv => StoresLast
  BY DEF CurrentInv, Current, StoresLast
<1> QED BY <1>1, AlwaysCurrentInv, PTL
=============================================================================
