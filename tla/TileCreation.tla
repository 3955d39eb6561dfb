---------------------------- MODULE TileCreation ----------------------------
(***************************************************************************)
(* How concurrent requests load tiles through a cache and create missing   *)
(* or expired ones: TileManager (cache/tile_manager.py) and TileCreator    *)
(* (cache/tile_creator.py) over one cache level shared by all processes.   *)
(*                                                                         *)
(* The lock of a tile is the abstract lock of LockSpec, which FileLock     *)
(* implements.  The grid is one row of tiles 0 .. NTiles-1; a meta tile is *)
(* a block of MetaSize neighbours.  An image is known by the time at which *)
(* the source rendered it; a stored tile also has the mtime of the store.  *)
(* Requests have modes of their own: mapproxy-seed never minimizes, and an *)
(* application whose configuration was changed (AppCache) is replaced      *)
(* while requests of the old one still run.                                *)
(***************************************************************************)
EXTENDS Naturals, Integers, FiniteSets

CONSTANTS
  Requests,    \* server threads and processes; each serves request by request
  NTiles,      \* number of tiles
  MetaSize,    \* tiles in a meta tile
  Mode,        \* Mode[r]: "single": no meta_grid; "meta"; "minimal":
               \* minimize_meta_requests; "bulk": bulk_meta_tiles
  Backend,     \* "file", "sqlite" or "s3": how the cache fills a Tile object
  LevelZero,   \* TRUE: the tiles are those of level 0
  StrictLock,  \* TRUE: tile locks are not removed on unlock (Windows)
  Outcomes,    \* what the source may answer
  StoreFailing,\* TRUE: the cache may fail to store
  Removing,    \* TRUE: a cleanup may remove tiles meanwhile
  MaxTime      \* bound on the clock

ASSUME TileAssumption == NTiles \in Nat \ {0} /\ MetaSize \in Nat \ {0} /\ MaxTime \in Nat \ {0, 1}
ASSUME ModeAssumption ==
  /\ Mode \in [Requests -> {"single", "meta", "minimal", "bulk"}]
  /\ Backend \in {"file", "sqlite", "s3"}
  /\ {LevelZero, StrictLock, StoreFailing, Removing} \subseteq BOOLEAN
  /\ Outcomes \subseteq {"image", "uncacheable", "blank", "error",
                        "authorize_stale", "authorize_stale_cache"}

Tiles == 0 .. NTiles - 1
Block(t) == t \div MetaSize

\* A lock file is named by a tile; tiles of a meta grid share that of the first.
MainTile(t) == MetaSize * Block(t)
Keys == Tiles

VARIABLES
  now,      \* clock; mtimes and source images carry it
  expire,   \* expire_timestamp(): a tile with mtime <= expire is stale; or Never
  cache,    \* cache[t]: stored image and mtime
  holders,  \* lock state, see LockSpec
  solved,
  pc,       \* pc[r]: step of the request
  want,     \* want[r]: tiles of the request
  todo,     \* todo[r]: tiles the current loop has not handled yet
  missing,  \* missing[r]: uncached_tiles
  unit,     \* unit[r]: tiles of the (meta) tile being created
  key,      \* key[r]: lock file of the unit
  after,    \* after[r]: what follows the unlock
  made,     \* made[r][t]: image to be stored
  obj,      \* obj[r][t]: image_result and timestamp of the Tile objects
  since,    \* since[r]: history, expire when the request arrived
  excused   \* excused[r]: history, wanted tiles the source did not deliver to r

reqVars == <<pc, want, todo, missing, unit, key, after, made, obj, since, excused>>
vars == <<now, expire, cache, holders, solved, reqVars>>

Lock == INSTANCE LockSpec WITH Procs <- Requests, Paths <- Keys, Strict <- StrictLock

NoImage == 0       \* image_result is None
AtLocation == -1   \* ImageResult(location): the file is read when encoded
ErrorImage == -2   \* single color image of the source's error handler
Rendered == 1 .. MaxTime
Stored == {NoImage, ErrorImage} \cup Rendered
Images == Stored \cup {AtLocation}
None == [img |-> NoImage, ts |-> 0]
NoImages == [t \in Tiles |-> NoImage]
Never == 0         \* expire_timestamp() is None

States == {"idle", "load", "check", "create", "lock", "recheck", "query",
           "store", "unlock", "reload", "answer", "done", "failed"}
\* A request in one of these states is in the lock's critical section.
Locked == {"recheck", "query", "store", "unlock"}
\* Between the re-check and the end of the store: the request creates.
Creating(r) == pc[r] \in {"query", "store"}

-----------------------------------------------------------------------------
(* The cache backends: load_tile, is_cached and load_tile_metadata *)

\* A new Tile object for the record would count as cached.
Fresh(rec) == rec # None /\ rec.ts > expire

\* The tiles of a loop that one access covers: sqlite caches use one statement
\* to load and one transaction to store.
Batch(r, t) == IF Backend = "sqlite" THEN todo[r] ELSE {t}

\* cache.load_tile: a tile that has its image is left alone.  The file cache
\* only remembers the location.
Loaded(o, t) ==
  IF o.img # NoImage \/ cache[t] = None THEN o
  ELSE IF Backend = "file" THEN [o EXCEPT !.img = AtLocation]
  ELSE cache[t]

\* cache.load_tiles: at level 0 a sqlite cache takes the level for missing and
\* loads nothing.
BatchLoaded(o, t) == IF Backend = "sqlite" /\ LevelZero THEN o ELSE Loaded(o, t)

\* Mutant: is_cached asks whether the row exists and does not load it.
SeenWithoutImage(o, t) == [o EXCEPT !.ts = cache[t].ts]

\* The Tile object after cache.is_cached and cache.load_tile_metadata.
\* FileCache stats the file each time; a sqlite cache loads the tile unless
\* the object has an image; S3Cache trusts the timestamp of such an object.
Seen(o, t) ==
  CASE Backend = "file" -> [o EXCEPT !.ts = cache[t].ts]
    [] Backend = "sqlite" -> Loaded(o, t)
    [] Backend = "s3" ->
         IF o.img # NoImage \/ cache[t] = None THEN o ELSE [o EXCEPT !.ts = cache[t].ts]

Exists(o, t) == o.img # NoImage \/ cache[t] # None

\* Mutant: the refresh time is not looked at.
ExistsOnly(o, t) == Exists(o, t)

\* TileManager.is_cached and TileManager.is_stale.
IsCached(o, t) == Exists(o, t) /\ (expire = Never \/ Seen(o, t).ts > expire)
IsStale(o, t) == Exists(o, t) /\ ~IsCached(o, t)

-----------------------------------------------------------------------------
Init ==
  /\ now = 2
  /\ expire \in {0, 1}
  /\ cache \in [Tiles -> {None, [img |-> 1, ts |-> 1]}]
  /\ Lock!Init
  /\ pc = [r \in Requests |-> "idle"]
  /\ want = [r \in Requests |-> {}]
  /\ todo = [r \in Requests |-> {}]
  /\ missing = [r \in Requests |-> {}]
  /\ unit = [r \in Requests |-> {}]
  /\ key = [r \in Requests |-> 0]
  /\ after = [r \in Requests |-> "create"]
  /\ made = [r \in Requests |-> NoImages]
  /\ obj = [r \in Requests |-> [t \in Tiles |-> None]]
  /\ since = [r \in Requests |-> 0]
  /\ excused = [r \in Requests |-> {}]

Goto(r, state) == pc' = [pc EXCEPT ![r] = state]
SetObj(r, t, o) == obj' = [obj EXCEPT ![r][t] = o]
Outside == UNCHANGED <<now, expire, holders, solved>>

\* The variables of a unit go out of scope.
DropUnit(r) ==
  /\ unit' = [unit EXCEPT ![r] = {}]
  /\ key' = [key EXCEPT ![r] = 0]
  /\ after' = [after EXCEPT ![r] = "create"]
  /\ made' = [made EXCEPT ![r] = NoImages]

\* A new call with new Tile objects, or the end of one that failed.
Restart(r, state, tiles, time) ==
  /\ Goto(r, state)
  /\ want' = [want EXCEPT ![r] = tiles]
  /\ todo' = [todo EXCEPT ![r] = tiles]
  /\ missing' = [missing EXCEPT ![r] = {}]
  /\ obj' = [obj EXCEPT ![r] = [t \in Tiles |-> None]]
  /\ since' = [since EXCEPT ![r] = time]
  /\ excused' = [excused EXCEPT ![r] = {}]
  /\ DropUnit(r)
Fail(r) == Restart(r, "failed", {}, 0)

\* load_tile_coords is called with a collection of tiles.
Arrive(r, tiles) ==
  /\ pc[r] \in {"idle", "done", "failed"}
  /\ Restart(r, "load", tiles, expire)
  /\ UNCHANGED cache /\ Outside

\* A step of cache.load_tiles, which loads expired tiles as well.
Load(r, t) ==
  /\ pc[r] = "load" /\ t \in todo[r]
  /\ obj' = [obj EXCEPT ![r] = [u \in Tiles |->
               IF u \in Batch(r, t) THEN BatchLoaded(@[u], u) ELSE @[u]]]
  /\ IF todo[r] = Batch(r, t)
       THEN Goto(r, "check") /\ todo' = [todo EXCEPT ![r] = want[r]]
       ELSE UNCHANGED pc /\ todo' = [todo EXCEPT ![r] = @ \ {t}]
  /\ UNCHANGED <<cache, want, missing, unit, key, after, made, since, excused>> /\ Outside

\* _is_tile_missing for one tile.
Check(r, t) ==
  /\ pc[r] = "check" /\ t \in todo[r]
  /\ SetObj(r, t, Seen(obj[r][t], t))
  /\ missing' = [missing EXCEPT ![r] = IF IsCached(obj[r][t], t) THEN @ ELSE @ \cup {t}]
  /\ todo' = [todo EXCEPT ![r] = @ \ {t}]
  /\ IF todo[r] = {t} THEN Goto(r, "create") ELSE UNCHANGED pc
  /\ UNCHANGED <<cache, want, unit, key, after, made, since, excused>> /\ Outside

\* create_tiles: the units the missing tiles are grouped into, with the lock
\* of each.  A minimal meta tile spans all of them and is locked by its first.
MetaUnit(t) == [tiles |-> {u \in Tiles : Block(u) = Block(t)}, lock |-> MainTile(t)]
MinimalUnit(tiles, lo) ==
  [tiles |-> {u \in Tiles : lo <= u /\ \E hi \in tiles : u <= hi}, lock |-> MainTile(lo)]
Units(mode, tiles) ==
  CASE mode = "single" -> {[tiles |-> {t}, lock |-> t] : t \in tiles}
    [] mode \in {"meta", "bulk"} \/ (mode = "minimal" /\ Cardinality(tiles) = 1) ->
         {MetaUnit(t) : t \in tiles}
    [] OTHER -> {MinimalUnit(tiles, lo) : lo \in {t \in tiles : \A u \in tiles : t <= u}}

\* Mutant: a created unit stays on the list.
NextUnitAgain(r) ==
  /\ pc[r] = "create" /\ missing[r] # {}
  /\ \E u \in Units(Mode[r], missing[r]) :
       /\ unit' = [unit EXCEPT ![r] = u.tiles]
       /\ key' = [key EXCEPT ![r] = u.lock]
  /\ Goto(r, "lock")
  /\ UNCHANGED <<cache, want, todo, missing, after, made, obj, since, excused>> /\ Outside

NextUnit(r) ==
  /\ pc[r] = "create" /\ missing[r] # {}
  /\ \E u \in Units(Mode[r], missing[r]) :
       /\ unit' = [unit EXCEPT ![r] = u.tiles]
       /\ key' = [key EXCEPT ![r] = u.lock]
       /\ missing' = [missing EXCEPT ![r] = @ \ u.tiles]
  /\ Goto(r, "lock")
  /\ UNCHANGED <<cache, want, todo, after, made, obj, since, excused>> /\ Outside

\* All units are created: load_tile_coords returns.
Created(r) ==
  /\ pc[r] = "create" /\ missing[r] = {}
  /\ Goto(r, "answer")
  /\ todo' = [todo EXCEPT ![r] = want[r]]
  /\ UNCHANGED <<cache, want, missing, unit, key, after, made, obj, since, excused>>
  /\ Outside

\* with self.tile_mgr.lock(tile): the lock is granted.
Acquire(r) ==
  /\ pc[r] = "lock"
  /\ Lock!Acquire(r, key[r])
  /\ Goto(r, "recheck")
  /\ UNCHANGED <<now, expire, cache, want, todo, missing, unit, key, after, made,
                 obj, since, excused>>

\* Mutant: lock() returns after lock_timeout instead of raising.
EnterAnyway(r) ==
  /\ pc[r] = "lock" /\ holders[key[r]] # {}
  /\ holders' = [holders EXCEPT ![key[r]] = @ \cup {r}]
  /\ Goto(r, "recheck")
  /\ UNCHANGED <<now, expire, cache, solved, want, todo, missing, unit, key, after,
                 made, obj, since, excused>>

\* The lock is busy for lock_timeout seconds: LockTimeout ends the request.
LockTimeout(r) ==
  /\ pc[r] = "lock" /\ holders[key[r]] # {}
  /\ Fail(r)
  /\ UNCHANGED cache /\ Outside

\* Mutant: no second look.
NoRecheck(r) ==
  /\ pc[r] = "recheck"
  /\ Goto(r, "query")
  /\ after' = [after EXCEPT ![r] = "create"]
  /\ UNCHANGED <<cache, want, todo, missing, unit, key, made, obj, since, excused>>
  /\ Outside

\* What follows the unlock when the second look finds everything: a meta tile
\* is loaded, but _create_bulk_meta_tile makes a TileCollection of Tile objects,
\* whose keys must be coordinates: the request ends with a TypeError.
AllCached(r) ==
  CASE Mode[r] = "single" -> "create"
    [] Mode[r] = "bulk" -> "failed"
    [] OTHER -> "reload"

\* The second look, under the lock.  _create_single_tile uses the object that
\* was loaded before; a meta tile asks for each of its tiles with a new one.
Recheck(r) ==
  /\ pc[r] = "recheck"
  /\ IF Mode[r] = "single"
       THEN \E t \in unit[r] :
              LET seen == Seen(obj[r][t], t) IN
              IF IsCached(obj[r][t], t)
                THEN Goto(r, "unlock") /\ SetObj(r, t, Loaded(seen, t))
                ELSE Goto(r, "query") /\ SetObj(r, t, seen)
       ELSE /\ Goto(r, IF \A t \in unit[r] : Fresh(cache[t]) THEN "unlock" ELSE "query")
            /\ UNCHANGED obj
  /\ after' = [after EXCEPT ![r] = AllCached(r)]
  /\ UNCHANGED <<cache, want, todo, missing, unit, key, made, since, excused>> /\ Outside

-----------------------------------------------------------------------------
(* The sources have answered.  Each action is one outcome and its handling. *)

Answered(r, outcome) == pc[r] = "query" /\ outcome \in Outcomes

\* Images for all tiles of the unit; results replace those of wanted tiles.
TakeImage(r, img) ==
  obj' = [obj EXCEPT ![r] = [t \in Tiles |->
            IF t \in unit[r] \cap want[r] THEN [@[t] EXCEPT !.img = img] ELSE @[t]]]

\* The images of these tiles go to store_tile or store_tiles.
Keep(r, tiles, img) ==
  /\ made' = [made EXCEPT ![r] = [t \in Tiles |-> IF t \in tiles THEN img[t] ELSE NoImage]]
  /\ todo' = [todo EXCEPT ![r] = tiles]
  /\ Goto(r, IF tiles = {} THEN "unlock" ELSE "store")

\* The source has no image, or that of an error, for these tiles.
Excuse(r, tiles) == excused' = [excused EXCEPT ![r] = @ \cup (tiles \cap want[r])]

\* An error image without authorize_stale is an image like any other.
QueryImage(r) ==
  /\ Answered(r, "image") /\ Mode[r] # "bulk"
  /\ TakeImage(r, now)
  /\ Keep(r, unit[r], [t \in unit[r] |-> now])
  /\ after' = [after EXCEPT ![r] = "create"]
  /\ UNCHANGED <<cache, want, missing, unit, key, since, excused>> /\ Outside

\* The image must not be cached: no store.
QueryUncacheable(r) ==
  /\ Answered(r, "uncacheable") /\ Mode[r] # "bulk"
  /\ TakeImage(r, now)
  /\ Goto(r, "unlock")
  /\ after' = [after EXCEPT ![r] = "create"]
  /\ UNCHANGED <<cache, want, todo, missing, unit, key, made, since, excused>> /\ Outside

\* BlankImageError: no image, nothing is created.
QueryBlank(r) ==
  /\ Answered(r, "blank") /\ Mode[r] # "bulk"
  /\ Goto(r, "unlock")
  /\ after' = [after EXCEPT ![r] = "create"]
  /\ Excuse(r, unit[r])
  /\ UNCHANGED <<cache, want, todo, missing, unit, key, made, obj, since>> /\ Outside

\* SourceError: a single tile falls back to a stale one, otherwise it is raised.
QueryError(r) ==
  /\ Answered(r, "error")
  /\ IF Mode[r] = "single" /\ \E t \in unit[r] : IsStale(obj[r][t], t)
       THEN /\ \E t \in unit[r] : SetObj(r, t, Loaded(Seen(obj[r][t], t), t))
            /\ after' = [after EXCEPT ![r] = "create"]
       ELSE UNCHANGED obj /\ after' = [after EXCEPT ![r] = "failed"]
  /\ Goto(r, "unlock")
  /\ Excuse(r, unit[r])
  /\ UNCHANGED <<cache, want, todo, missing, unit, key, made, since>> /\ Outside

\* Mutant: the error image is used although there is a stale tile.
ErrorImageFirst(r) ==
  /\ Answered(r, "authorize_stale")
  /\ TakeImage(r, ErrorImage)
  /\ Keep(r, {}, NoImages)
  /\ after' = [after EXCEPT ![r] = "create"]
  /\ Excuse(r, unit[r])
  /\ UNCHANGED <<cache, want, missing, unit, key, since>> /\ Outside

\* The error handler's image with authorize_stale: a single tile prefers the
\* stale tile of the cache; a meta tile is split, and both are stored if the
\* handler also says cache, as any other image.
QueryErrorImage(r) ==
  /\ \E outcome \in {"authorize_stale", "authorize_stale_cache"} :
       /\ Answered(r, outcome) /\ Mode[r] # "bulk"
       /\ IF Mode[r] = "single" /\ \E t \in unit[r] : IsStale(obj[r][t], t)
            THEN /\ \E t \in unit[r] : SetObj(r, t, Loaded(Seen(obj[r][t], t), t))
                 /\ Keep(r, {}, NoImages)
            ELSE /\ TakeImage(r, ErrorImage)
                 /\ Keep(r, IF outcome = "authorize_stale_cache" THEN unit[r] ELSE {},
                         [t \in unit[r] |-> ErrorImage])
  /\ after' = [after EXCEPT ![r] = "create"]
  /\ Excuse(r, unit[r])
  /\ UNCHANGED <<cache, want, missing, unit, key, since>> /\ Outside

\* _create_bulk_meta_tile asks for each tile on its own: some may be blank,
\* some uncacheable; the cacheable ones are stored together.
QueryBulk(r) ==
  /\ pc[r] = "query" /\ Mode[r] = "bulk"
  /\ \E got \in [unit[r] -> Outcomes \ {"error"}] :
       LET of(outcomes) == {t \in unit[r] : got[t] \in outcomes}
           errors == of({"authorize_stale", "authorize_stale_cache"})
       IN
       /\ obj' = [obj EXCEPT ![r] = [t \in Tiles |->
            CASE t \in want[r] \cap of({"image", "uncacheable"}) -> [@[t] EXCEPT !.img = now]
              [] t \in want[r] \cap errors -> [@[t] EXCEPT !.img = ErrorImage]
              [] OTHER -> @[t]]]
       /\ Keep(r, of({"image", "authorize_stale_cache"}),
               [t \in unit[r] |-> IF t \in errors THEN ErrorImage ELSE now])
       /\ Excuse(r, of({"blank"}) \cup errors)
  /\ after' = [after EXCEPT ![r] = "create"]
  /\ UNCHANGED <<cache, want, missing, unit, key, since>> /\ Outside

\* A step of cache.store_tile or cache.store_tiles.
Store(r, t) ==
  /\ pc[r] = "store" /\ t \in todo[r]
  /\ cache' = [u \in Tiles |->
                 IF u \in Batch(r, t) THEN [img |-> made[r][u], ts |-> now] ELSE cache[u]]
  /\ todo' = [todo EXCEPT ![r] = @ \ Batch(r, t)]
  /\ IF todo[r] = Batch(r, t) THEN Goto(r, "unlock") ELSE UNCHANGED pc
  /\ UNCHANGED <<want, missing, unit, key, after, made, obj, since, excused>> /\ Outside

\* The store fails: a sqlite cache logs it, stores nothing and returns; the
\* other caches raise, and what they have not stored yet is not stored.
StoreFails(r) ==
  /\ StoreFailing /\ pc[r] = "store"
  /\ todo' = [todo EXCEPT ![r] = {}]
  /\ Goto(r, "unlock")
  /\ after' = [after EXCEPT ![r] = IF Backend = "sqlite" THEN "create" ELSE "failed"]
  /\ UNCHANGED <<cache, want, missing, unit, key, made, obj, since, excused>> /\ Outside

\* Mutant: unlock() is not reached when an exception is raised.
UnlockIfCreated(r) ==
  /\ pc[r] = "unlock"
  /\ IF after[r] = "failed"
       THEN Fail(r) /\ UNCHANGED <<holders, solved>>
       ELSE /\ Lock!Release(r, key[r])
            /\ Goto(r, after[r])
            /\ todo' = [todo EXCEPT ![r] = IF after[r] = "reload" THEN unit[r] ELSE {}]
            /\ DropUnit(r)
            /\ UNCHANGED <<want, missing, obj, since, excused>>
  /\ UNCHANGED <<now, expire, cache>>

\* The with block ends, regularly or by an exception.
Unlock(r) ==
  /\ pc[r] = "unlock"
  /\ Lock!Release(r, key[r])
  /\ IF after[r] = "failed"
       THEN Fail(r)
       ELSE /\ Goto(r, after[r])
            /\ todo' = [todo EXCEPT ![r] = IF after[r] = "reload" THEN unit[r] ELSE {}]
            /\ DropUnit(r)
            /\ UNCHANGED <<want, missing, obj, since, excused>>
  /\ UNCHANGED <<now, expire, cache>>

\* The tiles of a meta tile were all cached: after the unlock new objects of
\* them are loaded, and whatever is found replaces the image of a wanted tile.
Reload(r, t) ==
  /\ pc[r] = "reload" /\ t \in todo[r]
  /\ obj' = [obj EXCEPT ![r] = [u \in Tiles |->
               IF u \in want[r] \cap Batch(r, t)
                 THEN [@[u] EXCEPT !.img = BatchLoaded(None, u).img] ELSE @[u]]]
  /\ todo' = [todo EXCEPT ![r] = @ \ Batch(r, t)]
  /\ IF todo[r] = Batch(r, t) THEN Goto(r, "create") ELSE UNCHANGED pc
  /\ UNCHANGED <<cache, want, missing, unit, key, after, made, since, excused>> /\ Outside

\* The response is put together: an image that is still a file name is read
\* now.  A tile without image leaves a blank area; a vanished file is an error.
Answer(r, t) ==
  /\ pc[r] = "answer" /\ t \in todo[r]
  /\ IF obj[r][t].img = AtLocation /\ cache[t] = None
       THEN Fail(r)
       ELSE /\ todo' = [todo EXCEPT ![r] = @ \ {t}]
            /\ IF todo[r] = {t} THEN Goto(r, "done") ELSE UNCHANGED pc
            /\ IF obj[r][t].img = AtLocation THEN SetObj(r, t, cache[t]) ELSE UNCHANGED obj
            /\ UNCHANGED <<want, missing, unit, key, after, made, since, excused>>
  /\ UNCHANGED cache /\ Outside

-----------------------------------------------------------------------------
(* The environment *)

\* The process is killed; the lock it may hold is dropped without unlock().
Die(r) ==
  /\ pc[r] \notin {"idle", "done", "failed"}
  /\ Fail(r)
  /\ IF pc[r] \in Locked THEN Lock!Die(r, key[r]) ELSE UNCHANGED <<holders, solved>>
  /\ UNCHANGED <<now, expire, cache>>

\* mapproxy-seed removes a tile.
Remove(t) ==
  /\ Removing /\ cache[t] # None
  /\ cache' = [cache EXCEPT ![t] = None]
  /\ UNCHANGED reqVars /\ Outside

\* Time passes; the refresh time stays or everything stored so far expires.
Tick ==
  /\ now < MaxTime
  /\ now' = now + 1
  /\ expire' \in {expire} \cup (IF expire = Never THEN {} ELSE {now})
  /\ UNCHANGED <<cache, holders, solved, reqVars>>

QuerySources(r) == QueryImage(r) \/ QueryUncacheable(r) \/ QueryBlank(r)
                   \/ QueryError(r) \/ QueryErrorImage(r) \/ QueryBulk(r)
TakeLock(r) == Acquire(r) \/ LockTimeout(r)
Step(r) ==
  \/ \E t \in Tiles : Load(r, t) \/ Check(r, t) \/ Store(r, t) \/ Reload(r, t) \/ Answer(r, t)
  \/ NextUnit(r) \/ Created(r) \/ TakeLock(r) \/ Recheck(r) \/ QuerySources(r)
  \/ StoreFails(r) \/ Unlock(r)

Next ==
  \/ \E r \in Requests :
       \/ \E tiles \in (SUBSET Tiles) \ {{}} : Arrive(r, tiles)
       \/ Step(r)
       \/ Die(r)
  \/ \E t \in Tiles : Remove(t)
  \/ Tick

Spec == Init /\ [][Next]_vars

\* A thread that serves a request keeps running, and so does its wait for a
\* lock: FileLock shows that lock() returns or times out.
FairSpec == Spec /\ \A r \in Requests : WF_vars(Step(r))

-----------------------------------------------------------------------------
(* Properties *)

Objects == [img : Images, ts : 0 .. MaxTime]

\* Types, and who holds a lock: exactly the requests in its critical section.
TypeOK ==
  /\ now \in 2 .. MaxTime /\ expire \in 0 .. MaxTime
  /\ cache \in [Tiles -> [img : Stored, ts : 0 .. MaxTime]]
  /\ holders \in [Keys -> SUBSET Requests] /\ solved \in [Keys -> BOOLEAN]
  /\ pc \in [Requests -> States]
  /\ want \in [Requests -> SUBSET Tiles] /\ todo \in [Requests -> SUBSET Tiles]
  /\ missing \in [Requests -> SUBSET Tiles] /\ unit \in [Requests -> SUBSET Tiles]
  /\ key \in [Requests -> Keys]
  /\ after \in [Requests -> {"create", "reload", "failed"}]
  /\ made \in [Requests -> [Tiles -> Stored]]
  /\ obj \in [Requests -> [Tiles -> Objects]]
  /\ since \in [Requests -> 0 .. MaxTime]
  /\ excused \in [Requests -> SUBSET Tiles]
  /\ \A k \in Keys : holders[k] = {r \in Requests : pc[r] \in Locked /\ key[r] = k}

\* configuration.rst, tile_lock_dir: locking prevents "that the same tile gets
\* created multiple times".  No two requests create a tile at the same time; with
\* locks that are removed on unlock, unless the first holder has left without
\* creating all of it.
NoConcurrentCreation ==
  \A r, s \in Requests :
    /\ r # s /\ Creating(r) /\ Creating(s)
    /\ StrictLock \/ ~solved[key[r]] \/ \A t \in unit[r] : Fresh(cache[t])
    => unit[r] \cap unit[s] = {}

\* Nor one after the other: the source is only asked for a (meta) tile of
\* which something is missing or expired at that moment.
NoDuplicateCreation ==
  \A r \in Requests : pc[r] = "query" => \E t \in unit[r] : ~Fresh(cache[t])

\* A tile is left out of a response only if the source had no image for it.
NoTileLost ==
  \A r \in Requests : \A t \in want[r] :
    pc[r] = "done" /\ obj[r][t].img = NoImage => t \in excused[r]

\* The Tile object knows the mtime of its image.  That of a reloaded meta tile
\* gets only the image.
AgeKnown(r) == Backend = "file" \/ Mode[r] \in {"single", "bulk"}

\* A response contains a tile that was expired when the request arrived, and
\* not a new image, only if the source could not deliver one.
StaleOnlyIfSourceFails ==
  \A r \in Requests : \A t \in want[r] :
    /\ pc[r] = "done" /\ AgeKnown(r)
    /\ obj[r][t].img \in 1 .. since[r] /\ obj[r][t].ts <= since[r]
    => t \in excused[r]

\* sources.rst, authorize_stale: "MapProxy will serve a stale tile which is
\* still in cache instead of the error response".  The error image of a source
\* gets into a response only if there is no tile in the cache, or one that is
\* itself an error image; and it never replaces a tile of the cache.
StaleBeforeErrorImage ==
  [][\A t \in Tiles :
       \/ \E r \in Requests :
            t \in want[r] /\ obj'[r][t].img = ErrorImage /\ obj[r][t].img # ErrorImage
       \/ cache'[t].img = ErrorImage
       => cache[t].img \in {NoImage, ErrorImage}]_vars

\* The image of a tile in the cache is never replaced by one that the source
\* rendered earlier.
CacheNeverGoesBack ==
  [][\A t \in Tiles : cache'[t].img \in Rendered => cache'[t].img >= cache[t].img]_vars

\* Each request comes to an end, whatever the source answers and whoever dies
\* holding a lock.
RequestEnds == \A r \in Requests : pc[r] = "load" ~> pc[r] \in {"done", "failed"}
=============================================================================
