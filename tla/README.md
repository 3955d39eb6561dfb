# TLA+ models of MapProxy

MapProxy is a caching proxy for map tiles. Most of its code translates requests,
parses configuration and moves pixels; what is hard about it happens where many threads and
processes share files: the lock files in `cache_data/tile_locks`, the tiles in the caches,
the queue of `mapproxy-seed` calls in an SQLite file, the queues between a seeding process
and its workers, the progress file, the two queues of a thread pool, the bundles and databases of caches, and the
dictionary that keeps the applications of a server. Nothing coordinates
the processes but these files. This directory models that part of MapProxy in TLA+, checks it
with TLC on small instances, and proves the most important results with TLAPS for instances
of any size. Paths below are relative to `mapproxy/` unless they start with `doc/`.

Contents: 1 inventory, 2 modules and what they stand for, 3 runs, 4 fairness, 5 proofs,
6 findings, 7 what is not modelled, 8 plan.

## 1. Inventory

### Components, their state and operations

**Lock files** (`util/lock.py`, `util/ext/lockfile.py`, `cache/base.py: TileLocker`).
State: directory entries in a lock directory, the inodes behind them, and the open files of
each process with their `flock()`. Operations: `FileLock.lock` (open, try `flock`, close and
sleep, `LockTimeout` after `timeout`), `unlock` (unlink the file, the descriptor is closed when
the object dies), `cleanup_lockdir` (unlink files whose mtime is old), `SemLock` (take a free one
of *n* lock files). Hard: a path and its inode come apart once a file is unlinked; holders may die;
the cleanup checks and unlinks in two steps. Correct if: nobody joins a holder that has not done
its work yet; `lock()` always returns.

**Tile loading and creation** (`cache/tile_manager.py`, `cache/tile_creator.py`). State: the cache;
per request the `Tile` objects with image and timestamp. Operations: `load_tile_coords` (load what
is cached, find out what is missing or expired, create that, return), `create_tiles` in four
variants (single, meta, minimal meta, bulk meta), each: lock, look again, ask the source, store,
unlock, and the fallbacks for source errors. Hard: the second look under the lock, tiles that
another request creates, expires or removes between two steps, sources that answer with errors,
blank or uncacheable images, holders that die. Correct if: a tile is not created twice, no
tile of a response is missing or stale without reason, an image in the cache is only replaced by a
later one, every request ends.

**Caches** (`cache/file.py`, `path.py`, `mbtiles.py`, `geopackage.py`, `compact.py`, `s3.py`,
`azureblob.py`, `redis.py`, `couchdb.py`). State: stored tiles. Operations: `is_cached`,
`load_tile(s)`, `store_tile(s)`, `remove_tile`, `load_tile_metadata`. The differences that matter to
callers: FileCache stats the file each time and only remembers its location, so it is read when the
response is encoded; SQLite caches load with one statement and store in one transaction, and leave
`Tile` objects that have an image alone; S3Cache trusts the timestamp of such an object. Compact
caches append to a bundle and then update its index. SQLite caches keep a connection per thread, which
`TileManager.session` closes. Hard: creation of database files and bundles, readers without locks, writers that
die half way, files that are removed while others have them open. Correct if: a load returns a whole tile that was
current during the call; what was stored last stays; what was removed is gone.

**Seeding lock** (`seed/cachelock.py`, loop of `seed/seeder.py: seed`). State: rows (cache, pid,
time) in an SQLite file shared by all `mapproxy-seed --use-cache-lock` calls; the task list of each
call. Operations: `_add_lock`, `_poll` (deletes rows of dead processes), `_remove_lock`, rotate the
task list at a `CacheLockedError`. Hard: the time is taken before the transaction starts; processes
die with rows in the table; two calls want the same caches in opposite orders. Correct if: one call
at a time works on a cache; the queues cannot deadlock; every call ends.

**Seeding** (`seed/seeder.py: TileWalker, TileWorkerPool, SeedProgress, exp_backoff`,
`seed/util.py: ProgressLog, ProgressStore`, `seed/script.py`). State: the walker's place, the
bounded `tiles_queue`, the worker processes, the progress file. Operations: the recursive walk
(`_walk`, `step_down`, `already_processed`), `process`, `stop` (with and without `force`),
`log_progress`, `--continue`. Hard: the walker is ahead of the workers, workers give up or are
interrupted, the call is interrupted or dies at any point and continued later. Correct if: the walk
and its continuation leave out no tile, a regular end means that all tiles are seeded, progress is
never lost for good, and the call ends with its workers.

**Cleanup** (`seed/cleanup.py`, `util/fs.py`). State: the directories and files of a cache, their mtimes, the
progress file (`DirectoryCleanupProgress`). Operations: for each level `cleanup_directory` (walk bottom up, remove
files older than the start, remove directories that are empty), or the removal of the level's database. Hard: servers
store into the same directories (`ensure_directory`, `write_atomic`), files and directories vanish or appear during
the walk, the call is interrupted and continued. Correct if: a task that ends has removed all that is old, the
stored progress leaves nothing out, and nothing new is chosen for removal.

**Thread pool** (`util/async_.py`). State: task and result queue, threads. Operations: `map_each`,
`_get_results`, `shutdown(force)`. Used by `LayerRenderer` (`service/wms.py`), the tile manager and the
clients. Hard: `Queue.empty()` is tested outside of any lock, exceptions end the iteration while
threads run, results arrive out of order. Correct if: results come in order, each once; an exception
is raised and never taken for a result; no thread is left behind.

**Applications and configuration** (`multiapp.py`, `util/lru.py`, `config/loader.py`). State:
lazily loaded applications in an LRU dictionary shared by the threads of a server, with the mtimes of their
configuration files. Operations: `proj_app` (get, look whether the files have changed, create under a lock). Hard: the
dictionary has no lock of its own; files change while they are read; two threads load the same application while
a third evicts. Correct if: a request gets an application that knows all earlier changes, which was created once, and
no error of the dictionary.

**Services, requests, sources, clients, images, grids, coordinate systems, scripts, vendored
code**: stateless translation, external I/O, pixels, floating-point geometry (section 7).

### Who talks to whom

```
 services -> TileManager -> cache (files, sqlite, s3)        mapproxy-seed (several calls)
    |            |               ^                              |  CacheLocker (sqlite queue)
    |            v               |                              v
 LayerRenderer   TileCreator -> lock (FileLock) <- TileLocker   seed() -> TileWalker -> tiles_queue
    |            |                  ^ cleanup_lockdir                        |
 ThreadPool      v                                            progress file  v
             sources                                                 TileSeedWorker -> TileManager
```

The `hazards` of `PROJECT.json` list, line by line, what can go wrong in this picture and is hard
to test.

## 2. Modules

| module | stands for | composed with |
| --- | --- | --- |
| `LockSpec` | what callers expect of a lock file (abstract) | |
| `FileLock` | `lock.py`/`lockfile.py` at the level of inodes | implements `LockSpec` |
| `FileLockProofs` | theorems about `FileLock` | |
| `TileCreation` | `TileManager`, `TileCreator` and the caches under them | uses `LockSpec` for its locks |
| `TileCreationProofs` | theorems about `TileCreation` | |
| `CacheLock` | `CacheLocker` and the task loop of `seed()` | |
| `CacheLockProofs` | theorems about `CacheLock` | |
| `SeedProgress` | `SeedProgress.can_skip`, `step_down`, the progress identifier (operators) | |
| `Seeding` | walker, queue, workers, progress file, sessions | uses `SeedProgress` |
| `SeedingProofs` | theorems about `Seeding` | |
| `MapSpec` | what callers of `imap`/`starmap` rely on (abstract) | |
| `AsyncPool` | `ThreadPool` | implements `MapSpec` |
| `AsyncPoolProofs` | theorems about `AsyncPool` | |
| `CompactBundle` | `BundleV2`: one bundle, its writers and its readers | uses `LockSpec` for its lock |
| `CompactBundleProofs` | theorems about `CompactBundle` | |
| `Cleanup` | `simple_cleanup`, `cleanup_directory` against `FileCache.store_tile` | |
| `CleanupProofs` | theorems about `Cleanup` | |
| `SqliteCache` | `MBTilesCache` and `session` against the removal of a level | uses `LockSpec` for `.init.lck` |
| `AppCache` | `MultiMapProxy.proj_app` and `LRU` | |
| `AppCacheProofs` | theorems about `AppCache` | |
| `MC...` | constants, symmetry sets for TLC | |

Each module lists mutants of its operators ("Mutant: ..."): plausible bugs of the code, such as a
missing second look under the lock. They are not part of `Next`. For each property one of them is
swapped in to see that TLC then finds the property violated.

### FileLock

A lock is an `flock()` on the inode that `open(path, 'w+')` returned. So `entry[path]` (directory
entry), `fd[p]` (inode that `p` has open) and `lockpc[p]` are kept apart. One pass of the retry loop in
`FileLock.lock` is two steps: `Open` and one of `Flock`, `Retry`, `Timeout`; `late[p]` says that
`stop_time` has passed. The code tries once more after `stop_time` if it slept over it, and so does the
model. `unlock` with `remove_on_unlock` unlinks whatever has that name (`UnlockRemove`), and the
descriptor is closed only when the lock object goes away (`Close`). `cleanup_lockdir` is `CleanupCheck`
(mtime seen as old) and `CleanupUnlink`. `open('w+')` and `flock` truncate or write the file, which
resets `old`. `LockDie` is a crash: the kernel drops the lock, the entry stays.

A caller is a thread or process with a lock object of its own, which is how `TileLocker` hands them
out; the guard of `lock()` against locking one object twice is therefore always passed.

### TileCreation

The cache is one row of tiles, a meta tile is a block of neighbours: which tiles a meta tile has is a
matter of the grid, and only that blocks are disjoint and minimal meta tiles may span several of them
matters here. An image is known by the time the source rendered it; a stored tile also has an mtime, so
refreshing (`expire_timestamp`) can be expressed. The clock `now` only orders events.

`Load` and `Check` are the two loops of `TileManager.load_tile_coords`/`_load_tile_coords`; they run tile
by tile, since other processes come in between, except that an SQLite cache handles the whole batch
(`Batch`). `NextUnit` is the loop of `create_tiles`, with `Units` for `_create_single_tiles`,
`_create_meta_tiles` and `minimal_meta_tile`. `Acquire`, `Recheck`, `Query...`, `Store`, `Unlock` and
`Reload` are the parts of `_create_single_tile`, `_create_meta_tile` and `_create_bulk_meta_tile`;
one `Query...` action stands for one way the source can answer with the whole handling of it. `Answer`
is the response: an image that is still a file name is read now. `Seen`, `Loaded` and `IsCached` give
what each backend does to a `Tile` object, which is where the backends differ. `Fresh` is `is_cached` with
a new `Tile`, as in the second look of a meta tile.

Each request has a `Mode` of its own: `mapproxy-seed` never minimizes meta requests, and while a configuration is
changed requests of the old and of the new application run side by side. `AllCached` says what follows a second look
that finds the whole meta tile: `_create_meta_tile` loads it, `_create_bulk_meta_tile` means to, but ends with a TypeError
(section 6). `BatchLoaded` is `load_tiles`, which loads nothing at level 0 of an SQLite cache (`LevelZero`).

`Keep` hands images to the cache, among them error images if the error handler says `cache: true`
(`"authorize_stale_cache"`); `made[r][t]` is what will be stored for each tile, since a bulk meta tile may mix both. `StoreFails`
is a store that does not succeed: an SQLite cache logs it and goes on, all others raise. A meta tile of a cache other than SQLite
may by then be stored in part.

The history variables are `since` (the refresh time when the request arrived) and `excused` (what the source refused).

The lock is `LockSpec`, not `FileLock`: the refinement shown for `FileLock` stands for the other half.
`StrictLock = FALSE` is the lock as it is used for tiles on Unix (removed on unlock), `TRUE` is a lock
that is kept (Windows, and what the documentation describes).

### CacheLock

`created[c][p]` is the time in the row that `p` has in the queue of cache `c`; 0 is no row. `Stamp` takes
the time, `Insert` runs the transaction INSERT, poll, DELETE, COMMIT: Python evaluates `time.time()`
for the parameters before `sqlite3` opens the transaction, so another process can insert a later time first
(`overtaken` remembers it). `Poll`, `PollDead` and `Reap` are a poll that follows no INSERT: it reads,
and only its DELETE opens a transaction. `Victims` is exact about one detail: `_poll` runs the DELETE on the
cursor it iterates over, which ends the loop. `Decide` is what `lock()` and `seed()` do with the result: enter,
sleep and poll again (last task), or put the task to the back.

### Seeding and SeedProgress

`TileWalker._walk` is recursive; the stack is `at`, the path of subtile indices. A step of the walker is one
part of the loop body: skip (`Outside`), descend or skip what was processed (`Recurse`), the tile itself
(`Tile`), leave the loop (`Return`), `report_progress` on entering (`Enter`). `Put` is `tiles_queue.put` with the
retry at `queue.Full`; `NoWorkersLeft` its `SeedInterrupted`. `Count`, `Send`, `JoinWorkers` are `stop`,
`ForcedStop` is `stop(force=True)`. Workers `Get`, are done (`Loaded`), `Retry` in `exp_backoff`, `GiveUp` with
`BackoffError`, or are interrupted. `Report` may or may not store the progress: the code stores it when the
last time was long enough ago. `Interrupt` is Ctrl-C (all processes get it) or the SIGINT of `--duration` (only
the main process), `Crash` takes everything at once, `Continue` is the next call with `--continue`.

`seeded_tiles` holds all tiles met instead of the last 64 per level (the code may hand out a tile again that it
has forgotten, which the check for cached tiles mostly prevents), and progress entries are indices
without the number of subtiles, which is the same for all entries of one place.

### AsyncPool and MapSpec

Each operation on a `Queue` is one step, and so are the two `empty()` tests of `_get_results`. `unfinished` is
the counter behind `task_queue.join()`. `GiveUp` is a consumer that gets an error object, calls
`shutdown(True)` and raises, as `LayerRenderer` does. `MapSpec` is the promise to the callers: results in order,
each once, no failed task taken for a result, a regular end only after all.

### CompactBundle

A file is an inode with an index and a sequence of records; the name of the bundle points to one. A position is the
number of a record instead of a byte offset, and the size that the code packs into the same integer is left out.
`InitIndex` and `Create` are `_init_index`, which runs without the lock and replaces whatever has the name by then.
A write is two steps (`WriteBegin`, `WriteEnd`): readers may see half of it. `SeekEnd` looks up the end, and the write
goes to that position, since the file is not opened for appending. `LoadTile`, `OpenReadOnly`, `Lookup` and `Read` are
a load; `is_cached` is its first three steps. `remove_tile` is a writer that only updates the index. The lock is removed on
unlock, so it is the lax lock of `LockSpec`. Three history variables say what may go wrong outside of this file:
`shared` (two writers were inside the lock), `recreated` (a bundle was replaced), and `seen` (what a tile had during a load).

### Cleanup

A level is a directory with one directory of tiles below it: the directories between them behave like either. An mtime
is the number of starts of `mapproxy-seed` so far, which is all that the comparison with the start time tells apart.
The actions of the task are the system calls: `Enter` (rmdir of the level's directory), `Walk` (the listing of `os.walk`), `ListDir` and
`RmDir`, `Check` (`lstat`) and `Remove` per file, `Prune` and `Leave` (rmdir again). `NextLevel` stores the progress before the work, `Skip` is
`can_skip`; the sorted levels have names that sort alike. `Interrupt` is Ctrl-C or a crash, `StartCleanup` the next call
with or without `--continue`. A server takes the steps of `ensure_directory` (`IsDir`, `IsLevelDir`, `MkLevelDir`, `MkDir`) and
`write_atomic` (`OpenTemp`, `Rename`), each of which may find that the cleanup was faster. `renewed` and `raced` are history: tiles stored since the task
was started first, or since the last `lstat`.

### SqliteCache

`file` is the inode that the name of a level's database points to; `conn[p]` the database that the connection of a thread
has open. `Exists`, `Acquire`, `Recheck`, `Create`, `CreateTables`, `Unlock` are `ensure_mbtile`, `Open` the connection
of the `db` property, which creates an empty file if there is none. `Session`, `Cleanup` and `Raise` are `TileManager.session`,
left in order or by an exception. `Unlink` is `remove_level_tiles_before(remove_all=True)`. Images are known by the number of
removals before they were stored.

### AppCache

Each operation on a dict or deque is one step, since CPython does not switch threads inside of them. `Get`, `Item`, `RemoveUsed` and
`AppendLeft` are `LRU.get`, `SetRemove` to `Evict` are `LRU.__setitem__`; `pass[t]` counts the accesses to the dictionary that
`proj_app` makes. `Read` and `Stamp` are the two steps of `load_configuration_file`; an application remembers the version of
the file it was made from and the mtime that was noted beside it.

## 3. Runs

| run | instance | what it shows |
| --- | --- | --- |
| `filelock` | 2 callers, 2 paths, 4 inodes; one path is also cleaned up; 234,000 states | nobody joins the first holder of a lock before it has unlocked; implements `LockSpec`; `lock()` returns |
| `tile_strict` | 2 requests, 1 tile, file cache, strict lock, all answers, failing stores, removal, clock to 3; 128,000 states | no repeated creation; stale tiles only if the source fails; the cache only advances; stale before error image; every request ends |
| `tile_shared` | 2 requests, one with meta tiles and one with bulk meta tiles; 1 meta tile of 2 tiles, sqlite, lock removed on unlock, all answers, failing stores; 940,000 states | the shared lock is harmless once the first holder has stored; no tile lost; none stale without a reason |
| `cachelock` | 3 calls with plans a,b,a / b,a / a; times to 4; 33,600 states | one call per cache; no deadlock; rows stay; every call ends |
| `asyncpool` | 4 tasks, 3 threads; 168,000 states | implements `MapSpec`; threads end; nothing starts after a forced shutdown |
| `seeding` | 5 tiles on 3 levels, one shared by two parents; 2 workers; 1 retry; 2 sessions; 656,000 states | no tile left out; a regular end means seeded; progress does not fall back; calls end |
| `compact` | 2 processes, 2 tiles, 2 inodes, 2 stores; 1,391,000 states | readers get whole and current tiles; what was stored last stays, whoever dies |
| `cleanup` | 2 levels with 2 tiles and 1 tile, 1 server, 2 sessions; 519,000 states | a task that ends is complete; progress is clean; only old tiles are chosen |
| `appcache` | 2 threads, 2 applications, room for 1, 1 change each; 97,000 states | current applications, created once; errors only when something is evicted |
| `cachelock_crash`, `seeding_continue` | as `cachelock`, as `seeding` with a property of `--continue` | violations, see section 6 |
| `sqlite_remove` | 1 server thread, 1 cleanup, 1 tile, 2 inodes, 1 removal | violation, see section 6 |

Why these bounds are enough to be interesting. Two callers and four inodes give a path that is
unlinked, created again and locked on the new inode while the old one is still open, next to the same
on a second path. Two requests give every order of two creations; the third party (cleanup, expiry,
death) is an action of its own. A meta tile of two tiles gives requests that overlap partly or not at all and yet
need the same lock, and a bulk meta tile in which one tile fails and the other does not; more meta tiles
have locks of their own and add only their product. Three seeding calls are the smallest number at which a dead row, a waiting
call and a new call meet; the plans insert four rows for `a`, so
with `MaxTime` 4 `Stamp` never blocks. Four
tasks in three threads let a result overtake two others. The seeding grid has a tile with two parents, a
subtile outside of the coverage, a tile that is cached already, and more tiles than fit into the queue and
the hands of the workers. `MaxTime` in `TileCreation` lets a tile expire between any two steps of a request
once (`tile_strict`); the bounds of the other runs (2) leave one expiry before the request and time fixed
afterwards. `MaxRepeat` replaces 100 retries by 1; nothing depends on the number. In `compact` two stores (of any set of tiles) and any number of removals,
loads and deaths give the overlap of an append with a load, of two writers, and a writer that dies before the next;
two inodes are enough for one replaced bundle that a reader still has open. In `cleanup` the level with two tiles
lets a name vanish from a listing that has others, the second level gives the progress something to skip, and two
sessions an interruption and its continuation. In `appcache` the room for one application makes each creation an
eviction; with 3 applications and room for 2 (3.4 million states) the same properties hold.

Deadlock is checked in the `filelock`, `tile_*`, `compact` and `appcache` runs; the others end, so they say `CHECK_DEADLOCK FALSE`
and check by a liveness property that they end where they should (`cleanup` ends when its sessions are used up and
its server has died).

Symmetry is used for requests, processes, tiles, inodes and names in runs without liveness properties, where no definition tells two
of them apart. `tile_strict` has liveness and therefore no symmetry.

## 4. Fairness

* `FileLock`: weak fairness of the retry loop and of the deadline for each caller in `lock()`: the thread runs
  and its clock advances. No fairness of holders: `LockReturns` holds although a holder keeps its lock for ever.
* `TileCreation`: weak fairness of each request's steps. Sources answer (clients have timeouts), and the wait for
  a lock ends by `LockReturns`. No fairness of arrival, expiry, death or removal.
* `CacheLock`: weak fairness of each call's work. A refused call sleeps and polls again; a call that seeds ends.
* `AsyncPool`: weak fairness of the caller's thread and of each worker; the consumer asks for the next result or
  gives up after an error. A consumer that just stops asking leaves the threads to the garbage collector, which is
  not modelled.
* `Seeding`: weak fairness of the main process and of each worker; nobody is obliged to interrupt, crash or continue.
  Fairness of a worker says that a `load_tile_coords` returns or raises, which `RequestEnds` and `LockReturns` justify.
* `CompactBundle`, `Cleanup`, `AppCache`, `SqliteCache`: only safety is stated, so no fairness.

## 5. Proofs

TLAPS checks all theorems for every value of the constants that satisfies the `ASSUME`s. Every safety property of
the passing runs, and every refinement among them, is a theorem; the hypotheses it needs beyond the `ASSUME`s are
stated in the theorem and listed here. Each inductive invariant was checked by TLC before it was proved.

| module | theorem | property of the runs | hypotheses |
| --- | --- | --- | --- |
| `FileLockProofs` | `LockTypeCorrect`, `FirstHolderIsAlone`, `FileLockImplementsLock` | `LockTypeOK`, `ExclusiveUntilSolved`, `ImplementsLock` | |
| `TileCreationProofs` | `TypeCorrect` | `TypeOK` | |
| | `CreationIsExclusive`, `CacheOnlyAdvances` | `NoConcurrentCreation`, `CacheNeverGoesBack` | strict lock; all requests single, or all meta or bulk |
| | `CreationIsNotRepeated` | `NoDuplicateCreation` | strict lock; single tiles of a file cache, or meta and bulk |
| | `NothingIsLost` | `NoTileLost` | sqlite cache; single or bulk, or no removal and not level 0 |
| | `StaleNeedsAnExcuse` | `StaleOnlyIfSourceFails` | |
| | `StaleTilesComeFirst` | `StaleBeforeErrorImage` | strict lock, single tiles |
| `CacheLockProofs` | `TypeCorrect`, `SeedingIsExclusive`, `RowsStay`, `WaitingReservesNothing` | `TypeOK`, `OneSeedPerCache`, `SeedingIsRecorded`, `BlockedReservesNothing` | |
| `CompactBundleProofs` | `TypeCorrect`, `WholeTiles`, `LoadsAreCurrent`, `LastStoreWins` | `TypeOK`, `WholeTilesUnlessShared`, `ReadsAreCurrent`, `StoresLast` | |
| `SeedingProofs` | `TypeCorrect`, `StoredProgressIsKept`, `NoTileIsLeftOut`, `UninterruptedSeedIsComplete`, `ProgressAdvances` | `TypeOK`, `StoredProgressIsHandedOver`, `DoneMeansHandedOver`, `DoneMeansSeeded`, `ProgressNeverMovesBack` | |
| `AsyncPoolProofs` | `TypeCorrect`, `ShutdownIsFinal`, `PoolKeepsItsPromise` | `TypeOK`, `NothingStartsAfterShutdown`, `ImplementsMap` | |
| `AppCacheProofs` | `TypeCorrect`, `OneCreationIsEnough`, `AnswersAreCurrent`, `ErrorsNeedAnEviction` | `TypeOK`, `CreatedOnce`, `CurrentUnlessEditedWhileRead`, `NoErrorWithoutEviction` | |
| `CleanupProofs` | `TypeCorrect`, `CleanupIsComplete`, `ProgressIsClean`, `OnlyOldTilesAreChosen` | `TypeOK`, `CleanupComplete`, `StoredProgressIsClean`, `NewTilesStay` | |

**`FileLockProofs`.** `ExclusiveUntilSolved` is not inductive: it says nothing of inodes. `LockInv` adds
`NeverDoomed` (no cleaner is about to unlink a path outside of `Aged`), `OneFlockPerInode`, and
`LinkedUntilRemoved`: as long as nobody has unlocked, or the file is kept, whoever has the path open has the inode
its entry points to. Two holders would then hold the same inode. The refinement follows step by step: `Flock` is
`Acquire`, `UnlockRemove` and `UnlockClose` are `Release`, the death of a holder is `Die`, all others stutter; the
guard of `Acquire` comes from `LockInv`. `KeptLockIsExclusive` needs no history: a file that is not removed never has two
holders. Nothing is claimed for paths in `Aged`: see section 6.

**`TileCreationProofs`.** `TypeCorrect` also says that the holders of a lock are the requests in its critical
section. Three invariants build on it.
`ExclusiveInv` says that a lock has one holder (`OneHolder`), that the unit of a request in the
critical section lies behind its lock (`UnitBehindLock`), and that it stores inside of its unit (`StoreUnit`). So
two requests that create have disjoint units. It assumes `Strictly`: a strict lock and not the minimal meta tiles, for
which `NoConcurrentCreation` fails. All theorems cover failing stores and meta tiles stored in part, by a death or an
exception between two tiles, which the runs with one tile and with SQLite transactions do not reach. `CacheInv` adds that the clock is ahead of everything stored
(`ClockInv`), that an image about to be stored is not older than what it replaces (`NewestInStore`), and
`NoDuplicateCreation` where the second look is a true one: not for single tiles of sqlite and S3 caches, where it
fails. `AnswerInv` is about what a request knows and needs no lock at all. `Pending(r)` are the tiles that
request *r* has not settled at its place in the code; each other tile of the request is `Settled`: it has an image, or
the source has refused one (`Served`), and what it has is not older than the refresh time of the request (`Current`); a
tile that is going to be loaded after the second look is there, or was removed. `Served` is where the
hypotheses of `NothingIsLost` come in (`NothingLost`): `FileCache` and `S3Cache` report a tile as cached without loading it (section 6),
a meta tile is loaded after the lock was given back, and at level 0 of an SQLite cache it is not loaded at all. A bulk meta tile that is
complete at the second look ends the request, so there the theorem speaks of responses that were made without it. `ErrorInv` combines all
three invariants with `UncachedInv`: a single tile stays uncached while the source is asked for it, and while its error image waits to
be stored there is no tile.

**`CacheLockProofs`.** `QueueInv`: a call that is inside has its row (`InsideHasRow`); in an undisturbed queue its row
is the oldest (`SeedingIsOldest`); times of rows and of pending inserts differ (`RowsDiffer`, `StampDiffers`); a dead
process in a queue is a recorded crash (`DeadRowsAreCrashes`). Two calls inside would both have the oldest row.
`RowsAreTasks`, for
`WaitingReservesNothing`: a call at work only has rows for tasks that are still on its list, so with one task left it has one row at most.

**`CompactBundleProofs`.** Three layers. `BundleInv` always holds: types, what a call still has to do, positions inside of the
file. `ApartInv` holds as long as no two writers shared the lock: one position is being written, and neither the index
(`IndexIsWhole`) nor a reader is at it, since a record is written at the end of the file and enters the index after that. `CurrentInv` needs in addition that no bundle was replaced:
then there is one file and its index leads to what was stored last. The properties themselves carry these two exceptions
(`shared`, `recreated`), which are violations of section 6.

**`SeedingProofs`.** The walk is in the order of its paths (`Before`). `PlaceInv` ties the recorded progress to the place of the walker,
so that it skips only what lies before the old progress; `PassedInv`: every tile the walker is past, and every tile that the old or
the stored progress makes a later call skip, was handed over or cached; `StoreInv`: the stored progress is the old one or a place
the walker has been at; `FlowInv` follows the tiles of an uninterrupted first call through the bounded queue and the workers:
sentinels come after all tiles, and `join` waits for the rest. The lemmas on paths (order, prefixes, what `CanSkip` skips) are
stated for all sequences. The grid is an assumption: paths are closed under prefixes, and covered tiles may be cached.

**`AsyncPoolProofs`.** `PoolInv`: a task is in one place at a time, the task queue, a thread, the result queue, the results held back or
those handed out (`OnceInv`); without a forced shutdown it is in one (`NoneLostInv`); `unfinished` counts what is queued and in work, so that
after the join both are nothing (`QueueInv`); what is handed out is in order and contains no error that should be raised
(`CallerInv`). Under it each step is a step of `MapSpec` or a stutter. The proof showed that two `CASE`s of an earlier version of the model had
overlapping guards, which TLC resolves in textual order but TLA+ leaves open; they are `IF`s now.

**`AppCacheProofs`.** The dictionary has no lock, but only the thread in `_app_init_lock` changes its values (`OneOwner`). `CoreInv` adds that
applications in the dictionary were read no later than their noted mtime (`ValuesInv`), and for each thread what it has read (`ThreadInv`). `OrderInv`
counts: the entries of a name in `last_used`, with those that threads are about to add, are no more than the threads, since each thread removes one
before it adds one; the creation of an absent application adds one without removing any, but then there is one less. Before the first eviction
an application that a thread has found stays in the dictionary (`PresentInv`), so the accesses that follow find it.

**`CleanupProofs`.** `CleanupInv`
has the directories above every file (`FilesInDirs`), where temporary files come from (`TempInv`), that nothing is recorded before the first
start (`FirstInv`), that tiles of before it have the oldest mtime (`AgeInv`), and `WorkInv`: an old tile that is left lies behind neither the stored
progress nor the current level, and on the current level it is still on the list of names. No step makes an old tile, so each
action has to show only that what it leaves behind is clean. A directory that is missing or empty is: that is where `FilesInDirs` comes in.

Only model-checked: everything temporal under fairness (`LockReturns`, `RequestEnds`, `SeedEnds`, `AllEnd`,
`SessionEnds`), since liveness and `ENABLED` are out of the prover's reach, and `NoConcurrentCreation` with the lock that is removed on
unlock (`tile_shared`): once the first holder has left, it says something only of meta tiles that are stored completely. The
properties of the three violation runs are false, so there is nothing to prove about them. The operators of
`SeedProgress` are proved about without induction over data, which the provers cannot instantiate.

## 6. Findings

Places where the code does not do what its documentation says; each is a run that TLC ends with a trace.

1. `cachelock_crash`: after a seeding process has died, two calls may enter (`seed/cachelock.py:91`).
2. `seeding_continue`: `--continue` leaves out the tiles that were in the queue when the call was interrupted
   (`seed/util.py:133`).
3. `sqlite_remove`: `TileManager.session` does not clean up when its body raises (`cache/tile_manager.py:82`). The thread
   keeps its connection, and after a cleanup with `remove_all` has unlinked the database its next session loads
   removed tiles from the deleted file and stores new ones to it. Without `Raise` the property holds
   (2 threads, 2 removals, 4 inodes: 8.3 million states).

Further violations of the properties that other values of the constants show (`MCTileCreation`, two requests):

* `Mode = "single"`, `Backend = "sqlite"` or `"s3"`, strict lock: `NoDuplicateCreation`. An expired tile is created again
  by each request that waited for the lock (`cache/tile_creator.py:93`). The second look uses the `Tile` object that was filled
  before the lock, and these caches do not look again. Missing tiles, file caches and meta tiles are not affected.
* `Mode = "minimal"`, 3 tiles in blocks of 2, strict lock: `NoConcurrentCreation`. With `minimize_meta_requests` two requests create the
  same tiles at the same time (`cache/tile_creator.py:55`, `:180`): the lock covers the area of the first tile only.
* `Mode = "single"`, `Backend = "file"`: `NoTileLost`. A tile that another request stores between `load_tiles` and `_is_tile_missing` comes back
  without an image, because `FileCache.is_cached` does not load it (`cache/tile_manager.py:161-170`).
* `tile_shared` with `LevelZero = TRUE`: `NoTileLost`. `MBTilesLevelCache.load_tiles` takes level 0 for none (`if not level`,
  `cache/mbtiles.py:426`) and loads nothing. A request that finds its meta tile complete under the lock then answers without an image. The
  first load of a request fails in the same way, but there `is_cached` loads the tiles one by one.
* `Mode = "meta"`, otherwise as `tile_strict`: `StaleBeforeErrorImage`. A meta tile never looks for stale tiles
  (`cache/tile_creator.py:182` against `doc/sources.rst:258`), and with `cache: true` the error image also replaces them in the cache.
* `tile_shared` without the second line of `NoConcurrentCreation`: after a first holder that stored nothing (blank or uncacheable image, source
  error, failed store), or not all, the next two share the lock and create the same tiles at the same time.
* `StaleOnlyIfSourceFails` without `AgeKnown`, a meta tile of one tile, `MaxTime = 3`: a new tile that is reloaded after the
  second look gives only its image to the `Tile` of the request, not its mtime (`cache/tile_manager.py:179-181`), so the response has the
  timestamp of what was loaded before, or none. In the model such an image can also not be told from an outdated one: it was rendered before
  the refresh time and stored after it.
* `compact` with `ReadersGetWholeTiles` as the invariant: two writers that share the lock that is removed on unlock
  (`cache/compact.py:650`) append at the same offset. A tile then has the image of another one, or half of each.

In bulk mode, `_create_bulk_meta_tile` ends with a TypeError when the second look under the lock finds all tiles
(`cache/tile_creator.py:246-247`): it builds a `TileCollection` of `Tile` objects, which makes a `Tile` of each and uses its
`coord`, a `Tile` again, as the key of a dictionary (`cache/tile.py:151`); `Tile` defines `__eq__` without `__hash__`
(`cache/tile.py:102`). So every request that waited while another one created the bulk meta tile fails, whereas
`doc/deployment.rst:225` says that "the other processes will wait till the the first process releases the lock and will then
use the new created tile". The model has this path (`AllCached`): the request ends in `failed`, and gives the lock back.

Observations that no run is about: `cleanup_lockdir` may unlink a file that has just been created anew between its check
and its unlink, and then two callers may hold the lock (`util/lock.py:120`; why `Aged` paths are excluded in
`FileLock`). The time
of a queue row is taken before the transaction (`seed/cachelock.py:98`), so a late insert may overtake a call that is
already seeding; `OneSeedPerCache` is stated for queues without that. While `seed()` has several tasks that are all
locked it goes round them without a pause. A worker that gives up a tile ends silently: the call still ends regularly
and removes its progress file, and if all workers give up while the queue is not full, the rest of the queue is lost
as well (`gaveUp` in `DoneMeansSeeded`; `doc/seed.rst:113`). The first `already_processed()` of `walk()` is always
false, as the progress is None at that point. The stored progress may be replaced by a prefix of it, which loses
nothing but time.

In the caches: `_init_index` may replace a bundle that another process has created and filled in the meantime, whose
tiles are lost (`cache/compact.py:517`; `recreated`). A process that finds the database file before its tables are committed can
neither load nor store, with warnings only; if the creator dies there, or `remove_all` unlinks the file between `ensure_mbtile` and
`connect` (`cache/mbtiles.py:75-76`), the empty file stays and the level is not stored any more. In the cleanup: a tile stored between
`lstat` and `remove` is removed although it is new (`util/fs.py:92-93`; `raced`); a server that stores into a directory
that was just found to be empty gets an error, or ends the cleanup with ENOTEMPTY at an unguarded `os.rmdir`
(`util/fs.py:87`); old temporary files are removed even if a server is about to rename them. For the
`tms` layout `level_location` gives `02` where tiles are stored in `2` (`cache/path.py:27`, `:37`), so that levels below 10 are never
cleaned. In the applications: a configuration that changes between being read and `getmtime` (`config/loader.py:95-96`) is not reloaded until
the next change (the exception in `CurrentUnlessEditedWhileRead`, against `doc/deployment.rst:294`). With more applications than `app_cache_size`
an eviction may meet a name twice in `last_used`, or an empty deque (with three threads): the request fails with a KeyError or IndexError, and
the dictionary stays larger than its size until the next eviction.

## 7. Not modelled

* Within modelled components: in `TileCreation` the threads of
  `concurrent_tile_creators` (one request creates its units one after the other), cache rescaling, `cache_only`, coverages and tile filters, loads that fail, what a failed commit leaves pending on its SQLite connection
  (`StoreFails` stores nothing), and the parallel stores of `S3Cache` that go on after one of them failed; in `Seeding`
  dry runs, `refresh_all`, `--skip-uncached`, a second Ctrl-C in a forced stop (counted as a crash), an orphaned
  worker after SIGTERM; in `AsyncPool` the pool of one thread and the call with one task, which run no thread;
  in `CacheLock` the reuse of a pid.
* In the caches: version 1 of compact caches, the removal of a compact level (`rmtree`, which takes the lock file too),
  `mapproxy-util defrag-compact-cache`, the size field and header of a bundle; DELETE of tiles, WAL files, the dictionary of
  levels and GeoPackage; path layouts and single colour links of file caches; S3, Redis, CouchDB and Azure, which are
  adapters of a service's get, put and delete.
* In the cleanup: the tile walker for coverages, `remove_all` of a directory (`rmtree`), dry runs, several tasks in one call.
* In the applications: the listing, and configuration files that name others as `base`, which behave alike.
* `SemLock`: it keeps one lock file per slot (they are not removed on unlock, and `cleanup_lockdir` does not match their
  names), so at most *n* callers hold it because each slot has at most one holder, which is `KeptLockIsExclusive`.
* The code under `src/mapproxy` is Python, all of it that is modelled. The JavaScript in the repository is vendored (map viewers
  and API documentation pages) and not modelled.
* Services, requests and OGC API: stateless translation. Sources and clients: external I/O, whose outcome the models
  choose freely. Images: pixel data. Grids, coordinate systems and coverages: floating-point arithmetic, out of TLC's
  reach. Configuration and scripts: read once, option parsing. Vendored code.

## 8. Plan

Order: what is shared by most processes first. Done: lock files, tile creation, seeding lock, thread pool, seeding, compact bundles,
cleanup, databases of sqlite caches, applications.

Next proofs: `NoConcurrentCreation` with the lax lock when every holder stores what it asked for (`tile_shared`); what `SqliteCache` keeps without
`Raise`.

Next models, as the number of runs permits: the threads of `concurrent_tile_creators`; `MetaGrid` (`grid/meta_grid.py`): meta tiles as
pure integer operators against the definition "disjoint blocks that cover the level", which `TileCreation` relies on;
the tile walker of `tilewalker_cleanup` with the workers of `Seeding`.
