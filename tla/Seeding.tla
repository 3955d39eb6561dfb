------------------------------- MODULE Seeding -------------------------------
(***************************************************************************)
(* One seed task of mapproxy-seed: TileWalker, TileWorkerPool and the      *)
(* TileSeedWorkers of mapproxy/seed/seeder.py, the progress file of        *)
(* mapproxy/seed/util.py and the calls of mapproxy/seed/script.py with     *)
(* --continue.  The walker visits a tree of (meta) tiles depth first and   *)
(* puts tiles into a bounded queue, the workers load them.                 *)
(*                                                                         *)
(* A subtile is known by its path, the indices of the subtiles from level  *)
(* 0 down to it; on irregular grids several paths lead to the same tile.   *)
(***************************************************************************)
EXTENDS Naturals, Sequences, FiniteSets, SequencesExt, SeedProgress

CONSTANTS
  Workers,     \* one worker for each unit of concurrency
  Subtiles,    \* number of subtiles below each tile
  Covered,     \* paths of the subtiles that intersect the coverage
  TileOf,      \* TileOf[p]: the tile at path p
  NoTile,      \* None: no tile, and the sentinel in the queue
  Levels,      \* the levels to seed
  ReportTill,  \* report_till_level
  MaybeCached, \* tiles that may be cached before the first session
  MaxRepeat,   \* retries of exp_backoff; 100 in the code
  MaxSessions  \* bound on the calls of mapproxy-seed --continue

ASSUME SeedingAssumption ==
  /\ IsFiniteSet(Workers) /\ Workers # {}
  /\ Subtiles \in Nat
  /\ Covered \subseteq Seq(1 .. Subtiles) \ {<<>>}
  /\ \A p \in Covered : \A k \in 1 .. Len(p) : SubSeq(p, 1, k) \in Covered
  /\ DOMAIN TileOf = Covered /\ \A p \in Covered : TileOf[p] # NoTile
  /\ MaybeCached \subseteq {TileOf[p] : p \in Covered}
  /\ Levels \subseteq Nat /\ ReportTill \in Nat
  /\ MaxRepeat \in Nat /\ MaxSessions \in Nat \ {0}
  /\ NoProgress \notin Seq(Nat)

VARIABLES
  \* the main process
  pc,       \* its step
  at,       \* path of the subtile in the loop of each active _walk
  progress, \* level_progresses
  old,      \* old_level_progresses: the progress this session started from
  seeded,   \* seeded_tiles: tiles this session has met
  alives,   \* workers that stop() still has to send a sentinel
  outcome,  \* how the session ends: "none", "done", "interrupted", "exiting", "crashed"
  session,  \* number of this call of mapproxy-seed
  \* shared with the workers
  queue,    \* tiles_queue
  cached,   \* tiles that are cached and up to date
  sigint,   \* who gets the SIGINT: "none", "main" or "all"
  \* the workers
  worker,   \* worker[w]: "idle", "loading", "ended" or "gave up"
  tile,     \* tile[w]: the tile w loads
  tries,    \* tries[w]: n of exp_backoff
  \* the progress file
  store,
  \* history
  handed,   \* tiles that were put into the queue in some session, but not loaded
  gaveUp    \* TRUE: a worker gave up a tile in some session

walkVars == <<at, progress, seeded>>
workVars == <<worker, tile, tries>>
sessionVars == <<old, session>>
vars == <<pc, walkVars, alives, outcome, sessionVars, queue, cached, sigint,
          workVars, store, handed, gaveUp>>

Tiles == {TileOf[p] : p \in Covered}
QueueSize == Cardinality(Workers)
\* Mutant: a queue without a bound.
FullNever == FALSE
Full == Len(queue) = QueueSize
Alive == {w \in Workers : worker[w] \in {"idle", "loading"}}

Level(path) == Len(path) - 1
Wanted == {TileOf[p] : p \in {q \in Covered : Level(q) \in Levels}}
\* levels: there are levels to seed below path
Deeper(path) == \E l \in Levels : l > Level(path)
Advance(path) == [path EXCEPT ![Len(path)] = @ + 1]

Each(value) == [w \in Workers |-> value]

\* The first call of mapproxy-seed has started its workers.
Init ==
  /\ pc = "enter" /\ outcome = "none" /\ session = 1
  /\ at = <<>> /\ progress = NoProgress /\ seeded = {}
  /\ old = NoProgress /\ store = NoProgress
  /\ alives = 0 /\ queue = <<>> /\ sigint = "none"
  /\ worker = Each("idle") /\ tile = Each(NoTile) /\ tries = Each(0)
  /\ cached \in SUBSET MaybeCached
  /\ handed = {} /\ gaveUp = FALSE

-----------------------------------------------------------------------------
(* TileWalker *)

\* report_progress: log_progress stores the progress if the last time was
\* long enough ago.
Report == store' \in {store, Identifier(old, progress)}

\* _walk is called for the subtiles below at.
Enter ==
  /\ pc = "enter"
  /\ IF Len(at) \in Levels /\ Len(at) <= ReportTill THEN Report ELSE UNCHANGED store
  /\ at' = Append(at, 1)
  /\ pc' = "visit"
  /\ UNCHANGED <<progress, seeded, alives, outcome, sessionVars, queue, cached, sigint,
                 workVars, handed, gaveUp>>

InLoop == pc = "visit" /\ at[Len(at)] <= Subtiles

\* No intersection.
Outside ==
  /\ InLoop /\ at \notin Covered
  /\ at' = Advance(at)
  /\ UNCHANGED <<pc, progress, seeded, alives, outcome, sessionVars, queue, cached, sigint,
                 workVars, store, handed, gaveUp>>

\* Mutant: the loop counts from one, the progress from zero.
RecurseNext ==
  /\ InLoop /\ at \in Covered /\ Deeper(at)
  /\ IF CanSkip(old, StepDown(progress, Advance(at)))
     THEN pc' = "tile" /\ progress' = StepUp(StepDown(progress, Advance(at)), at)
     ELSE pc' = "enter" /\ progress' = StepDown(progress, Advance(at))
  /\ UNCHANGED <<at, seeded, alives, outcome, sessionVars, queue, cached, sigint,
                 workVars, store, handed, gaveUp>>

\* Down to the next level, unless an earlier session has been there.
Recurse ==
  /\ InLoop /\ at \in Covered /\ Deeper(at)
  /\ IF CanSkip(old, StepDown(progress, at))
     THEN pc' = "tile" /\ progress' = StepUp(StepDown(progress, at), at)
     ELSE pc' = "enter" /\ progress' = StepDown(progress, at)
  /\ UNCHANGED <<at, seeded, alives, outcome, sessionVars, queue, cached, sigint,
                 workVars, store, handed, gaveUp>>

LastLevel ==
  /\ InLoop /\ at \in Covered /\ ~Deeper(at)
  /\ pc' = "tile"
  /\ UNCHANGED <<walkVars, alives, outcome, sessionVars, queue, cached, sigint,
                 workVars, store, handed, gaveUp>>

\* The end of a loop: back to the tile above, or the walk has ended.
Return ==
  /\ pc = "visit" /\ at[Len(at)] > Subtiles
  /\ IF Len(at) = 1
     THEN pc' = "walked" /\ UNCHANGED <<at, progress>>
     ELSE /\ pc' = "tile"
          /\ at' = Front(at)
          /\ progress' = StepUp(progress, Front(at))
  /\ UNCHANGED <<seeded, alives, outcome, sessionVars, queue, cached, sigint,
                 workVars, store, handed, gaveUp>>

\* The tile itself, if its level is seeded and it was not met before.
Tile ==
  LET new == Level(at) \in Levels /\ TileOf[at] \notin seeded IN
  /\ pc = "tile"
  /\ seeded' = IF new THEN seeded \cup {TileOf[at]} ELSE seeded
  /\ IF new /\ TileOf[at] \notin cached
     THEN pc' = "put" /\ UNCHANGED at
     ELSE pc' = "visit" /\ at' = Advance(at)
  /\ UNCHANGED <<progress, alives, outcome, sessionVars, queue, cached, sigint,
                 workVars, store, handed, gaveUp>>

\* The walk is left; its TileWalker is not used again.
Forget == at' = <<>> /\ progress' = NoProgress /\ seeded' = {}

-----------------------------------------------------------------------------
(* TileWorkerPool *)

\* process: tiles_queue.put
Put ==
  /\ pc = "put" /\ ~Full
  /\ queue' = Append(queue, TileOf[at])
  /\ handed' = handed \cup {TileOf[at]}
  /\ at' = Advance(at)
  /\ pc' = "visit"
  /\ UNCHANGED <<progress, seeded, alives, outcome, sessionVars, cached, sigint,
                 workVars, store, gaveUp>>

\* process: queue.Full and no worker is alive; SeedInterrupted
NoWorkersLeft ==
  /\ pc = "put" /\ Full /\ Alive = {}
  /\ pc' = "stop" /\ outcome' = "interrupted"
  /\ Forget
  /\ UNCHANGED <<alives, sessionVars, queue, cached, sigint, workVars,
                 store, handed, gaveUp>>

\* The walk is over; its last report.
Walked ==
  /\ pc = "walked"
  /\ Report
  /\ pc' = "stop" /\ outcome' = "done"
  /\ Forget
  /\ UNCHANGED <<alives, sessionVars, queue, cached, sigint, workVars, handed, gaveUp>>

\* Mutant: after queue.Full the loop is left.
CountOnce ==
  /\ pc = "stop" \/ (pc = "send" /\ alives > 0 /\ Full)
  /\ alives' = IF pc = "stop" THEN Cardinality(Alive) ELSE 0
  /\ pc' = "send"
  /\ UNCHANGED <<walkVars, outcome, sessionVars, queue, cached, sigint, workVars,
                 store, handed, gaveUp>>

\* stop: count the workers that are alive, first and after each queue.Full
Count ==
  /\ pc = "stop" \/ (pc = "send" /\ alives > 0 /\ Full)
  /\ alives' = Cardinality(Alive)
  /\ pc' = "send"
  /\ UNCHANGED <<walkVars, outcome, sessionVars, queue, cached, sigint, workVars,
                 store, handed, gaveUp>>

Send ==
  /\ pc = "send" /\ alives > 0 /\ ~Full
  /\ queue' = Append(queue, NoTile)
  /\ alives' = alives - 1
  /\ UNCHANGED <<pc, walkVars, outcome, sessionVars, cached, sigint, workVars,
                 store, handed, gaveUp>>

\* Mutant: the workers are not joined.
NoWait ==
  /\ pc = "send" /\ alives = 0
  /\ pc' = "over"
  /\ store' = IF outcome = "done" THEN NoProgress ELSE store
  /\ UNCHANGED <<walkVars, alives, outcome, sessionVars, queue, cached, sigint, workVars,
                 handed, gaveUp>>

\* proc.join() for each worker; after a regular end the progress is removed.
JoinWorkers ==
  /\ pc = "send" /\ alives = 0 /\ Alive = {}
  /\ pc' = "over"
  /\ store' = IF outcome = "done" THEN NoProgress ELSE store
  /\ UNCHANGED <<walkVars, alives, outcome, sessionVars, queue, cached, sigint, workVars,
                 handed, gaveUp>>

\* stop(force=True): proc.join(1.0), and then stop()
ForcedStop ==
  /\ pc = "forced stop"
  /\ pc' = "stop"
  /\ UNCHANGED <<walkVars, alives, outcome, sessionVars, queue, cached, sigint, workVars,
                 store, handed, gaveUp>>

Main ==
  \/ Enter \/ Outside \/ Recurse \/ LastLevel \/ Return \/ Tile
  \/ Put \/ NoWorkersLeft \/ Walked \/ Count \/ Send \/ JoinWorkers \/ ForcedStop

-----------------------------------------------------------------------------
(* TileSeedWorker *)

Get(w) ==
  /\ worker[w] = "idle" /\ queue # <<>>
  /\ queue' = Tail(queue)
  /\ IF Head(queue) = NoTile
     THEN worker' = [worker EXCEPT ![w] = "ended"] /\ UNCHANGED tile
     ELSE /\ worker' = [worker EXCEPT ![w] = "loading"]
          /\ tile' = [tile EXCEPT ![w] = Head(queue)]
  /\ UNCHANGED <<pc, walkVars, alives, outcome, sessionVars, cached, sigint, tries,
                 store, handed, gaveUp>>

\* load_tile_coords returns.
Loaded(w) ==
  /\ worker[w] = "loading"
  /\ cached' = cached \cup {tile[w]}
  /\ handed' = handed \ {tile[w]}
  /\ worker' = [worker EXCEPT ![w] = "idle"]
  /\ tile' = [tile EXCEPT ![w] = NoTile]
  /\ tries' = [tries EXCEPT ![w] = 0]
  /\ UNCHANGED <<pc, walkVars, alives, outcome, sessionVars, queue, sigint, store, gaveUp>>

\* SourceError, IOError or HTTPException: wait and try again.  (After a
\* LockTimeout the call is repeated and nothing changes.)
Retry(w) ==
  /\ worker[w] = "loading" /\ tries[w] < MaxRepeat
  /\ tries' = [tries EXCEPT ![w] = @ + 1]
  /\ UNCHANGED <<pc, walkVars, alives, outcome, sessionVars, queue, cached, sigint,
                 worker, tile, store, handed, gaveUp>>

\* BackoffError: the worker ends, its tile is not loaded.
GiveUp(w) ==
  /\ worker[w] = "loading" /\ tries[w] >= MaxRepeat
  /\ worker' = [worker EXCEPT ![w] = "gave up"]
  /\ tile' = [tile EXCEPT ![w] = NoTile]
  /\ tries' = [tries EXCEPT ![w] = 0]
  /\ gaveUp' = TRUE
  /\ UNCHANGED <<pc, walkVars, alives, outcome, sessionVars, queue, cached, sigint,
                 store, handed>>

\* KeyboardInterrupt in a worker
WorkerInterrupt(w) ==
  /\ sigint = "all" /\ w \in Alive
  /\ worker' = [worker EXCEPT ![w] = "ended"]
  /\ tile' = [tile EXCEPT ![w] = NoTile]
  /\ tries' = [tries EXCEPT ![w] = 0]
  /\ UNCHANGED <<pc, walkVars, alives, outcome, sessionVars, queue, cached, sigint,
                 store, handed, gaveUp>>

Worker(w) == Get(w) \/ Loaded(w) \/ Retry(w) \/ GiveUp(w) \/ WorkerInterrupt(w)

-----------------------------------------------------------------------------
(* Signals, crashes, and the next call *)

\* KeyboardInterrupt in walk(): Ctrl-C reaches all processes, the SIGINT of
\* --duration only the main process.
Interrupt ==
  /\ pc \in {"enter", "visit", "tile", "put", "walked"}
  /\ sigint' \in {"main", "all"}
  /\ pc' = "forced stop" /\ outcome' = "exiting"
  /\ Forget
  /\ UNCHANGED <<alives, sessionVars, queue, cached, workVars, store, handed, gaveUp>>

\* All processes are gone at once; also Ctrl-C in stop().
Crash ==
  /\ pc # "over"
  /\ pc' = "over" /\ outcome' = "crashed"
  /\ queue' = <<>> /\ alives' = 0 /\ sigint' = "none"
  /\ Forget
  /\ worker' = Each("ended") /\ tile' = Each(NoTile) /\ tries' = Each(0)
  /\ UNCHANGED <<sessionVars, cached, store, handed, gaveUp>>

\* Mutant: the stored progress is not loaded.
ContinueAfresh ==
  /\ pc = "over" /\ outcome # "done" /\ session < MaxSessions
  /\ pc' = "enter" /\ outcome' = "none" /\ session' = session + 1
  /\ Forget /\ old' = NoProgress
  /\ alives' = 0 /\ queue' = <<>> /\ sigint' = "none"
  /\ worker' = Each("idle") /\ tile' = Each(NoTile) /\ tries' = Each(0)
  /\ UNCHANGED <<cached, store, handed, gaveUp>>

\* mapproxy-seed --continue after a call that did not end regularly
Continue ==
  /\ pc = "over" /\ outcome # "done" /\ session < MaxSessions
  /\ pc' = "enter" /\ outcome' = "none" /\ session' = session + 1
  /\ Forget /\ old' = store
  /\ alives' = 0 /\ queue' = <<>> /\ sigint' = "none"
  /\ worker' = Each("idle") /\ tile' = Each(NoTile) /\ tries' = Each(0)
  /\ UNCHANGED <<cached, store, handed, gaveUp>>

Next == Main \/ (\E w \in Workers : Worker(w)) \/ Interrupt \/ Crash \/ Continue

\* The processes run, sources answer or fail, and a tile's lock is not taken
\* for ever; nobody has to interrupt or to continue.
Fairness == WF_vars(Main) /\ \A w \in Workers : WF_vars(Worker(w))
Spec == Init /\ [][Next]_vars
FairSpec == Spec /\ Fairness

-----------------------------------------------------------------------------
(* Properties *)

Progresses == {NoProgress} \cup Seq(1 .. Subtiles)

TypeOK ==
  /\ pc \in {"enter", "visit", "tile", "put", "walked", "forced stop", "stop", "send", "over"}
  /\ at \in Seq(1 .. Subtiles + 1)
  /\ progress \in Progresses /\ old \in Progresses /\ store \in Progresses
  /\ seeded \subseteq Tiles /\ cached \subseteq Tiles /\ handed \subseteq Tiles
  /\ gaveUp \in BOOLEAN
  /\ alives \in 0 .. Cardinality(Workers)
  /\ outcome \in {"none", "done", "interrupted", "exiting", "crashed"}
  /\ session \in 1 .. MaxSessions
  /\ queue \in Seq(Tiles \cup {NoTile}) /\ Len(queue) <= QueueSize
  /\ sigint \in {"none", "main", "all"}
  /\ worker \in [Workers -> {"idle", "loading", "ended", "gave up"}]
  /\ tile \in [Workers -> Tiles \cup {NoTile}]
  /\ tries \in [Workers -> 0 .. MaxRepeat]

\* What a later session would skip because of the stored progress was put
\* into the queue by some session, or was cached.
StoredProgressIsHandedOver ==
  \A p \in Covered :
    /\ Level(p) \in Levels
    /\ \E k \in 1 .. Level(p) : CanSkip(store, SubSeq(p, 1, k))
    => TileOf[p] \in handed \cup cached

\* When the calls have come to a regular end, no tile of the task was left
\* out by the walker, over all sessions together.
DoneMeansHandedOver == pc = "over" /\ outcome = "done" => Wanted \subseteq handed \cup cached

\* A call that ends regularly without being continued has seeded all tiles,
\* unless a worker gave up a tile: stop() waits for the tiles in the queue.
DoneMeansSeeded ==
  /\ pc = "over" /\ outcome = "done" /\ session = 1 /\ ~gaveUp
  => Wanted \subseteq cached

\* The stored progress never falls back to where a session would have
\* skipped, so that seeding that is interrupted again and again gets on.
ProgressNeverMovesBack ==
  [][store' # NoProgress => ~CanSkip(store, store')]_store

\* Each call ends, also when all workers have given up, and then no worker
\* is left.
SessionEnds == (pc = "enter") ~> (pc = "over" /\ Alive = {})

\* A call that is continued after an interrupt seeds all tiles: when the last
\* one ends regularly and no worker ever gave up, no tile is missing.
ContinuedSeedIsComplete ==
  /\ pc = "over" /\ outcome = "done" /\ ~gaveUp
  => Wanted \subseteq cached
==============================================================================
