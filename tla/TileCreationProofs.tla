------------------------- MODULE TileCreationProofs -------------------------
(***************************************************************************)
(* Proofs about TileCreation for any number of requests and tiles.         *)
(***************************************************************************)
EXTENDS TileCreation, TLAPS

(***************************************************************************)
(* Type correctness                                                        *)
(***************************************************************************)
LEMMA ZeroKey == 0 \in Keys
  BY TileAssumption DEF Keys, Tiles

LEMMA MainTileType ==
  ASSUME NEW t \in Tiles
  PROVE  MainTile(t) \in Tiles
<1>1. t \in Nat /\ MetaSize \in Nat \ {0} /\ t < NTiles
  BY TileAssumption DEF Tiles
<1>2. t \div MetaSize \in Nat /\ t % MetaSize \in Nat /\ t = MetaSize * (t \div MetaSize) + (t % MetaSize)
  BY <1>1
<1>3. MetaSize * (t \div MetaSize) \in Nat
  BY <1>1, <1>2
<1>4. MetaSize * (t \div MetaSize) <= t
  BY <1>1, <1>2, <1>3
<1> QED
  BY <1>1, <1>3, <1>4, TileAssumption DEF MainTile, Block, Tiles

LEMMA LoadedType ==
  ASSUME TypeOK, NEW o \in Objects, NEW t \in Tiles
  PROVE  Loaded(o, t) \in Objects
<1>1. cache[t] \in [img : Stored, ts : 0 .. MaxTime]
  BY DEF TypeOK
<1>2. Stored \subseteq Images /\ AtLocation \in Images
  BY DEF Images
<1>3. [o EXCEPT !.img = AtLocation] \in Objects
  BY <1>2 DEF Objects
<1>4. cache[t] \in Objects
  BY <1>1, <1>2 DEF Objects
<1> QED
  BY <1>3, <1>4 DEF Loaded

LEMMA BatchLoadedType ==
  ASSUME TypeOK, NEW o \in Objects, NEW t \in Tiles
  PROVE  BatchLoaded(o, t) \in Objects
  BY LoadedType DEF BatchLoaded

LEMMA SeenType ==
  ASSUME TypeOK, NEW o \in Objects, NEW t \in Tiles
  PROVE  Seen(o, t) \in Objects
<1>1. cache[t].ts \in 0 .. MaxTime
  BY DEF TypeOK
<1>2. [o EXCEPT !.ts = cache[t].ts] \in Objects
  BY <1>1 DEF Objects
<1> QED
  BY <1>2, LoadedType, ModeAssumption DEF Seen

LEMMA ImageType ==
  ASSUME NEW o \in Objects, NEW img \in Images
  PROVE  [o EXCEPT !.img = img] \in Objects
  BY DEF Objects

LEMMA StoredType ==
  ASSUME TypeOK, NEW t \in Tiles
  PROVE  cache[t] \in Objects
<1>1. cache[t] \in [img : Stored, ts : 0 .. MaxTime]
  BY DEF TypeOK
<1> QED
  BY <1>1 DEF Objects, Images

LEMMA NoneType == None \in Objects /\ None \in [img : Stored, ts : 0 .. MaxTime]
  BY TileAssumption DEF None, Objects, Images, Stored

LEMMA NoImagesType == NoImages \in [Tiles -> Stored]
  BY DEF NoImages, Stored

\* One request gets new Tile objects, or one of its objects is replaced.
LEMMA ObjType ==
  ASSUME obj \in [Requests -> [Tiles -> Objects]], NEW r \in Requests
  PROVE  /\ \A f \in [Tiles -> Objects] :
              obj' = [obj EXCEPT ![r] = f] => obj' \in [Requests -> [Tiles -> Objects]]
         /\ \A t \in Tiles : \A o \in Objects :
              SetObj(r, t, o) => obj' \in [Requests -> [Tiles -> Objects]]
  BY DEF SetObj

LEMMA UnitsType ==
  ASSUME NEW mode, NEW tiles \in SUBSET Tiles, NEW u \in Units(mode, tiles)
  PROVE  u.tiles \subseteq Tiles /\ u.lock \in Keys
<1>1. CASE mode = "single"
  BY <1>1 DEF Units, Keys
<1>2. CASE mode # "single"
  <2>1. CASE mode \in {"meta", "bulk"} \/ (mode = "minimal" /\ Cardinality(tiles) = 1)
    <3>1. PICK t \in tiles : u = MetaUnit(t)
      BY <1>2, <2>1 DEF Units
    <3> QED
      BY <3>1, MainTileType DEF MetaUnit, Keys
  <2>2. CASE ~(mode \in {"meta", "bulk"} \/ (mode = "minimal" /\ Cardinality(tiles) = 1))
    <3>1. PICK lo \in tiles : u = MinimalUnit(tiles, lo)
      BY <1>2, <2>2 DEF Units
    <3> QED
      BY <3>1, MainTileType DEF MinimalUnit, Keys
  <2> QED
    BY <2>1, <2>2
<1> QED
  BY <1>1, <1>2

\* Requests in the critical section hold the lock of their unit.
Holding == \A k \in Keys : holders[k] = {r \in Requests : pc[r] \in Locked /\ key[r] = k}

LEMMA RestartType ==
  ASSUME TypeOK, NEW r \in Requests, NEW state \in States, NEW tiles \in SUBSET Tiles,
         NEW time \in 0 .. MaxTime, Restart(r, state, tiles, time)
  PROVE  /\ pc' \in [Requests -> States]
         /\ want' \in [Requests -> SUBSET Tiles] /\ todo' \in [Requests -> SUBSET Tiles]
         /\ missing' \in [Requests -> SUBSET Tiles] /\ unit' \in [Requests -> SUBSET Tiles]
         /\ key' \in [Requests -> Keys]
         /\ after' \in [Requests -> {"create", "reload", "failed"}]
         /\ made' \in [Requests -> [Tiles -> Stored]]
         /\ obj' \in [Requests -> [Tiles -> Objects]]
         /\ since' \in [Requests -> 0 .. MaxTime]
         /\ excused' \in [Requests -> SUBSET Tiles]
<1>1. [t \in Tiles |-> None] \in [Tiles -> Objects]
  BY NoneType
<1> QED
  BY <1>1, NoImagesType, ZeroKey DEF Restart, DropUnit, Goto, TypeOK

LEMMA FailType ==
  ASSUME TypeOK, NEW r \in Requests, Fail(r)
  PROVE  /\ pc' \in [Requests -> States]
         /\ want' \in [Requests -> SUBSET Tiles] /\ todo' \in [Requests -> SUBSET Tiles]
         /\ missing' \in [Requests -> SUBSET Tiles] /\ unit' \in [Requests -> SUBSET Tiles]
         /\ key' \in [Requests -> Keys]
         /\ after' \in [Requests -> {"create", "reload", "failed"}]
         /\ made' \in [Requests -> [Tiles -> Stored]]
         /\ obj' \in [Requests -> [Tiles -> Objects]]
         /\ since' \in [Requests -> 0 .. MaxTime]
         /\ excused' \in [Requests -> SUBSET Tiles]
<1>1. "failed" \in States /\ {} \in SUBSET Tiles /\ 0 \in 0 .. MaxTime
  BY TileAssumption DEF States
<1> QED
  BY <1>1, RestartType DEF Fail

\* A request leaves the critical section: its lock is dropped, if it had one.
LEMMA LeaveHolding ==
  ASSUME TypeOK, NEW r \in Requests, NEW state,
         pc' = [pc EXCEPT ![r] = state], state \notin Locked,
         key' = [key EXCEPT ![r] = 0],
         \/ pc[r] \in Locked /\ holders' = [holders EXCEPT ![key[r]] = @ \ {r}]
         \/ pc[r] \notin Locked /\ holders' = holders
  PROVE  Holding' /\ holders' \in [Keys -> SUBSET Requests]
<1>1. holders' \in [Keys -> SUBSET Requests]
  <2>1. key[r] \in Keys /\ holders \in [Keys -> SUBSET Requests]
    BY DEF TypeOK
  <2>2. holders[key[r]] \ {r} \in SUBSET Requests
    BY <2>1
  <2> QED
    BY <2>1, <2>2
<1>2. ASSUME NEW k \in Keys
      PROVE  holders'[k] = {q \in Requests : pc'[q] \in Locked /\ key'[q] = k}
  BY <1>2 DEF TypeOK
<1> QED
  BY <1>1, <1>2 DEF Holding

LEMMA TypeInit == Init => TypeOK
<1> SUFFICES ASSUME Init PROVE TypeOK
  OBVIOUS
<1>1. [img |-> 1, ts |-> 1] \in [img : Stored, ts : 0 .. MaxTime]
  BY TileAssumption DEF Stored, Rendered
<1>2. cache \in [Tiles -> [img : Stored, ts : 0 .. MaxTime]]
  BY <1>1, NoneType DEF Init
<1>3. obj \in [Requests -> [Tiles -> Objects]]
  BY NoneType DEF Init
<1>4. Holding
  BY DEF Holding, Init, Lock!Init, Locked
<1>5. holders \in [Keys -> SUBSET Requests] /\ solved \in [Keys -> BOOLEAN]
  BY DEF Init, Lock!Init
<1> QED
  BY <1>2, <1>3, <1>4, <1>5, NoImagesType, ZeroKey, TileAssumption DEF Init, TypeOK, States, Holding

\* What the outcomes of a query have in common.
LEMMA QueryEffect ==
  ASSUME TypeOK, NEW r \in Requests, QuerySources(r)
  PROVE  /\ Outside /\ UNCHANGED <<cache, want, missing, unit, key, since>> /\ pc[r] = "query"
         /\ \/ Goto(r, "unlock") /\ UNCHANGED <<todo, made>>
            \/ \E tiles \in SUBSET unit[r] : \E img :
                 /\ Keep(r, tiles, img) /\ \A t \in tiles : img[t] \in {now, ErrorImage}
                 /\ after' = [after EXCEPT ![r] = "create"]
         /\ \E state \in {"unlock", "store"} : Goto(r, state)
         /\ after' = [after EXCEPT ![r] = "create"] \/ after' = [after EXCEPT ![r] = "failed"]
         /\ UNCHANGED excused \/ \E tiles \in SUBSET unit[r] : Excuse(r, tiles)
<1>1. CASE QueryImage(r)
  <2>1. Keep(r, unit[r], [t \in unit[r] |-> now])
    BY <1>1 DEF QueryImage
  <2>2. \E state \in {"unlock", "store"} : Goto(r, state)
    BY <2>1 DEF Keep
  <2> QED
    BY <1>1, <2>1, <2>2 DEF QueryImage, Answered
<1>2. CASE QueryUncacheable(r)
  BY <1>2 DEF QueryUncacheable, Answered
<1>3. CASE QueryBlank(r)
  BY <1>3 DEF QueryBlank, Answered
<1>4. CASE QueryError(r)
  BY <1>4 DEF QueryError, Answered
<1>5. CASE QueryErrorImage(r)
  <2>1. /\ Outside /\ UNCHANGED <<cache, want, missing, unit, key, since>> /\ pc[r] = "query"
        /\ after' = [after EXCEPT ![r] = "create"] /\ Excuse(r, unit[r])
    BY <1>5 DEF QueryErrorImage, Answered
  <2>2. \/ Keep(r, {}, NoImages) \/ Keep(r, {}, [t \in unit[r] |-> ErrorImage])
        \/ Keep(r, unit[r], [t \in unit[r] |-> ErrorImage])
    BY <1>5 DEF QueryErrorImage
  <2>3. \E tiles \in SUBSET unit[r] : \E img :
          Keep(r, tiles, img) /\ \A t \in tiles : img[t] \in {now, ErrorImage}
    BY <2>2
  <2> QED
    BY <2>1, <2>3 DEF Keep
<1>6. CASE QueryBulk(r)
  <2>1. PICK got \in [unit[r] -> Outcomes \ {"error"}] :
          /\ Keep(r, {t \in unit[r] : got[t] \in {"image", "authorize_stale_cache"}},
                  [t \in unit[r] |->
                     IF t \in {u \in unit[r] : got[u] \in {"authorize_stale", "authorize_stale_cache"}}
                       THEN ErrorImage ELSE now])
          /\ Excuse(r, {t \in unit[r] : got[t] \in {"blank"}}
                         \cup {u \in unit[r] : got[u] \in {"authorize_stale", "authorize_stale_cache"}})
    BY <1>6 DEF QueryBulk
  <2> DEFINE tiles == {t \in unit[r] : got[t] \in {"image", "authorize_stale_cache"}}
             img == [t \in unit[r] |->
                       IF t \in {u \in unit[r] : got[u] \in {"authorize_stale", "authorize_stale_cache"}}
                         THEN ErrorImage ELSE now]
  <2>2. tiles \in SUBSET unit[r] /\ Keep(r, tiles, img) /\ \A t \in tiles : img[t] \in {now, ErrorImage}
    BY <2>1
  <2>3. \E part \in SUBSET unit[r] : Excuse(r, part)
    BY <2>1
  <2>4. /\ Outside /\ UNCHANGED <<cache, want, missing, unit, key, since>> /\ pc[r] = "query"
        /\ after' = [after EXCEPT ![r] = "create"]
    BY <1>6 DEF QueryBulk
  <2> HIDE DEF tiles, img
  <2> QED
    BY <2>2, <2>3, <2>4 DEF Keep
<1> QED
  BY <1>1, <1>2, <1>3, <1>4, <1>5, <1>6 DEF QuerySources

LEMMA KeepType ==
  ASSUME TypeOK, NEW r \in Requests, NEW tiles \in SUBSET Tiles, NEW img, Keep(r, tiles, img),
         \A t \in tiles : img[t] \in {now, ErrorImage}
  PROVE  /\ made' \in [Requests -> [Tiles -> Stored]] /\ todo' \in [Requests -> SUBSET Tiles]
<1> DEFINE f == [t \in Tiles |-> IF t \in tiles THEN img[t] ELSE NoImage]
<1>1. now \in Stored /\ {NoImage, ErrorImage} \subseteq Stored
  BY TileAssumption DEF TypeOK, Stored, Rendered
<1>2. f \in [Tiles -> Stored]
  BY <1>1
<1>3. made' = [made EXCEPT ![r] = f]
  BY DEF Keep
<1>4. made' \in [Requests -> [Tiles -> Stored]]
  BY <1>2, <1>3 DEF TypeOK
<1>5. todo' \in [Requests -> SUBSET Tiles]
  BY DEF Keep, TypeOK
<1> QED
  BY <1>4, <1>5

LEMMA TypeStep ==
  ASSUME TypeOK, [Next]_vars
  PROVE  TypeOK'
<1> USE DEF TypeOK, States, Locked
<1>1. ASSUME NEW r \in Requests, NEW tiles \in SUBSET Tiles, Arrive(r, tiles)
      PROVE  TypeOK'
  BY <1>1, RestartType DEF Arrive, Restart, DropUnit, Goto, Outside
<1>2. ASSUME NEW r \in Requests, NEW t \in Tiles, Load(r, t)
      PROVE  TypeOK'
  <2>1. \A u \in Tiles : BatchLoaded(obj[r][u], u) \in Objects
    BY BatchLoadedType
  <2>2. obj' \in [Requests -> [Tiles -> Objects]]
    BY <1>2, <2>1 DEF Load
  <2>3. todo' \in [Requests -> SUBSET Tiles] /\ pc' \in [Requests -> States]
    <3>1. CASE todo[r] = Batch(r, t)
      <4>1. todo' = [todo EXCEPT ![r] = want[r]] /\ pc' = [pc EXCEPT ![r] = "check"]
        BY <1>2, <3>1 DEF Load, Goto
      <4> QED
        BY <4>1
    <3>2. CASE todo[r] # Batch(r, t)
      <4>1. todo' = [todo EXCEPT ![r] = todo[r] \ {t}] /\ pc' = pc
        BY <1>2, <3>2 DEF Load
      <4>2. todo[r] \ {t} \in SUBSET Tiles
        OBVIOUS
      <4> QED
        BY <4>1, <4>2
    <3> QED
      BY <3>1, <3>2
  <2>4. pc[r] \notin Locked /\ pc'[r] \notin Locked /\ \A q \in Requests \ {r} : pc'[q] = pc[q]
    BY <1>2 DEF Load, Goto
  <2> QED
    BY <1>2, <2>2, <2>3, <2>4 DEF Load, Outside
<1>3. ASSUME NEW r \in Requests, NEW t \in Tiles, Check(r, t)
      PROVE  TypeOK'
  <2>1. Seen(obj[r][t], t) \in Objects
    BY SeenType
  <2>2. obj' \in [Requests -> [Tiles -> Objects]]
    BY <1>3, <2>1 DEF Check, SetObj
  <2> QED
    BY <1>3, <2>2 DEF Check, Goto, Outside
<1>4. ASSUME NEW r \in Requests, NextUnit(r)
      PROVE  TypeOK'
  <2>1. PICK u \in Units(Mode[r], missing[r]) :
          /\ unit' = [unit EXCEPT ![r] = u.tiles]
          /\ key' = [key EXCEPT ![r] = u.lock]
          /\ missing' = [missing EXCEPT ![r] = @ \ u.tiles]
    BY <1>4 DEF NextUnit
  <2>2. u.tiles \subseteq Tiles /\ u.lock \in Keys
    BY <2>1, UnitsType
  <2> QED
    BY <1>4, <2>1, <2>2 DEF NextUnit, Goto, Outside
<1>5. ASSUME NEW r \in Requests, Created(r)
      PROVE  TypeOK'
  BY <1>5 DEF Created, Goto, Outside
<1>6. ASSUME NEW r \in Requests, Acquire(r)
      PROVE  TypeOK'
  BY <1>6 DEF Acquire, Goto, Lock!Acquire
<1>7. ASSUME NEW r \in Requests, LockTimeout(r)
      PROVE  TypeOK'
  <2>1. Fail(r) /\ UNCHANGED cache /\ Outside /\ pc[r] \notin Locked
    BY <1>7 DEF LockTimeout
  <2>2. Holding' /\ holders' \in [Keys -> SUBSET Requests]
    BY <2>1, LeaveHolding DEF Fail, Restart, DropUnit, Goto, Outside
  <2> QED
    BY <2>1, <2>2, FailType DEF Outside, Holding
<1>8. ASSUME NEW r \in Requests, Recheck(r)
      PROVE  TypeOK'
  <2>1. \A t \in Tiles : Seen(obj[r][t], t) \in Objects
    BY SeenType
  <2>2. \A t \in Tiles : Loaded(Seen(obj[r][t], t), t) \in Objects
    BY <2>1, LoadedType
  <2>3. obj' \in [Requests -> [Tiles -> Objects]]
    <3>1. \/ UNCHANGED obj
          \/ \E t \in Tiles : SetObj(r, t, Seen(obj[r][t], t))
          \/ \E t \in Tiles : SetObj(r, t, Loaded(Seen(obj[r][t], t), t))
      BY <1>8 DEF Recheck
    <3> QED
      BY <2>1, <2>2, <3>1, ObjType
  <2>4. pc' \in [Requests -> States] /\ pc[r] \in Locked /\ pc'[r] \in Locked
    BY <1>8 DEF Recheck, Goto
  <2>5. after' \in [Requests -> {"create", "reload", "failed"}]
    BY <1>8 DEF Recheck, AllCached
  <2> QED
    BY <1>8, <2>3, <2>4, <2>5 DEF Recheck, Goto, Outside
<1>9. ASSUME NEW r \in Requests, QuerySources(r)
      PROVE  TypeOK'
  <2>1. now \in Images /\ ErrorImage \in Images
    BY TileAssumption DEF Images, Stored, Rendered
  <2>2. \A img \in Images : TakeImage(r, img) => obj' \in [Requests -> [Tiles -> Objects]]
    <3> TAKE img \in Images
    <3> HAVE TakeImage(r, img)
    <3> DEFINE f == [t \in Tiles |->
                      IF t \in unit[r] \cap want[r] THEN [obj[r][t] EXCEPT !.img = img]
                                                  ELSE obj[r][t]]
    <3>1. f \in [Tiles -> Objects]
      BY ImageType
    <3>2. obj' = [obj EXCEPT ![r] = f]
      BY DEF TakeImage
    <3> QED
      BY <3>1, <3>2, ObjType
  <2>3. \A t \in Tiles : Loaded(Seen(obj[r][t], t), t) \in Objects
    BY SeenType, LoadedType
  <2>4. obj' \in [Requests -> [Tiles -> Objects]]
    <3>1. CASE QueryBulk(r)
      <4>1. PICK got \in [unit[r] -> Outcomes \ {"error"}] :
              obj' = [obj EXCEPT ![r] = [t \in Tiles |->
                CASE t \in want[r] \cap {u \in unit[r] : got[u] \in {"image", "uncacheable"}} ->
                       [@[t] EXCEPT !.img = now]
                  [] t \in want[r] \cap {u \in unit[r] : got[u] \in {"authorize_stale", "authorize_stale_cache"}} ->
                       [@[t] EXCEPT !.img = ErrorImage]
                  [] OTHER -> @[t]]]
        BY <3>1 DEF QueryBulk
      <4> DEFINE f == [t \in Tiles |->
                CASE t \in want[r] \cap {u \in unit[r] : got[u] \in {"image", "uncacheable"}} ->
                       [obj[r][t] EXCEPT !.img = now]
                  [] t \in want[r] \cap {u \in unit[r] : got[u] \in {"authorize_stale", "authorize_stale_cache"}} ->
                       [obj[r][t] EXCEPT !.img = ErrorImage]
                  [] OTHER -> obj[r][t]]
      <4>2. f \in [Tiles -> Objects]
        BY <2>1, ImageType
      <4>3. obj' = [obj EXCEPT ![r] = f]
        BY <4>1
      <4> QED
        BY <4>2, <4>3, ObjType
    <3>2. CASE ~QueryBulk(r)
      <4>1. \/ UNCHANGED obj \/ TakeImage(r, now) \/ TakeImage(r, ErrorImage)
            \/ \E t \in Tiles : SetObj(r, t, Loaded(Seen(obj[r][t], t), t))
        BY <1>9, <3>2 DEF QuerySources, QueryImage, QueryUncacheable, QueryBlank, QueryError,
                          QueryErrorImage
      <4> QED
        BY <2>1, <2>2, <2>3, <4>1, ObjType
    <3> QED
      BY <3>1, <3>2
  <2>5. /\ Outside /\ UNCHANGED <<cache, want, missing, unit, key, since>> /\ pc[r] = "query"
        /\ after' \in [Requests -> {"create", "reload", "failed"}]
    BY <1>9, QueryEffect
  <2>6. /\ made' \in [Requests -> [Tiles -> Stored]] /\ todo' \in [Requests -> SUBSET Tiles]
    <3>1. CASE UNCHANGED <<todo, made>>
      BY <3>1
    <3>2. CASE ~UNCHANGED <<todo, made>>
      <4>1. PICK tiles \in SUBSET unit[r] : \E img :
              Keep(r, tiles, img) /\ \A t \in tiles : img[t] \in {now, ErrorImage}
        BY <1>9, <3>2, QueryEffect
      <4>2. PICK img : Keep(r, tiles, img) /\ \A t \in tiles : img[t] \in {now, ErrorImage}
        BY <4>1
      <4>3. tiles \in SUBSET Tiles
        OBVIOUS
      <4> HIDE DEF TypeOK, States, Locked
      <4> QED
        BY <4>2, <4>3, KeepType
    <3> QED
      BY <3>1, <3>2
  <2>7. excused' \in [Requests -> SUBSET Tiles]
    <3>1. UNCHANGED excused \/ \E tiles \in SUBSET unit[r] : Excuse(r, tiles)
      BY <1>9, QueryEffect
    <3>2. ASSUME NEW tiles \in SUBSET unit[r], Excuse(r, tiles)
          PROVE  excused' \in [Requests -> SUBSET Tiles]
      <4>1. excused[r] \cup (tiles \cap want[r]) \in SUBSET Tiles
        OBVIOUS
      <4> QED
        BY <3>2, <4>1 DEF Excuse
    <3> QED
      BY <3>1, <3>2
  <2>8. /\ pc' \in [Requests -> States] /\ UNCHANGED <<holders, key>>
        /\ \A q \in Requests : (pc'[q] \in Locked) <=> (pc[q] \in Locked)
    <3>1. PICK state \in {"unlock", "store"} : Goto(r, state)
      BY <1>9, QueryEffect
    <3> QED
      BY <2>5, <3>1 DEF Goto, Outside
  <2> QED
    BY <2>4, <2>5, <2>6, <2>7, <2>8 DEF Outside
<1>10. ASSUME NEW r \in Requests, NEW t \in Tiles, Store(r, t)
      PROVE  TypeOK'
  <2>1. cache' \in [Tiles -> [img : Stored, ts : 0 .. MaxTime]]
    <3>1. \A u \in Tiles : [img |-> made[r][u], ts |-> now] \in [img : Stored, ts : 0 .. MaxTime]
      BY TileAssumption
    <3> QED
      BY <1>10, <3>1 DEF Store
  <2> QED
    BY <1>10, <2>1 DEF Store, Goto, Outside
<1>11. ASSUME NEW r \in Requests, Unlock(r)
      PROVE  TypeOK'
  <2>1. pc[r] \in Locked /\ pc'[r] \notin Locked
    BY <1>11 DEF Unlock, Fail, Restart, Goto
  <2>2. holders' = [holders EXCEPT ![key[r]] = @ \ {r}] /\ solved' \in [Keys -> BOOLEAN]
    BY <1>11 DEF Unlock, Lock!Release
  <2>3. pc' = [pc EXCEPT ![r] = IF after[r] = "failed" THEN "failed" ELSE after[r]]
    BY <1>11 DEF Unlock, Fail, Restart, Goto
  <2>4. key' = [key EXCEPT ![r] = 0]
    BY <1>11 DEF Unlock, Fail, Restart, DropUnit
  <2>5. Holding' /\ holders' \in [Keys -> SUBSET Requests]
    BY <2>1, <2>2, <2>3, <2>4, LeaveHolding
  <2>6. CASE after[r] = "failed"
    BY <1>11, <2>2, <2>5, <2>6, FailType DEF Unlock, Holding
  <2>7. CASE after[r] # "failed"
    <3>1. DropUnit(r) /\ todo' \in [Requests -> SUBSET Tiles] /\ pc' \in [Requests -> States]
      <4>1. /\ DropUnit(r) /\ pc' = [pc EXCEPT ![r] = after[r]]
            /\ todo' = [todo EXCEPT ![r] = IF after[r] = "reload" THEN unit[r] ELSE {}]
        BY <1>11, <2>7 DEF Unlock, Goto
      <4>2. after[r] \in States /\ (IF after[r] = "reload" THEN unit[r] ELSE {}) \in SUBSET Tiles
        OBVIOUS
      <4> QED
        BY <4>1, <4>2
    <3>2. /\ unit' \in [Requests -> SUBSET Tiles]
          /\ key' \in [Requests -> Keys]
          /\ after' \in [Requests -> {"create", "reload", "failed"}]
          /\ made' \in [Requests -> [Tiles -> Stored]]
      BY <3>1, ZeroKey, NoImagesType DEF DropUnit
    <3> QED
      BY <1>11, <2>2, <2>5, <2>7, <3>1, <3>2 DEF Unlock, Holding
  <2> QED
    BY <2>6, <2>7
<1>12. ASSUME NEW r \in Requests, NEW t \in Tiles, Reload(r, t)
      PROVE  TypeOK'
  <2>1. \A u \in Tiles : BatchLoaded(None, u) \in Objects
    BY BatchLoadedType, NoneType
  <2>2. obj' \in [Requests -> [Tiles -> Objects]]
    <3> DEFINE f == [u \in Tiles |->
                      IF u \in want[r] \cap Batch(r, t)
                        THEN [obj[r][u] EXCEPT !.img = BatchLoaded(None, u).img] ELSE obj[r][u]]
    <3>1. \A u \in Tiles : BatchLoaded(None, u).img \in Images
      BY <2>1 DEF Objects
    <3>2. f \in [Tiles -> Objects]
      BY <3>1, ImageType
    <3>3. obj' = [obj EXCEPT ![r] = f]
      BY <1>12 DEF Reload
    <3> QED
      BY <3>2, <3>3, ObjType
  <2> QED
    BY <1>12, <2>2 DEF Reload, Goto, Outside
<1>13. ASSUME NEW r \in Requests, NEW t \in Tiles, Answer(r, t)
      PROVE  TypeOK'
  <2>1. CASE obj[r][t].img = AtLocation /\ cache[t] = None
    <3>1. Fail(r) /\ UNCHANGED cache /\ Outside /\ pc[r] \notin Locked
      BY <1>13, <2>1 DEF Answer
    <3>2. Holding' /\ holders' \in [Keys -> SUBSET Requests]
      BY <3>1, LeaveHolding DEF Fail, Restart, DropUnit, Goto, Outside
    <3> QED
      BY <3>1, <3>2, FailType DEF Outside, Holding
  <2>2. CASE ~(obj[r][t].img = AtLocation /\ cache[t] = None)
    <3>1. UNCHANGED obj \/ SetObj(r, t, cache[t])
      BY <1>13, <2>2 DEF Answer
    <3>2. obj' \in [Requests -> [Tiles -> Objects]]
      BY <3>1, StoredType, ObjType
    <3>3. /\ pc[r] \notin Locked /\ pc'[r] \notin Locked /\ pc' \in [Requests -> States]
          /\ \A q \in Requests \ {r} : pc'[q] = pc[q]
      BY <1>13, <2>2 DEF Answer, Goto
    <3>4. todo' \in [Requests -> SUBSET Tiles]
      <4>1. todo' = [todo EXCEPT ![r] = todo[r] \ {t}] /\ todo[r] \ {t} \in SUBSET Tiles
        BY <1>13, <2>2 DEF Answer
      <4> QED
        BY <4>1
    <3> QED
      BY <1>13, <2>2, <3>2, <3>3, <3>4 DEF Answer, Outside
  <2> QED
    BY <2>1, <2>2
<1>14. ASSUME NEW r \in Requests, Die(r)
      PROVE  TypeOK'
  <2>1. /\ Fail(r) /\ UNCHANGED <<now, expire, cache>> /\ UNCHANGED solved
        /\ \/ pc[r] \in Locked /\ holders' = [holders EXCEPT ![key[r]] = @ \ {r}]
           \/ pc[r] \notin Locked /\ holders' = holders
    BY <1>14 DEF Die, Lock!Die
  <2>2. Holding' /\ holders' \in [Keys -> SUBSET Requests]
    BY <2>1, LeaveHolding DEF Fail, Restart, DropUnit, Goto
  <2> QED
    BY <2>1, <2>2, FailType DEF Holding
<1>15. ASSUME NEW t \in Tiles, Remove(t)
      PROVE  TypeOK'
  BY <1>15, NoneType DEF Remove, reqVars, Outside
<1>16. CASE Tick
  BY <1>16, TileAssumption DEF Tick, reqVars
<1>17. CASE UNCHANGED vars
  BY <1>17 DEF vars, reqVars
<1>18. ASSUME NEW r \in Requests, StoreFails(r)
      PROVE  TypeOK'
  BY <1>18 DEF StoreFails, Goto, Outside
<1> QED
  BY <1>1, <1>2, <1>3, <1>4, <1>5, <1>6, <1>7, <1>8, <1>9, <1>10, <1>11, <1>12, <1>13,
     <1>14, <1>15, <1>16, <1>17, <1>18 DEF Next, Step, TakeLock

\* At every moment the state is well typed, and the holders of a lock are
\* exactly the requests in its critical section.
THEOREM TypeCorrect == Spec => []TypeOK
<1>1. Init => TypeOK
  BY TypeInit
<1>2. TypeOK /\ [Next]_vars => TypeOK'
  BY TypeStep
<1> QED
  BY <1>1, <1>2, PTL DEF Spec

-----------------------------------------------------------------------------
(***************************************************************************)
(* Exclusive creation                                                      *)
(*                                                                         *)
(* Two requests that create the same tile would hold the same lock.  This  *)
(* needs a lock that is never shared (StrictLock) and units whose lock     *)
(* follows from any tile of them, which minimal meta tiles do not have:    *)
(* either all requests create single tiles or all create meta tiles.       *)
(***************************************************************************)
SameUnits == \/ \A r \in Requests : Mode[r] = "single"
             \/ \A r \in Requests : Mode[r] \in {"meta", "bulk"}

\* The lock that belongs to a tile.
LockOf(t) == IF \A r \in Requests : Mode[r] = "single" THEN t ELSE MainTile(t)

OneHolder == \A k \in Keys : \A r, s \in holders[k] : r = s

UnitBehindLock ==
  \A r \in Requests : pc[r] \in Locked \cup {"lock"} => \A t \in unit[r] : LockOf(t) = key[r]

\* What is left to store belongs to the unit.
StoreUnit == \A r \in Requests : pc[r] = "store" => todo[r] \subseteq unit[r]

ExclusiveParts == OneHolder /\ UnitBehindLock /\ StoreUnit
ExclusiveInv == TypeOK /\ ExclusiveParts

Strictly == StrictLock /\ SameUnits

LEMMA SameUnitSameRequest ==
  ASSUME ExclusiveInv, NEW r \in Requests, NEW s \in Requests, NEW t \in Tiles,
         pc[r] \in Locked, pc[s] \in Locked, t \in unit[r], t \in unit[s]
  PROVE  r = s
<1>1. key[r] = key[s] /\ key[r] \in Keys
  BY DEF ExclusiveInv, ExclusiveParts, UnitBehindLock, TypeOK
<1>2. r \in holders[key[r]] /\ s \in holders[key[r]]
  BY <1>1 DEF ExclusiveInv, ExclusiveParts, TypeOK
<1> QED
  BY <1>1, <1>2 DEF ExclusiveInv, ExclusiveParts, OneHolder

LEMMA UnitsLock ==
  ASSUME SameUnits, NEW r \in Requests, NEW tiles \in SUBSET Tiles,
         NEW u \in Units(Mode[r], tiles), NEW t \in u.tiles
  PROVE  LockOf(t) = u.lock
<1>1. CASE Mode[r] = "single"
  <2>1. \A q \in Requests : Mode[q] = "single"
    BY <1>1 DEF SameUnits
  <2> QED
    BY <1>1, <2>1 DEF Units, LockOf
<1>2. CASE Mode[r] # "single"
  <2>1. Mode[r] \in {"meta", "bulk"}
    BY <1>2 DEF SameUnits
  <2>2. PICK v \in tiles : u = MetaUnit(v)
    BY <2>1 DEF Units
  <2> QED
    BY <1>2, <2>2 DEF LockOf, MetaUnit, MainTile
<1> QED
  BY <1>1, <1>2

LEMMA ExclusiveInit == Init => ExclusiveInv
  BY TypeInit DEF Init, Lock!Init, ExclusiveInv, ExclusiveParts, OneHolder, UnitBehindLock, StoreUnit, Locked

\* A request that leaves the critical section without the lock being taken.
LEMMA FailExclusive ==
  ASSUME ExclusiveInv, NEW r \in Requests, Fail(r),
         \A k \in Keys : holders'[k] \subseteq holders[k]
  PROVE  ExclusiveParts'
  BY DEF ExclusiveInv, ExclusiveParts, OneHolder, UnitBehindLock, StoreUnit, Fail, Restart, DropUnit, Goto,
         TypeOK, Locked

\* A step that leaves units and locks alone and enters no critical section.
LEMMA FrameExclusive ==
  ASSUME ExclusiveInv, NEW r \in Requests, NEW state \in States,
         UNCHANGED <<unit, key, holders>>,
         pc' = [pc EXCEPT ![r] = state],
         state \in Locked \cup {"lock"} => pc[r] \in Locked \cup {"lock"},
         \A s \in Requests \ {r} : todo'[s] = todo[s],
         state = "store" => todo'[r] \subseteq unit[r]
  PROVE  ExclusiveParts'
<1>1. pc'[r] = state /\ \A s \in Requests \ {r} : pc'[s] = pc[s]
  BY DEF ExclusiveInv, ExclusiveParts, TypeOK
<1>2. OneHolder'
  BY DEF ExclusiveInv, ExclusiveParts, OneHolder
<1>3. UnitBehindLock'
  BY <1>1 DEF ExclusiveInv, ExclusiveParts, UnitBehindLock
<1>4. StoreUnit'
  BY <1>1 DEF ExclusiveInv, ExclusiveParts, StoreUnit
<1> QED
  BY <1>2, <1>3, <1>4 DEF ExclusiveParts

LEMMA StutterExclusive ==
  ASSUME ExclusiveInv, UNCHANGED <<pc, unit, key, holders, todo>>
  PROVE  ExclusiveParts'
<1>1. OneHolder'
  BY DEF ExclusiveInv, ExclusiveParts, OneHolder
<1>2. UnitBehindLock'
  BY DEF ExclusiveInv, ExclusiveParts, UnitBehindLock
<1>3. StoreUnit'
  BY DEF ExclusiveInv, ExclusiveParts, StoreUnit
<1> QED
  BY <1>1, <1>2, <1>3 DEF ExclusiveParts

LEMMA ExclusiveStep ==
  ASSUME Strictly, ExclusiveInv, [Next]_vars
  PROVE  ExclusiveInv'
<1> USE DEF TypeOK, OneHolder, UnitBehindLock, StoreUnit, Locked, Outside
<1>0. TypeOK'
  BY TypeStep DEF ExclusiveInv, ExclusiveParts
<1>1. ASSUME NEW r \in Requests, NEW tiles \in SUBSET Tiles, Arrive(r, tiles)
      PROVE  ExclusiveParts'
  BY <1>1 DEF Arrive, Restart, DropUnit, Goto, ExclusiveInv, ExclusiveParts
<1>2. ASSUME NEW r \in Requests, NEW t \in Tiles, Load(r, t) \/ Check(r, t)
      PROVE  ExclusiveParts'
  <2>1. /\ UNCHANGED <<unit, key, holders>> /\ pc[r] \in {"load", "check"}
        /\ \A s \in Requests \ {r} : todo'[s] = todo[s]
    BY <1>2 DEF Load, Check, ExclusiveInv, ExclusiveParts
  <2>2. \/ pc' = [pc EXCEPT ![r] = pc[r]]
        \/ pc' = [pc EXCEPT ![r] = "check"]
        \/ pc' = [pc EXCEPT ![r] = "create"]
    BY <1>2 DEF Load, Check, Goto, ExclusiveInv, ExclusiveParts
  <2> QED
    BY <2>1, <2>2, FrameExclusive DEF States
<1>3. ASSUME NEW r \in Requests, NextUnit(r)
      PROVE  ExclusiveParts'
  <2>1. PICK u \in Units(Mode[r], missing[r]) :
          unit' = [unit EXCEPT ![r] = u.tiles] /\ key' = [key EXCEPT ![r] = u.lock]
    BY <1>3 DEF NextUnit
  <2>2. \A t \in u.tiles : LockOf(t) = u.lock
    <3>1. SameUnits /\ missing[r] \in SUBSET Tiles
      BY DEF Strictly, ExclusiveInv
    <3> HIDE DEF TypeOK
    <3> QED
      BY <2>1, <3>1, UnitsLock
  <2> QED
    BY <1>3, <2>1, <2>2 DEF NextUnit, Goto, ExclusiveInv, ExclusiveParts
<1>4. ASSUME NEW r \in Requests, Created(r)
      PROVE  ExclusiveParts'
  BY <1>4 DEF Created, Goto, ExclusiveInv, ExclusiveParts
<1>5. ASSUME NEW r \in Requests, Acquire(r)
      PROVE  ExclusiveParts'
  BY <1>5 DEF Acquire, Goto, Lock!Acquire, Strictly, ExclusiveInv, ExclusiveParts
<1>6. ASSUME NEW r \in Requests, LockTimeout(r)
      PROVE  ExclusiveParts'
  BY <1>6, FailExclusive DEF LockTimeout
<1>7. ASSUME NEW r \in Requests, Recheck(r)
      PROVE  ExclusiveParts'
  <2>1. pc' = [pc EXCEPT ![r] = "unlock"] \/ pc' = [pc EXCEPT ![r] = "query"]
    BY <1>7 DEF Recheck, Goto
  <2> QED
    BY <1>7, <2>1, FrameExclusive DEF Recheck, States
<1>8. ASSUME NEW r \in Requests, QuerySources(r)
      PROVE  ExclusiveParts'
  <2>1. pc[r] = "query" /\ UNCHANGED <<unit, key, holders>>
    BY <1>8, QueryEffect DEF ExclusiveInv
  <2>2. PICK state \in {"unlock", "store"} : Goto(r, state)
    BY <1>8, QueryEffect DEF ExclusiveInv
  <2>3. \/ Goto(r, "unlock") /\ UNCHANGED todo
        \/ \E tiles \in SUBSET unit[r] : todo' = [todo EXCEPT ![r] = tiles]
    BY <1>8, QueryEffect DEF ExclusiveInv, Keep
  <2>4. /\ pc'[r] = "store" => todo'[r] \subseteq unit[r]
        /\ \A s \in Requests \ {r} : todo'[s] = todo[s]
    BY <2>3 DEF ExclusiveInv, Goto
  <2> QED
    BY <2>1, <2>2, <2>4, FrameExclusive DEF States, Goto, ExclusiveInv
<1>9. ASSUME NEW r \in Requests, NEW t \in Tiles, Store(r, t)
      PROVE  ExclusiveParts'
  <2>1. pc[r] = "store" /\ UNCHANGED <<unit, key, holders>>
    BY <1>9 DEF Store
  <2>2. pc' = pc \/ pc' = [pc EXCEPT ![r] = "unlock"]
    BY <1>9 DEF Store, Goto
  <2>3. todo' = [todo EXCEPT ![r] = @ \ Batch(r, t)]
    BY <1>9 DEF Store
  <2> QED
    BY <2>1, <2>2, <2>3 DEF ExclusiveInv, ExclusiveParts
<1>10. ASSUME NEW r \in Requests, Unlock(r)
       PROVE  ExclusiveParts'
  <2>1. \A k \in Keys : holders'[k] \subseteq holders[k]
    BY <1>10 DEF Unlock, Lock!Release, ExclusiveInv, ExclusiveParts
  <2>2. CASE after[r] = "failed"
    BY <1>10, <2>1, <2>2, FailExclusive DEF Unlock
  <2>3. CASE after[r] # "failed"
    <3>1. /\ pc' = [pc EXCEPT ![r] = after[r]] /\ after[r] \notin Locked \cup {"lock"}
          /\ \A s \in Requests \ {r} :
                unit'[s] = unit[s] /\ key'[s] = key[s] /\ todo'[s] = todo[s]
      BY <1>10, <2>3 DEF Unlock, Goto, DropUnit, ExclusiveInv, ExclusiveParts
    <3> QED
      BY <2>1, <3>1 DEF ExclusiveInv, ExclusiveParts
  <2> QED
    BY <2>2, <2>3
<1>11. ASSUME NEW r \in Requests, NEW t \in Tiles, Reload(r, t)
       PROVE  ExclusiveParts'
  <2>1. /\ UNCHANGED <<unit, key, holders>> /\ pc[r] = "reload"
        /\ todo' = [todo EXCEPT ![r] = @ \ Batch(r, t)]
        /\ pc' = [pc EXCEPT ![r] = pc[r]] \/ pc' = [pc EXCEPT ![r] = "create"]
    BY <1>11 DEF Reload, Goto, ExclusiveInv
  <2>2. \A s \in Requests \ {r} : todo'[s] = todo[s]
    BY <2>1 DEF ExclusiveInv
  <2> QED
    BY <2>1, <2>2, FrameExclusive DEF States
<1>12. ASSUME NEW r \in Requests, NEW t \in Tiles, Answer(r, t)
       PROVE  ExclusiveParts'
  <2>1. CASE Fail(r)
    BY <1>12, <2>1, FailExclusive DEF Answer
  <2>2. CASE ~Fail(r)
    <3>1. /\ UNCHANGED <<unit, key, holders>> /\ pc[r] = "answer"
          /\ \A s \in Requests \ {r} : todo'[s] = todo[s]
      BY <1>12, <2>2 DEF Answer, ExclusiveInv, ExclusiveParts
    <3>2. pc' = [pc EXCEPT ![r] = pc[r]] \/ pc' = [pc EXCEPT ![r] = "done"]
      BY <1>12, <2>2 DEF Answer, Goto, ExclusiveInv, ExclusiveParts
    <3> QED
      BY <3>1, <3>2, FrameExclusive DEF States
  <2> QED
    BY <2>1, <2>2
<1>13. ASSUME NEW r \in Requests, Die(r)
       PROVE  ExclusiveParts'
  <2>1. \A k \in Keys : holders'[k] \subseteq holders[k]
    BY <1>13 DEF Die, Lock!Die, ExclusiveInv, ExclusiveParts
  <2> QED
    BY <1>13, <2>1, FailExclusive DEF Die
<1>14. ASSUME NEW t \in Tiles, Remove(t)
       PROVE  ExclusiveParts'
  BY <1>14, StutterExclusive DEF Remove, reqVars
<1>15. ASSUME Tick PROVE ExclusiveParts'
  BY <1>15, StutterExclusive DEF Tick, reqVars
<1>16. ASSUME UNCHANGED vars PROVE ExclusiveParts'
  BY <1>16, StutterExclusive DEF vars, reqVars
<1>19. ASSUME NEW r \in Requests, StoreFails(r)
       PROVE  ExclusiveParts'
  BY <1>19, FrameExclusive DEF StoreFails, Goto, States, ExclusiveInv
<1>17. ASSUME NEW r \in Requests, Step(r)
       PROVE  ExclusiveParts'
  BY ONLY <1>2, <1>3, <1>4, <1>5, <1>6, <1>7, <1>8, <1>9, <1>10, <1>11, <1>12, <1>17, <1>19
     DEF Step, TakeLock
<1>18. ASSUME Next PROVE ExclusiveParts'
  BY ONLY <1>1, <1>13, <1>14, <1>15, <1>17, <1>18 DEF Next
<1> QED
  BY <1>0, <1>16, <1>18 DEF ExclusiveInv

LEMMA ExclusiveInvariant == Strictly => (Spec => []ExclusiveInv)
<1> SUFFICES ASSUME Strictly PROVE Spec => []ExclusiveInv
  OBVIOUS
<1>1. Init => ExclusiveInv
  BY ExclusiveInit
<1>2. ExclusiveInv /\ [Next]_vars => ExclusiveInv'
  BY ExclusiveStep
<1> QED
  BY <1>1, <1>2, PTL DEF Spec

\* No two requests create the same tile at the same time, whatever the source
\* answers, whoever dies and whatever a cleanup removes, provided that a lock
\* is never shared, that meta tiles are not minimized and that all requests
\* agree on having meta tiles.
THEOREM CreationIsExclusive ==
  ASSUME StrictLock,
         \/ \A r \in Requests : Mode[r] = "single"
         \/ \A r \in Requests : Mode[r] \in {"meta", "bulk"}
  PROVE  Spec => []NoConcurrentCreation
<1>1. ExclusiveInv => NoConcurrentCreation
  <2> SUFFICES ASSUME ExclusiveInv, NEW r \in Requests, NEW s \in Requests,
                      r # s, Creating(r), Creating(s)
               PROVE  unit[r] \cap unit[s] = {}
    BY DEF NoConcurrentCreation
  <2>1. unit[r] \subseteq Tiles /\ pc[r] \in Locked /\ pc[s] \in Locked
    BY DEF ExclusiveInv, ExclusiveParts, TypeOK, Creating, Locked
  <2> QED
    BY <2>1, SameUnitSameRequest
<1> QED
  BY <1>1, ExclusiveInvariant, PTL DEF Strictly, SameUnits

-----------------------------------------------------------------------------
(***************************************************************************)
(* What is written to the cache                                            *)
(*                                                                         *)
(* While a request holds the lock of a unit, nobody else stores its tiles: *)
(* what the second look saw stays true until the source is asked, and the  *)
(* image that is stored is the latest one.                                 *)
(***************************************************************************)
\* The second look tells the truth: FileCache stats the file again, and the
\* tiles of a meta tile are looked up with new objects.
TrueRecheck == Backend = "file" \/ \A r \in Requests : Mode[r] # "single"

ClockInv == expire <= now /\ \A t \in Tiles : cache[t].img <= now

NewestInStore ==
  \A r \in Requests :
    /\ \A t \in Tiles : made[r][t] <= now
    /\ pc[r] = "store" =>
         \A t \in todo[r] : made[r][t] \in Rendered => cache[t].img <= made[r][t]

CacheParts == ClockInv /\ NewestInStore /\ (TrueRecheck => NoDuplicateCreation)
CacheInv == ExclusiveInv /\ CacheParts

LEMMA StoredInt ==
  /\ Stored \subseteq Int /\ ErrorImage \notin Rendered /\ NoImage \notin Rendered
  /\ \A t \in Tiles : NoImages[t] = 0
  BY TileAssumption DEF Stored, Rendered, ErrorImage, NoImage, NoImages

\* Of the tiles in one store only those of the unit are written.
LEMMA StoreStaysInUnit ==
  ASSUME ExclusiveInv, NEW r \in Requests, NEW t \in Tiles, Store(r, t)
  PROVE  /\ Batch(r, t) \subseteq unit[r] /\ Batch(r, t) \subseteq todo[r]
         /\ \A s \in Requests \ {r} : pc[s] \in Locked => Batch(r, t) \cap unit[s] = {}
<1>1. Batch(r, t) \subseteq todo[r] /\ pc[r] = "store"
  BY DEF Store, Batch
<1>2. Batch(r, t) \subseteq unit[r]
  BY <1>1 DEF ExclusiveInv, ExclusiveParts, StoreUnit
<1>3. ASSUME NEW s \in Requests \ {r}, pc[s] \in Locked
      PROVE  Batch(r, t) \cap unit[s] = {}
  <2>1. unit[r] \subseteq Tiles /\ pc[r] \in Locked
    BY <1>1 DEF ExclusiveInv, TypeOK, Locked
  <2> QED
    BY <1>2, <1>3, <2>1, SameUnitSameRequest
<1> QED
  BY <1>1, <1>2, <1>3

LEMMA CacheInit == Init => CacheInv
<1> SUFFICES ASSUME Init PROVE CacheInv
  OBVIOUS
<1>1. ClockInv
  BY DEF Init, ClockInv, None, NoImage
<1>2. NewestInStore
  BY StoredInt DEF Init, NewestInStore
<1>3. NoDuplicateCreation
  BY DEF Init, NoDuplicateCreation
<1> QED
  BY <1>1, <1>2, <1>3, ExclusiveInit DEF CacheInv, CacheParts

\* A step of one request that changes neither cache nor clock, and leads it
\* neither to a query nor to a store.
LEMMA FrameCache ==
  ASSUME CacheInv, NEW r \in Requests,
         UNCHANGED <<now, expire, cache>>,
         \A s \in Requests \ {r} :
           pc'[s] = pc[s] /\ made'[s] = made[s] /\ todo'[s] = todo[s] /\ unit'[s] = unit[s],
         pc'[r] \notin {"query", "store"}, \A t \in Tiles : made'[r][t] <= now
  PROVE  CacheParts'
<1>1. ClockInv'
  BY DEF CacheInv, CacheParts, ClockInv
<1>2. NewestInStore'
  BY DEF CacheInv, CacheParts, NewestInStore
<1>3. TrueRecheck => NoDuplicateCreation'
  BY DEF CacheInv, CacheParts, NoDuplicateCreation, Fresh
<1> QED
  BY <1>1, <1>2, <1>3 DEF CacheParts, TrueRecheck

LEMMA FailFrame ==
  ASSUME CacheInv, NEW r \in Requests, Fail(r), UNCHANGED <<now, expire, cache>>
  PROVE  CacheParts'
<1>1. /\ pc' = [pc EXCEPT ![r] = "failed"] /\ todo' = [todo EXCEPT ![r] = {}]
      /\ unit' = [unit EXCEPT ![r] = {}] /\ made' = [made EXCEPT ![r] = NoImages]
  BY DEF Fail, Restart, DropUnit, Goto
<1>2. \A t \in Tiles : NoImages[t] <= now
  BY StoredInt DEF CacheInv, ExclusiveInv, TypeOK
<1> QED
  BY <1>1, <1>2, FrameCache DEF CacheInv, ExclusiveInv, TypeOK

LEMMA CacheStep ==
  ASSUME Strictly, CacheInv, [Next]_vars
  PROVE  CacheInv'
<1>0. ExclusiveInv'
  BY ExclusiveStep DEF CacheInv
<1>t. /\ TypeOK /\ now \in Nat /\ expire \in Nat
      /\ \A r \in Requests : \A t \in Tiles : made[r][t] \in Int /\ made[r][t] <= now
      /\ \A t \in Tiles : cache[t].img \in Int /\ cache[t].ts \in Nat /\ NoImages[t] <= now
  <2>1. TypeOK /\ NewestInStore
    BY DEF CacheInv, ExclusiveInv, CacheParts
  <2>2. now \in Nat /\ expire \in Nat
    BY <2>1, TileAssumption DEF TypeOK
  <2>3. ASSUME NEW t \in Tiles PROVE cache[t].img \in Stored /\ cache[t].ts \in Nat
    <3>1. cache[t] \in [img : Stored, ts : 0 .. MaxTime]
      BY <2>1 DEF TypeOK
    <3> QED
      BY <3>1, TileAssumption
  <2>4. ASSUME NEW r \in Requests, NEW t \in Tiles PROVE made[r][t] \in Stored /\ made[r][t] <= now
    BY <2>1 DEF TypeOK, NewestInStore
  <2>5. \A t \in Tiles : NoImages[t] <= now
    BY <2>2, StoredInt
  <2> QED
    BY <2>1, <2>2, <2>3, <2>4, <2>5, StoredInt
<1>1. ASSUME NEW r \in Requests,
             \/ \E tiles \in SUBSET Tiles : Arrive(r, tiles)
             \/ \E t \in Tiles : Load(r, t) \/ Check(r, t) \/ Reload(r, t)
             \/ NextUnit(r) \/ Created(r) \/ Acquire(r)
      PROVE  CacheParts'
  <2>1. UNCHANGED <<now, expire, cache>>
    BY <1>1 DEF Arrive, Load, Check, Reload, NextUnit, Created, Acquire, Outside
  <2>2. \E state \in States \ {"query", "store"} : pc' = [pc EXCEPT ![r] = state]
    BY <1>1, <1>t DEF Arrive, Load, Check, Reload, NextUnit, Created, Acquire, Restart, Goto,
                      States, TypeOK
  <2>3. \A s \in Requests \ {r} : todo'[s] = todo[s] /\ unit'[s] = unit[s]
    BY <1>1, <1>t DEF Arrive, Load, Check, Reload, NextUnit, Created, Acquire, Restart, DropUnit,
                      TypeOK
  <2>4. made' = made \/ made' = [made EXCEPT ![r] = NoImages]
    BY <1>1 DEF Arrive, Load, Check, Reload, NextUnit, Created, Acquire, Restart, DropUnit
  <2>5. /\ pc'[r] \notin {"query", "store"} /\ \A t \in Tiles : made'[r][t] <= now
        /\ \A s \in Requests \ {r} : pc'[s] = pc[s] /\ made'[s] = made[s]
    BY <1>t, <2>2, <2>4 DEF TypeOK
  <2> QED
    BY <2>1, <2>3, <2>5, FrameCache
<1>2. ASSUME NEW r \in Requests, LockTimeout(r)
      PROVE  CacheParts'
  BY <1>2, FailFrame DEF LockTimeout, Outside
<1>3. ASSUME NEW r \in Requests, Recheck(r)
      PROVE  CacheParts'
  <2>1. UNCHANGED <<now, expire, cache, unit, todo, made>>
    BY <1>3 DEF Recheck, Outside
  <2>2. CASE pc' = [pc EXCEPT ![r] = "unlock"]
    BY <1>t, <2>1, <2>2, FrameCache DEF TypeOK
  <2>3. CASE pc' = [pc EXCEPT ![r] = "query"]
    <3>1. ClockInv' /\ NewestInStore'
      BY <1>t, <2>1, <2>3 DEF CacheInv, CacheParts, ClockInv, NewestInStore, TypeOK
    <3>2. ASSUME TrueRecheck
          PROVE  \E t \in unit[r] : ~Fresh(cache[t])
      <4>1. CASE Mode[r] = "single"
        <5>1. PICK t \in unit[r] : ~IsCached(obj[r][t], t)
          BY <1>3, <1>t, <2>3, <4>1 DEF Recheck, Goto, TypeOK
        <5>2. t \in Tiles /\ cache[t].ts \in Nat
          BY <1>t, <5>1 DEF TypeOK
        <5>3. Backend = "file" /\ Seen(obj[r][t], t).ts = cache[t].ts
          BY <1>t, <3>2, <4>1, <5>2 DEF TrueRecheck, Seen, TypeOK, Objects
        <5>4. ASSUME cache[t] # None, cache[t].ts > expire PROVE FALSE
          BY <5>1, <5>3, <5>4 DEF IsCached, Exists
        <5> QED
          BY <5>1, <5>4 DEF Fresh
      <4>2. CASE Mode[r] # "single"
        BY <1>3, <1>t, <2>3, <4>2 DEF Recheck, Goto, TypeOK
      <4> QED
        BY <4>1, <4>2
    <3>3. TrueRecheck => NoDuplicateCreation'
      BY <1>t, <2>1, <2>3, <3>2 DEF CacheInv, CacheParts, NoDuplicateCreation, Fresh, TypeOK
    <3> QED
      BY <3>1, <3>3 DEF CacheParts, TrueRecheck
  <2> QED
    BY <1>3, <2>2, <2>3 DEF Recheck, Goto
<1>4. ASSUME NEW r \in Requests, QuerySources(r)
      PROVE  CacheParts'
  <2>1. UNCHANGED <<now, expire, cache, unit>>
    BY <1>4, <1>t, QueryEffect DEF Outside
  <2>2. PICK state \in {"unlock", "store"} : Goto(r, state)
    BY <1>4, <1>t, QueryEffect
  <2>3. /\ \A s \in Requests \ {r} : made'[s] = made[s] /\ todo'[s] = todo[s]
        /\ \A t \in Tiles : made'[r][t] <= now
        /\ pc'[r] = "store" => \A t \in todo'[r] : t \in Tiles /\ made'[r][t] \in {now, ErrorImage}
    <3>1. CASE Goto(r, "unlock") /\ UNCHANGED <<todo, made>>
      BY <1>t, <3>1 DEF Goto, TypeOK
    <3>2. CASE ~(Goto(r, "unlock") /\ UNCHANGED <<todo, made>>)
      <4>1. PICK tiles \in SUBSET unit[r] : \E img :
              Keep(r, tiles, img) /\ \A t \in tiles : img[t] \in {now, ErrorImage}
        BY <1>4, <1>t, <3>2, QueryEffect
      <4>2. PICK img : Keep(r, tiles, img) /\ \A t \in tiles : img[t] \in {now, ErrorImage}
        BY <4>1
      <4>3. tiles \in SUBSET Tiles
        BY <1>t DEF TypeOK
      <4>4. /\ \A t \in tiles : made'[r][t] = img[t]
            /\ \A t \in Tiles \ tiles : made'[r][t] = NoImage
            /\ todo'[r] = tiles
        BY <1>t, <4>2, <4>3 DEF Keep, TypeOK
      <4>5. \A s \in Requests \ {r} : made'[s] = made[s] /\ todo'[s] = todo[s]
        BY <1>t, <4>2 DEF Keep, TypeOK
      <4> QED
        BY <1>t, <4>2, <4>3, <4>4, <4>5 DEF ErrorImage, NoImage
    <3> QED
      BY <3>1, <3>2
  <2>4. pc'[r] # "query" /\ \A s \in Requests \ {r} : pc'[s] = pc[s]
    BY <1>t, <2>2 DEF TypeOK, Goto
  <2>6. ClockInv'
    BY <2>1 DEF CacheInv, CacheParts, ClockInv
  <2>7. NewestInStore'
    <3>1. \A t \in Tiles : cache[t].img <= now
      BY DEF CacheInv, CacheParts, ClockInv
    <3>2. pc'[r] = "store" =>
            \A t \in todo'[r] : made'[r][t] \in Rendered => cache'[t].img <= made'[r][t]
      BY <2>1, <2>3, <3>1, StoredInt
    <3> QED
      BY <2>1, <2>3, <2>4, <3>2 DEF CacheInv, CacheParts, NewestInStore
  <2>8. TrueRecheck => NoDuplicateCreation'
    BY <2>1, <2>4 DEF CacheInv, CacheParts, NoDuplicateCreation, Fresh
  <2> QED
    BY <2>6, <2>7, <2>8 DEF CacheParts, TrueRecheck
<1>5. ASSUME NEW r \in Requests, NEW t \in Tiles, Store(r, t)
      PROVE  CacheParts'
  <2>1. /\ UNCHANGED <<now, expire, unit, made>> /\ pc[r] = "store"
        /\ cache' = [u \in Tiles |->
                       IF u \in Batch(r, t) THEN [img |-> made[r][u], ts |-> now] ELSE cache[u]]
        /\ todo' = [todo EXCEPT ![r] = @ \ Batch(r, t)]
    BY <1>5 DEF Store, Outside
  <2>2. /\ \A s \in Requests \ {r} : pc'[s] = pc[s] /\ todo'[s] = todo[s]
        /\ pc'[r] # "query" /\ todo'[r] = todo[r] \ Batch(r, t)
    BY <1>5, <1>t, <2>1 DEF Store, Goto, TypeOK
  <2>3. \A u \in Tiles \ Batch(r, t) : cache'[u] = cache[u]
    BY <2>1
  <2>4. \A s \in Requests \ {r} : pc[s] \in {"query", "store"} => Batch(r, t) \cap unit[s] = {}
    BY <1>5, StoreStaysInUnit DEF CacheInv, Locked
  <2>5. ClockInv'
    BY <1>t, <2>1 DEF CacheInv, CacheParts, ClockInv
  <2>6. NewestInStore'
    <3>1. ASSUME NEW s \in Requests, pc'[s] = "store", NEW u \in todo'[s], made'[s][u] \in Rendered
          PROVE  cache'[u].img <= made'[s][u]
      <4>1. u \in todo[s] /\ u \in Tiles /\ pc[s] = "store"
        BY <1>t, <2>1, <2>2, <3>1 DEF TypeOK
      <4>2. u \notin Batch(r, t)
        <5>1. CASE s = r
          BY <2>2, <3>1, <5>1
        <5>2. CASE s # r
          BY <2>4, <4>1, <5>2 DEF CacheInv, ExclusiveInv, ExclusiveParts, StoreUnit
        <5> QED
          BY <5>1, <5>2
      <4> QED
        BY <2>1, <2>3, <3>1, <4>1, <4>2 DEF CacheInv, CacheParts, NewestInStore
    <3> QED
      BY <1>t, <2>1, <3>1 DEF NewestInStore
  <2>7. TrueRecheck => NoDuplicateCreation'
    <3> SUFFICES ASSUME TrueRecheck, NEW s \in Requests, pc'[s] = "query"
                 PROVE  \E u \in unit'[s] : ~Fresh(cache[u])'
      BY DEF NoDuplicateCreation
    <3>1. s # r /\ pc[s] = "query"
      BY <2>2
    <3>2. PICK u \in unit[s] : ~Fresh(cache[u])
      BY <3>1 DEF CacheInv, CacheParts, NoDuplicateCreation
    <3>3. u \in Tiles /\ cache'[u] = cache[u]
      BY <1>t, <2>3, <2>4, <3>1, <3>2 DEF TypeOK
    <3> QED
      BY <2>1, <3>2, <3>3 DEF Fresh
  <2> QED
    BY <2>5, <2>6, <2>7 DEF CacheParts, TrueRecheck
<1>6. ASSUME NEW r \in Requests, Unlock(r)
      PROVE  CacheParts'
  <2>1. CASE after[r] = "failed"
    BY <1>6, <2>1, FailFrame DEF Unlock
  <2>2. CASE after[r] # "failed"
    <3>1. /\ pc' = [pc EXCEPT ![r] = after[r]] /\ made' = [made EXCEPT ![r] = NoImages]
          /\ UNCHANGED <<now, expire, cache>>
          /\ \A s \in Requests \ {r} : unit'[s] = unit[s] /\ todo'[s] = todo[s]
      BY <1>6, <1>t, <2>2 DEF Unlock, Goto, DropUnit, TypeOK
    <3>2. after[r] \notin {"query", "store"}
      BY <1>t DEF TypeOK
    <3>3. /\ \A t \in Tiles : made'[r][t] <= now
          /\ \A s \in Requests \ {r} : pc'[s] = pc[s] /\ made'[s] = made[s]
          /\ pc'[r] = after[r]
      BY <1>t, <3>1 DEF TypeOK
    <3> QED
      BY <3>1, <3>2, <3>3, FrameCache
  <2> QED
    BY <2>1, <2>2
<1>7. ASSUME NEW r \in Requests, NEW t \in Tiles, Answer(r, t)
      PROVE  CacheParts'
  <2>1. CASE Fail(r)
    BY <1>7, <2>1, FailFrame DEF Answer, Outside
  <2>2. CASE ~Fail(r)
    <3>1. /\ UNCHANGED <<now, expire, cache, unit, made>> /\ pc[r] = "answer"
          /\ todo' = [todo EXCEPT ![r] = @ \ {t}]
          /\ pc' = [pc EXCEPT ![r] = "done"] \/ pc' = pc
      BY <1>7, <2>2 DEF Answer, Goto, Outside
    <3>2. /\ \A s \in Requests \ {r} : pc'[s] = pc[s] /\ todo'[s] = todo[s]
          /\ pc'[r] \notin {"query", "store"}
      BY <1>t, <3>1 DEF TypeOK
    <3>3. \A u \in Tiles : made'[r][u] <= now
      BY <1>t, <3>1
    <3> QED
      BY <3>1, <3>2, <3>3, FrameCache
  <2> QED
    BY <2>1, <2>2
<1>8. ASSUME NEW r \in Requests, Die(r)
      PROVE  CacheParts'
  BY <1>8, FailFrame DEF Die
<1>9. ASSUME NEW t \in Tiles, Remove(t)
      PROVE  CacheParts'
  <2>1. /\ UNCHANGED <<now, expire, pc, unit, todo, made>>
        /\ cache' = [cache EXCEPT ![t] = None]
    BY <1>9 DEF Remove, reqVars, Outside
  <2>2. \A u \in Tiles : cache'[u] = IF u = t THEN None ELSE cache[u]
    BY <1>t, <2>1 DEF TypeOK
  <2>3. ClockInv'
    BY <1>t, <2>1, <2>2 DEF CacheInv, CacheParts, ClockInv, None, NoImage
  <2>4. NewestInStore'
    <3>1. ASSUME NEW s \in Requests, pc[s] = "store", NEW u \in todo[s], made[s][u] \in Rendered
          PROVE  cache'[u].img <= made[s][u]
      <4>1. u \in Tiles /\ cache[u].img <= made[s][u] /\ made[s][u] \in Nat
        BY <1>t, <3>1, TileAssumption DEF CacheInv, CacheParts, NewestInStore, TypeOK, Rendered
      <4> QED
        BY <2>2, <4>1 DEF None, NoImage
    <3> QED
      BY <1>t, <2>1, <3>1 DEF NewestInStore
  <2>5. TrueRecheck => NoDuplicateCreation'
    BY <1>t, <2>1, <2>2 DEF CacheInv, CacheParts, NoDuplicateCreation, Fresh, TypeOK
  <2> QED
    BY <2>3, <2>4, <2>5 DEF CacheParts, TrueRecheck
<1>10. ASSUME Tick
       PROVE  CacheParts'
  <2>1. /\ UNCHANGED <<cache, pc, unit, todo, made>> /\ now' = now + 1
        /\ expire' = expire \/ expire' = now
    BY <1>10 DEF Tick, reqVars
  <2>2. expire <= now /\ \A t \in Tiles : cache[t].img \in Int /\ cache[t].img <= now /\ cache[t].ts \in Nat
    BY <1>t DEF CacheInv, CacheParts, ClockInv, TypeOK
  <2>3. ClockInv'
    BY <1>t, <2>1, <2>2 DEF ClockInv
  <2>4. NewestInStore'
    BY <1>t, <2>1 DEF CacheInv, CacheParts, NewestInStore
  <2>5. \A t \in Tiles : ~Fresh(cache[t]) => ~Fresh(cache[t])'
    BY <1>t, <2>1, <2>2 DEF Fresh
  <2>6. TrueRecheck => NoDuplicateCreation'
    BY <1>t, <2>1, <2>5 DEF CacheInv, CacheParts, NoDuplicateCreation, TypeOK
  <2> QED
    BY <2>3, <2>4, <2>6 DEF CacheParts, TrueRecheck
<1>11. ASSUME UNCHANGED vars
       PROVE  CacheParts'
  BY <1>11 DEF vars, reqVars, CacheInv, CacheParts, ClockInv, NewestInStore,
               NoDuplicateCreation, Fresh, TrueRecheck
<1>15. ASSUME NEW r \in Requests, StoreFails(r)
       PROVE  CacheParts'
  <2>1. /\ UNCHANGED <<now, expire, cache, unit, made>>
        /\ pc' = [pc EXCEPT ![r] = "unlock"] /\ todo' = [todo EXCEPT ![r] = {}]
    BY <1>15 DEF StoreFails, Goto, Outside
  <2> QED
    BY <1>t, <2>1, FrameCache DEF TypeOK
<1>12. ASSUME NEW r \in Requests, Step(r)
       PROVE  CacheParts'
  BY ONLY <1>1, <1>2, <1>3, <1>4, <1>5, <1>6, <1>7, <1>12, <1>15 DEF Step, TakeLock
<1>13. ASSUME NEW r \in Requests, NEW tiles \in (SUBSET Tiles) \ {{}}, Arrive(r, tiles)
       PROVE  CacheParts'
  BY <1>1, <1>13
<1>14. ASSUME Next PROVE CacheParts'
  BY ONLY <1>8, <1>9, <1>10, <1>12, <1>13, <1>14 DEF Next
<1> QED
  BY <1>0, <1>11, <1>14 DEF CacheInv

LEMMA CacheInvariant == Strictly => (Spec => []CacheInv)
<1> SUFFICES ASSUME Strictly PROVE Spec => []CacheInv
  OBVIOUS
<1>1. Init => CacheInv
  BY CacheInit
<1>2. CacheInv /\ [Next]_vars => CacheInv'
  BY CacheStep
<1> QED
  BY <1>1, <1>2, PTL DEF Spec

\* The source is asked for a (meta) tile only while something of it is missing
\* or expired.  Not for single tiles of the sqlite and S3 caches: there the
\* second look trusts the object that was loaded before the lock.
THEOREM CreationIsNotRepeated ==
  ASSUME StrictLock,
         \/ Backend = "file" /\ \A r \in Requests : Mode[r] = "single"
         \/ \A r \in Requests : Mode[r] \in {"meta", "bulk"}
  PROVE  Spec => []NoDuplicateCreation
<1>1. TrueRecheck /\ Strictly
  BY DEF TrueRecheck, Strictly, SameUnits
<1>2. CacheInv => NoDuplicateCreation
  BY <1>1 DEF CacheInv, CacheParts
<1> QED
  BY <1>1, <1>2, CacheInvariant, PTL

\* The image of a stored tile is only ever replaced by one the source rendered
\* later, also when a store of several tiles stops halfway.
THEOREM CacheOnlyAdvances ==
  ASSUME StrictLock,
         \/ \A r \in Requests : Mode[r] = "single"
         \/ \A r \in Requests : Mode[r] \in {"meta", "bulk"}
  PROVE  Spec => CacheNeverGoesBack
<1>1. ASSUME CacheInv, [Next]_vars, NEW t \in Tiles, cache'[t].img \in Rendered
      PROVE  cache'[t].img >= cache[t].img
  <2>0. cache[t].img \in Int /\ cache \in [Tiles -> [img : Stored, ts : 0 .. MaxTime]]
    <3>1. cache \in [Tiles -> [img : Stored, ts : 0 .. MaxTime]]
      BY <1>1 DEF CacheInv, ExclusiveInv, TypeOK
    <3> QED
      BY <1>1, <3>1, StoredInt
  <2>1. ASSUME NEW r \in Requests, NEW u \in Tiles, Store(r, u)
        PROVE  cache'[t].img >= cache[t].img
    <3>1. Batch(r, u) \subseteq todo[r] /\ pc[r] = "store"
      BY <1>1, <2>1, StoreStaysInUnit DEF CacheInv, Store
    <3>2. \A v \in todo[r] : made[r][v] \in Rendered => cache[v].img <= made[r][v]
      BY <1>1, <3>1 DEF CacheInv, CacheParts, NewestInStore
    <3>3. cache'[t] = IF t \in Batch(r, u) THEN [img |-> made[r][t], ts |-> now] ELSE cache[t]
      BY <2>1 DEF Store
    <3>4. CASE t \in Batch(r, u)
      <4>1. cache'[t].img = made[r][t] /\ made[r][t] \in Rendered
        BY <1>1, <3>3, <3>4
      <4>2. cache[t].img <= made[r][t] /\ made[r][t] \in Int
        BY <3>1, <3>2, <3>4, <4>1, TileAssumption DEF Rendered
      <4> QED
        BY <2>0, <4>1, <4>2
    <3>5. CASE t \notin Batch(r, u)
      BY <2>0, <3>3, <3>5
    <3> QED
      BY <3>4, <3>5
  <2>2. ASSUME NEW u \in Tiles, Remove(u)
        PROVE  cache'[t].img >= cache[t].img
    BY <1>1, <2>0, <2>2, StoredInt DEF Remove, None
  <2>3. ASSUME NEW r \in Requests, Step(r), UNCHANGED cache \/ \E u \in Tiles : Store(r, u)
        PROVE  cache'[t].img >= cache[t].img
    BY <2>0, <2>1, <2>3
  <2>4. ASSUME NEW r \in Requests, Step(r)
        PROVE  UNCHANGED cache \/ \E u \in Tiles : Store(r, u)
    BY <2>4 DEF Step, TakeLock, QuerySources, Load, Check, Reload, Answer, NextUnit, Created,
                Acquire, LockTimeout, Recheck, QueryImage, QueryUncacheable, QueryBlank,
                QueryError, QueryErrorImage, QueryBulk, StoreFails, Unlock
  <2>5. ASSUME UNCHANGED cache PROVE cache'[t].img >= cache[t].img
    BY <2>0, <2>5
  <2>6. ASSUME NEW r \in Requests, NEW tiles \in (SUBSET Tiles) \ {{}}, Arrive(r, tiles)
        PROVE  UNCHANGED cache
    BY <2>6 DEF Arrive
  <2>7. ASSUME NEW r \in Requests, Die(r) PROVE UNCHANGED cache
    BY <2>7 DEF Die
  <2>8. ASSUME Tick \/ UNCHANGED vars PROVE UNCHANGED cache
    BY <2>8 DEF Tick, vars
  <2>9. ASSUME Next PROVE cache'[t].img >= cache[t].img
    BY ONLY <2>2, <2>3, <2>4, <2>5, <2>6, <2>7, <2>8, <2>9 DEF Next
  <2> QED
    BY <1>1, <2>5, <2>8, <2>9
<1>2. CacheInv /\ [Next]_vars =>
        [\A t \in Tiles : cache'[t].img \in Rendered => cache'[t].img >= cache[t].img]_vars
  BY <1>1
<1>3. Spec => []CacheInv
  BY CacheInvariant DEF Strictly, SameUnits
<1> QED
  BY <1>2, <1>3, PTL DEF Spec, CacheNeverGoesBack

-----------------------------------------------------------------------------
(***************************************************************************)
(* What the Tile objects of a request hold                                 *)
(*                                                                         *)
(* Neither lost nor stale tiles depend on the locks: a request gets on     *)
(* with a tile only when it has seen an image of it, has one from the      *)
(* source, or has been refused one.                                        *)
(***************************************************************************)
\* A sqlite cache loads a tile that it reports as cached.  A tile of a meta
\* tile is loaded after the second look, when a cleanup may have removed it,
\* and not at all at level 0.  In bulk mode the request ends with an error.
NothingLost(r) ==
  /\ Backend = "sqlite"
  /\ Mode[r] \in {"single", "bulk"} \/ (~Removing /\ ~LevelZero)

StoredInv == \A t \in Tiles : cache[t] # None => cache[t].img # NoImage /\ cache[t].ts > 0

\* What the request has not settled yet.
Pending(r) ==
  CASE pc[r] = "load" -> want[r]
    [] pc[r] = "check" -> todo[r] \cup missing[r]
    [] pc[r] \in {"lock", "recheck", "query"} -> missing[r] \cup unit[r]
    [] pc[r] = "unlock" -> missing[r] \cup (IF after[r] = "create" THEN {} ELSE unit[r])
    [] pc[r] = "reload" -> missing[r] \cup todo[r]
    [] pc[r] \in {"create", "store"} -> missing[r]
    [] pc[r] \in {"answer", "done", "idle", "failed"} -> {}

\* Tiles that were found in the cache and will be loaded from it.
ToReload(r) ==
  CASE pc[r] = "reload" -> todo[r]
    [] pc[r] = "unlock" -> IF after[r] = "reload" THEN unit[r] ELSE {}
    [] pc[r] \notin {"unlock", "reload"} -> {}

\* If the tile is in the cache, it was stored after the refresh time of r.
Renewed(r, t) == cache[t] # None => cache[t].ts > since[r]

Served(r, t) == obj[r][t].img # NoImage \/ t \in excused[r]

Current(r, t) ==
  \/ t \in excused[r]
  \/ obj[r][t].img = AtLocation /\ Renewed(r, t)
  \/ obj[r][t].img # AtLocation /\ (obj[r][t].img \in 1 .. since[r] => obj[r][t].ts > since[r])

Settled(r, t) == (NothingLost(r) => Served(r, t)) /\ (AgeKnown(r) => Current(r, t))

RequestInv(r) ==
  /\ since[r] <= expire
  /\ pc[r] = "store" => after[r] = "create" /\ \A t \in todo[r] : made[r][t] # NoImage
  /\ Mode[r] = "single" => \A t, u \in unit[r] : t = u
  /\ Mode[r] \in {"single", "bulk"} => after[r] # "reload" /\ pc[r] # "reload"
  /\ \A t \in ToReload(r) : Renewed(r, t) /\ (~Removing => cache[t] # None)
  /\ \A t \in want[r] \ Pending(r) : Settled(r, t)

AnswerParts == StoredInv /\ expire < now /\ \A r \in Requests : RequestInv(r)

\* Only the file cache leaves an image on the disk.
Located == \A r \in Requests : \A t \in Tiles : obj[r][t].img = AtLocation => Backend = "file"

AnswerInv == TypeOK /\ Located /\ AnswerParts

\* What a step may do to a tile of the cache.
CacheMoves ==
  \A t \in Tiles : \/ cache'[t] = cache[t]
                   \/ cache'[t] = None /\ Removing
                   \/ cache'[t].img # NoImage /\ cache'[t].ts = now

Numbers ==
  /\ now \in Nat /\ expire \in Nat
  /\ \A t \in Tiles : cache[t].img \in Int /\ cache[t].img # AtLocation /\ cache[t].ts \in Nat
  /\ \A r \in Requests : since[r] \in Nat
  /\ \A r \in Requests : \A t \in Tiles : obj[r][t].img \in Int /\ obj[r][t].ts \in Nat

LEMMA NumbersType == TypeOK => Numbers
<1> SUFFICES ASSUME TypeOK PROVE Numbers
  OBVIOUS
<1>1. now \in Nat /\ expire \in Nat /\ \A r \in Requests : since[r] \in Nat
  BY TileAssumption DEF TypeOK
<1>0. AtLocation \notin Stored /\ Images \subseteq Int
  BY TileAssumption, StoredInt DEF Stored, Images, Rendered, NoImage, ErrorImage, AtLocation
<1>2. ASSUME NEW t \in Tiles
      PROVE  cache[t].img \in Int /\ cache[t].img # AtLocation /\ cache[t].ts \in Nat
  <2>1. cache[t] \in [img : Stored, ts : 0 .. MaxTime]
    BY DEF TypeOK
  <2>2. cache[t].img \in Stored /\ cache[t].ts \in 0 .. MaxTime
    BY <2>1
  <2>3. cache[t].img \in Int
    BY <2>2, StoredInt
  <2>4. cache[t].img # AtLocation
    BY ONLY <1>0, <2>2
  <2>5. cache[t].ts \in Nat
    BY <2>2, TileAssumption
  <2> QED
    BY <2>3, <2>4, <2>5
<1>3. ASSUME NEW r \in Requests, NEW t \in Tiles
      PROVE  obj[r][t].img \in Int /\ obj[r][t].ts \in Nat
  <2>1. obj[r][t] \in Objects
    BY DEF TypeOK
  <2>2. obj[r][t].img \in Images /\ obj[r][t].ts \in 0 .. MaxTime
    BY <2>1 DEF Objects
  <2>3. obj[r][t].img \in Int
    BY ONLY <1>0, <2>2
  <2>4. obj[r][t].ts \in Nat
    BY <2>2, TileAssumption
  <2> QED
    BY <2>3, <2>4
<1> QED
  BY <1>1, <1>2, <1>3 DEF Numbers

\* A request keeps its place.
Keeps(r) ==
  /\ pc'[r] = pc[r] /\ want'[r] = want[r] /\ todo'[r] = todo[r] /\ missing'[r] = missing[r]
  /\ unit'[r] = unit[r] /\ after'[r] = after[r] /\ made'[r] = made[r] /\ obj'[r] = obj[r]
  /\ since'[r] = since[r] /\ excused'[r] = excused[r]

LEMMA RenewedStable ==
  ASSUME Numbers, AnswerInv, CacheMoves, NEW r \in Requests, NEW t \in Tiles,
         since'[r] = since[r], Renewed(r, t)
  PROVE  Renewed(r, t)' /\ (~Removing /\ cache[t] # None => cache'[t] # None)
<1>1. now > since[r] /\ now > 0
  BY DEF Numbers, AnswerInv, AnswerParts, RequestInv
<1>2. CASE cache'[t] = cache[t] \/ (cache'[t] = None /\ Removing)
  BY <1>2 DEF Renewed
<1>3. CASE cache'[t].img # NoImage /\ cache'[t].ts = now
  BY <1>1, <1>3 DEF Renewed, None
<1> QED
  BY <1>2, <1>3 DEF CacheMoves

\* A settled tile whose object is left alone stays settled.
LEMMA SettledStable ==
  ASSUME Numbers, AnswerInv, CacheMoves, NEW r \in Requests, NEW t \in Tiles,
         since'[r] = since[r], obj'[r][t] = obj[r][t], excused[r] \subseteq excused'[r],
         Settled(r, t)
  PROVE  Settled(r, t)'
<1>1. Renewed(r, t) => Renewed(r, t)'
  BY RenewedStable
<1>2. NothingLost(r) => Served(r, t)'
  BY DEF Settled, Served
<1>3. AgeKnown(r) => Current(r, t)'
  BY <1>1 DEF Settled, Current
<1> QED
  BY <1>2, <1>3 DEF Settled, NothingLost, AgeKnown

\* The source has delivered an image of the tile, or has been asked in vain.
LEMMA SettledBySource ==
  ASSUME Numbers, AnswerInv, NEW r \in Requests, NEW t \in Tiles, since'[r] = since[r],
         obj'[r][t].img = now \/ t \in excused'[r]
  PROVE  Settled(r, t)'
<1>1. now > since[r] /\ now > 0 /\ since[r] \in Nat /\ now \in Nat
  BY DEF Numbers, AnswerInv, AnswerParts, RequestInv
<1>2. CASE t \in excused'[r]
  BY <1>2 DEF Settled, Served, Current
<1>3. CASE obj'[r][t].img = now
  <2>1. obj'[r][t].img # NoImage /\ obj'[r][t].img # AtLocation /\ obj'[r][t].img \notin 1 .. since'[r]
    BY <1>1, <1>3 DEF NoImage, AtLocation
  <2> QED
    BY <2>1 DEF Settled, Served, Current
<1> QED
  BY <1>2, <1>3

\* The requests that do not take the step.
LEMMA OtherRequest ==
  ASSUME Numbers, AnswerInv, CacheMoves, expire' \in Nat, expire <= expire',
         NEW r \in Requests, Keeps(r)
  PROVE  RequestInv(r)'
<1>1. RequestInv(r) /\ TypeOK
  BY DEF AnswerInv, AnswerParts
<1>2. ToReload(r)' = ToReload(r) /\ Pending(r)' = Pending(r)
  BY DEF Keeps, ToReload, Pending
<1>3. ASSUME NEW t \in ToReload(r)
      PROVE  Renewed(r, t)' /\ (~Removing => cache'[t] # None)
  <2>1. t \in Tiles
    BY <1>1, <1>3 DEF ToReload, TypeOK
  <2> QED
    BY <1>1, <2>1, RenewedStable DEF RequestInv, Keeps
<1>4. ASSUME NEW t \in want[r] \ Pending(r)
      PROVE  Settled(r, t)'
  <2>1. t \in Tiles
    BY <1>1 DEF TypeOK
  <2>2. Settled(r, t)
    BY <1>1 DEF RequestInv
  <2> QED
    BY <2>1, <2>2, SettledStable DEF Keeps
<1>5. since'[r] <= expire'
  BY <1>1 DEF RequestInv, Keeps, Numbers
<1>6. \A t \in ToReload(r)' : Renewed(r, t)' /\ (~Removing => cache'[t] # None)
  BY <1>2, <1>3
<1>7. \A t \in want'[r] \ Pending(r)' : Settled(r, t)'
  BY <1>2, <1>4 DEF Keeps
<1>8. /\ pc'[r] = "store" => after'[r] = "create" /\ \A t \in todo'[r] : made'[r][t] # NoImage
      /\ Mode[r] = "single" => \A t, u \in unit'[r] : t = u
      /\ Mode[r] \in {"single", "bulk"} => after'[r] # "reload" /\ pc'[r] # "reload"
  BY <1>1 DEF RequestInv, Keeps
<1> QED
  BY <1>5, <1>6, <1>7, <1>8 DEF RequestInv

LEMMA AnswerInit == Init => AnswerInv
<1> SUFFICES ASSUME Init PROVE AnswerInv
  OBVIOUS
<1>1. StoredInv /\ expire < now
  BY DEF Init, StoredInv, None, NoImage
<1>2. ASSUME NEW r \in Requests PROVE RequestInv(r)
  <2>1. /\ since[r] <= expire /\ pc[r] = "idle" /\ unit[r] = {} /\ want[r] = {}
        /\ after[r] = "create"
    BY DEF Init
  <2>2. ToReload(r) = {}
    BY <2>1 DEF ToReload
  <2> QED
    BY <2>1, <2>2 DEF RequestInv
<1>3. Located
  BY DEF Init, Located, None, NoImage, AtLocation
<1> QED
  BY <1>1, <1>2, <1>3, TypeInit DEF AnswerInv, AnswerParts

\* One request takes a step, of which only it and the tiles of the cache change.
LEMMA StepAnswer ==
  ASSUME Numbers, AnswerInv, CacheMoves, UNCHANGED <<now, expire>>,
         NEW r \in Requests, \A s \in Requests \ {r} : Keeps(s), RequestInv(r)'
  PROVE  AnswerParts'
<1>1. \A s \in Requests : RequestInv(s)'
  BY OtherRequest DEF Numbers
<1>2. StoredInv'
  <2> SUFFICES ASSUME NEW t \in Tiles, cache'[t] # None
               PROVE  cache'[t].img # NoImage /\ cache'[t].ts > 0
    BY DEF StoredInv
  <2>1. CASE cache'[t] = cache[t]
    BY <2>1 DEF AnswerInv, AnswerParts, StoredInv
  <2>2. CASE cache'[t].img # NoImage /\ cache'[t].ts = now
    BY <2>2 DEF AnswerInv, AnswerParts, Numbers
  <2> QED
    BY <2>1, <2>2 DEF CacheMoves
<1> QED
  BY <1>1, <1>2 DEF AnswerParts, AnswerInv

LEMMA CacheStays == cache' = cache => CacheMoves
  BY DEF CacheMoves

\* A request that starts anew, or ends with an error.
LEMMA RestartAnswer ==
  ASSUME Numbers, AnswerInv, UNCHANGED <<now, expire, cache>>, NEW r \in Requests,
         \/ Fail(r)
         \/ \E tiles \in SUBSET Tiles : Restart(r, "load", tiles, expire)
  PROVE  AnswerParts'
<1> USE DEF AnswerInv, TypeOK
<1>1. \A s \in Requests \ {r} : Keeps(s)
  BY DEF Fail, Restart, DropUnit, Goto, Keeps
<1>2. /\ unit'[r] = {} /\ after'[r] = "create" /\ since'[r] <= expire
      /\ pc'[r] = "load" \/ (pc'[r] = "failed" /\ want'[r] = {})
  BY DEF Fail, Restart, DropUnit, Goto, Numbers
<1>3. RequestInv(r)'
  BY <1>2 DEF RequestInv, ToReload, Pending
<1> QED
  BY <1>1, <1>3, StepAnswer, CacheStays

LEMMA LoadAnswer ==
  ASSUME Numbers, AnswerInv, NEW r \in Requests, NEW t \in Tiles, Load(r, t)
  PROVE  AnswerParts'
<1> USE DEF AnswerInv, TypeOK
<1>1. \A s \in Requests \ {r} : Keeps(s)
  BY DEF Load, Goto, Keeps
<1>2. /\ UNCHANGED <<now, expire, cache, want, unit, after, since>>
      /\ pc'[r] = "load" \/ (pc'[r] = "check" /\ todo'[r] = want[r])
  BY DEF Load, Goto, Outside
<1>3. want'[r] \ Pending(r)' = {} /\ ToReload(r)' = {}
  BY <1>2 DEF Pending, ToReload
<1>4. RequestInv(r)'
  BY <1>2, <1>3 DEF RequestInv, AnswerParts
<1> QED
  BY <1>1, <1>2, <1>4, StepAnswer, CacheStays

\* What a look at the cache leaves in a Tile object.
LEMMA LoadedSettled ==
  ASSUME TypeOK, StoredInv, NEW t \in Tiles, NEW o \in Objects
  PROVE  /\ Loaded(o, t).img = NoImage => cache[t] = None /\ o.img = NoImage
         /\ Backend = "file" => Loaded(o, t).ts = o.ts
         /\ Backend = "file" => Loaded(o, t).img \in {o.img, AtLocation}
         /\ Loaded(o, t).img = AtLocation => o.img = AtLocation \/ (Backend = "file" /\ cache[t] # None)
         /\ Loaded(o, t) = o \/ Loaded(o, t) = cache[t] \/ Backend = "file"
<1>1. cache[t].img # AtLocation /\ (cache[t] # None => cache[t].img # NoImage)
  BY NumbersType DEF StoredInv, Numbers
<1> QED
  BY <1>1 DEF Loaded, NoImage, AtLocation, Objects

LEMMA SeenLocated ==
  ASSUME TypeOK, NEW o \in Objects, NEW t \in Tiles, o.img = AtLocation => Backend = "file"
  PROVE  /\ Loaded(o, t).img = AtLocation => Backend = "file"
         /\ Seen(o, t).img = AtLocation => Backend = "file"
         /\ Loaded(Seen(o, t), t).img = AtLocation => Backend = "file"
<1>1. cache[t].img # AtLocation
  BY NumbersType DEF Numbers
<1>2. Loaded(o, t).img = AtLocation => Backend = "file"
  BY <1>1 DEF Loaded
<1>3. Seen(o, t).img = AtLocation => Backend = "file"
  <2>1. [o EXCEPT !.ts = cache[t].ts].img = o.img
    BY DEF Objects
  <2> QED
    BY <1>2, <2>1, ModeAssumption DEF Seen
<1>4. Loaded(Seen(o, t), t).img = AtLocation => Backend = "file"
  BY <1>1, <1>3 DEF Loaded
<1> QED
  BY <1>2, <1>3, <1>4

LEMMA LocatedStep ==
  ASSUME TypeOK, Located, [Next]_vars
  PROVE  Located'
<1> USE DEF Located
<1>0. /\ obj \in [Requests -> [Tiles -> Objects]] /\ now # AtLocation /\ ErrorImage # AtLocation
      /\ NoImage # AtLocation /\ \A t \in Tiles : cache[t].img # AtLocation
  <2>1. Numbers
    BY NumbersType
  <2> QED
    BY <2>1 DEF TypeOK, Numbers, AtLocation, ErrorImage, NoImage
<1>1. ASSUME NEW r \in Requests, NEW t \in Tiles, NEW o \in Objects, SetObj(r, t, o),
             o.img = AtLocation => Backend = "file"
      PROVE  Located'
  BY <1>0, <1>1 DEF SetObj
<1>2. ASSUME UNCHANGED obj PROVE Located'
  BY <1>2
<1>3. ASSUME NEW r \in Requests, NEW state, NEW tiles, NEW time, Restart(r, state, tiles, time)
      PROVE  Located'
  BY <1>0, <1>3 DEF Restart, None
<1>4. ASSUME NEW r \in Requests, NEW t \in Tiles, Load(r, t)
      PROVE  Located'
  BY <1>0, <1>4, SeenLocated DEF Load, BatchLoaded
<1>5. ASSUME NEW r \in Requests, NEW t \in Tiles, Check(r, t)
      PROVE  Located'
  BY <1>0, <1>1, <1>5, SeenLocated, SeenType DEF Check
<1>s. ASSUME NEW r \in Requests, NEW t \in unit[r],
             \/ SetObj(r, t, Seen(obj[r][t], t))
             \/ SetObj(r, t, Loaded(Seen(obj[r][t], t), t))
      PROVE  Located'
  <2>1. t \in Tiles
    BY DEF TypeOK
  <2>2. obj[r][t] \in Objects /\ (obj[r][t].img = AtLocation => Backend = "file")
    BY <1>0, <2>1
  <2>3. Seen(obj[r][t], t) \in Objects /\ Loaded(Seen(obj[r][t], t), t) \in Objects
    BY <2>1, <2>2, SeenType, LoadedType
  <2>4. /\ Seen(obj[r][t], t).img = AtLocation => Backend = "file"
        /\ Loaded(Seen(obj[r][t], t), t).img = AtLocation => Backend = "file"
    BY <2>1, <2>2, SeenLocated
  <2> HIDE DEF Located
  <2> QED
    BY <1>1, <1>s, <2>1, <2>3, <2>4
<1>6. ASSUME NEW r \in Requests, Recheck(r) \/ QueryError(r)
      PROVE  Located'
  <2>1. \/ UNCHANGED obj
        \/ \E t \in unit[r] : \/ SetObj(r, t, Seen(obj[r][t], t))
                              \/ SetObj(r, t, Loaded(Seen(obj[r][t], t), t))
    BY <1>6 DEF Recheck, QueryError
  <2> HIDE DEF Located
  <2> QED
    BY <1>2, <1>s, <2>1
<1>7. ASSUME NEW r \in Requests, NEW img, TakeImage(r, img), img # AtLocation
      PROVE  Located'
  BY <1>0, <1>7 DEF TakeImage, Objects
<1>8. ASSUME NEW r \in Requests, QueryErrorImage(r)
      PROVE  Located'
  <2>1. \/ TakeImage(r, ErrorImage)
        \/ \E t \in unit[r] : SetObj(r, t, Loaded(Seen(obj[r][t], t), t))
    BY <1>8 DEF QueryErrorImage
  <2> HIDE DEF Located
  <2> QED
    BY <1>0, <1>7, <1>s, <2>1
<1>9. ASSUME NEW r \in Requests, QueryBulk(r)
      PROVE  Located'
  <2>1. \A t \in Tiles : obj'[r][t].img \in {now, ErrorImage, obj[r][t].img}
    <3>1. PICK got : obj' = [obj EXCEPT ![r] = [t \in Tiles |->
            CASE t \in want[r] \cap {u \in unit[r] : got[u] \in {"image", "uncacheable"}} ->
                   [@[t] EXCEPT !.img = now]
              [] t \in want[r] \cap {u \in unit[r] : got[u] \in {"authorize_stale", "authorize_stale_cache"}} ->
                   [@[t] EXCEPT !.img = ErrorImage]
              [] OTHER -> @[t]]]
      BY <1>9 DEF QueryBulk
    <3> QED
      BY <1>0, <3>1 DEF Objects
  <2>2. \A s \in Requests \ {r} : obj'[s] = obj[s]
    BY <1>0, <1>9 DEF QueryBulk
  <2> QED
    BY <1>0, <2>1, <2>2
<1>10. ASSUME NEW r \in Requests, NEW t \in Tiles, Reload(r, t)
       PROVE  Located'
  <2>1. \A u \in Tiles : BatchLoaded(None, u).img = AtLocation => Backend = "file"
    BY <1>0, SeenLocated, NoneType DEF None, BatchLoaded
  <2> QED
    BY <1>0, <1>10, <2>1 DEF Reload, Objects
<1>11. ASSUME NEW r \in Requests, NEW t \in Tiles, Answer(r, t)
       PROVE  Located'
  <2>1. Fail(r) \/ SetObj(r, t, cache[t]) \/ UNCHANGED obj
    BY <1>11 DEF Answer
  <2> QED
    BY <1>0, <1>1, <1>2, <1>3, <2>1, StoredType DEF Fail
<1>12. ASSUME NEW r \in Requests, Step(r) \/ Die(r) \/ \E tiles \in SUBSET Tiles : Arrive(r, tiles)
       PROVE  Located'
  <2>1. CASE QuerySources(r)
    BY <1>0, <1>2, <1>6, <1>7, <1>8, <1>9, <2>1
       DEF QuerySources, QueryImage, QueryUncacheable, QueryBlank
  <2>2. CASE Unlock(r) \/ Die(r) \/ LockTimeout(r) \/ \E tiles \in SUBSET Tiles : Arrive(r, tiles)
    BY <1>2, <1>3, <2>2 DEF Unlock, Die, LockTimeout, Arrive, Fail
  <2>3. CASE NextUnit(r) \/ Created(r) \/ Acquire(r) \/ StoreFails(r) \/ \E t \in Tiles : Store(r, t)
    BY <1>2, <2>3 DEF NextUnit, Created, Acquire, StoreFails, Store
  <2> QED
    BY <1>4, <1>5, <1>6, <1>10, <1>11, <1>12, <2>1, <2>2, <2>3 DEF Step, TakeLock
<1>13. CASE Tick \/ UNCHANGED vars \/ \E t \in Tiles : Remove(t)
  BY <1>2, <1>13 DEF Tick, Remove, vars, reqVars
<1> QED
  BY <1>12, <1>13 DEF Next

\* The request has looked at a tile, and found it cached.
LEMMA SeenSettled ==
  ASSUME Numbers, AnswerInv, NEW r \in Requests, NEW t \in Tiles, UNCHANGED cache,
         since'[r] = since[r], IsCached(obj[r][t], t),
         \/ obj'[r][t] = Seen(obj[r][t], t)
         \/ obj'[r][t] = Loaded(Seen(obj[r][t], t), t)
  PROVE  Settled(r, t)'
<1> DEFINE o == obj[r][t]
           seen == Seen(o, t)
           new == obj'[r][t]
<1>1. /\ o \in Objects /\ seen \in Objects /\ StoredInv /\ TypeOK
      /\ o.img = AtLocation => Backend = "file"
  BY SeenType DEF AnswerInv, AnswerParts, TypeOK, Located
<1>2. Exists(o, t) /\ (expire = Never \/ seen.ts > expire)
  BY DEF IsCached
<1>3. since[r] <= expire /\ since[r] \in Nat /\ expire \in Nat /\ cache[t].img # AtLocation /\ cache[t].ts \in Nat
  BY DEF AnswerInv, AnswerParts, RequestInv, Numbers
<1>4. seen.img = AtLocation => Backend = "file"
  BY <1>1, SeenLocated
<1>5. seen = new \/ Loaded(seen, t) = new
  OBVIOUS
<1>6. new = seen \/ (new = cache[t] /\ cache[t] # None /\ seen.img = NoImage)
        \/ (Backend = "file" /\ cache[t] # None /\ new = [seen EXCEPT !.img = AtLocation])
  BY <1>5 DEF Loaded
<1>7. new \in Objects /\ new.ts \in Int /\ (new.img = AtLocation => Backend = "file")
  <2>1. new \in Objects
    BY <1>1, <1>5, LoadedType
  <2>2. new.img = AtLocation => Backend = "file"
    BY <1>1, <1>4, <1>5, SeenLocated
  <2> QED
    BY <2>1, <2>2 DEF Objects
<1>8. ASSUME NothingLost(r) PROVE new.img # NoImage
  <2>1. seen = Loaded(o, t)
    BY <1>8 DEF Seen, NothingLost
  <2>2. seen.img # NoImage
    BY <1>1, <1>2, <2>1, LoadedSettled DEF Exists
  <2> QED
    BY <1>1, <1>5, <2>2, LoadedSettled
<1>9. ASSUME expire # Never PROVE Backend # "file" => new.ts > since[r]
  <2>1. seen.ts > since[r]
    BY <1>1, <1>2, <1>3, <1>9 DEF Objects
  <2>2. cache[t] # None /\ seen.img = NoImage /\ Backend # "file" => cache[t].ts = seen.ts
    <3>1. CASE Backend = "sqlite"
      BY <1>1, <3>1, LoadedSettled DEF Seen
    <3>2. CASE Backend = "s3"
      BY <1>1, <3>2 DEF Seen, Objects
    <3> QED
      BY <3>1, <3>2, ModeAssumption
  <2> QED
    BY <1>6, <2>1, <2>2
<1>10. ASSUME expire # Never, Backend = "file" PROVE new.ts > since[r] /\ cache[t].ts > since[r]
  <2>1. seen.ts = cache[t].ts
    BY <1>1, <1>10 DEF Seen, Objects
  <2>2. seen.ts > since[r]
    BY <1>1, <1>2, <1>3, <1>10 DEF Objects
  <2>3. [seen EXCEPT !.img = AtLocation].ts = seen.ts
    BY <1>1 DEF Objects
  <2> QED
    BY <1>6, <2>1, <2>2, <2>3
<1>11. ASSUME expire = Never PROVE Renewed(r, t) /\ new.img \notin 1 .. since[r]
  BY <1>1, <1>3, <1>11 DEF Renewed, Never, StoredInv
<1>12. Current(r, t)'
  <2>1. CASE new.img = AtLocation
    BY <1>3, <1>7, <1>10, <1>11, <2>1 DEF Current, Renewed
  <2>2. CASE new.img # AtLocation
    BY <1>9, <1>10, <1>11, <2>2 DEF Current
  <2> QED
    BY <2>1, <2>2
<1>13. NothingLost(r) => Served(r, t)'
  BY <1>8 DEF Served
<1> QED
  BY <1>12, <1>13 DEF Settled, NothingLost, AgeKnown

LEMMA CheckAnswer ==
  ASSUME Numbers, AnswerInv, NEW r \in Requests, NEW t \in Tiles, Check(r, t)
  PROVE  AnswerParts'
<1> USE DEF AnswerInv, TypeOK
<1>1. \A s \in Requests \ {r} : Keeps(s)
  BY DEF Check, Goto, SetObj, Keeps
<1>2. /\ UNCHANGED <<now, expire, cache, want, unit, after, since, excused>>
      /\ obj'[r] = [obj[r] EXCEPT ![t] = Seen(obj[r][t], t)]
      /\ missing'[r] = IF IsCached(obj[r][t], t) THEN missing[r] ELSE missing[r] \cup {t}
      /\ todo'[r] = todo[r] \ {t} /\ pc[r] = "check"
      /\ pc'[r] = IF todo[r] = {t} THEN "create" ELSE "check"
  BY DEF Check, Goto, SetObj, Outside
<1>3. ToReload(r)' = {}
  BY <1>2 DEF ToReload
<1>4. ASSUME NEW u \in want'[r] \ Pending(r)'
      PROVE  Settled(r, u)'
  <2>1. Pending(r) = todo[r] \cup missing[r]
    BY <1>2 DEF Pending
  <2>2. Pending(r)' = (todo[r] \ {t}) \cup missing'[r]
    BY <1>2 DEF Pending
  <2>3. u \in Tiles /\ u \in want[r]
    BY <1>2
  <2>4. CASE u = t
    <3>1. IsCached(obj[r][t], t)
      BY <1>2, <1>4, <2>2, <2>4
    <3>2. obj'[r][t] = Seen(obj[r][t], t)
      BY <1>2
    <3> QED
      BY <1>2, <2>4, <3>1, <3>2, SeenSettled
  <2>5. CASE u # t
    <3>1. u \notin Pending(r) /\ obj'[r][u] = obj[r][u]
      BY <1>2, <1>4, <2>1, <2>2, <2>3, <2>5
    <3> QED
      BY <1>2, <2>3, <3>1, SettledStable, CacheStays DEF AnswerParts, RequestInv
  <2> QED
    BY <2>4, <2>5
<1>5. RequestInv(r)'
  BY <1>2, <1>3, <1>4 DEF RequestInv, AnswerParts
<1> QED
  BY <1>1, <1>2, <1>5, StepAnswer, CacheStays

\* What was settled stays so while the request works on other tiles.
LEMMA SettledKept ==
  ASSUME Numbers, AnswerInv, CacheMoves, NEW r \in Requests, NEW t \in want[r] \ Pending(r),
         since'[r] = since[r], obj'[r][t] = obj[r][t], excused[r] \subseteq excused'[r]
  PROVE  Settled(r, t)'
<1>1. t \in Tiles /\ Settled(r, t)
  BY DEF AnswerInv, AnswerParts, RequestInv, TypeOK
<1> QED
  BY <1>1, SettledStable

LEMMA NextUnitAnswer ==
  ASSUME Numbers, AnswerInv, NEW r \in Requests, NextUnit(r)
  PROVE  AnswerParts'
<1> USE DEF AnswerInv, TypeOK
<1>1. \A s \in Requests \ {r} : Keeps(s)
  BY DEF NextUnit, Goto, Keeps
<1>2. PICK u \in Units(Mode[r], missing[r]) :
        /\ unit' = [unit EXCEPT ![r] = u.tiles]
        /\ missing' = [missing EXCEPT ![r] = @ \ u.tiles]
  BY DEF NextUnit
<1>3. /\ UNCHANGED <<now, expire, cache, want, obj, since, excused, after>>
      /\ pc[r] = "create" /\ pc'[r] = "lock"
  BY DEF NextUnit, Goto, Outside
<1>4. ToReload(r)' = {} /\ Pending(r) \subseteq Pending(r)'
  BY <1>2, <1>3 DEF ToReload, Pending
<1>5. \A t \in want'[r] \ Pending(r)' : Settled(r, t)'
  BY <1>3, <1>4, SettledKept, CacheStays
<1>6. Mode[r] = "single" => \A t, v \in unit'[r] : t = v
  BY <1>2 DEF Units
<1>7. RequestInv(r)'
  BY <1>3, <1>4, <1>5, <1>6 DEF RequestInv, AnswerParts
<1> QED
  BY <1>1, <1>3, <1>7, StepAnswer, CacheStays

LEMMA CreatedAnswer ==
  ASSUME Numbers, AnswerInv, NEW r \in Requests, Created(r) \/ Acquire(r)
  PROVE  AnswerParts'
<1> USE DEF AnswerInv, TypeOK
<1>1. \A s \in Requests \ {r} : Keeps(s)
  BY DEF Created, Acquire, Goto, Keeps
<1>2. UNCHANGED <<now, expire, cache, want, missing, unit, obj, since, excused, after>>
  BY DEF Created, Acquire, Outside
<1>3. \/ pc[r] = "create" /\ pc'[r] = "answer" /\ missing[r] = {}
      \/ pc[r] = "lock" /\ pc'[r] = "recheck"
  BY DEF Created, Acquire, Goto
<1>4. ToReload(r)' = {} /\ Pending(r) = Pending(r)'
  BY <1>2, <1>3 DEF ToReload, Pending
<1>5. \A t \in want'[r] \ Pending(r)' : Settled(r, t)'
  BY <1>2, <1>4, SettledKept, CacheStays
<1>6. RequestInv(r)'
  BY <1>2, <1>3, <1>4, <1>5 DEF RequestInv, AnswerParts
<1> QED
  BY <1>1, <1>2, <1>6, StepAnswer, CacheStays

LEMMA RecheckAnswer ==
  ASSUME Numbers, AnswerInv, NEW r \in Requests, Recheck(r)
  PROVE  AnswerParts'
<1> USE DEF AnswerInv, TypeOK
<1>1. \A s \in Requests \ {r} : Keeps(s)
  BY DEF Recheck, Goto, SetObj, Keeps
<1>2. /\ UNCHANGED <<now, expire, cache, want, todo, missing, unit, since, excused>>
      /\ pc[r] = "recheck" /\ pc'[r] \in {"unlock", "query"}
      /\ after'[r] = AllCached(r)
  BY DEF Recheck, Goto, Outside
<1>3. Pending(r) = missing[r] \cup unit[r]
  BY <1>2 DEF Pending
<1>4. ASSUME Mode[r] = "single" PROVE RequestInv(r)'
  <2>1. PICK t \in unit[r] :
          IF IsCached(obj[r][t], t)
            THEN pc'[r] = "unlock" /\ SetObj(r, t, Loaded(Seen(obj[r][t], t), t))
            ELSE pc'[r] = "query" /\ SetObj(r, t, Seen(obj[r][t], t))
    BY <1>4 DEF Recheck, Goto
  <2>2. \A u \in unit[r] : u = t
    BY <1>4, <2>1 DEF AnswerParts, RequestInv
  <2>3. \A u \in Tiles \ {t} : obj'[r][u] = obj[r][u]
    BY <2>1 DEF SetObj
  <2>4. ASSUME NEW u \in want'[r] \ Pending(r)'
        PROVE  Settled(r, u)'
    <3>1. u \in Tiles /\ u \in want[r] /\ u \notin missing[r]
      BY <1>2, <1>4, <2>4 DEF Pending, AllCached
    <3>2. CASE u \in unit[r]
      <4>1. pc'[r] = "unlock"
        BY <1>2, <2>4, <3>2 DEF Pending
      <4>2. u = t /\ IsCached(obj[r][t], t) /\ obj'[r][t] = Loaded(Seen(obj[r][t], t), t)
        BY <2>1, <2>2, <3>2, <4>1 DEF SetObj
      <4> QED
        BY <1>2, <3>1, <4>2, SeenSettled
    <3>3. CASE u \notin unit[r]
      BY <1>2, <1>3, <2>1, <2>3, <3>1, <3>3, SettledKept, CacheStays
    <3> QED
      BY <3>2, <3>3
  <2>5. ToReload(r)' = {}
    BY <1>2, <1>4 DEF ToReload, AllCached
  <2> QED
    BY <1>2, <1>4, <2>4, <2>5 DEF RequestInv, AnswerParts, AllCached
<1>5. ASSUME Mode[r] # "single" PROVE RequestInv(r)'
  <2>1. UNCHANGED obj /\ (pc'[r] = "unlock" => \A t \in unit[r] : Fresh(cache[t]))
    BY <1>5 DEF Recheck, Goto
  <2>2. Pending(r)' = Pending(r)
    BY <1>2, <1>3, <1>5 DEF Pending, AllCached
  <2>3. \A t \in want'[r] \ Pending(r)' : Settled(r, t)'
    BY <1>2, <2>1, <2>2, SettledKept, CacheStays
  <2>4. ASSUME NEW t \in ToReload(r)'
        PROVE  Renewed(r, t)' /\ cache'[t] # None
    <3>1. t \in unit[r] /\ pc'[r] = "unlock"
      BY <1>2, <2>4 DEF ToReload
    <3>2. cache[t] # None /\ cache[t].ts > expire /\ t \in Tiles
      BY <2>1, <3>1 DEF Fresh
    <3> QED
      BY <1>2, <3>2 DEF Renewed, AnswerParts, RequestInv, Numbers
  <2> QED
    BY <1>2, <1>5, <2>3, <2>4 DEF RequestInv, AnswerParts, AllCached
<1> QED
  BY <1>1, <1>2, <1>4, <1>5, StepAnswer, CacheStays

LEMMA QueryAnswer ==
  ASSUME Numbers, AnswerInv, NEW r \in Requests, QuerySources(r)
  PROVE  AnswerParts'
<1> USE DEF AnswerInv, TypeOK
<1>q. /\ Outside /\ UNCHANGED <<cache, want, missing, unit, key, since>> /\ pc[r] = "query"
      /\ after' = [after EXCEPT ![r] = "create"] \/ after' = [after EXCEPT ![r] = "failed"]
  BY QueryEffect
<1>p. PICK state \in {"unlock", "store"} : Goto(r, state)
  BY QueryEffect
<1>k. /\ \A s \in Requests \ {r} : made'[s] = made[s] /\ todo'[s] = todo[s]
      /\ pc'[r] = "store" =>
           after'[r] = "create" /\ \A t \in todo'[r] : made'[r][t] # NoImage
  <2>1. CASE Goto(r, "unlock") /\ UNCHANGED <<todo, made>>
    BY <2>1 DEF Goto
  <2>2. CASE ~(Goto(r, "unlock") /\ UNCHANGED <<todo, made>>)
    <3>1. PICK tiles \in SUBSET unit[r] : \E img :
            /\ Keep(r, tiles, img) /\ \A t \in tiles : img[t] \in {now, ErrorImage}
            /\ after' = [after EXCEPT ![r] = "create"]
      BY <2>2, QueryEffect
    <3>2. PICK img : /\ Keep(r, tiles, img) /\ \A t \in tiles : img[t] \in {now, ErrorImage}
                     /\ after' = [after EXCEPT ![r] = "create"]
      BY <3>1
    <3>3. now # NoImage /\ ErrorImage # NoImage
      BY DEF AnswerParts, Numbers, NoImage, ErrorImage
    <3> QED
      BY <3>2, <3>3 DEF Keep
  <2> QED
    BY <2>1, <2>2
<1>e. \A s \in Requests \ {r} : excused'[s] = excused[s]
  <2>1. UNCHANGED excused \/ \E tiles \in SUBSET unit[r] : Excuse(r, tiles)
    BY QueryEffect
  <2>2. ASSUME NEW tiles, Excuse(r, tiles)
        PROVE  \A s \in Requests \ {r} : excused'[s] = excused[s]
    BY <2>2 DEF Excuse
  <2> QED
    BY <2>1, <2>2
<1>o. \A s \in Requests \ {r} : obj'[s] = obj[s]
  BY DEF QuerySources, QueryImage, QueryUncacheable, QueryBlank, QueryError, QueryErrorImage,
         QueryBulk, SetObj, TakeImage
<1>1. \A s \in Requests \ {r} : Keeps(s)
  BY <1>q, <1>p, <1>k, <1>e, <1>o DEF Goto, Keeps
<1>2. /\ UNCHANGED <<now, expire, cache, want, missing, unit, since>>
      /\ pc[r] = "query" /\ pc'[r] \in {"unlock", "store"} /\ after'[r] \in {"create", "failed"}
      /\ pc'[r] = "store" => after'[r] = "create" /\ \A t \in todo'[r] : made'[r][t] # NoImage
  BY <1>q, <1>p, <1>k DEF Goto, Outside
<1>3. Pending(r) = missing[r] \cup unit[r]
  BY <1>2 DEF Pending
<1>4. ASSUME NEW u \in Tiles
      PROVE  /\ u \notin unit[r] => obj'[r][u] = obj[r][u]
             /\ u \in want[r] \cap unit[r] /\ after'[r] = "create" =>
                  obj'[r][u].img = now \/ u \in excused'[r]
             /\ after'[r] = "failed" => obj'[r][u] = obj[r][u]
             /\ excused[r] \subseteq excused'[r]
  <2>0. obj[r][u] \in Objects
    OBVIOUS
  <2>1. ASSUME NEW img, TakeImage(r, img)
        PROVE  /\ u \notin unit[r] => obj'[r][u] = obj[r][u]
               /\ u \in want[r] \cap unit[r] => obj'[r][u].img = img
    BY <2>0, <2>1 DEF TakeImage, Objects
  <2>2. ASSUME NEW o, NEW t \in unit[r], SetObj(r, t, o)
        PROVE  u \notin unit[r] => obj'[r][u] = obj[r][u]
    BY <2>2 DEF SetObj
  <2>e. ASSUME NEW tiles, Excuse(r, tiles)
        PROVE  (u \in tiles \cap want[r] => u \in excused'[r]) /\ excused[r] \subseteq excused'[r]
    BY <2>e DEF Excuse
  <2>3. CASE QueryImage(r)
    BY <2>1, <2>3 DEF QueryImage
  <2>4. CASE QueryUncacheable(r)
    BY <2>1, <2>4 DEF QueryUncacheable
  <2>5. CASE QueryBlank(r)
    BY <2>5, <2>e DEF QueryBlank
  <2>6. CASE QueryError(r)
    <3>1. Excuse(r, unit[r])
      BY <2>6 DEF QueryError
    <3>2. (\E t \in unit[r] : SetObj(r, t, Loaded(Seen(obj[r][t], t), t)) /\ after'[r] = "create")
            \/ UNCHANGED obj
      BY <2>6 DEF QueryError
    <3> QED
      BY <2>2, <2>e, <3>1, <3>2
  <2>7. CASE QueryErrorImage(r)
    <3>1. Excuse(r, unit[r]) /\ after'[r] = "create"
      BY <2>7 DEF QueryErrorImage
    <3>2. (\E t \in unit[r] : SetObj(r, t, Loaded(Seen(obj[r][t], t), t)))
            \/ TakeImage(r, ErrorImage)
      BY <2>7 DEF QueryErrorImage
    <3> QED
      BY <2>1, <2>2, <2>e, <3>1, <3>2
  <2>8. CASE QueryBulk(r)
    <3>1. PICK got \in [unit[r] -> Outcomes \ {"error"}] :
            /\ obj' = [obj EXCEPT ![r] = [t \in Tiles |->
                 CASE t \in want[r] \cap {v \in unit[r] : got[v] \in {"image", "uncacheable"}} ->
                        [@[t] EXCEPT !.img = now]
                   [] t \in want[r] \cap {v \in unit[r] : got[v] \in {"authorize_stale", "authorize_stale_cache"}} ->
                        [@[t] EXCEPT !.img = ErrorImage]
                   [] OTHER -> @[t]]]
            /\ Excuse(r, {v \in unit[r] : got[v] \in {"blank"}}
                    \cup {v \in unit[r] : got[v] \in {"authorize_stale", "authorize_stale_cache"}})
      BY <2>8 DEF QueryBulk
    <3>2. u \notin unit[r] => obj'[r][u] = obj[r][u]
      BY <3>1
    <3>3. ASSUME u \in want[r] \cap unit[r], u \notin excused'[r]
          PROVE  obj'[r][u].img = now
      <4>1. got[u] \in {"image", "uncacheable"}
        <5>1. u \notin {v \in unit[r] : got[v] \in {"blank"}}
               /\ u \notin {v \in unit[r] : got[v] \in {"authorize_stale", "authorize_stale_cache"}}
          BY <2>e, <3>1, <3>3
        <5> QED
          BY <3>1, <3>3, <5>1, ModeAssumption
      <4>2. obj'[r][u] = [obj[r][u] EXCEPT !.img = now]
        BY <3>1, <3>3, <4>1
      <4> QED
        BY <2>0, <4>2 DEF Objects
    <3>4. after'[r] = "create" /\ excused[r] \subseteq excused'[r]
      BY <2>8, <2>e, <3>1 DEF QueryBulk
    <3> QED
      BY <3>2, <3>3, <3>4
  <2> QED
    BY ONLY QuerySources(r), <2>3, <2>4, <2>5, <2>6, <2>7, <2>8 DEF QuerySources
<1>5. ASSUME NEW u \in want'[r] \ Pending(r)'
      PROVE  Settled(r, u)'
  <2>1. u \in Tiles /\ u \in want[r] /\ u \notin missing[r]
    BY <1>2, <1>5 DEF Pending
  <2>2. CASE u \in unit[r]
    <3>1. after'[r] = "create"
      BY <1>2, <1>5, <2>2 DEF Pending
    <3> QED
      BY <1>2, <1>4, <2>1, <2>2, <3>1, SettledBySource
  <2>3. CASE u \notin unit[r]
    BY <1>2, <1>3, <1>4, <2>1, <2>3, SettledKept, CacheStays
  <2> QED
    BY <2>2, <2>3
<1>6. ToReload(r)' = {}
  BY <1>2 DEF ToReload
<1>8. RequestInv(r)'
  BY <1>2, <1>5, <1>6 DEF RequestInv, AnswerParts
<1> QED
  BY <1>1, <1>2, <1>8, StepAnswer, CacheStays

LEMMA StoreAnswer ==
  ASSUME Numbers, AnswerInv, NEW r \in Requests, NEW t \in Tiles, Store(r, t)
  PROVE  AnswerParts'
<1> USE DEF AnswerInv, TypeOK
<1>1. \A s \in Requests \ {r} : Keeps(s)
  BY DEF Store, Goto, Keeps
<1>2. /\ UNCHANGED <<now, expire, want, missing, unit, made, obj, since, excused, after>>
      /\ pc[r] = "store" /\ pc'[r] \in {"store", "unlock"}
      /\ cache' = [u \in Tiles |->
                     IF u \in Batch(r, t) THEN [img |-> made[r][u], ts |-> now] ELSE cache[u]]
      /\ Batch(r, t) \subseteq todo[r] /\ todo'[r] \subseteq todo[r]
  BY DEF Store, Goto, Outside, Batch
<1>3. after[r] = "create" /\ \A u \in todo[r] : made[r][u] # NoImage
  BY <1>2 DEF AnswerParts, RequestInv
<1>4. CacheMoves
  BY <1>2, <1>3 DEF CacheMoves
<1>5. ToReload(r)' = {} /\ Pending(r)' = Pending(r)
  BY <1>2, <1>3 DEF ToReload, Pending
<1>6. \A u \in want'[r] \ Pending(r)' : Settled(r, u)'
  BY <1>2, <1>4, <1>5, SettledKept
<1>7. RequestInv(r)'
  BY <1>2, <1>3, <1>5, <1>6 DEF RequestInv, AnswerParts
<1> QED
  BY <1>1, <1>2, <1>4, <1>7, StepAnswer

LEMMA StoreFailsAnswer ==
  ASSUME Numbers, AnswerInv, NEW r \in Requests, StoreFails(r)
  PROVE  AnswerParts'
<1> USE DEF AnswerInv, TypeOK
<1>1. \A s \in Requests \ {r} : Keeps(s)
  BY DEF StoreFails, Goto, Keeps
<1>2. /\ UNCHANGED <<now, expire, cache, want, missing, unit, obj, since, excused>>
      /\ pc[r] = "store" /\ pc'[r] = "unlock" /\ after'[r] \in {"create", "failed"}
  BY DEF StoreFails, Goto, Outside
<1>3. ToReload(r)' = {} /\ Pending(r) \subseteq Pending(r)'
  BY <1>2 DEF ToReload, Pending
<1>4. \A u \in want'[r] \ Pending(r)' : Settled(r, u)'
  BY <1>2, <1>3, SettledKept, CacheStays
<1>5. RequestInv(r)'
  BY <1>2, <1>3, <1>4 DEF RequestInv, AnswerParts
<1> QED
  BY <1>1, <1>2, <1>5, StepAnswer, CacheStays

LEMMA UnlockAnswer ==
  ASSUME Numbers, AnswerInv, NEW r \in Requests, Unlock(r)
  PROVE  AnswerParts'
<1> USE DEF AnswerInv, TypeOK
<1>1. CASE after[r] = "failed"
  BY <1>1, RestartAnswer DEF Unlock
<1>2. CASE after[r] # "failed"
  <2>1. \A s \in Requests \ {r} : Keeps(s)
    BY <1>2 DEF Unlock, Goto, DropUnit, Keeps
  <2>2. /\ UNCHANGED <<now, expire, cache, want, missing, obj, since, excused>>
        /\ pc[r] = "unlock" /\ pc'[r] = after[r] /\ after[r] \in {"create", "reload"}
        /\ todo'[r] = IF after[r] = "reload" THEN unit[r] ELSE {}
        /\ unit'[r] = {} /\ after'[r] = "create"
    BY <1>2 DEF Unlock, Goto, DropUnit
  <2>3. ToReload(r)' = ToReload(r) /\ Pending(r)' = Pending(r)
    BY <2>2 DEF ToReload, Pending
  <2>4. \A t \in want'[r] \ Pending(r)' : Settled(r, t)'
    BY <2>2, <2>3, SettledKept, CacheStays
  <2>5. \A t \in ToReload(r)' : Renewed(r, t)' /\ (~Removing => cache'[t] # None)
    BY <2>2, <2>3 DEF AnswerParts, RequestInv, Renewed
  <2>6. Mode[r] \in {"single", "bulk"} => pc'[r] # "reload"
    BY <2>2 DEF AnswerParts, RequestInv
  <2>7. RequestInv(r)'
    BY <2>2, <2>4, <2>5, <2>6 DEF RequestInv, AnswerParts
  <2> QED
    BY <2>1, <2>2, <2>7, StepAnswer, CacheStays
<1> QED
  BY <1>1, <1>2

LEMMA ReloadAnswer ==
  ASSUME Numbers, AnswerInv, NEW r \in Requests, NEW t \in Tiles, Reload(r, t)
  PROVE  AnswerParts'
<1> USE DEF AnswerInv, TypeOK
<1>1. \A s \in Requests \ {r} : Keeps(s)
  BY DEF Reload, Goto, Keeps
<1>2. /\ UNCHANGED <<now, expire, cache, want, missing, unit, since, excused, after>>
      /\ pc[r] = "reload" /\ todo'[r] = todo[r] \ Batch(r, t)
      /\ pc'[r] = "reload" \/ (pc'[r] = "create" /\ todo[r] = Batch(r, t))
      /\ \A u \in Tiles :
           obj'[r][u] = IF u \in want[r] \cap Batch(r, t)
                          THEN [obj[r][u] EXCEPT !.img = BatchLoaded(None, u).img] ELSE obj[r][u]
  BY DEF Reload, Goto, Outside
<1>3. Pending(r) = missing[r] \cup todo[r] /\ ToReload(r) = todo[r]
  BY <1>2 DEF Pending, ToReload
<1>4. ToReload(r)' \subseteq ToReload(r)
  BY <1>2, <1>3 DEF ToReload
<1>5. \A u \in ToReload(r)' : Renewed(r, u)' /\ (~Removing => cache'[u] # None)
  BY <1>2, <1>4 DEF AnswerParts, RequestInv, Renewed
<1>6. Mode[r] \notin {"single", "bulk"}
  BY <1>2 DEF AnswerParts, RequestInv
<1>7. Batch(r, t) \subseteq todo[r]
  BY DEF Batch, Reload
<1>8. ASSUME NEW u \in want[r] \cap Batch(r, t)
      PROVE  Settled(r, u)'
  <2>1. u \in Tiles /\ Renewed(r, u) /\ (~Removing => cache[u] # None)
    BY <1>3, <1>7, <1>8 DEF AnswerParts, RequestInv
  <2>2. obj[r][u] \in Objects /\ StoredInv
    BY <2>1 DEF AnswerParts
  <2>3. obj'[r][u].img = BatchLoaded(None, u).img
    BY <1>2, <1>8, <2>1, <2>2 DEF Objects
  <2>4. ASSUME NothingLost(r) PROVE Served(r, u)'
    <3>1. cache[u] # None /\ BatchLoaded(None, u) = Loaded(None, u)
      BY <1>6, <2>1, <2>4 DEF NothingLost, BatchLoaded
    <3>2. BatchLoaded(None, u).img # NoImage
      BY <2>1, <3>1, LoadedSettled, NoneType DEF AnswerParts
    <3> QED
      BY <2>3, <3>2 DEF Served
  <2>5. ASSUME AgeKnown(r) PROVE Current(r, u)'
    <3>1. Backend = "file" /\ BatchLoaded(None, u) = Loaded(None, u)
      BY <1>6, <2>5 DEF AgeKnown, BatchLoaded
    <3>2. BatchLoaded(None, u).img \in {NoImage, AtLocation}
      BY <2>1, <3>1, LoadedSettled, NoneType DEF AnswerParts, None
    <3>3. NoImage # AtLocation /\ NoImage \notin 1 .. since'[r]
      BY <1>2 DEF NoImage, AtLocation, Numbers
    <3>4. Renewed(r, u)'
      BY <1>2, <2>1 DEF Renewed
    <3> QED
      BY <2>3, <3>2, <3>3, <3>4 DEF Current
  <2> QED
    BY <2>4, <2>5 DEF Settled, NothingLost, AgeKnown
<1>9. ASSUME NEW u \in want'[r] \ Pending(r)'
      PROVE  Settled(r, u)'
  <2>1. u \in Tiles /\ u \in want[r] /\ u \notin missing[r] /\ u \notin todo'[r]
    BY <1>2, <1>9 DEF Pending
  <2>2. CASE u \in Batch(r, t)
    BY <1>8, <2>1, <2>2
  <2>3. CASE u \notin Batch(r, t)
    BY <1>2, <1>3, <2>1, <2>3, SettledKept, CacheStays
  <2> QED
    BY <2>2, <2>3
<1>10. RequestInv(r)'
  BY <1>2, <1>5, <1>6, <1>9 DEF RequestInv, AnswerParts
<1> QED
  BY <1>1, <1>2, <1>10, StepAnswer, CacheStays

LEMMA ServeAnswer ==
  ASSUME Numbers, AnswerInv, NEW r \in Requests, NEW t \in Tiles, Answer(r, t)
  PROVE  AnswerParts'
<1> USE DEF AnswerInv, TypeOK
<1>1. CASE obj[r][t].img = AtLocation /\ cache[t] = None
  BY <1>1, RestartAnswer DEF Answer, Outside
<1>2. CASE ~(obj[r][t].img = AtLocation /\ cache[t] = None)
  <2>1. \A s \in Requests \ {r} : Keeps(s)
    BY <1>2 DEF Answer, Goto, SetObj, Keeps
  <2>2. /\ UNCHANGED <<now, expire, cache, want, missing, unit, since, excused, after>>
        /\ pc[r] = "answer" /\ pc'[r] \in {"answer", "done"}
        /\ \A u \in Tiles \ {t} : obj'[r][u] = obj[r][u]
        /\ obj'[r][t] = IF obj[r][t].img = AtLocation THEN cache[t] ELSE obj[r][t]
    BY <1>2 DEF Answer, Goto, SetObj, Outside
  <2>3. ToReload(r)' = {} /\ Pending(r) = {}
    BY <2>2 DEF ToReload, Pending
  <2>4. ASSUME NEW u \in want'[r] PROVE Settled(r, u)'
    <3>1. u \in Tiles /\ u \in want[r] \ Pending(r) /\ Settled(r, u)
      BY <2>2, <2>3, <2>4 DEF AnswerParts, RequestInv
    <3>2. CASE obj'[r][u] = obj[r][u]
      BY <2>2, <3>1, <3>2, SettledKept, CacheStays
    <3>3. CASE obj'[r][u] # obj[r][u]
      <4>1. u = t /\ obj[r][t].img = AtLocation /\ obj'[r][t] = cache[t] /\ cache[t] # None
        BY <1>2, <2>2, <3>1, <3>3
      <4>2. cache[t].img # NoImage /\ cache[t].img # AtLocation
        BY <4>1 DEF AnswerParts, StoredInv, Numbers
      <4>3. Served(r, u)'
        BY <4>1, <4>2 DEF Served
      <4>4. ASSUME AgeKnown(r) PROVE Current(r, u)'
        <5>1. t \in excused[r] \/ Renewed(r, t)
          BY <3>1, <4>1, <4>4 DEF Settled, Current
        <5> QED
          BY <2>2, <4>1, <4>2, <5>1 DEF Current, Renewed
      <4> QED
        BY <4>3, <4>4 DEF Settled, AgeKnown
    <3> QED
      BY <3>2, <3>3
  <2>5. RequestInv(r)'
    BY <2>2, <2>3, <2>4 DEF RequestInv, AnswerParts
  <2> QED
    BY <2>1, <2>2, <2>5, StepAnswer, CacheStays
<1> QED
  BY <1>1, <1>2

\* Nobody takes a step but the environment.
LEMMA WorldAnswer ==
  ASSUME Numbers, AnswerInv, TypeOK', UNCHANGED reqVars, CacheMoves,
         expire <= expire', expire' < now', Tick \/ UNCHANGED now
  PROVE  AnswerParts'
<1>1. expire' \in Nat
  BY NumbersType, TileAssumption DEF TypeOK
<1>2. \A s \in Requests : Keeps(s)
  BY DEF reqVars, Keeps
<1>3. \A s \in Requests : RequestInv(s)'
  BY <1>1, <1>2, OtherRequest
<1>4. StoredInv'
  BY DEF CacheMoves, StoredInv, AnswerInv, AnswerParts, Numbers
<1> QED
  BY <1>3, <1>4 DEF AnswerParts

LEMMA AnswerStep == AnswerInv /\ [Next]_vars => AnswerInv'
<1> SUFFICES ASSUME AnswerInv, [Next]_vars PROVE AnswerInv'
  OBVIOUS
<1>0. TypeOK' /\ Located' /\ Numbers
  BY TypeStep, LocatedStep, NumbersType DEF AnswerInv
<1>1. ASSUME NEW r \in Requests, Step(r) PROVE AnswerParts'
  <2>1. CASE TakeLock(r)
    BY <1>0, <2>1, CreatedAnswer, RestartAnswer DEF TakeLock, LockTimeout, Outside
  <2>2. CASE \E t \in Tiles : Load(r, t) \/ Check(r, t) \/ Store(r, t) \/ Reload(r, t) \/ Answer(r, t)
    BY <1>0, <2>2, LoadAnswer, CheckAnswer, StoreAnswer, ReloadAnswer, ServeAnswer
  <2> QED
    BY <1>0, <1>1, <2>1, <2>2, NextUnitAnswer, CreatedAnswer, RecheckAnswer, QueryAnswer,
       StoreFailsAnswer, UnlockAnswer DEF Step
<1>2. ASSUME NEW r \in Requests, NEW tiles \in SUBSET Tiles, Arrive(r, tiles)
      PROVE  AnswerParts'
  BY <1>0, <1>2, RestartAnswer DEF Arrive, Outside
<1>3. ASSUME NEW r \in Requests, Die(r) PROVE AnswerParts'
  BY <1>0, <1>3, RestartAnswer DEF Die
<1>4. ASSUME NEW t \in Tiles, Remove(t) PROVE AnswerParts'
  <2>1. CacheMoves
    BY <1>4, <1>0 DEF Remove, CacheMoves, AnswerInv, TypeOK
  <2> QED
    BY <1>0, <1>4, <2>1, WorldAnswer DEF Remove, Outside, AnswerInv, AnswerParts, Numbers
<1>5. ASSUME Tick PROVE AnswerParts'
  <2>1. /\ UNCHANGED <<reqVars, cache>> /\ now' = now + 1
        /\ expire' = expire \/ expire' = now
    BY <1>5 DEF Tick
  <2>2. expire <= expire' /\ expire' < now'
    BY <1>0, <2>1 DEF AnswerInv, AnswerParts, Numbers
  <2> QED
    BY <1>0, <1>5, <2>1, <2>2, WorldAnswer, CacheStays
<1>6. ASSUME UNCHANGED vars PROVE AnswerParts'
  BY <1>0, <1>6, WorldAnswer, CacheStays DEF vars, AnswerInv, AnswerParts, Numbers
<1> QED
  BY <1>0, <1>1, <1>2, <1>3, <1>4, <1>5, <1>6 DEF Next, AnswerInv

LEMMA AnswerInvariant == Spec => []AnswerInv
<1> QED
  BY AnswerInit, AnswerStep, PTL DEF Spec

\* With a sqlite cache no tile of a response is without an image unless the
\* source refused one, whatever becomes of the stores.  A meta tile is loaded
\* after the second look: there it needs that no tile is removed meanwhile and
\* that the level is not 0.
THEOREM NothingIsLost ==
  ASSUME Backend = "sqlite",
         \/ \A r \in Requests : Mode[r] \in {"single", "bulk"}
         \/ ~Removing /\ ~LevelZero
  PROVE  Spec => []NoTileLost
<1>1. AnswerInv => NoTileLost
  <2> SUFFICES ASSUME AnswerInv, NEW r \in Requests, NEW t \in want[r],
                      pc[r] = "done", obj[r][t].img = NoImage
               PROVE  t \in excused[r]
    BY DEF NoTileLost
  <2>1. Pending(r) = {}
    BY DEF Pending
  <2> QED
    BY <2>1 DEF AnswerInv, AnswerParts, RequestInv, Settled, Served, NothingLost
<1> QED
  BY <1>1, AnswerInvariant, PTL

\* A tile that was expired when the request arrived is only returned when the
\* source did not deliver a new one, whatever becomes of the locks, and in
\* whatever mode.
THEOREM StaleNeedsAnExcuse == Spec => []StaleOnlyIfSourceFails
<1>1. AnswerInv => StaleOnlyIfSourceFails
  <2> SUFFICES ASSUME AnswerInv, NEW r \in Requests, NEW t \in want[r], pc[r] = "done", AgeKnown(r),
                      obj[r][t].img \in 1 .. since[r], obj[r][t].ts <= since[r]
               PROVE  t \in excused[r]
    BY DEF StaleOnlyIfSourceFails
  <2>1. Pending(r) = {}
    BY DEF Pending
  <2>2. Current(r, t)
    BY <2>1 DEF AnswerInv, AnswerParts, RequestInv, Settled
  <2>3. t \in Tiles /\ obj[r][t].ts \in Nat /\ since[r] \in Nat /\ obj[r][t].img # AtLocation
    BY NumbersType DEF AnswerInv, TypeOK, Numbers, AtLocation
  <2> QED
    BY <2>2, <2>3 DEF Current
<1> QED
  BY <1>1, AnswerInvariant, PTL

-----------------------------------------------------------------------------
(***************************************************************************)
(* Error images                                                            *)
(*                                                                         *)
(* While a request for a single tile asks the source, the tile is not      *)
(* cached: the second look has seen that, and nobody else stores it.  If   *)
(* there is no stale tile either, there is none at all, and there is none  *)
(* until the error image is stored.                                        *)
(***************************************************************************)
Uncached(r) ==
  /\ pc[r] = "query" =>
       \A t \in unit[r] : (\A u \in unit[r] : u = t) /\ ~IsCached(obj[r][t], t)
  /\ pc[r] = "store" =>
       \A t \in todo[r] : made[r][t] = ErrorImage => cache[t] = None
UncachedInv == \A r \in Requests : Uncached(r)

ErrorInv == ExclusiveInv /\ AnswerInv /\ UncachedInv

\* A second look sees what the first one has seen.
LEMMA SeenTwice ==
  ASSUME TypeOK, NEW o \in Objects, NEW t \in Tiles
  PROVE  IsCached(Seen(o, t), t) = IsCached(o, t)
<1>1. Exists(Seen(o, t), t) = Exists(o, t)
  BY ModeAssumption DEF Exists, Seen, Loaded, Objects
<1>2. Seen(Seen(o, t), t).ts = Seen(o, t).ts
  BY ModeAssumption, SeenType DEF Seen, Loaded, Objects
<1> QED
  BY <1>1, <1>2 DEF IsCached

\* Nothing but a store makes a tile cached for a given object.
LEMMA UncachedStable ==
  ASSUME Numbers, NEW r \in Requests, NEW t \in Tiles, obj'[r][t] = obj[r][t],
         obj[r][t] \in Objects, expire' \in Nat,
         expire' = expire \/ (expire # Never /\ expire < expire'),
         cache'[t] = cache[t] \/ cache'[t] = None, ~IsCached(obj[r][t], t)
  PROVE  ~IsCached(obj[r][t], t)'
<1> DEFINE o == obj[r][t]
<1>1. Exists(o, t)' => Exists(o, t)
  BY DEF Exists
<1>2. expire' = Never <=> expire = Never
  BY DEF Numbers, Never
<1>3. o.ts \in Nat /\ cache[t].ts \in Nat /\ expire \in Nat
  BY DEF Numbers
<1>4. ASSUME expire # Never, Exists(o, t)', Seen(o, t)'.ts > expire' PROVE FALSE
  <2>1. Exists(o, t) /\ ~(Seen(o, t).ts > expire)
    BY <1>1, <1>4 DEF IsCached
  <2>2. CASE cache'[t] = cache[t]
    <3>1. Seen(o, t)' = Seen(o, t)
      BY <2>2 DEF Seen, Loaded
    <3>2. Seen(o, t).ts \in Nat
      BY <1>3, ModeAssumption DEF Seen, Loaded, Objects
    <3> QED
      BY <1>3, <1>4, <2>1, <3>1, <3>2
  <2>3. CASE cache'[t] = None
    <3>1. CASE Backend = "file"
      <4>1. Seen(o, t)'.ts = 0
        BY <2>3, <3>1 DEF Seen, None, Objects
      <4> QED
        BY <1>4, <4>1
    <3>2. CASE Backend # "file"
      <4>1. o.img # NoImage
        BY <1>4, <2>3 DEF Exists
      <4>2. Seen(o, t)' = o /\ Seen(o, t) = o
        BY <3>2, <4>1, ModeAssumption DEF Seen, Loaded
      <4> QED
        BY <1>3, <1>4, <2>1, <4>2
    <3> QED
      BY <3>1, <3>2
  <2> QED
    BY <2>2, <2>3
<1> QED
  BY <1>1, <1>2, <1>4 DEF IsCached

\* A step of others, or of the environment.
LEMMA OtherUncached ==
  ASSUME ErrorInv, NEW r \in Requests, Keeps(r),
         expire' \in Nat, expire' = expire \/ (expire # Never /\ expire < expire'),
         \A t \in unit[r] : pc[r] \in Locked => cache'[t] = cache[t] \/ cache'[t] = None
  PROVE  Uncached(r)'
<1>1. Uncached(r) /\ TypeOK /\ Numbers
  BY NumbersType DEF ErrorInv, UncachedInv, AnswerInv
<1>2. ASSUME pc'[r] = "query", NEW t \in unit'[r]
      PROVE  (\A u \in unit'[r] : u = t) /\ ~IsCached(obj[r][t], t)'
  <2>1. pc[r] = "query" /\ unit'[r] = unit[r] /\ obj'[r] = obj[r] /\ t \in unit[r]
    BY <1>2 DEF Keeps
  <2>2. (\A u \in unit[r] : u = t) /\ ~IsCached(obj[r][t], t)
    BY <1>1, <2>1 DEF Uncached
  <2>3. t \in Tiles /\ obj[r][t] \in Objects
    BY <1>1, <2>1 DEF TypeOK
  <2>4. cache'[t] = cache[t] \/ cache'[t] = None
    BY <2>1 DEF Locked
  <2>5. ~IsCached(obj[r][t], t)'
    BY <1>1, <2>1, <2>2, <2>3, <2>4, UncachedStable
  <2> QED
    BY <2>1, <2>2, <2>5
<1>3. ASSUME pc'[r] = "store", NEW t \in todo'[r], made'[r][t] = ErrorImage
      PROVE  cache'[t] = None
  <2>1. pc[r] = "store" /\ t \in todo[r] /\ made[r][t] = ErrorImage
    BY <1>3 DEF Keeps
  <2>2. t \in unit[r]
    BY <2>1 DEF ErrorInv, ExclusiveInv, ExclusiveParts, StoreUnit
  <2>3. cache[t] = None
    BY <1>1, <2>1 DEF Uncached
  <2> QED
    BY <2>1, <2>2, <2>3 DEF Locked
<1> QED
  BY <1>2, <1>3 DEF Uncached

\* A step of a request leaves the place of the others alone.
LEMMA OthersKeep ==
  ASSUME TypeOK, NEW r \in Requests,
         Step(r) \/ Die(r) \/ \E tiles \in SUBSET Tiles : Arrive(r, tiles)
  PROVE  \A s \in Requests \ {r} : Keeps(s)
<1> USE DEF TypeOK
<1>1. ASSUME NEW state, NEW tiles, NEW time, Restart(r, state, tiles, time)
      PROVE  \A s \in Requests \ {r} : Keeps(s)
  BY <1>1 DEF Restart, DropUnit, Goto, Keeps
<1>2. CASE Die(r) \/ LockTimeout(r) \/ \E tiles \in SUBSET Tiles : Arrive(r, tiles)
  BY <1>1, <1>2 DEF Die, LockTimeout, Arrive, Fail
<1>3. CASE Unlock(r)
  <2>1. CASE Fail(r)
    BY <1>1, <2>1 DEF Fail
  <2>2. CASE ~Fail(r)
    BY <1>3, <2>2 DEF Unlock, DropUnit, Goto, Keeps
  <2> QED
    BY <2>1, <2>2
<1>4. ASSUME NEW t \in Tiles, Answer(r, t)
      PROVE  \A s \in Requests \ {r} : Keeps(s)
  <2>1. CASE Fail(r)
    BY <1>1, <2>1 DEF Fail
  <2>2. CASE ~Fail(r)
    BY <1>4, <2>2 DEF Answer, Goto, SetObj, Keeps
  <2> QED
    BY <2>1, <2>2
<1>5. ASSUME NEW t \in Tiles, Load(r, t) \/ Check(r, t) \/ Store(r, t) \/ Reload(r, t)
      PROVE  \A s \in Requests \ {r} : Keeps(s)
  BY <1>5 DEF Load, Check, Store, Reload, Goto, SetObj, Keeps
<1>6. CASE NextUnit(r) \/ Created(r) \/ Acquire(r) \/ Recheck(r) \/ StoreFails(r)
  BY <1>6 DEF NextUnit, Created, Acquire, Recheck, StoreFails, Goto, SetObj, Keeps
<1>7. CASE QuerySources(r)
  <2>1. /\ Outside /\ UNCHANGED <<want, missing, unit, since>>
        /\ after' = [after EXCEPT ![r] = "create"] \/ after' = [after EXCEPT ![r] = "failed"]
        /\ UNCHANGED excused \/ \E tiles : Excuse(r, tiles)
    BY <1>7, QueryEffect
  <2>2. (Goto(r, "unlock") /\ UNCHANGED <<todo, made>>) \/ \E tiles, img : Keep(r, tiles, img)
    BY <1>7, QueryEffect
  <2>3. \A s \in Requests \ {r} : pc'[s] = pc[s] /\ todo'[s] = todo[s] /\ made'[s] = made[s]
    BY <2>2 DEF Keep, Goto
  <2>4. \A s \in Requests \ {r} : obj'[s] = obj[s]
    BY <1>7 DEF QuerySources, QueryImage, QueryUncacheable, QueryBlank, QueryError, QueryErrorImage,
                QueryBulk, SetObj, TakeImage
  <2>5. \A s \in Requests \ {r} : excused'[s] = excused[s]
    BY <2>1 DEF Excuse
  <2> QED
    BY <2>1, <2>3, <2>4, <2>5 DEF Keeps
<1> QED
  BY <1>2, <1>3, <1>4, <1>5, <1>6, <1>7 DEF Step, TakeLock

\* One request takes a step: the tiles that others create or store stay.
LEMMA StepUncached ==
  ASSUME ErrorInv, NEW r \in Requests,
         Step(r) \/ Die(r) \/ \E tiles \in SUBSET Tiles : Arrive(r, tiles),
         expire' = expire, UNCHANGED cache \/ \E t \in Tiles : Store(r, t), Uncached(r)'
  PROVE  UncachedInv'
<1>1. TypeOK /\ expire' \in Nat
  BY TileAssumption DEF ErrorInv, AnswerInv, TypeOK
<1>2. ASSUME NEW s \in Requests \ {r}, pc[s] \in Locked, NEW t \in unit[s]
      PROVE  cache'[t] = cache[t]
  <2>1. ASSUME NEW u \in Tiles, Store(r, u) PROVE cache'[t] = cache[t]
    <3>1. t \notin Batch(r, u)
      BY <1>2, <2>1, StoreStaysInUnit DEF ErrorInv
    <3>2. t \in Tiles
      BY <1>1, <1>2 DEF TypeOK
    <3> QED
      BY <2>1, <3>1, <3>2 DEF Store
  <2> QED
    BY <2>1
<1>3. \A s \in Requests \ {r} : Keeps(s)
  BY <1>1, OthersKeep
<1>4. \A s \in Requests \ {r} : Uncached(s)'
  BY <1>1, <1>2, <1>3, OtherUncached
<1> QED
  BY <1>4 DEF UncachedInv

\* The environment takes a step.
LEMMA WorldUncached ==
  ASSUME ErrorInv, UNCHANGED reqVars, expire' \in Nat,
         expire' = expire \/ (expire # Never /\ expire < expire'),
         \A t \in Tiles : cache'[t] = cache[t] \/ cache'[t] = None
  PROVE  UncachedInv'
<1>1. \A s \in Requests : Keeps(s) /\ unit[s] \subseteq Tiles
  BY DEF reqVars, Keeps, ErrorInv, AnswerInv, TypeOK
<1>2. \A s \in Requests : Uncached(s)'
  BY <1>1, OtherUncached
<1> QED
  BY <1>2 DEF UncachedInv

LEMMA ErrorStep ==
  ASSUME StrictLock, \A r \in Requests : Mode[r] = "single", ErrorInv, [Next]_vars
  PROVE  ErrorInv'
<1>0. ExclusiveInv' /\ AnswerInv' /\ Numbers /\ TypeOK /\ expire' \in Nat
  <2>1. Strictly
    BY DEF Strictly, SameUnits
  <2>2. ExclusiveInv' /\ AnswerInv'
    BY <2>1, ExclusiveStep, AnswerStep DEF ErrorInv
  <2>3. TypeOK' => expire' \in Nat
    BY TileAssumption DEF TypeOK
  <2> QED
    BY <2>2, <2>3, NumbersType DEF ErrorInv, AnswerInv
<1>1. ASSUME NEW r \in Requests, Recheck(r)
      PROVE  UncachedInv'
  <2>1. UNCHANGED <<expire, cache, unit>> /\ Step(r)
    BY <1>1 DEF Recheck, Outside, Step
  <2>2. CASE pc'[r] \notin {"query", "store"}
    BY <2>1, <2>2, StepUncached DEF Uncached
  <2>3. CASE pc'[r] \in {"query", "store"}
    <3>0. Mode[r] = "single" /\ pc'[r] = "query"
      BY <1>0, <1>1, <2>3 DEF Recheck, Goto, TypeOK
    <3>1. PICK t \in unit[r] : ~IsCached(obj[r][t], t) /\ SetObj(r, t, Seen(obj[r][t], t))
      BY <1>0, <1>1, <3>0 DEF Recheck, Goto, TypeOK
    <3>2. \A u \in unit[r] : u = t
      BY <3>0, <3>1 DEF ErrorInv, AnswerInv, AnswerParts, RequestInv
    <3>3. t \in Tiles /\ obj[r][t] \in Objects
      BY <1>0, <3>1 DEF TypeOK
    <3>4. obj'[r][t] = Seen(obj[r][t], t)
      BY <1>0, <3>1, <3>3 DEF SetObj, TypeOK
    <3>5. ~IsCached(Seen(obj[r][t], t), t)
      BY <1>0, <3>1, <3>3, SeenTwice
    <3>6. ~IsCached(obj[r][t], t)'
      BY <2>1, <3>4, <3>5 DEF IsCached, Exists, Seen, Loaded
    <3>7. Uncached(r)'
      BY <2>1, <3>0, <3>2, <3>6 DEF Uncached
    <3> QED
      BY <2>1, <3>7, StepUncached
  <2> QED
    BY <2>2, <2>3
<1>2. ASSUME NEW r \in Requests, QuerySources(r)
      PROVE  UncachedInv'
  <2>1. UNCHANGED <<expire, cache>> /\ Step(r) /\ pc[r] = "query"
    BY <1>0, <1>2, QueryEffect DEF Step, Outside
  <2>2. pc'[r] \in {"unlock", "store"}
    <3>1. \E state \in {"unlock", "store"} : Goto(r, state)
      BY <1>0, <1>2, QueryEffect
    <3> QED
      BY <1>0, <3>1 DEF Goto, TypeOK
  <2>3. ASSUME pc'[r] = "store", NEW t \in todo'[r], made'[r][t] = ErrorImage
        PROVE  cache'[t] = None
    <3>1. CASE QueryImage(r)
      <4>1. Keep(r, unit[r], [u \in unit[r] |-> now])
        BY <3>1 DEF QueryImage
      <4>2. t \in unit[r] /\ made'[r][t] = now
        BY <1>0, <2>3, <4>1 DEF Keep, TypeOK
      <4> QED
        BY <1>0, <2>3, <4>2 DEF Numbers, ErrorImage
    <3>2. CASE QueryErrorImage(r)
      <4>1. \A u \in unit[r] : ~IsStale(obj[r][u], u)
        BY <1>0, <2>3, <3>2 DEF QueryErrorImage, Keep, Goto, TypeOK
      <4>2. PICK tiles \in {unit[r], {}} : Keep(r, tiles, [u \in unit[r] |-> ErrorImage])
        BY <3>2, <4>1 DEF QueryErrorImage
      <4>3. t \in unit[r]
        BY <1>0, <2>3, <4>2 DEF Keep, TypeOK
      <4>4. ~IsCached(obj[r][t], t)
        BY <2>1, <4>3 DEF ErrorInv, UncachedInv, Uncached
      <4> QED
        BY <2>1, <4>1, <4>3, <4>4 DEF IsStale, Exists
    <3>3. CASE QueryUncacheable(r) \/ QueryBlank(r) \/ QueryError(r)
      BY <1>0, <2>3, <3>3 DEF QueryUncacheable, QueryBlank, QueryError, Goto, TypeOK
    <3>4. ~QueryBulk(r)
      BY DEF QueryBulk
    <3> QED
      BY <1>2, <3>1, <3>2, <3>3, <3>4 DEF QuerySources
  <2>4. Uncached(r)'
    BY <2>2, <2>3 DEF Uncached
  <2> QED
    BY <2>1, <2>4, StepUncached
<1>3. ASSUME NEW r \in Requests, NEW t \in Tiles, Store(r, t)
      PROVE  UncachedInv'
  <2>1. /\ Step(r) /\ expire' = expire /\ pc[r] = "store" /\ UNCHANGED made
        /\ pc'[r] # "query" /\ todo'[r] = todo[r] \ Batch(r, t)
    BY <1>0, <1>3 DEF Store, Step, Outside, Goto, TypeOK
  <2>2. ASSUME NEW u \in todo'[r], made'[r][u] = ErrorImage PROVE cache'[u] = None
    <3>1. cache[u] = None /\ u \in Tiles
      BY <1>0, <2>1, <2>2 DEF ErrorInv, UncachedInv, Uncached, TypeOK
    <3> QED
      BY <1>3, <2>1, <2>2, <3>1 DEF Store
  <2>3. Uncached(r)'
    BY <2>1, <2>2 DEF Uncached
  <2> QED
    BY <1>3, <2>1, <2>3, StepUncached
<1>4. ASSUME NEW r \in Requests,
             Step(r) \/ Die(r) \/ \E tiles \in SUBSET Tiles : Arrive(r, tiles),
             UNCHANGED <<expire, cache>>, pc'[r] \notin {"query", "store"}
      PROVE  UncachedInv'
  BY <1>4, StepUncached DEF Uncached
<1>5. ASSUME NEW r \in Requests, NEW t \in Tiles, Load(r, t) \/ Check(r, t) \/ Reload(r, t)
      PROVE  UncachedInv'
  <2>1. UNCHANGED <<expire, cache>> /\ Step(r)
    BY <1>5 DEF Load, Check, Reload, Outside, Step
  <2>2. pc'[r] \notin {"query", "store"}
    BY <1>0, <1>5 DEF Load, Check, Reload, Goto, TypeOK
  <2> QED
    BY <1>4, <2>1, <2>2
<1>6. ASSUME NEW r \in Requests, NextUnit(r) \/ Created(r) \/ Acquire(r) \/ StoreFails(r)
                                 \/ \E t \in Tiles : Answer(r, t)
      PROVE  UncachedInv'
  <2>1. UNCHANGED <<expire, cache>> /\ Step(r)
    BY <1>6 DEF NextUnit, Created, Acquire, StoreFails, Answer, Outside, Step, TakeLock
  <2>2. pc'[r] \notin {"query", "store"}
    BY <1>0, <1>6 DEF NextUnit, Created, Acquire, StoreFails, Answer, Fail, Restart, Goto, TypeOK
  <2> QED
    BY <1>4, <2>1, <2>2
<1>7. ASSUME NEW r \in Requests, Unlock(r) \/ LockTimeout(r) \/ Die(r)
                                 \/ \E tiles \in SUBSET Tiles : Arrive(r, tiles)
      PROVE  UncachedInv'
  <2>1. /\ UNCHANGED <<expire, cache>>
        /\ Step(r) \/ Die(r) \/ \E tiles \in SUBSET Tiles : Arrive(r, tiles)
    BY <1>7 DEF Unlock, LockTimeout, Die, Arrive, Outside, Step, TakeLock
  <2>2. pc'[r] \notin {"query", "store"}
    BY <1>0, <1>7 DEF Unlock, LockTimeout, Die, Arrive, Fail, Restart, Goto, TypeOK
  <2> QED
    BY <1>4, <2>1, <2>2
<1>8. ASSUME NEW t \in Tiles, Remove(t)
      PROVE  UncachedInv'
  <2>1. UNCHANGED reqVars /\ expire' = expire
        /\ \A u \in Tiles : cache'[u] = cache[u] \/ cache'[u] = None
    BY <1>0, <1>8 DEF Remove, Outside, TypeOK
  <2> QED
    BY <1>0, <2>1, WorldUncached
<1>9. ASSUME Tick PROVE UncachedInv'
  <2>1. UNCHANGED <<reqVars, cache>> /\ (expire' = expire \/ (expire # Never /\ expire' = now))
    BY <1>9 DEF Tick
  <2> QED
    BY <1>0, <2>1, WorldUncached DEF ErrorInv, AnswerInv, AnswerParts
<1>10. ASSUME UNCHANGED vars PROVE UncachedInv'
  BY <1>0, <1>10, WorldUncached DEF vars
<1>11. ASSUME NEW r \in Requests, Step(r) PROVE UncachedInv'
  BY <1>1, <1>2, <1>3, <1>5, <1>6, <1>7, <1>11 DEF Step, TakeLock
<1>12. ASSUME Next PROVE UncachedInv'
  BY <1>7, <1>8, <1>9, <1>11, <1>12 DEF Next
<1> QED
  BY <1>0, <1>10, <1>12 DEF ErrorInv

\* A step gives a tile the error image only if there is no tile in the cache,
\* or an error image is there already.
LEMMA NoErrorImageFirst ==
  ASSUME \A s \in Requests : Mode[s] = "single", ErrorInv, [Next]_vars, NEW r \in Requests, NEW t \in want[r],
         obj'[r][t].img = ErrorImage, obj[r][t].img # ErrorImage
  PROVE  cache[t].img \in {NoImage, ErrorImage}
<1> SUFFICES ASSUME cache[t].img # ErrorImage PROVE cache[t] = None
  BY DEF None
<1>0. /\ TypeOK /\ Numbers /\ t \in Tiles /\ now # ErrorImage /\ NoImage # ErrorImage
      /\ AtLocation # ErrorImage
  BY NumbersType DEF ErrorInv, AnswerInv, TypeOK, Numbers, ErrorImage, NoImage, AtLocation
<1>1. ASSUME NEW o \in Objects, o.img # ErrorImage
      PROVE  /\ Loaded(o, t).img # ErrorImage
             /\ Seen(o, t).img # ErrorImage
             /\ Loaded(Seen(o, t), t).img # ErrorImage
  <2>1. Loaded(o, t).img # ErrorImage
    BY <1>0, <1>1 DEF Loaded, Objects
  <2>2. Seen(o, t) \in Objects /\ Seen(o, t).img # ErrorImage
    BY <1>0, <1>1, <2>1, SeenType, ModeAssumption DEF Seen, Objects
  <2>3. Loaded(Seen(o, t), t).img # ErrorImage
    BY <1>0, <2>2 DEF Loaded, Objects
  <2> QED
    BY <2>1, <2>2, <2>3
<1>2. obj[r][t] \in Objects /\ obj'[r][t] # obj[r][t] /\ obj'[r] # obj[r] /\ obj' # obj
  BY <1>0 DEF TypeOK
<1>3. /\ obj'[r][t] # None /\ obj'[r][t] # cache[t] /\ obj'[r][t] # Loaded(obj[r][t], t)
      /\ obj'[r][t] # Seen(obj[r][t], t) /\ obj'[r][t] # Loaded(Seen(obj[r][t], t), t)
  BY <1>0, <1>1, <1>2 DEF None
<1>4. ASSUME NEW s \in Requests, NEW u, NEW o, SetObj(s, u, o)
      PROVE  s = r /\ u = t /\ obj'[r][t] = o
  BY <1>0, <1>2, <1>4 DEF SetObj, TypeOK
<1>5. ASSUME NEW s \in Requests, NEW state, NEW tiles, NEW time, Restart(s, state, tiles, time)
      PROVE  FALSE
  BY <1>0, <1>2, <1>3, <1>5 DEF Restart, TypeOK
<1>6. ASSUME NEW s \in Requests, NEW img, TakeImage(s, img)
      PROVE  s = r /\ img = ErrorImage /\ t \in unit[r]
  BY <1>0, <1>2, <1>6 DEF TakeImage, TypeOK, Objects
<1>7. ASSUME NEW s \in Requests, QuerySources(s)
      PROVE  cache[t] = None
  <2>1. UNCHANGED obj \/ (\E u : SetObj(s, u, Loaded(Seen(obj[s][u], u), u))) \/ TakeImage(s, now)
          \/ QueryErrorImage(s)
    BY <1>7 DEF QuerySources, QueryImage, QueryUncacheable, QueryBlank, QueryError, QueryBulk
  <2>2. QueryErrorImage(s)
    BY <1>0, <1>2, <1>3, <1>4, <1>6, <2>1
  <2>3. TakeImage(s, ErrorImage) /\ \A u \in unit[s] : ~IsStale(obj[s][u], u)
    BY <1>3, <1>4, <2>2 DEF QueryErrorImage
  <2>4. s = r /\ t \in unit[r] /\ pc[r] = "query"
    BY <1>6, <2>2, <2>3 DEF QueryErrorImage, Answered
  <2>5. ~IsCached(obj[r][t], t) /\ ~IsStale(obj[r][t], t)
    BY <2>3, <2>4 DEF ErrorInv, UncachedInv, Uncached
  <2> QED
    BY <2>5 DEF IsStale, Exists
<1>8. ASSUME NEW s \in Requests, NEW u \in Tiles, Load(s, u)
      PROVE  FALSE
  BY <1>0, <1>2, <1>3, <1>8 DEF Load, BatchLoaded, TypeOK
<1>9. ASSUME NEW s \in Requests, NEW u \in Tiles, Reload(s, u)
      PROVE  FALSE
  BY <1>9 DEF Reload, ErrorInv, AnswerInv, AnswerParts, RequestInv
<1>10. ASSUME NEW s \in Requests, NEW u \in Tiles, Check(s, u) \/ Answer(s, u)
       PROVE  FALSE
  <2>1. \/ UNCHANGED obj \/ Fail(s) \/ SetObj(s, u, cache[u])
        \/ SetObj(s, u, Seen(obj[s][u], u))
    BY <1>10 DEF Check, Answer
  <2> QED
    BY <1>2, <1>3, <1>4, <1>5, <2>1 DEF Fail
<1>11. ASSUME NEW s \in Requests, Recheck(s)
       PROVE  FALSE
  <2>1. \/ UNCHANGED obj
        \/ \E u : \/ SetObj(s, u, Seen(obj[s][u], u))
                  \/ SetObj(s, u, Loaded(Seen(obj[s][u], u), u))
    BY <1>11 DEF Recheck
  <2> QED
    BY <1>2, <1>3, <1>4, <2>1
<1>12. ASSUME NEW s \in Requests, Step(s)
       PROVE  cache[t] = None
  <2>1. CASE \/ TakeLock(s) \/ NextUnit(s) \/ Created(s) \/ Unlock(s) \/ StoreFails(s)
             \/ \E u \in Tiles : Store(s, u)
    BY <1>2, <1>5, <2>1 DEF TakeLock, Acquire, LockTimeout, NextUnit, Created, Unlock, StoreFails,
                            Store, Fail
  <2> QED
    BY <1>7, <1>8, <1>9, <1>10, <1>11, <1>12, <2>1 DEF Step
<1>13. ASSUME NEW s \in Requests, Die(s) \/ \E tiles \in SUBSET Tiles : Arrive(s, tiles)
       PROVE  FALSE
  BY <1>5, <1>13 DEF Die, Arrive, Fail
<1>14. ASSUME Tick \/ UNCHANGED vars \/ \E u \in Tiles : Remove(u)
       PROVE  FALSE
  BY <1>2, <1>14 DEF Tick, Remove, vars, reqVars
<1> QED
  BY <1>12, <1>13, <1>14 DEF Next

\* A step puts an error image into the cache only where there is no tile.
LEMMA NoErrorImageOver ==
  ASSUME ErrorInv, [Next]_vars, NEW t \in Tiles, cache'[t].img = ErrorImage
  PROVE  cache[t].img \in {NoImage, ErrorImage}
<1>1. TypeOK
  BY DEF ErrorInv, AnswerInv
<1>2. ASSUME NEW r \in Requests, NEW u \in Tiles, Store(r, u), t \in Batch(r, u)
      PROVE  cache[t] = None
  <2>1. made[r][t] = ErrorImage /\ pc[r] = "store" /\ t \in todo[r]
    BY <1>2 DEF Store, Batch
  <2> QED
    BY <2>1 DEF ErrorInv, UncachedInv, Uncached
<1>3. ASSUME NEW r \in Requests, NEW u \in Tiles, Store(r, u), t \notin Batch(r, u)
      PROVE  cache'[t] = cache[t]
  BY <1>3 DEF Store
<1>4. ASSUME NEW u \in Tiles, Remove(u)
      PROVE  cache'[t] \in {None, cache[t]}
  BY <1>1, <1>4 DEF Remove, TypeOK
<1>5. NoImage # ErrorImage
  BY DEF NoImage, ErrorImage
<1>6. \/ UNCHANGED cache
      \/ \E u \in Tiles : Remove(u)
      \/ \E r \in Requests : \E u \in Tiles : Store(r, u)
  <2>1. ASSUME NEW r \in Requests, QuerySources(r) PROVE UNCHANGED cache
    BY <1>1, <2>1, QueryEffect
  <2>2. ASSUME NEW r \in Requests, Step(r)
        PROVE  UNCHANGED cache \/ \E u \in Tiles : Store(r, u)
    BY <2>1, <2>2 DEF Step, TakeLock, Load, Check, Reload, Answer, NextUnit, Created, Acquire,
                      LockTimeout, Recheck, StoreFails, Unlock
  <2> QED
    BY <2>2 DEF Next, Arrive, Die, Tick, vars
<1> QED
  BY <1>2, <1>3, <1>4, <1>5, <1>6 DEF None

\* A single tile is given the source's error image, in the response and in the
\* cache, only if the cache has not even a stale one, provided that a lock is
\* never shared.  For meta tiles the code does not look.
THEOREM StaleTilesComeFirst ==
  ASSUME StrictLock, \A r \in Requests : Mode[r] = "single"
  PROVE  Spec => StaleBeforeErrorImage
<1>1. Init => ErrorInv
  BY ExclusiveInit, AnswerInit DEF ErrorInv, UncachedInv, Uncached, Init
<1>2. ErrorInv /\ [Next]_vars => ErrorInv'
  BY ErrorStep
<1>3. ErrorInv /\ [Next]_vars =>
        [\A t \in Tiles :
           \/ \E r \in Requests :
                t \in want[r] /\ obj'[r][t].img = ErrorImage /\ obj[r][t].img # ErrorImage
           \/ cache'[t].img = ErrorImage
           => cache[t].img \in {NoImage, ErrorImage}]_vars
  BY NoErrorImageFirst, NoErrorImageOver
<1> QED
  BY <1>1, <1>2, <1>3, PTL DEF Spec, StaleBeforeErrorImage
=============================================================================
