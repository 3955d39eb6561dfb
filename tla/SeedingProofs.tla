--------------------------- MODULE SeedingProofs ---------------------------
(***************************************************************************)
(* Proofs about Seeding for any number of workers, tiles, levels, retries  *)
(* and continued calls.                                                    *)
(*                                                                         *)
(* The walk is in the order of the paths: what Before compares.  PlaceInv  *)
(* relates the recorded progress to the place of the walker, PassedInv     *)
(* says that every tile the walker is past was handed over, StoreInv that  *)
(* the stored progress is not ahead of the walker, and FlowInv follows the *)
(* tiles of the first call through the queue and the workers.              *)
(***************************************************************************)
EXTENDS Seeding, TLAPS, FiniteSetTheorems, SequenceTheorems

Path == Seq(1 .. Subtiles + 1)

\* path is q, or below q.
Extends(path, q) == Len(q) <= Len(path) /\ \A j \in 1 .. Len(q) : path[j] = q[j]

Walking == pc \in {"enter", "visit", "tile", "put", "walked"}

-----------------------------------------------------------------------------
(* The invariant *)

\* Where the walker is, and the progress it has recorded.
EnterOK ==
  IF at = <<>> THEN progress = NoProgress
               ELSE at \in Covered /\ progress = at /\ ~CanSkip(old, at)
LoopOK ==
  /\ at # <<>>
  /\ IF Len(at) = 1
     THEN progress \in {NoProgress, <<>>}
     ELSE progress # NoProgress /\ Extends(progress, Front(at)) /\ Front(at) \in Covered
\* A worker that loads has a tile.
LoadingInv == \A w \in Workers : worker[w] = "loading" => tile[w] \in Tiles

PlaceInv ==
  /\ pc = "enter" => EnterOK
  /\ pc \in {"visit", "tile", "put"} => LoopOK
  /\ pc \in {"tile", "put"} => at \in Covered
  /\ pc = "walked" => progress \in {NoProgress, <<>>}
  /\ Walking <=> outcome = "none"

\* The tile at p has been dealt with: the walker is past it.
Passed(p) ==
  \/ pc = "walked"
  \/ Walking /\ Before(p, at)
  \/ pc \in {"tile", "put"} /\ Extends(p, at) /\ p # at

Kept(t) == t \in handed \cup cached
WantedPaths == {p \in Covered : Level(p) \in Levels}
SkipsTo(s, p) == \E k \in 1 .. Level(p) : CanSkip(s, SubSeq(p, 1, k))
SkippedIsKept(s) == \A p \in WantedPaths : SkipsTo(s, p) => Kept(TileOf[p])

PassedInv ==
  /\ \A p \in WantedPaths : Passed(p) => Kept(TileOf[p])
  /\ \A t \in seeded : Kept(t) \/ (pc = "put" /\ t = TileOf[at])
  /\ SkippedIsKept(old)
  /\ SkippedIsKept(store)
  /\ outcome = "done" => \A p \in WantedPaths : Kept(TileOf[p])

\* The walker has been at the path s.
Visited(s) ==
  \/ Before(s, at)
  \/ Extends(at, s)
  \/ pc \in {"tile", "put"} /\ Extends(s, at)
StoreInv ==
  Walking =>
    /\ store = old \/ (store \in Covered /\ Visited(store) /\ pc # "walked")
                   \/ (store \in Covered /\ pc = "walked")
    /\ progress = NoProgress \/ old = <<>> => store = old
    /\ pc = "enter" /\ at = <<>> => store = old

\* The first call, as long as it is not interrupted and no worker gave up.
Regular == session = 1 /\ ~gaveUp /\ outcome \in {"none", "done"}
Pending(t) == \/ \E i \in DOMAIN queue : queue[i] = t
              \/ \E w \in Workers : worker[w] = "loading" /\ tile[w] = t
SentinelsLast == \A i, j \in DOMAIN queue : i < j /\ queue[i] = NoTile => queue[j] = NoTile
OnlySentinels == \A i \in DOMAIN queue : queue[i] = NoTile
NoSentinels == \A i \in DOMAIN queue : queue[i] # NoTile
FlowOK ==
  /\ sigint = "none"
  /\ \A w \in Workers : worker[w] # "gave up"
  /\ \A t \in handed : Pending(t)
  /\ SentinelsLast
  /\ (\E w \in Workers : worker[w] = "ended") => OnlySentinels
  /\ Walking => NoSentinels /\ \A w \in Workers : worker[w] # "ended"
  /\ pc = "over" => Alive = {}
FlowInv == Regular => FlowOK

SeedInv == TypeOK /\ LoadingInv /\ PlaceInv /\ PassedInv /\ StoreInv /\ FlowInv

-----------------------------------------------------------------------------
(* Paths and their order *)

LEMMA CoveredPath ==
  ASSUME NEW p \in Covered
  PROVE  /\ p \in Seq(1 .. Subtiles) /\ p \in Path /\ p # <<>>
         /\ Len(p) \in Nat \ {0} /\ Level(p) \in Nat /\ Level(p) + 1 = Len(p)
<1>1. p \in Seq(1 .. Subtiles) /\ p # <<>> /\ Subtiles \in Nat
  BY SeedingAssumption
<1>2. p \in Path
  BY <1>1, SeqMonotonic DEF Path
<1>3. Len(p) \in Nat \ {0}
  BY <1>1, EmptySeq
<1> QED BY <1>1, <1>2, <1>3 DEF Level

LEMMA PathElements ==
  ASSUME NEW a \in Path
  PROVE  /\ Len(a) \in Nat /\ DOMAIN a = 1 .. Len(a) /\ (a # <<>> <=> Len(a) # 0)
         /\ \A j \in 1 .. Len(a) : a[j] \in 1 .. Subtiles + 1 /\ a[j] \in Nat
<1>1. Subtiles \in Nat
  BY SeedingAssumption
<1>2. Len(a) \in Nat /\ DOMAIN a = 1 .. Len(a) /\ (a # <<>> <=> Len(a) # 0)
  BY EmptySeq DEF Path
<1>3. \A j \in 1 .. Len(a) : a[j] \in 1 .. Subtiles + 1
  BY ElementOfSeq DEF Path
<1> QED BY <1>1, <1>2, <1>3

LEMMA AdvanceLemma ==
  ASSUME NEW a \in Path, a # <<>>, a[Len(a)] \in 1 .. Subtiles
  PROVE  /\ Advance(a) \in Path /\ Len(Advance(a)) = Len(a) /\ Advance(a) # <<>>
         /\ \A j \in 1 .. Len(a) - 1 : Advance(a)[j] = a[j]
         /\ Advance(a)[Len(a)] = a[Len(a)] + 1
<1>1. Len(a) \in Nat \ {0} /\ Len(a) \in 1 .. Len(a)
  BY PathElements
<1>2. a[Len(a)] + 1 \in 1 .. Subtiles + 1
  BY SeedingAssumption
<1>3. Advance(a) = [a EXCEPT ![Len(a)] = a[Len(a)] + 1]
  BY DEF Advance
<1>4. /\ Advance(a) \in Path /\ Len(Advance(a)) = Len(a)
      /\ \A j \in 1 .. Len(a) : Advance(a)[j] = IF j = Len(a) THEN a[Len(a)] + 1 ELSE a[j]
  BY <1>1, <1>2, <1>3, ExceptSeq DEF Path
<1> QED BY <1>1, <1>4, PathElements

\* The first n elements of a sequence.
LEMMA FirstElements ==
  ASSUME NEW S, NEW a \in Seq(S), NEW n \in Nat, n <= Len(a)
  PROVE  /\ SubSeq(a, 1, n) \in Seq(S) /\ Len(SubSeq(a, 1, n)) = n
         /\ \A j \in 1 .. n : SubSeq(a, 1, n)[j] = a[j]
<1>1. \A i \in 1 .. n : a[i] \in S
  BY ElementOfSeq
<1>2. /\ SubSeq(a, 1, n) \in Seq(S)
      /\ Len(SubSeq(a, 1, n)) = IF 1 <= n THEN n - 1 + 1 ELSE 0
      /\ \A j \in 1 .. n - 1 + 1 : SubSeq(a, 1, n)[j] = a[1 + j - 1]
  BY <1>1, SubSeqProperties
<1>3. (IF 1 <= n THEN n - 1 + 1 ELSE 0) = n /\ n - 1 + 1 = n
  OBVIOUS
<1>4. \A j \in 1 .. n : 1 + j - 1 = j
  OBVIOUS
<1> DEFINE s == SubSeq(a, 1, n)
<1>5. s \in Seq(S) /\ Len(s) = n /\ \A j \in 1 .. n : s[j] = a[1 + j - 1]
  BY <1>2, <1>3
<1> HIDE DEF s
<1>6. \A j \in 1 .. n : s[j] = a[j]
  BY <1>4, <1>5
<1> QED BY <1>5, <1>6 DEF s

LEMMA FrontLemma ==
  ASSUME NEW S, NEW a \in Seq(S), a # <<>>
  PROVE  /\ Front(a) \in Seq(S) /\ Len(Front(a)) = Len(a) - 1 /\ Len(a) - 1 \in Nat
         /\ \A j \in 1 .. Len(a) - 1 : Front(a)[j] = a[j]
<1>1. Len(a) - 1 \in Nat /\ Len(a) - 1 <= Len(a)
  BY EmptySeq
<1> QED BY <1>1, FirstElements DEF Front

LEMMA AppendLemma ==
  ASSUME NEW a \in Path, NEW i \in 1 .. Subtiles + 1
  PROVE  /\ Append(a, i) \in Path /\ Len(Append(a, i)) = Len(a) + 1 /\ Append(a, i) # <<>>
         /\ \A j \in 1 .. Len(a) : Append(a, i)[j] = a[j]
         /\ Append(a, i)[Len(a) + 1] = i
         /\ Front(Append(a, i)) = a
<1>1. /\ Append(a, i) \in Path /\ Len(Append(a, i)) = Len(a) + 1
      /\ \A j \in 1 .. Len(a) : Append(a, i)[j] = a[j]
      /\ Append(a, i)[Len(a) + 1] = i
  BY AppendProperties DEF Path
<1>2. Len(a) \in Nat
  BY PathElements
<1> DEFINE b == Append(a, i)
           c == Front(b)
<1> HIDE DEF b, c
<1>3. b # <<>>
  <2>1. Len(b) = Len(a) + 1 /\ Len(<<>>) = 0
    BY <1>1, EmptySeq DEF b
  <2> QED BY <1>2, <2>1
<1>4. Len(b) - 1 = Len(a)
  BY <1>1, <1>2 DEF b
<1>5. c \in Path /\ Len(c) = Len(a) /\ \A j \in 1 .. Len(a) : c[j] = b[j]
  BY <1>1, <1>3, <1>4, FrontLemma DEF Path, b, c
<1>6. \A j \in 1 .. Len(a) : c[j] = a[j]
  BY <1>1, <1>5 DEF b
<1>7. c = a
  BY <1>5, <1>6, SeqEqual DEF Path
<1> QED BY <1>1, <1>3, <1>7 DEF b, c

\* A path that extends another and is as long is that path.
LEMMA ExtendsEqual ==
  ASSUME NEW a \in Path, NEW b \in Path, Extends(a, b), Len(a) = Len(b)
  PROVE  a = b
<1>1. \A j \in 1 .. Len(a) : a[j] = b[j]
  BY DEF Extends
<1> QED BY <1>1, SeqEqual DEF Path

\* The recorded progress is the path to the subtile of the loop.
LEMMA StepDownLemma ==
  ASSUME NEW a \in Path, a # <<>>, NEW q,
         IF Len(a) = 1 THEN q \in {NoProgress, <<>>}
                       ELSE q \in Path /\ q # NoProgress /\ Extends(q, Front(a))
  PROVE  StepDown(q, a) = a
<1>1. Len(a) \in Nat \ {0} /\ a[Len(a)] \in 1 .. Subtiles + 1
  BY PathElements
<1>2. Front(a) \in Path /\ Len(Front(a)) = Len(a) - 1 /\ \A j \in 1 .. Len(a) - 1 : Front(a)[j] = a[j]
  BY FrontLemma DEF Path
<1> DEFINE below == IF q = NoProgress THEN <<>> ELSE SubSeq(q, 1, Len(a) - 1)
<1>3. below = Front(a)
  <2>1. CASE Len(a) = 1
    <3>1. Front(a) = <<>>
      BY <1>2, <2>1, PathElements
    <3>2. q # NoProgress => SubSeq(q, 1, Len(a) - 1) = <<>>
      BY <2>1
    <3> QED BY <3>1, <3>2
  <2>2. CASE Len(a) # 1
    <3>1. q \in Path /\ q # NoProgress /\ Extends(q, Front(a))
      BY <2>2
    <3>2. Len(q) \in Nat /\ Len(a) - 1 <= Len(q) /\ \A j \in 1 .. Len(a) - 1 : q[j] = a[j]
      BY <1>1, <1>2, <3>1, PathElements DEF Extends
    <3>3. \A j \in 1 .. Len(a) - 1 : q[j] \in 1 .. Subtiles + 1
      BY <1>1, <3>1, <3>2, PathElements
    <3>4. /\ SubSeq(q, 1, Len(a) - 1) \in Path
          /\ Len(SubSeq(q, 1, Len(a) - 1)) = Len(a) - 1
          /\ \A j \in 1 .. Len(a) - 1 : SubSeq(q, 1, Len(a) - 1)[j] = q[j]
      <4>1. Len(a) - 1 \in Nat
        BY <1>1
      <4> QED BY <3>1, <3>2, <4>1, FirstElements DEF Path
    <3>5. SubSeq(q, 1, Len(a) - 1) = Front(a)
      <4> DEFINE s == SubSeq(q, 1, Len(a) - 1)
                 t == Front(a)
      <4>1. s \in Path /\ t \in Path /\ Len(s) = Len(t) /\ \A j \in 1 .. Len(s) : s[j] = t[j]
        BY <1>1, <1>2, <3>2, <3>4
      <4> HIDE DEF s, t
      <4>2. s = t
        BY <4>1, SeqEqual DEF Path
      <4> QED BY <4>2 DEF s, t
    <3> QED BY <3>1, <3>5
  <2> QED BY <2>1, <2>2
<1>4. StepDown(q, a) = Append(Front(a), a[Len(a)])
  BY <1>3 DEF StepDown
<1> DEFINE s == Append(Front(a), a[Len(a)])
<1>5. s \in Path /\ Len(s) = Len(a) /\ \A j \in 1 .. Len(a) : s[j] = a[j]
  BY <1>1, <1>2, AppendLemma
<1> HIDE DEF s
<1>6. s = a
  BY <1>5, SeqEqual DEF Path
<1> QED BY <1>4, <1>6 DEF s

LEMMA BeforeDef ==
  ASSUME NEW p \in Path, NEW q \in Path
  PROVE  Before(p, q) <=> \E k \in 1 .. Len(p) : /\ k <= Len(q) /\ p[k] < q[k]
                                                 /\ \A j \in 1 .. k - 1 : p[j] = q[j]
  BY PathElements DEF Before

\* Before is an order, also with respect to the paths below.
LEMMA BeforeExtends ==
  ASSUME NEW p \in Path, NEW q \in Path, NEW a \in Path, Before(q, a), Extends(p, q)
  PROVE  Before(p, a)
  BY BeforeDef, PathElements DEF Extends

LEMMA BeforeBelow ==
  ASSUME NEW p \in Path, NEW q \in Path, NEW a \in Path, Before(p, q), Extends(a, q)
  PROVE  Before(p, a)
  BY BeforeDef, PathElements DEF Extends

LEMMA NotBeforeBelow ==
  ASSUME NEW s \in Path, NEW a \in Path, Extends(a, s)
  PROVE  ~Before(a, s)
  BY BeforeDef, PathElements DEF Extends

LEMMA NotBeforeBoth ==
  ASSUME NEW s \in Path, NEW a \in Path, Before(s, a)
  PROVE  ~Before(a, s)
<1>1. PICK k \in 1 .. Len(s) : /\ k <= Len(a) /\ s[k] < a[k] /\ \A j \in 1 .. k - 1 : s[j] = a[j]
  BY BeforeDef
<1> SUFFICES ASSUME NEW m \in 1 .. Len(a), m <= Len(s), a[m] < s[m], \A j \in 1 .. m - 1 : a[j] = s[j]
             PROVE  FALSE
  BY BeforeDef
<1>2. k \in Nat /\ m \in Nat /\ s[k] \in Nat /\ a[k] \in Nat /\ s[m] \in Nat /\ a[m] \in Nat
  BY <1>1, PathElements
<1>3. CASE k < m
  BY <1>1, <1>2, <1>3
<1>4. CASE m < k
  BY <1>1, <1>2, <1>4
<1>5. CASE m = k
  BY <1>1, <1>2, <1>5
<1> QED BY <1>2, <1>3, <1>4, <1>5

\* One subtile on: the walker is past the subtile and all below it.
LEMMA BeforeAdvance ==
  ASSUME NEW p \in Path, NEW a \in Path, a # <<>>, a[Len(a)] \in 1 .. Subtiles
  PROVE  Before(p, Advance(a)) <=> Before(p, a) \/ Extends(p, a)
<1> DEFINE b == Advance(a)
           n == Len(a)
<1>1. /\ b \in Path /\ Len(b) = n /\ n \in Nat \ {0}
      /\ \A j \in 1 .. n - 1 : b[j] = a[j]
      /\ b[n] = a[n] + 1 /\ a[n] \in Nat
  BY AdvanceLemma, PathElements
<1> HIDE DEF b
<1>2. \A k \in 1 .. Len(p) : p[k] \in Nat /\ Len(p) \in Nat
  BY PathElements
<1>3. ASSUME Before(p, b) PROVE Before(p, a) \/ Extends(p, a)
  <2>1. PICK k \in 1 .. Len(p) : /\ k <= n /\ p[k] < b[k] /\ \A j \in 1 .. k - 1 : p[j] = b[j]
    BY <1>1, <1>3, BeforeDef
  <2>2. CASE k < n
    <3>1. p[k] < a[k] /\ \A j \in 1 .. k - 1 : p[j] = a[j]
      BY <1>1, <2>1, <2>2
    <3> QED BY <2>1, <2>2, <3>1, BeforeDef
  <2>3. CASE k = n /\ p[k] < a[k]
    <3>1. \A j \in 1 .. k - 1 : p[j] = a[j]
      BY <1>1, <2>1, <2>3
    <3> QED BY <2>1, <2>3, <3>1, BeforeDef
  <2>4. CASE k = n /\ p[k] = a[k]
    <3>1. \A j \in 1 .. n : p[j] = a[j]
      BY <1>1, <2>1, <2>4
    <3> QED BY <1>2, <2>1, <2>4, <3>1 DEF Extends
  <2>5. p[k] \in Nat /\ k \in Nat
    BY <1>2
  <2> QED BY <1>1, <2>1, <2>2, <2>3, <2>4, <2>5
<1>4. ASSUME Before(p, a) PROVE Before(p, b)
  <2>1. PICK k \in 1 .. Len(p) : /\ k <= n /\ p[k] < a[k] /\ \A j \in 1 .. k - 1 : p[j] = a[j]
    BY <1>4, BeforeDef
  <2>2. p[k] < b[k]
    BY <1>1, <1>2, <2>1
  <2>3. \A j \in 1 .. k - 1 : p[j] = b[j]
    BY <1>1, <2>1
  <2> QED BY <1>1, <2>1, <2>2, <2>3, BeforeDef
<1>5. ASSUME Extends(p, a) PROVE Before(p, b)
  <2>1. n \in 1 .. Len(p) /\ p[n] < b[n] /\ \A j \in 1 .. n - 1 : p[j] = b[j]
    BY <1>1, <1>2, <1>5, PathElements DEF Extends
  <2> QED BY <1>1, <2>1, BeforeDef
<1> QED BY <1>3, <1>4, <1>5 DEF b

\* Nothing comes before the first subtile but what came before the tile.
LEMMA BeforeFirst ==
  ASSUME NEW p \in Path, NEW a \in Path
  PROVE  Before(p, Append(a, 1)) <=> Before(p, a)
<1> DEFINE b == Append(a, 1)
<1>0. 1 \in 1 .. Subtiles + 1
  BY SeedingAssumption
<1>1. /\ b \in Path /\ Len(b) = Len(a) + 1 /\ \A j \in 1 .. Len(a) : b[j] = a[j]
      /\ b[Len(a) + 1] = 1
  BY <1>0, AppendLemma
<1> HIDE DEF b
<1>2. Len(a) \in Nat /\ \A k \in 1 .. Len(p) : p[k] \in 1 .. Subtiles + 1 /\ p[k] \in Nat
  BY PathElements
<1>3. ASSUME Before(p, b) PROVE Before(p, a)
  <2>1. PICK k \in 1 .. Len(p) : k <= Len(b) /\ p[k] < b[k] /\ \A j \in 1 .. k - 1 : p[j] = b[j]
    BY <1>1, <1>3, BeforeDef
  <2>2. k # Len(a) + 1
    BY <1>1, <1>2, <2>1
  <2>3. k <= Len(a) /\ p[k] < a[k] /\ \A j \in 1 .. k - 1 : p[j] = a[j]
    BY <1>1, <1>2, <2>1, <2>2
  <2> QED BY <2>3, BeforeDef
<1>4. ASSUME Before(p, a) PROVE Before(p, b)
  <2>1. PICK k \in 1 .. Len(p) : k <= Len(a) /\ p[k] < a[k] /\ \A j \in 1 .. k - 1 : p[j] = a[j]
    BY <1>4, BeforeDef
  <2>2. k <= Len(b) /\ p[k] < b[k] /\ \A j \in 1 .. k - 1 : p[j] = b[j]
    BY <1>1, <1>2, <2>1
  <2> QED BY <1>1, <2>2, BeforeDef
<1> QED BY <1>3, <1>4 DEF b

\* After the last subtile, all that is below the tile above was passed.
LEMMA BeforeEnd ==
  ASSUME NEW p \in Path, NEW a \in Path, Len(a) > 1
  PROVE  /\ Before(p, Front(a)) => Before(p, a)
         /\ Before(p, a) => Before(p, Front(a)) \/ Extends(p, Front(a))
<1> DEFINE b == Front(a)
           n == Len(a)
<1>1. /\ b \in Path /\ Len(b) = n - 1 /\ n \in Nat \ {0}
      /\ \A j \in 1 .. n - 1 : b[j] = a[j]
  BY FrontLemma, PathElements DEF Path
<1> HIDE DEF b
<1>2. ASSUME Before(p, b) PROVE Before(p, a)
  <2>1. PICK k \in 1 .. Len(p) : k <= n - 1 /\ p[k] < b[k] /\ \A j \in 1 .. k - 1 : p[j] = b[j]
    BY <1>1, <1>2, BeforeDef
  <2>2. k <= n /\ p[k] < a[k] /\ \A j \in 1 .. k - 1 : p[j] = a[j]
    BY <1>1, <2>1
  <2> QED BY <2>2, BeforeDef
<1>3. ASSUME Before(p, a) PROVE Before(p, b) \/ Extends(p, b)
  <2>1. PICK k \in 1 .. Len(p) : k <= n /\ p[k] < a[k] /\ \A j \in 1 .. k - 1 : p[j] = a[j]
    BY <1>3, BeforeDef
  <2>2. CASE k < n
    <3>1. k <= Len(b) /\ p[k] < b[k] /\ \A j \in 1 .. k - 1 : p[j] = b[j]
      BY <1>1, <2>1, <2>2
    <3> QED BY <1>1, <3>1, BeforeDef
  <2>3. CASE k = n
    <3>1. Len(b) <= Len(p) /\ \A j \in 1 .. Len(b) : p[j] = b[j]
      BY <1>1, <2>1, <2>3, PathElements
    <3> QED BY <3>1 DEF Extends
  <2> QED BY <1>1, <2>1, <2>2, <2>3
<1> QED BY <1>2, <1>3 DEF b

LEMMA FrontCovered ==
  ASSUME NEW a \in Covered, Len(a) > 1
  PROVE  Front(a) \in Covered
<1>1. Len(a) - 1 \in 1 .. Len(a)
  BY CoveredPath
<1> QED BY <1>1, SeedingAssumption DEF Front

LEMMA PathIsProgress ==
  ASSUME NEW a \in Path PROVE a # NoProgress
<1>1. a \in Seq(Nat)
  BY SeedingAssumption, SeqMonotonic DEF Path
<1> QED BY <1>1, SeedingAssumption

LEMMA EmptyIsProgress == <<>> # NoProgress
<1>1. <<>> \in Path
  BY EmptySeq DEF Path
<1> QED BY <1>1, PathIsProgress

LEMMA TileTypes == NoTile \notin Tiles /\ \A p \in Covered : TileOf[p] \in Tiles
  BY SeedingAssumption DEF Tiles

\* The first elements of a path below a.
LEMMA SubPath ==
  ASSUME NEW p \in Path, NEW k \in 1 .. Len(p)
  PROVE  /\ SubSeq(p, 1, k) \in Path /\ Len(SubSeq(p, 1, k)) = k /\ Extends(p, SubSeq(p, 1, k))
         /\ \A a \in Path : Extends(p, a) /\ Len(a) = k => SubSeq(p, 1, k) = a
<1> DEFINE q == SubSeq(p, 1, k)
<1>1. q \in Path /\ Len(q) = k /\ \A j \in 1 .. k : q[j] = p[j]
  <2>1. k \in Nat /\ k <= Len(p)
    BY PathElements
  <2> QED BY <2>1, FirstElements DEF Path
<1> HIDE DEF q
<1>2. Extends(p, q)
  BY <1>1, PathElements DEF Extends
<1>3. ASSUME NEW a \in Path, Extends(p, a), Len(a) = k PROVE q = a
  <2>1. \A j \in 1 .. Len(q) : q[j] = a[j]
    BY <1>1, <1>3 DEF Extends
  <2> QED BY <1>1, <1>3, <2>1, SeqEqual DEF Path
<1> QED BY <1>1, <1>2, <1>3 DEF q

-----------------------------------------------------------------------------
(* Steps of the walk: the place, the tiles that were passed, the stored       *)
(* progress                                                                   *)

WalkInv == PlaceInv /\ PassedInv /\ StoreInv

LEMMA Wanted_ == WantedPaths \subseteq Covered /\ \A p \in WantedPaths : p \in Path
  BY CoveredPath DEF WantedPaths

\* No tile is lost from the two sets.
KeptStays == \A t : Kept(t) => Kept(t)'

\* What happens beside the walk.
LEMMA BesideWalk ==
  ASSUME WalkInv, UNCHANGED <<pc, walkVars, outcome, sessionVars, store>>, KeptStays
  PROVE  WalkInv'
<1>1. PlaceInv'
  BY DEF WalkInv, PlaceInv, EnterOK, LoopOK, Walking, walkVars, sessionVars
<1>2. PassedInv'
  <2>1. \A p : Passed(p)' <=> Passed(p)
    BY DEF Passed, Walking, walkVars
  <2> QED BY <2>1 DEF WalkInv, PassedInv, SkippedIsKept, KeptStays, walkVars, sessionVars
<1>3. StoreInv'
  BY DEF WalkInv, StoreInv, Visited, Walking, walkVars, sessionVars
<1> QED BY <1>1, <1>2, <1>3 DEF WalkInv

\* The walk is left or was left before.
LEMMA WalkIsLeft ==
  ASSUME WalkInv, ~Walking', outcome' # "none", outcome' = "done" => outcome = "done",
         old' = old, store' \in {store, NoProgress}, UNCHANGED <<handed, cached>>,
         seeded' \subseteq seeded, pc = "put" => seeded' = {}
  PROVE  WalkInv'
<1>1. PlaceInv'
  BY DEF PlaceInv, Walking
<1>2. PassedInv'
  <2>1. \A p : ~Passed(p)'
    BY DEF Passed, Walking
  <2>2. \A t : Kept(t)' <=> Kept(t)
    BY DEF Kept
  <2>3. SkippedIsKept(NoProgress)
    BY DEF SkippedIsKept, SkipsTo, CanSkip
  <2>4. SkippedIsKept(store)'
    BY <2>2, <2>3 DEF WalkInv, PassedInv, SkippedIsKept
  <2>5. SkippedIsKept(old)'
    BY <2>2 DEF WalkInv, PassedInv, SkippedIsKept
  <2> QED BY <2>1, <2>2, <2>4, <2>5 DEF WalkInv, PassedInv
<1>3. StoreInv'
  BY DEF StoreInv
<1> QED BY <1>1, <1>2, <1>3 DEF WalkInv

\* The loop goes on with the next subtile: all at and below the last is kept.
LEMMA NextSubtile ==
  ASSUME WalkInv, at \in Path, store \in Progresses,
         pc \in {"visit", "tile", "put"}, pc' = "visit",
         at[Len(at)] \in 1 .. Subtiles, at' = Advance(at),
         UNCHANGED <<progress, outcome, old, store>>, KeptStays,
         \A p \in WantedPaths : Extends(p, at) /\ ~Passed(p) => Kept(TileOf[p])',
         \A t \in seeded' : Kept(t)'
  PROVE  WalkInv'
<1>1. at # <<>> /\ LoopOK /\ Walking /\ Walking'
  BY DEF WalkInv, PlaceInv, LoopOK, Walking
<1>2. /\ at' \in Path /\ Len(at') = Len(at) /\ at' # <<>>
      /\ \A j \in 1 .. Len(at) - 1 : at'[j] = at[j]
  BY <1>1, AdvanceLemma
<1>3. Front(at') = Front(at)
  <2> DEFINE s == Front(at')
             t == Front(at)
  <2> HIDE DEF s, t
  <2>1. s \in Path /\ Len(s) = Len(at) - 1 /\ \A j \in 1 .. Len(at) - 1 : s[j] = at'[j]
    BY <1>2, FrontLemma DEF Path, s
  <2>2. t \in Path /\ Len(t) = Len(at) - 1 /\ \A j \in 1 .. Len(at) - 1 : t[j] = at[j]
    BY <1>1, FrontLemma DEF Path, t
  <2>3. s = t
    BY <1>2, <2>1, <2>2, SeqEqual DEF Path
  <2> QED BY <2>3 DEF s, t
<1>4. PlaceInv'
  BY <1>1, <1>2, <1>3 DEF WalkInv, PlaceInv, LoopOK, Walking
<1>5. PassedInv'
  <2>1. ASSUME NEW p \in WantedPaths, Passed(p)' PROVE Kept(TileOf[p])'
    <3>1. Before(p, at')
      BY <2>1 DEF Passed
    <3>2. Before(p, at) \/ Extends(p, at)
      BY <1>1, <3>1, Wanted_, BeforeAdvance
    <3>3. Before(p, at) => Passed(p)
      BY <1>1 DEF Passed
    <3>4. Passed(p) => Kept(TileOf[p])'
      BY DEF WalkInv, PassedInv, KeptStays
    <3> QED BY <3>2, <3>3, <3>4
  <2>2. outcome' # "done"
    BY <1>1 DEF WalkInv, PlaceInv
  <2> QED BY <2>1, <2>2 DEF WalkInv, PassedInv, SkippedIsKept, KeptStays
<1>6. StoreInv'
  <2>1. ASSUME NEW s \in Path, Visited(s) PROVE Visited(s)'
    <3>1. Before(s, at) \/ Extends(s, at) => Before(s, at')
      BY <1>1, BeforeAdvance
    <3>2. CASE Extends(at, s) /\ Len(s) = Len(at)
      <4>1. s = at
        BY <3>2, ExtendsEqual
      <4>2. Extends(s, at)
        BY <4>1, PathElements DEF Extends
      <4> QED BY <3>1, <4>2 DEF Visited
    <3>3. CASE Extends(at, s) /\ Len(s) # Len(at)
      <4>1. Len(s) \in Nat /\ Len(at) \in Nat /\ Len(s) <= Len(at) - 1
        BY <3>3, PathElements DEF Extends
      <4>2. Extends(at', s)
        BY <1>2, <3>3, <4>1 DEF Extends
      <4> QED BY <4>2 DEF Visited
    <3> QED BY <2>1, <3>1, <3>2, <3>3 DEF Visited
  <2> QED BY <1>1, <2>1, CoveredPath DEF WalkInv, StoreInv
<1> QED BY <1>4, <1>5, <1>6 DEF WalkInv

LEMMA EnterWalks ==
  ASSUME SeedInv, Enter
  PROVE  /\ WalkInv'
         /\ store' # store => ~CanSkip(store, store')
<1>1. /\ pc = "enter" /\ pc' = "visit" /\ at' = Append(at, 1)
      /\ UNCHANGED <<progress, seeded, outcome, old, handed, cached>>
      /\ store' \in {store, Identifier(old, progress)}
  BY DEF Enter, Report, sessionVars
<1>2. /\ at \in Path /\ WalkInv /\ EnterOK /\ Walking /\ Walking' /\ outcome = "none"
      /\ store \in Progresses
  BY <1>1 DEF SeedInv, TypeOK, Path, WalkInv, PlaceInv, Walking
<1>3. /\ at' \in Path /\ at' # <<>> /\ Len(at') = Len(at) + 1 /\ Front(at') = at
      /\ \A j \in 1 .. Len(at) : at'[j] = at[j]
  BY <1>1, <1>2, AppendLemma, SeedingAssumption
<1>4. Extends(at, at) /\ Extends(at', at) /\ Len(at) \in Nat
  BY <1>2, <1>3, PathElements DEF Extends
<1>5. CASE at = <<>>
  <2>1. store = old /\ progress = NoProgress /\ store' = old
    BY <1>1, <1>2, <1>5 DEF EnterOK, WalkInv, StoreInv, Identifier
  <2>2. Len(at) = 0
    BY <1>5
  <2>3. PlaceInv'
    BY <1>1, <1>2, <1>3, <2>1, <2>2 DEF PlaceInv, LoopOK, Walking
  <2>4. StoreInv'
    BY <1>1, <2>1 DEF StoreInv
  <2>5. \A p \in WantedPaths : Passed(p)' => Passed(p)
    BY <1>1, <1>2, BeforeFirst, Wanted_ DEF Passed
  <2>6. PassedInv'
    BY <1>1, <1>2, <2>1, <2>5 DEF WalkInv, PassedInv, SkippedIsKept, Kept
  <2> QED BY <2>1, <2>3, <2>4, <2>6 DEF WalkInv
<1>6. CASE at # <<>>
  <2>1. at \in Covered /\ progress = at /\ ~CanSkip(old, at) /\ at # NoProgress
    BY <1>2, <1>6, PathIsProgress DEF EnterOK
  <2>2. store' \in {store, at} /\ old # <<>>
    BY <1>1, <2>1, SeedingAssumption, EmptySeq DEF Identifier, CanSkip
  <2>3. PlaceInv'
    <3>1. Len(at') # 1
      BY <1>2, <1>3, <1>6, PathElements
    <3> QED BY <1>1, <1>2, <1>3, <1>4, <2>1, <3>1 DEF PlaceInv, LoopOK, Walking
  <2>4. \A p \in WantedPaths : Passed(p)' => Passed(p)
    BY <1>1, <1>2, BeforeFirst, Wanted_ DEF Passed
  <2>5. SkippedIsKept(at)
    <3> SUFFICES ASSUME NEW p \in WantedPaths, NEW k \in 1 .. Level(p), CanSkip(at, SubSeq(p, 1, k))
                 PROVE  Kept(TileOf[p])
      BY DEF SkippedIsKept, SkipsTo
    <3>1. p \in Path /\ k \in 1 .. Len(p)
      BY Wanted_, CoveredPath
    <3>2. Before(SubSeq(p, 1, k), at)
      BY <1>6 DEF CanSkip
    <3>3. Before(p, at)
      BY <1>2, <3>1, <3>2, SubPath, BeforeExtends
    <3> QED BY <1>2, <3>3 DEF Passed, WalkInv, PassedInv
  <2>6. PassedInv'
    <3>1. SkippedIsKept(store')
      BY <1>2, <2>2, <2>5 DEF WalkInv, PassedInv
    <3> QED BY <1>1, <1>2, <2>4, <3>1 DEF WalkInv, PassedInv, SkippedIsKept, Kept
  <2>7. ASSUME NEW s \in Covered, Visited(s) PROVE Visited(s)' /\ ~CanSkip(s, at)
    <3>1. s \in Path /\ s # <<>> /\ (Before(s, at) \/ Extends(at, s))
      BY <1>1, <2>7, CoveredPath DEF Visited
    <3>2. ~Before(at, s)
      BY <1>2, <3>1, NotBeforeBelow, NotBeforeBoth
    <3>3. Before(s, at) => Before(s, at')
      BY <1>1, <1>2, <3>1, BeforeFirst
    <3>4. Extends(at, s) => Extends(at', s)
      BY <1>2, <1>3, <3>1, PathElements DEF Extends
    <3> QED BY <3>1, <3>2, <3>3, <3>4 DEF Visited, CanSkip
  <2>8. store = old \/ (store \in Covered /\ Visited(store))
    BY <1>1, <1>2 DEF WalkInv, StoreInv
  <2>9. StoreInv'
    <3>1. \A s \in Covered : s = at \/ Visited(s) => Visited(s)'
      BY <1>1, <1>4, <2>7 DEF Visited
    <3>2. store' = old' \/ (store' \in Covered /\ (store' = at \/ Visited(store')))
      BY <1>1, <2>1, <2>2, <2>8
    <3>3. store' = old' \/ (store \in Covered /\ Visited(store))'
      BY <3>1, <3>2 DEF Visited
    <3> QED BY <1>1, <2>1, <2>2, <3>3, PathIsProgress DEF StoreInv
  <2>10. ~CanSkip(store, at)
    BY <2>1, <2>7, <2>8
  <2> QED BY <2>2, <2>3, <2>6, <2>9, <2>10 DEF WalkInv
<1> QED BY <1>5, <1>6

LEMMA OutsideWalks == ASSUME SeedInv, Outside PROVE WalkInv'
<1>1. /\ pc = "visit" /\ pc' = "visit" /\ at' = Advance(at) /\ at \notin Covered
      /\ at[Len(at)] <= Subtiles
      /\ UNCHANGED <<progress, seeded, outcome, old, store, handed, cached>>
  BY DEF Outside, InLoop, sessionVars
<1>2. at \in Path /\ store \in Progresses /\ WalkInv /\ at # <<>>
  BY <1>1 DEF SeedInv, TypeOK, Path, WalkInv, PlaceInv, LoopOK
<1>3. at[Len(at)] \in 1 .. Subtiles
  <2>1. Len(at) \in 1 .. Len(at)
    BY <1>2, PathElements
  <2> QED BY <1>1, <1>2, <2>1, PathElements, SeedingAssumption
\* Covered holds the tiles above each of its paths, so nothing is below at.
<1>4. \A p \in WantedPaths : ~Extends(p, at)
  <2> SUFFICES ASSUME NEW p \in WantedPaths, Extends(p, at) PROVE FALSE
    OBVIOUS
  <2>1. p \in Covered /\ p \in Path /\ Len(at) \in 1 .. Len(p)
    BY <1>2, Wanted_, PathElements DEF Extends
  <2>2. SubSeq(p, 1, Len(at)) = at
    BY <1>2, <2>1, SubPath
  <2> QED BY <1>1, <2>1, <2>2, SeedingAssumption
<1>5. KeptStays /\ \A t \in seeded' : Kept(t)'
  BY <1>1, <1>2 DEF KeptStays, Kept, WalkInv, PassedInv
<1> QED BY <1>1, <1>2, <1>3, <1>4, <1>5, NextSubtile

\* The progress recorded for a subtile is its path.
LEMMA RecurseProgress == ASSUME SeedInv, Recurse PROVE StepDown(progress, at) = at
<1>1. at \in Path /\ progress \in Progresses /\ LoopOK
  BY DEF Recurse, InLoop, SeedInv, TypeOK, Path, PlaceInv
<1>2. progress # NoProgress => progress \in Path
  <2>1. \A q \in Seq(1 .. Subtiles) : q \in Path
    BY SeqMonotonic, SeedingAssumption DEF Path
  <2> QED BY <1>1, <2>1 DEF Progresses
<1> QED BY <1>1, <1>2, StepDownLemma DEF LoopOK

LEMMA RecurseWalks == ASSUME SeedInv, Recurse PROVE WalkInv'
<1>1. /\ pc = "visit" /\ at \in Covered
      /\ UNCHANGED <<at, seeded, outcome, old, store, handed, cached>>
  BY DEF Recurse, InLoop, sessionVars
<1>2. /\ at \in Path /\ store \in Progresses /\ WalkInv /\ LoopOK /\ at # <<>> /\ at # NoProgress
      /\ progress \in Progresses /\ Walking /\ outcome = "none"
  BY <1>1, PathIsProgress DEF SeedInv, TypeOK, Path, WalkInv, PlaceInv, LoopOK, Walking
<1>3. StepDown(progress, at) = at
  BY RecurseProgress
<1>4. /\ \A t : Kept(t)' <=> Kept(t)
      /\ Extends(at, Front(at))
  <2>1. Extends(at, Front(at))
    BY <1>2, FrontLemma, PathElements DEF Extends, Path
  <2> QED BY <1>1, <2>1 DEF Kept
<1>5. CASE CanSkip(old, at)
  <2>1. pc' = "tile" /\ progress' = IF Len(at) = 1 THEN <<>> ELSE at
    BY <1>3, <1>5 DEF Recurse, StepUp
  <2>2. PlaceInv'
    BY <1>1, <1>2, <1>4, <2>1 DEF PlaceInv, LoopOK, Walking
  <2>3. ASSUME NEW p \in WantedPaths, Extends(p, at), p # at PROVE Kept(TileOf[p])
    <3>1. p \in Path /\ p \in Covered
      BY Wanted_
    <3>2. Len(at) \in 1 .. Level(p)
      <4>1. Len(p) # Len(at)
        BY <1>2, <2>3, <3>1, ExtendsEqual
      <4> QED BY <1>2, <2>3, <3>1, <4>1, PathElements DEF Extends, Level
    <3>3. SubSeq(p, 1, Len(at)) = at
      <4>1. Len(at) \in 1 .. Len(p)
        BY <3>1, <3>2, CoveredPath
      <4> QED BY <1>2, <2>3, <3>1, <4>1, SubPath
    <3>4. SkipsTo(old, p)
      BY <1>5, <3>2, <3>3 DEF SkipsTo
    <3> QED BY <1>2, <3>4 DEF WalkInv, PassedInv, SkippedIsKept
  <2>4. ASSUME NEW p \in WantedPaths, Passed(p)' PROVE Kept(TileOf[p])
    BY <1>1, <1>2, <2>1, <2>3, <2>4 DEF Passed, Walking, WalkInv, PassedInv
  <2>5. PassedInv'
    BY <1>1, <1>2, <1>4, <2>1, <2>4 DEF WalkInv, PassedInv, SkippedIsKept
  <2>6. StoreInv'
    <3>1. progress' # NoProgress
      BY <1>2, <2>1, EmptyIsProgress
    <3> QED BY <1>1, <1>2, <2>1, <3>1 DEF WalkInv, StoreInv, Visited
  <2> QED BY <2>2, <2>5, <2>6 DEF WalkInv
<1>6. CASE ~CanSkip(old, at)
  <2>1. pc' = "enter" /\ progress' = at
    BY <1>3, <1>6 DEF Recurse
  <2>2. PlaceInv'
    BY <1>1, <1>2, <1>6, <2>1 DEF PlaceInv, EnterOK, Walking
  <2>3. \A p : Passed(p)' => Passed(p)
    BY <1>1, <1>2, <2>1 DEF Passed
  <2>4. PassedInv'
    BY <1>1, <1>2, <1>4, <2>1, <2>3 DEF WalkInv, PassedInv, SkippedIsKept
  <2>5. StoreInv'
    BY <1>1, <1>2, <2>1 DEF WalkInv, StoreInv, Visited
  <2> QED BY <2>2, <2>4, <2>5 DEF WalkInv
<1> QED BY <1>5, <1>6

LEMMA LastLevelWalks == ASSUME SeedInv, LastLevel PROVE WalkInv'
<1>1. /\ pc = "visit" /\ pc' = "tile" /\ at \in Covered /\ ~Deeper(at)
      /\ UNCHANGED <<at, progress, seeded, outcome, old, store, handed, cached>>
  BY DEF LastLevel, InLoop, sessionVars, walkVars
<1>2. at \in Path /\ WalkInv /\ LoopOK /\ Walking /\ outcome = "none"
  BY <1>1 DEF SeedInv, TypeOK, Path, WalkInv, PlaceInv, Walking
<1>3. PlaceInv'
  BY <1>1, <1>2 DEF PlaceInv, LoopOK, Walking
<1>4. ASSUME NEW p \in WantedPaths, Extends(p, at) PROVE p = at
  <2>1. p \in Path /\ p \in Covered /\ Level(p) \in Levels
    BY Wanted_ DEF WantedPaths
  <2>2. ~(Level(p) > Level(at))
    BY <1>1, <2>1 DEF Deeper
  <2>3. Len(p) = Len(at)
    BY <1>1, <1>4, <2>1, <2>2, CoveredPath DEF Extends
  <2> QED BY <1>2, <1>4, <2>1, <2>3, ExtendsEqual
<1>5. PassedInv'
  <2>1. \A p \in WantedPaths : Passed(p)' => Passed(p)
    BY <1>1, <1>2, <1>4 DEF Passed
  <2> QED BY <1>1, <1>2, <2>1 DEF WalkInv, PassedInv, SkippedIsKept, Kept
<1>6. StoreInv'
  BY <1>1, <1>2 DEF WalkInv, StoreInv, Visited, Walking
<1> QED BY <1>3, <1>5, <1>6 DEF WalkInv

LEMMA ReturnWalks == ASSUME SeedInv, Return PROVE WalkInv'
<1> DEFINE n == Len(at)
<1>1. /\ pc = "visit" /\ at[n] > Subtiles
      /\ UNCHANGED <<seeded, outcome, old, store, handed, cached>>
  BY DEF Return, sessionVars
<1>2. /\ at \in Path /\ store \in Progresses /\ WalkInv /\ LoopOK /\ at # <<>>
      /\ Walking /\ outcome = "none"
  BY <1>1 DEF SeedInv, TypeOK, Path, WalkInv, PlaceInv, LoopOK, Walking
<1>3. n \in Nat \ {0} /\ \A t : Kept(t)' <=> Kept(t)
  BY <1>1, <1>2, PathElements DEF Kept
<1>4. \A p \in Covered : \A j \in 1 .. Len(p) : p[j] \in 1 .. Subtiles /\ p[j] < at[n]
  <2>1. \A p \in Covered : \A j \in 1 .. Len(p) : p[j] \in 1 .. Subtiles
    BY CoveredPath, ElementOfSeq
  <2>2. at[n] \in Nat /\ Subtiles \in Nat
    <3>1. n \in 1 .. n
      BY <1>3
    <3> QED BY <1>2, <3>1, PathElements, SeedingAssumption
  <2>3. \A i \in 1 .. Subtiles : i < at[n]
    BY <1>1, <2>2
  <2> QED BY <2>1, <2>3
<1>5. CASE n = 1
  <2>1. pc' = "walked" /\ UNCHANGED <<at, progress>>
    BY <1>5 DEF Return
  <2>2. PlaceInv'
    BY <1>1, <1>2, <1>5, <2>1 DEF PlaceInv, LoopOK, Walking
  <2>3. ASSUME NEW p \in WantedPaths PROVE Kept(TileOf[p])
    <3>1. p \in Covered /\ p \in Path /\ 1 \in 1 .. Len(p)
      BY Wanted_, CoveredPath
    <3>2. p[1] < at[1]
      BY <1>4, <1>5, <3>1
    <3>3. 1 <= Len(at) /\ \A j \in 1 .. 1 - 1 : p[j] = at[j]
      BY <1>5
    <3>4. Before(p, at)
      BY <1>2, <3>1, <3>2, <3>3, BeforeDef
    <3> QED BY <1>2, <3>4 DEF Passed, WalkInv, PassedInv
  <2>4. PassedInv'
    BY <1>1, <1>2, <1>3, <2>1, <2>3 DEF WalkInv, PassedInv, SkippedIsKept
  <2>5. StoreInv'
    BY <1>1, <1>2, <2>1 DEF WalkInv, StoreInv
  <2> QED BY <2>2, <2>4, <2>5 DEF WalkInv
<1>6. CASE n # 1
  <2>1. pc' = "tile" /\ at' = Front(at) /\ progress' = StepUp(progress, Front(at))
    BY <1>6 DEF Return
  <2>2. /\ n > 1 /\ at' \in Path /\ Len(at') = n - 1 /\ at' # <<>> /\ at' \in Covered
        /\ \A j \in 1 .. n - 1 : at'[j] = at[j]
    <3>1. at' \in Path /\ Len(at') = n - 1 /\ \A j \in 1 .. n - 1 : at'[j] = at[j]
      BY <1>2, <2>1, FrontLemma DEF Path
    <3>2. at' \in Covered
      BY <1>2, <1>6, <2>1 DEF LoopOK
    <3> QED BY <1>3, <1>6, <3>1, <3>2, CoveredPath
  <2>3. LoopOK'
    <3>1. CASE n - 1 = 1
      BY <1>2, <2>1, <2>2, <3>1 DEF LoopOK, StepUp
    <3>2. CASE n - 1 # 1
      <4>1. progress' = progress /\ progress # NoProgress /\ Extends(progress, at')
        BY <1>2, <1>6, <2>1, <2>2, <3>2 DEF LoopOK, StepUp
      <4>2. /\ Front(at') \in Covered /\ Len(Front(at')) = n - 1 - 1
            /\ \A j \in 1 .. n - 1 - 1 : Front(at')[j] = at'[j]
        BY <1>3, <2>2, <3>2, FrontCovered, FrontLemma DEF Path
      <4>3. Extends(progress, Front(at'))
        BY <1>3, <2>2, <4>1, <4>2 DEF Extends
      <4> QED BY <2>2, <3>2, <4>1, <4>2, <4>3 DEF LoopOK
    <3> QED BY <3>1, <3>2
  <2>4. PlaceInv'
    BY <1>1, <1>2, <2>1, <2>2, <2>3 DEF PlaceInv, Walking
  <2>5. ASSUME NEW p \in WantedPaths, Passed(p)' PROVE Kept(TileOf[p])
    <3>1. p \in Path /\ p \in Covered
      BY Wanted_
    <3>2. CASE Before(p, at')
      <4>1. Before(p, at)
        BY <1>2, <2>1, <2>2, <3>1, <3>2, BeforeEnd
      <4> QED BY <1>2, <4>1 DEF Passed, WalkInv, PassedInv
    <3>3. CASE Extends(p, at') /\ p # at'
      <4>1. n \in 1 .. Len(p)
        <5>1. Len(p) # n - 1
          BY <2>2, <3>1, <3>3, ExtendsEqual
        <5> QED BY <1>3, <2>2, <3>1, <3>3, <5>1, PathElements DEF Extends
      <4>2. p[n] < at[n] /\ \A j \in 1 .. n - 1 : p[j] = at[j]
        BY <1>4, <2>2, <3>1, <3>3, <4>1 DEF Extends
      <4>3. Before(p, at)
        BY <1>2, <1>3, <3>1, <4>1, <4>2, BeforeDef
      <4> QED BY <1>2, <4>3 DEF Passed, WalkInv, PassedInv
    <3> QED BY <2>1, <2>5, <3>2, <3>3 DEF Passed
  <2>6. PassedInv'
    BY <1>1, <1>2, <1>3, <2>1, <2>5 DEF WalkInv, PassedInv, SkippedIsKept
  <2>7. ASSUME NEW s \in Covered, Visited(s) PROVE Visited(s)'
    <3>1. s \in Path
      BY CoveredPath
    <3>2. CASE Before(s, at)
      <4>1. Before(s, at') \/ Extends(s, at')
        BY <1>2, <2>1, <2>2, <3>1, <3>2, BeforeEnd
      <4> QED BY <2>1, <4>1 DEF Visited
    <3>3. CASE Extends(at, s) /\ Len(s) = n
      <4>1. s = at
        BY <1>2, <3>1, <3>3, ExtendsEqual
      <4>2. Extends(s, at')
        BY <1>3, <2>2, <4>1 DEF Extends
      <4> QED BY <2>1, <4>2 DEF Visited
    <3>4. CASE Extends(at, s) /\ Len(s) # n
      <4>1. Len(s) \in Nat /\ Len(s) <= n - 1
        BY <1>3, <3>1, <3>4, PathElements DEF Extends
      <4>2. Extends(at', s)
        BY <1>3, <2>2, <3>4, <4>1 DEF Extends
      <4> QED BY <4>2 DEF Visited
    <3> QED BY <1>1, <2>7, <3>2, <3>3, <3>4 DEF Visited
  <2>8. StoreInv'
    <3>1. progress' # NoProgress
      BY <1>2, <1>6, <2>1, EmptyIsProgress DEF LoopOK, StepUp
    <3> QED BY <1>1, <1>2, <2>1, <2>7, <3>1 DEF WalkInv, StoreInv
  <2> QED BY <2>4, <2>6, <2>8 DEF WalkInv
<1> QED BY <1>5, <1>6

LEMMA TileWalks == ASSUME SeedInv, Tile PROVE WalkInv'
<1> DEFINE new == Level(at) \in Levels /\ TileOf[at] \notin seeded
<1>1. /\ pc = "tile" /\ seeded' = IF new THEN seeded \cup {TileOf[at]} ELSE seeded
      /\ UNCHANGED <<progress, outcome, old, store, handed, cached>>
      /\ IF new /\ TileOf[at] \notin cached THEN pc' = "put" /\ UNCHANGED at
                                            ELSE pc' = "visit" /\ at' = Advance(at)
  BY DEF Tile, sessionVars
<1>2. /\ at \in Path /\ store \in Progresses /\ WalkInv /\ LoopOK /\ at # <<>> /\ at \in Covered
      /\ Walking /\ outcome = "none"
  BY <1>1 DEF SeedInv, TypeOK, Path, WalkInv, PlaceInv, LoopOK, Walking
<1>3. \A t \in seeded : Kept(t)
  BY <1>1, <1>2 DEF WalkInv, PassedInv
<1>4. \A t : Kept(t)' <=> Kept(t)
  BY <1>1 DEF Kept
<1>5. CASE new /\ TileOf[at] \notin cached
  <2>1. pc' = "put" /\ at' = at
    BY <1>1, <1>5
  <2>2. PlaceInv'
    BY <1>1, <1>2, <2>1 DEF PlaceInv, LoopOK, Walking
  <2>3. \A p : Passed(p)' => Passed(p)
    BY <1>1, <1>2, <2>1 DEF Passed
  <2>4. PassedInv'
    BY <1>1, <1>2, <1>3, <1>4, <2>1, <2>3 DEF WalkInv, PassedInv, SkippedIsKept
  <2>5. StoreInv'
    BY <1>1, <1>2, <2>1 DEF WalkInv, StoreInv, Visited, Walking
  <2> QED BY <2>2, <2>4, <2>5 DEF WalkInv
<1>6. CASE ~(new /\ TileOf[at] \notin cached)
  <2>1. pc' = "visit" /\ at' = Advance(at)
    BY <1>1, <1>6
  <2>2. at[Len(at)] \in 1 .. Subtiles
    <3>1. Len(at) \in 1 .. Len(at)
      BY <1>2, PathElements
    <3> QED BY <1>2, <3>1, CoveredPath, ElementOfSeq
  <2>3. ASSUME NEW p \in WantedPaths, Extends(p, at), ~Passed(p) PROVE Kept(TileOf[p])'
    <3>1. p = at
      BY <1>1, <2>3 DEF Passed
    <3>2. Level(at) \in Levels
      BY <3>1 DEF WantedPaths
    <3> QED BY <1>3, <1>4, <1>6, <3>1, <3>2 DEF Kept
  <2>4. \A t \in seeded' : Kept(t)'
    BY <1>1, <1>3, <1>4, <1>6 DEF Kept
  <2>5. KeptStays
    BY <1>4 DEF KeptStays
  <2> QED BY <1>1, <1>2, <2>1, <2>2, <2>3, <2>4, <2>5, NextSubtile
<1> QED BY <1>5, <1>6

LEMMA PutWalks == ASSUME SeedInv, Put PROVE WalkInv'
<1>1. /\ pc = "put" /\ pc' = "visit" /\ at' = Advance(at) /\ handed' = handed \cup {TileOf[at]}
      /\ UNCHANGED <<progress, seeded, outcome, old, store, cached>>
  BY DEF Put, sessionVars
<1>2. at \in Path /\ store \in Progresses /\ WalkInv /\ at # <<>> /\ at \in Covered
  BY <1>1 DEF SeedInv, TypeOK, Path, WalkInv, PlaceInv, LoopOK
<1>3. at[Len(at)] \in 1 .. Subtiles
  <2>1. Len(at) \in 1 .. Len(at)
    BY <1>2, PathElements
  <2> QED BY <1>2, <2>1, CoveredPath, ElementOfSeq
<1>4. KeptStays /\ \A t : t = TileOf[at] => Kept(t)'
  BY <1>1 DEF KeptStays, Kept
<1>5. \A p \in WantedPaths : Extends(p, at) /\ ~Passed(p) => Kept(TileOf[p])'
  BY <1>1, <1>4 DEF Passed
<1>6. \A t \in seeded' : Kept(t)'
  BY <1>1, <1>2, <1>4 DEF WalkInv, PassedInv, KeptStays
<1> QED BY <1>1, <1>2, <1>3, <1>4, <1>5, <1>6, NextSubtile

\* The end of the walk: the progress is that of a finished task.
LEMMA WalkedWalks ==
  ASSUME SeedInv, Walked
  PROVE  /\ WalkInv'
         /\ store' # store => ~CanSkip(store, store')
<1>1. /\ pc = "walked" /\ pc' = "stop" /\ outcome' = "done" /\ seeded' = {}
      /\ UNCHANGED <<old, handed, cached>>
      /\ store' \in {store, Identifier(old, progress)}
  BY DEF Walked, Report, Forget, sessionVars
<1>2. WalkInv /\ Walking /\ progress \in {NoProgress, <<>>}
  BY <1>1 DEF SeedInv, WalkInv, PlaceInv, Walking
<1>3. \A p \in WantedPaths : Kept(TileOf[p])
  BY <1>1, <1>2 DEF Passed, WalkInv, PassedInv
<1>4. PlaceInv' /\ StoreInv'
  BY <1>1 DEF PlaceInv, StoreInv, Walking
<1>5. \A p : ~Passed(p)'
  BY <1>1 DEF Passed, Walking
<1>6. PassedInv'
  BY <1>1, <1>3, <1>5 DEF PassedInv, SkippedIsKept, Kept
<1>7. ASSUME store' # store PROVE ~CanSkip(store, store')
  <2>1. store' = Identifier(old, progress)
    BY <1>1, <1>7
  <2>2. progress = NoProgress => Identifier(old, progress) = old /\ store = old
    BY <1>2 DEF WalkInv, StoreInv, Identifier
  <2>3. old = <<>> /\ progress = <<>> => Identifier(old, progress) = old /\ store = old
    BY <1>2, EmptyIsProgress DEF WalkInv, StoreInv, Identifier, CanSkip
  <2>4. \A s : ~Before(<<>>, s)
    BY DEF Before
  <2>5. progress = <<>> /\ old # <<>> /\ store' = <<>>
    BY <1>2, <1>7, <2>1, <2>2, <2>3, <2>4 DEF Identifier, CanSkip
  <2> QED BY <1>7, <2>4, <2>5 DEF CanSkip
<1> QED BY <1>4, <1>6, <1>7 DEF WalkInv

-----------------------------------------------------------------------------
(* Types *)

\* What a step of the walker does not touch.
WalkerOnly ==
  UNCHANGED <<alives, sessionVars, queue, cached, sigint, workVars, gaveUp>>

LEMMA WalkerTypes ==
  ASSUME SeedInv, WalkerOnly, at' \in Path, progress' \in Progresses, store' \in Progresses,
         seeded' \subseteq Tiles, handed' \subseteq Tiles,
         pc' \in {"enter", "visit", "tile", "put", "walked", "stop"},
         outcome' \in {"none", "done", "interrupted"}
  PROVE  TypeOK' /\ LoadingInv'
  BY DEF SeedInv, TypeOK, LoadingInv, WalkerOnly, sessionVars, workVars, Path

LEMMA AdvanceType == ASSUME SeedInv, at # <<>>, at[Len(at)] <= Subtiles PROVE Advance(at) \in Path
<1>1. at \in Path
  BY DEF SeedInv, TypeOK, Path
<1>2. Len(at) \in 1 .. Len(at)
  BY <1>1, PathElements
<1>3. at[Len(at)] \in 1 .. Subtiles
  BY <1>1, <1>2, PathElements, SeedingAssumption
<1> QED BY <1>1, <1>3, AdvanceLemma

LEMMA CoveredEnd == ASSUME NEW a \in Covered PROVE a[Len(a)] <= Subtiles
<1>1. a \in Seq(1 .. Subtiles) /\ Len(a) \in 1 .. Len(a)
  BY CoveredPath
<1>2. a[Len(a)] \in 1 .. Subtiles
  BY <1>1, ElementOfSeq
<1> QED BY <1>2, SeedingAssumption

LEMMA EmptyTypes == <<>> \in Path /\ <<>> \in Progresses /\ NoProgress \in Progresses
  BY EmptySeq DEF Path, Progresses

LEMMA WalkTypes ==
  ASSUME SeedInv, Enter \/ Outside \/ Recurse \/ LastLevel \/ Return \/ Tile \/ Walked
  PROVE  TypeOK' /\ LoadingInv' /\ WalkerOnly
<1> USE DEF WalkerOnly
<1>1. /\ at \in Path /\ progress \in Progresses /\ old \in Progresses /\ store \in Progresses
      /\ seeded \subseteq Tiles /\ handed \subseteq Tiles /\ PlaceInv
  BY DEF SeedInv, TypeOK, Path
<1>2. Identifier(old, progress) \in Progresses
  BY <1>1 DEF Identifier
<1>3. CASE Enter
  <2>1. at' = Append(at, 1) /\ store' \in {store, Identifier(old, progress)}
    BY <1>3 DEF Enter, Report
  <2>2. at' \in Path
    BY <1>1, <2>1, AppendLemma, SeedingAssumption
  <2>3. store' \in Progresses
    BY <1>1, <1>2, <2>1
  <2> QED BY <1>1, <1>3, <2>2, <2>3, WalkerTypes DEF Enter, PlaceInv, Walking
<1>4. CASE Outside
  <2>1. at' \in Path
    BY <1>1, <1>4, AdvanceType DEF Outside, InLoop, PlaceInv, LoopOK
  <2> QED BY <1>1, <1>4, <2>1, WalkerTypes DEF Outside, InLoop, PlaceInv, Walking
<1>5. CASE Recurse
  <2>1. StepDown(progress, at) = at /\ at \in Covered
    BY <1>5, RecurseProgress DEF Recurse
  <2>2. at \in Progresses /\ StepUp(at, at) \in Progresses
    BY <2>1, CoveredPath, EmptyTypes DEF Progresses, StepUp
  <2>3. progress' \in Progresses /\ pc' \in {"tile", "enter"} /\ at' = at
    BY <1>5, <2>1, <2>2 DEF Recurse
  <2> QED BY <1>1, <1>5, <2>3, WalkerTypes DEF Recurse, InLoop, PlaceInv, Walking
<1>6. CASE LastLevel
  BY <1>1, <1>6, WalkerTypes DEF LastLevel, InLoop, PlaceInv, Walking, walkVars
<1>7. CASE Return
  <2>1. at' \in Path
    BY <1>1, <1>7, FrontLemma DEF Return, PlaceInv, LoopOK, Path
  <2>2. progress' \in Progresses /\ pc' \in {"walked", "tile"}
    BY <1>1, <1>7, EmptyTypes DEF Return, StepUp
  <2> QED BY <1>1, <1>7, <2>1, <2>2, WalkerTypes DEF Return, PlaceInv, Walking
<1>8. CASE Tile
  <2>1. at \in Covered /\ at # <<>>
    BY <1>1, <1>8 DEF Tile, PlaceInv, LoopOK
  <2>2. at' \in Path
    BY <1>1, <1>8, <2>1, AdvanceType, CoveredEnd DEF Tile
  <2>3. seeded' \subseteq Tiles /\ pc' \in {"put", "visit"}
    BY <1>1, <1>8, <2>1, TileTypes DEF Tile
  <2> QED BY <1>1, <1>8, <2>2, <2>3, WalkerTypes DEF Tile, PlaceInv, Walking
<1>9. CASE Walked
  <2>1. store' \in Progresses
    BY <1>1, <1>2, <1>9 DEF Walked, Report
  <2> QED BY <1>1, <1>9, <2>1, EmptyTypes, WalkerTypes DEF Walked, Forget
<1> QED BY <1>3, <1>4, <1>5, <1>6, <1>7, <1>8, <1>9

\* What holds of the queue and of the count in every state.
LEMMA QueueTypes ==
  ASSUME SeedInv
  PROVE  /\ queue \in Seq(Tiles \cup {NoTile}) /\ Len(queue) \in Nat /\ Len(queue) <= QueueSize
         /\ QueueSize \in Nat /\ Cardinality(Alive) \in 0 .. Cardinality(Workers)
<1>1. queue \in Seq(Tiles \cup {NoTile}) /\ Len(queue) <= QueueSize
  BY DEF SeedInv, TypeOK
<1>2. Len(queue) \in Nat
  BY <1>1
<1>3. QueueSize \in Nat /\ Cardinality(Alive) \in Nat /\ Cardinality(Alive) <= Cardinality(Workers)
  <2>1. IsFiniteSet(Workers) /\ Alive \subseteq Workers
    BY SeedingAssumption DEF Alive
  <2>2. IsFiniteSet(Alive) /\ Cardinality(Alive) <= Cardinality(Workers)
    BY <2>1, FS_Subset
  <2> QED BY <2>1, <2>2, FS_CardinalityType DEF QueueSize
<1>4. Cardinality(Workers) \in Nat
  BY <1>3 DEF QueueSize
<1> QED BY <1>1, <1>2, <1>3, <1>4

LEMMA AppendQueue ==
  ASSUME SeedInv, ~Full, NEW t \in Tiles \cup {NoTile}
  PROVE  Append(queue, t) \in Seq(Tiles \cup {NoTile}) /\ Len(Append(queue, t)) <= QueueSize
<1>1. Append(queue, t) \in Seq(Tiles \cup {NoTile}) /\ Len(Append(queue, t)) = Len(queue) + 1
  BY QueueTypes
<1>2. Len(queue) # QueueSize
  BY DEF Full
<1> QED BY <1>1, <1>2, QueueTypes

LEMMA PoolTypes ==
  ASSUME SeedInv, Put \/ NoWorkersLeft \/ Count \/ Send \/ JoinWorkers \/ ForcedStop
  PROVE  TypeOK' /\ LoadingInv'
<1>1. TypeOK /\ LoadingInv /\ PlaceInv
  BY DEF SeedInv
<1>2. CASE Put
  <2>1. at \in Covered /\ at # <<>> /\ TileOf[at] \in Tiles
    BY <1>1, <1>2, TileTypes DEF Put, PlaceInv, LoopOK
  <2>2. at' \in Path
    BY <1>2, <2>1, AdvanceType, CoveredEnd DEF Put
  <2>3. queue' \in Seq(Tiles \cup {NoTile}) /\ Len(queue') <= QueueSize
    BY <1>2, <2>1, AppendQueue DEF Put
  <2> QED BY <1>1, <1>2, <2>1, <2>2, <2>3 DEF Put, TypeOK, LoadingInv, Path, sessionVars, workVars
<1>3. CASE NoWorkersLeft
  BY <1>1, <1>3, EmptyTypes DEF NoWorkersLeft, Forget, TypeOK, LoadingInv, Path, sessionVars, workVars
<1>4. CASE Count
  <2>1. alives' \in 0 .. Cardinality(Workers)
    BY <1>4, QueueTypes DEF Count
  <2> QED BY <1>1, <1>4, <2>1 DEF Count, TypeOK, LoadingInv, walkVars, sessionVars, workVars
<1>5. CASE Send
  <2>1. queue' \in Seq(Tiles \cup {NoTile}) /\ Len(queue') <= QueueSize
    BY <1>5, AppendQueue DEF Send
  <2>2. alives' \in 0 .. Cardinality(Workers)
    <3>1. alives \in 0 .. Cardinality(Workers) /\ alives > 0 /\ alives' = alives - 1
      BY <1>1, <1>5 DEF Send, TypeOK
    <3>2. Cardinality(Workers) \in Nat
      BY QueueTypes DEF QueueSize
    <3> QED BY <3>1, <3>2
  <2> QED BY <1>1, <1>5, <2>1, <2>2 DEF Send, TypeOK, LoadingInv, walkVars, sessionVars, workVars
<1>6. CASE JoinWorkers
  BY <1>1, <1>6, EmptyTypes DEF JoinWorkers, TypeOK, LoadingInv, walkVars, sessionVars, workVars
<1>7. CASE ForcedStop
  BY <1>1, <1>7 DEF ForcedStop, TypeOK, LoadingInv, walkVars, sessionVars, workVars
<1> QED BY <1>2, <1>3, <1>4, <1>5, <1>6, <1>7

LEMMA WorkerTypes ==
  ASSUME SeedInv, NEW w \in Workers, Worker(w)
  PROVE  TypeOK' /\ LoadingInv' /\ UNCHANGED <<pc, walkVars, outcome, sessionVars, store>> /\ KeptStays
<1>1. TypeOK /\ LoadingInv /\ MaxRepeat \in Nat
  BY SeedingAssumption DEF SeedInv
<1> DEFINE Counts == 0 .. MaxRepeat
<1>0a. 0 \in Counts /\ (\A n \in Counts : n < MaxRepeat => n + 1 \in Counts)
  <2> MaxRepeat \in Nat
    BY <1>1
  <2> QED OBVIOUS
<1>0b. tries \in [Workers -> Counts] /\ tile \in [Workers -> Tiles \cup {NoTile}]
  <2> HIDE DEF Counts
  <2>1. tries \in [Workers -> 0 .. MaxRepeat] /\ tile \in [Workers -> Tiles \cup {NoTile}]
    BY <1>1 DEF TypeOK
  <2> QED BY <2>1 DEF Counts
<1>0. /\ tries \in [Workers -> Counts] /\ tile \in [Workers -> Tiles \cup {NoTile}]
      /\ 0 \in Counts /\ (\A n \in Counts : n < MaxRepeat => n + 1 \in Counts)
  BY <1>0a, <1>0b
<1> HIDE DEF Counts
<1>2. CASE Get(w)
  <2>1. /\ Head(queue) \in Tiles \cup {NoTile} /\ Tail(queue) \in Seq(Tiles \cup {NoTile})
        /\ Len(Tail(queue)) <= QueueSize
    <3>1. queue # <<>> /\ queue \in Seq(Tiles \cup {NoTile})
      BY <1>2, QueueTypes DEF Get
    <3>2. Head(queue) \in Tiles \cup {NoTile} /\ Tail(queue) \in Seq(Tiles \cup {NoTile})
      BY <3>1, HeadTailProperties
    <3>3. Len(Tail(queue)) = Len(queue) - 1
      BY <3>1, HeadTailProperties
    <3> QED BY <3>2, <3>3, QueueTypes
  <2> QED BY <1>1, <1>2, <2>1 DEF Get, TypeOK, LoadingInv, KeptStays, Kept, walkVars, sessionVars
<1>3. CASE Loaded(w)
  <2>1. tile[w] \in Tiles
    BY <1>1, <1>3 DEF Loaded, LoadingInv
  <2>2. KeptStays
    BY <1>3 DEF Loaded, KeptStays, Kept
  <2>3. worker' \in [Workers -> {"idle", "loading", "ended", "gave up"}]
    BY <1>1, <1>3 DEF Loaded, TypeOK
  <2>4. tile' \in [Workers -> Tiles \cup {NoTile}] /\ tries' \in [Workers -> Counts]
    BY <1>0, <1>3 DEF Loaded
  <2>5. LoadingInv'
    BY <1>1, <1>3 DEF Loaded, TypeOK, LoadingInv
  <2>6. cached' \subseteq Tiles /\ handed' \subseteq Tiles
    BY <1>1, <1>3, <2>1 DEF Loaded, TypeOK
  <2> QED BY <1>1, <1>3, <2>2, <2>3, <2>4, <2>5, <2>6 DEF Loaded, TypeOK, Counts, walkVars, sessionVars
<1>4. CASE Retry(w)
  <2>1. tries' \in [Workers -> Counts]
    BY <1>0, <1>4 DEF Retry
  <2>2. KeptStays
    BY <1>4 DEF Retry, KeptStays, Kept
  <2> QED BY <1>1, <1>4, <2>1, <2>2 DEF Retry, TypeOK, Counts, LoadingInv, walkVars, sessionVars
<1>5. CASE GiveUp(w) \/ WorkerInterrupt(w)
  <2>1. tile' \in [Workers -> Tiles \cup {NoTile}] /\ tries' \in [Workers -> Counts]
    BY <1>0, <1>5 DEF GiveUp, WorkerInterrupt
  <2>2. worker' \in [Workers -> {"idle", "loading", "ended", "gave up"}] /\ LoadingInv'
    BY <1>1, <1>5 DEF GiveUp, WorkerInterrupt, TypeOK, LoadingInv
  <2>3. UNCHANGED <<pc, walkVars, alives, outcome, sessionVars, queue, cached, sigint, store, handed>>
    BY <1>5 DEF GiveUp, WorkerInterrupt
  <2>4. gaveUp' \in BOOLEAN
    BY <1>1, <1>5 DEF GiveUp, WorkerInterrupt, TypeOK
  <2>5. KeptStays
    BY <2>3 DEF KeptStays, Kept
  <2> QED BY <1>1, <2>1, <2>2, <2>3, <2>4, <2>5 DEF TypeOK, Counts, walkVars, sessionVars
<1> QED BY <1>2, <1>3, <1>4, <1>5 DEF Worker

LEMMA SessionTypes ==
  ASSUME SeedInv, Interrupt \/ Crash \/ Continue
  PROVE  TypeOK' /\ LoadingInv'
<1>1. TypeOK /\ LoadingInv /\ Cardinality(Workers) \in Nat /\ MaxRepeat \in Nat /\ MaxSessions \in Nat
  BY SeedingAssumption, QueueTypes DEF SeedInv, QueueSize
<1>2. /\ <<>> \in Seq(Tiles \cup {NoTile}) /\ Len(<<>>) = 0
      /\ Each(NoTile) \in [Workers -> Tiles \cup {NoTile}]
      /\ Each(0) \in [Workers -> 0 .. MaxRepeat]
      /\ \A s \in {"idle", "ended"} :
           /\ Each(s) \in [Workers -> {"idle", "loading", "ended", "gave up"}]
           /\ \A w \in Workers : Each(s)[w] # "loading"
  BY <1>1 DEF Each
<1>3. CASE Interrupt
  BY <1>1, <1>3, EmptyTypes DEF Interrupt, Forget, TypeOK, LoadingInv, Path, sessionVars, workVars
<1>4. CASE Crash \/ Continue
  <2>1. /\ queue' = <<>> /\ alives' = 0 /\ sigint' = "none" /\ at' = <<>>
        /\ progress' = NoProgress /\ seeded' = {} /\ tile' = Each(NoTile) /\ tries' = Each(0)
        /\ UNCHANGED <<cached, store, handed, gaveUp>>
    BY <1>4 DEF Crash, Continue, Forget
  <2>2. /\ worker' \in {Each("idle"), Each("ended")} /\ pc' \in {"over", "enter"}
        /\ outcome' \in {"none", "crashed"} /\ old' \in {old, store}
    BY <1>4 DEF Crash, Continue, sessionVars
  <2>3. session' \in 1 .. MaxSessions
    <3>1. session \in 1 .. MaxSessions
      BY <1>1 DEF TypeOK
    <3>2. session' = session \/ (session' = session + 1 /\ session < MaxSessions)
      BY <1>4 DEF Crash, Continue, sessionVars
    <3> QED BY <1>1, <3>1, <3>2
  <2>4. worker' \in [Workers -> {"idle", "loading", "ended", "gave up"}] /\ LoadingInv'
    BY <1>2, <2>2 DEF LoadingInv
  <2>5. Len(queue') <= QueueSize /\ queue' \in Seq(Tiles \cup {NoTile}) /\ alives' \in 0 .. Cardinality(Workers)
    <3>1. 0 \in 0 .. Cardinality(Workers) /\ 0 <= Cardinality(Workers)
      BY <1>1
    <3> QED BY <1>2, <2>1, <3>1 DEF QueueSize
  <2>6. tile' \in [Workers -> Tiles \cup {NoTile}] /\ tries' \in [Workers -> 0 .. MaxRepeat]
    BY <1>2, <2>1
  <2> QED BY <1>1, <2>1, <2>2, <2>3, <2>4, <2>5, <2>6, EmptyTypes DEF TypeOK, Path
<1> QED BY <1>3, <1>4

-----------------------------------------------------------------------------
(* FlowInv: the tiles of the first call *)

\* The walker's steps leave the queue and the workers alone.
LEMMA WalkFlow ==
  ASSUME SeedInv, WalkerOnly, UNCHANGED handed, pc' # "over", Walking,
         Walking' \/ outcome' = "done"
  PROVE  FlowInv'
<1> SUFFICES ASSUME Regular' PROVE FlowOK'
  BY DEF FlowInv
<1>1. Regular
  BY DEF Regular, WalkerOnly, sessionVars, SeedInv, PlaceInv
<1>2. FlowOK
  BY <1>1 DEF SeedInv, FlowInv
<1> QED BY <1>2 DEF FlowOK, Pending, SentinelsLast, OnlySentinels, NoSentinels, WalkerOnly,
                    workVars, Alive

\* A tile is put into the queue.
LEMMA PutFlow == ASSUME SeedInv, Put PROVE FlowInv'
<1> SUFFICES ASSUME Regular' PROVE FlowOK'
  BY DEF FlowInv
<1>1. /\ pc = "put" /\ pc' = "visit" /\ queue' = Append(queue, TileOf[at])
      /\ handed' = handed \cup {TileOf[at]}
      /\ UNCHANGED <<sigint, worker, tile, gaveUp, session, outcome>>
  BY DEF Put, sessionVars, workVars
<1>2. FlowOK /\ Walking
  BY <1>1 DEF Regular, SeedInv, FlowInv, Walking
<1>3. TileOf[at] # NoTile
  BY <1>1, TileTypes DEF SeedInv, PlaceInv
<1>4. /\ Len(queue) \in Nat /\ DOMAIN queue = 1 .. Len(queue) /\ DOMAIN queue' = 1 .. Len(queue) + 1
      /\ \A i \in 1 .. Len(queue) : queue'[i] = queue[i]
      /\ queue'[Len(queue) + 1] = TileOf[at]
  <2>1. queue \in Seq(Tiles \cup {NoTile}) /\ TileOf[at] \in Tiles \cup {NoTile}
    BY <1>1, TileTypes, QueueTypes DEF SeedInv, PlaceInv
  <2> QED BY <1>1, <2>1
<1>5. NoSentinels'
  <2>1. NoSentinels
    BY <1>2 DEF FlowOK
  <2> QED BY <1>3, <1>4, <2>1 DEF NoSentinels
<1>6. \A t \in handed' : Pending(t)'
  <2>1. ASSUME NEW t \in handed PROVE Pending(t)'
    <3>1. Pending(t)
      BY <1>2 DEF FlowOK
    <3> QED BY <1>1, <1>4, <3>1 DEF Pending
  <2>2. \E j \in DOMAIN queue' : queue'[j] = TileOf[at]
    BY <1>4
  <2>3. \A t : t = TileOf[at] => Pending(t)'
    BY <2>2 DEF Pending
  <2> QED BY <1>1, <2>1, <2>3
<1>7. SentinelsLast' /\ (\A w \in Workers : worker'[w] # "ended" /\ worker'[w] # "gave up")
  BY <1>1, <1>2, <1>5 DEF FlowOK, NoSentinels, SentinelsLast
<1> QED BY <1>1, <1>2, <1>5, <1>6, <1>7 DEF FlowOK

\* The sentinels follow after the walk.
LEMMA SendFlow == ASSUME SeedInv, Send PROVE FlowInv'
<1> SUFFICES ASSUME Regular' PROVE FlowOK'
  BY DEF FlowInv
<1>1. /\ pc = "send" /\ pc' = "send" /\ queue' = Append(queue, NoTile)
      /\ UNCHANGED <<sigint, worker, tile, gaveUp, session, outcome, handed>>
  BY DEF Send, sessionVars, workVars
<1>2. FlowOK
  BY <1>1 DEF Regular, SeedInv, FlowInv
<1>3. /\ Len(queue) \in Nat /\ DOMAIN queue = 1 .. Len(queue) /\ DOMAIN queue' = 1 .. Len(queue) + 1
      /\ \A i \in 1 .. Len(queue) : queue'[i] = queue[i]
      /\ queue'[Len(queue) + 1] = NoTile
  <2>1. queue \in Seq(Tiles \cup {NoTile})
    BY QueueTypes
  <2> QED BY <1>1, <2>1
<1>4. \A t \in handed' : Pending(t)'
  <2> SUFFICES ASSUME NEW t \in handed PROVE Pending(t)'
    BY <1>1
  <2>1. Pending(t)
    BY <1>2 DEF FlowOK
  <2> QED BY <1>1, <1>3, <2>1 DEF Pending
<1>5. SentinelsLast'
  <2>1. SentinelsLast
    BY <1>2 DEF FlowOK
  <2> QED BY <1>3, <2>1 DEF SentinelsLast
<1>6. (\E w \in Workers : worker'[w] = "ended") => OnlySentinels'
  <2>1. (\E w \in Workers : worker[w] = "ended") => OnlySentinels
    BY <1>2 DEF FlowOK
  <2>2. OnlySentinels => OnlySentinels'
    BY <1>3 DEF OnlySentinels
  <2> QED BY <1>1, <2>1, <2>2
<1>7. ~Walking' /\ pc' # "over"
  BY <1>1 DEF Walking
<1> QED BY <1>1, <1>2, <1>4, <1>5, <1>6, <1>7 DEF FlowOK

\* The other steps of stop().
LEMMA StopFlow ==
  ASSUME SeedInv, Count \/ JoinWorkers \/ ForcedStop
  PROVE  FlowInv'
<1> SUFFICES ASSUME Regular' PROVE FlowOK'
  BY DEF FlowInv
<1>1. /\ UNCHANGED <<queue, sigint, worker, tile, gaveUp, session, outcome, handed>>
      /\ ~Walking' /\ (pc' = "over" => Alive = {})
  BY DEF Count, JoinWorkers, ForcedStop, sessionVars, workVars, Walking
<1>2. FlowOK
  BY <1>1 DEF Regular, SeedInv, FlowInv
<1> QED BY <1>1, <1>2 DEF FlowOK, Pending, SentinelsLast, OnlySentinels, Alive

\* A worker takes the head of the queue.
LEMMA GetFlow == ASSUME SeedInv, NEW w \in Workers, Get(w) PROVE FlowInv'
<1> SUFFICES ASSUME Regular' PROVE FlowOK'
  BY DEF FlowInv
<1>1. /\ worker[w] = "idle" /\ queue # <<>> /\ queue' = Tail(queue)
      /\ UNCHANGED <<pc, sigint, gaveUp, session, outcome, handed>>
  BY DEF Get, sessionVars
<1>2. FlowOK /\ TypeOK
  BY <1>1 DEF Regular, SeedInv, FlowInv
<1>3. /\ Len(queue) \in Nat \ {0} /\ DOMAIN queue = 1 .. Len(queue) /\ 1 \in DOMAIN queue
      /\ DOMAIN queue' = 1 .. Len(queue) - 1
      /\ \A i \in DOMAIN queue' : i + 1 \in DOMAIN queue /\ queue'[i] = queue[i + 1]
      /\ \A i \in DOMAIN queue : i # 1 => i - 1 \in DOMAIN queue' /\ queue'[i - 1] = queue[i]
      /\ Head(queue) = queue[1]
  <2>1. queue \in Seq(Tiles \cup {NoTile})
    BY QueueTypes
  <2> QED BY <1>1, <2>1
<1>4. pc # "over"
  BY <1>1, <1>2 DEF FlowOK, Alive
<1>5. SentinelsLast'
  <2>1. SentinelsLast
    BY <1>2 DEF FlowOK
  <2> QED BY <1>3, <2>1 DEF SentinelsLast
<1>6. CASE Head(queue) = NoTile
  <2>1. worker' = [worker EXCEPT ![w] = "ended"] /\ tile' = tile
    BY <1>6 DEF Get
  <2>2. OnlySentinels
    <3>1. SentinelsLast
      BY <1>2 DEF FlowOK
    <3> QED BY <1>3, <1>6, <3>1 DEF OnlySentinels, SentinelsLast
  <2>3. ~Walking
    BY <1>2, <1>3, <1>6 DEF FlowOK, NoSentinels
  <2>4. ASSUME NEW t \in handed PROVE Pending(t)'
    <3>1. t # NoTile /\ Pending(t)
      BY <1>2, TileTypes DEF TypeOK, FlowOK
    <3>2. PICK v \in Workers : worker[v] = "loading" /\ tile[v] = t
      BY <2>2, <3>1 DEF Pending, OnlySentinels
    <3>3. worker'[v] = "loading" /\ tile'[v] = t
      BY <1>1, <2>1, <3>2
    <3> QED BY <3>3 DEF Pending
  <2>5. OnlySentinels'
    BY <1>3, <2>2 DEF OnlySentinels
  <2>6. \A v \in Workers : worker'[v] # "gave up"
    BY <1>2, <2>1 DEF FlowOK, TypeOK
  <2> QED BY <1>1, <1>2, <1>4, <1>5, <2>3, <2>4, <2>5, <2>6 DEF FlowOK, Walking
<1>7. CASE Head(queue) # NoTile
  <2>1. worker' = [worker EXCEPT ![w] = "loading"] /\ tile' = [tile EXCEPT ![w] = Head(queue)]
    BY <1>7 DEF Get
  <2>2. \A v \in Workers : worker[v] # "ended"
    BY <1>2, <1>3, <1>7 DEF FlowOK, OnlySentinels
  <2>3. \A v \in Workers : worker'[v] # "ended" /\ worker'[v] # "gave up"
    BY <1>2, <2>1, <2>2 DEF FlowOK, TypeOK
  <2>4. ASSUME NEW t \in handed PROVE Pending(t)'
    <3>0. Pending(t)
      BY <1>2 DEF FlowOK
    <3>1. CASE Head(queue) = t
      BY <1>2, <2>1, <3>1 DEF TypeOK, Pending
    <3>2. CASE Head(queue) # t /\ \E i \in DOMAIN queue : queue[i] = t
      <4>1. PICK i \in DOMAIN queue : queue[i] = t
        BY <3>2
      <4>2. i # 1
        BY <1>3, <3>2, <4>1
      <4> QED BY <1>3, <4>1, <4>2 DEF Pending
    <3>3. CASE \E v \in Workers : worker[v] = "loading" /\ tile[v] = t
      <4>1. PICK v \in Workers : worker[v] = "loading" /\ tile[v] = t
        BY <3>3
      <4>2. v # w
        BY <1>1, <4>1
      <4>3. worker'[v] = "loading" /\ tile'[v] = t
        BY <1>2, <2>1, <4>1, <4>2 DEF TypeOK
      <4> QED BY <4>3 DEF Pending
    <3> QED BY <3>0, <3>1, <3>2, <3>3 DEF Pending
  <2>5. Walking' => NoSentinels'
    <3>1. Walking' => NoSentinels
      BY <1>1, <1>2 DEF FlowOK, Walking
    <3> QED BY <1>3, <3>1 DEF NoSentinels
  <2> QED BY <1>1, <1>2, <1>4, <1>5, <2>3, <2>4, <2>5 DEF FlowOK
<1> QED BY <1>6, <1>7

LEMMA LoadedFlow == ASSUME SeedInv, NEW w \in Workers, Loaded(w) PROVE FlowInv'
<1> SUFFICES ASSUME Regular' PROVE FlowOK'
  BY DEF FlowInv
<1>1. /\ worker[w] = "loading" /\ handed' = handed \ {tile[w]}
      /\ worker' = [worker EXCEPT ![w] = "idle"] /\ tile' = [tile EXCEPT ![w] = NoTile]
      /\ UNCHANGED <<pc, queue, sigint, gaveUp, session, outcome>>
  BY DEF Loaded, sessionVars
<1>2. FlowOK /\ TypeOK
  BY <1>1 DEF Regular, SeedInv, FlowInv
<1>3. pc # "over"
  BY <1>1, <1>2 DEF FlowOK, Alive
<1>4. ASSUME NEW t \in handed' PROVE Pending(t)'
  <2>1. t \in handed /\ t # tile[w] /\ Pending(t)
    BY <1>1, <1>2 DEF FlowOK
  <2>2. CASE \E v \in Workers : worker[v] = "loading" /\ tile[v] = t
    <3>1. PICK v \in Workers : worker[v] = "loading" /\ tile[v] = t
      BY <2>2
    <3>2. worker'[v] = "loading" /\ tile'[v] = t
      BY <1>1, <1>2, <2>1, <3>1 DEF TypeOK
    <3> QED BY <3>2 DEF Pending
  <2> QED BY <1>1, <2>1, <2>2 DEF Pending
<1>5. \A v \in Workers : /\ worker'[v] # "gave up"
                         /\ worker'[v] = "ended" => worker[v] = "ended"
  BY <1>1, <1>2 DEF FlowOK, TypeOK
<1>6. /\ (SentinelsLast' <=> SentinelsLast) /\ (OnlySentinels' <=> OnlySentinels)
      /\ (NoSentinels' <=> NoSentinels) /\ (Walking' <=> Walking)
  BY <1>1 DEF SentinelsLast, OnlySentinels, NoSentinels, Walking
<1> QED BY <1>1, <1>2, <1>3, <1>4, <1>5, <1>6 DEF FlowOK

LEMMA WorkerFlow == ASSUME SeedInv, NEW w \in Workers, Worker(w) PROVE FlowInv'
<1>1. CASE Retry(w)
  <2> SUFFICES ASSUME Regular' PROVE FlowOK'
    BY DEF FlowInv
  <2>1. UNCHANGED <<pc, queue, worker, tile, handed, sigint, gaveUp, session, outcome>>
    BY <1>1 DEF Retry, sessionVars
  <2>2. FlowOK
    BY <2>1 DEF Regular, SeedInv, FlowInv
  <2> QED BY <2>1, <2>2 DEF FlowOK, Pending, SentinelsLast, OnlySentinels, NoSentinels, Walking, Alive
<1>2. CASE GiveUp(w)
  BY <1>2 DEF GiveUp, FlowInv, Regular
<1>3. CASE WorkerInterrupt(w)
  <2>1. sigint = "all" /\ UNCHANGED <<session, gaveUp, outcome>>
    BY <1>3 DEF WorkerInterrupt, sessionVars
  <2> QED BY <2>1 DEF SeedInv, FlowInv, FlowOK, Regular
<1> QED BY <1>1, <1>2, <1>3, GetFlow, LoadedFlow DEF Worker

LEMMA SessionFlow ==
  ASSUME SeedInv, NoWorkersLeft \/ Interrupt \/ Crash \/ Continue
  PROVE  FlowInv'
<1>1. CASE NoWorkersLeft \/ Interrupt \/ Crash
  BY <1>1 DEF NoWorkersLeft, Interrupt, Crash, FlowInv, Regular
<1>2. CASE Continue
  <2>1. session \in 1 .. MaxSessions /\ session' = session + 1
    BY <1>2 DEF Continue, SeedInv, TypeOK
  <2>2. session' # 1
    BY <2>1, SeedingAssumption
  <2> QED BY <2>2 DEF FlowInv, Regular
<1> QED BY <1>1, <1>2

-----------------------------------------------------------------------------
(* The theorems *)

LEMMA SeedInit == Init => SeedInv
<1> SUFFICES ASSUME Init PROVE SeedInv
  OBVIOUS
<1>1. Cardinality(Workers) \in Nat /\ MaxRepeat \in Nat /\ MaxSessions \in Nat \ {0}
  BY SeedingAssumption, FS_CardinalityType
<1>2. cached \subseteq Tiles
  BY SeedingAssumption DEF Init, Tiles
<1>3. TypeOK
  <2>1. <<>> \in Seq(Tiles \cup {NoTile}) /\ Len(<<>>) = 0
    OBVIOUS
  <2>2. /\ worker \in [Workers -> {"idle", "loading", "ended", "gave up"}]
        /\ tile \in [Workers -> Tiles \cup {NoTile}] /\ tries \in [Workers -> 0 .. MaxRepeat]
    BY <1>1 DEF Init, Each
  <2>3. queue \in Seq(Tiles \cup {NoTile}) /\ Len(queue) <= QueueSize
    BY <1>1, <2>1 DEF Init, QueueSize
  <2>4. alives \in 0 .. Cardinality(Workers) /\ session \in 1 .. MaxSessions
    BY <1>1 DEF Init
  <2> QED BY <1>2, <2>2, <2>3, <2>4, EmptyTypes DEF Init, TypeOK, Path
<1>4. \A w \in Workers : worker[w] = "idle"
  BY DEF Init, Each
<1>5. LoadingInv /\ PlaceInv
  BY <1>4 DEF Init, LoadingInv, PlaceInv, EnterOK, Walking
<1>6. PassedInv
  <2>1. at = <<>> /\ pc = "enter" /\ old = NoProgress /\ store = NoProgress /\ seeded = {}
        /\ outcome = "none"
    BY DEF Init
  <2>2. \A p : ~Before(p, <<>>)
    BY DEF Before
  <2> QED BY <2>1, <2>2 DEF PassedInv, Passed, SkippedIsKept, SkipsTo, CanSkip
<1>7. StoreInv
  BY DEF Init, StoreInv
<1>8. FlowInv
  <2>1. DOMAIN queue = {}
    BY DEF Init
  <2> QED BY <1>4, <2>1
          DEF Init, FlowInv, FlowOK, SentinelsLast, OnlySentinels, NoSentinels
<1> QED BY <1>3, <1>5, <1>6, <1>7, <1>8 DEF SeedInv

LEMMA WalkStep ==
  ASSUME SeedInv, Next
  PROVE  WalkInv'
<1>1. WalkInv
  BY DEF SeedInv, WalkInv
<1>2. CASE \E w \in Workers : Worker(w)
  BY <1>1, <1>2, WorkerTypes, BesideWalk
<1>3. CASE Send
  BY <1>1, <1>3, BesideWalk DEF Send, KeptStays, Kept
<1>4. CASE NoWorkersLeft \/ Interrupt \/ Crash
  BY <1>1, <1>4, WalkIsLeft DEF NoWorkersLeft, Interrupt, Crash, Forget, Walking, sessionVars
<1>5. CASE Count \/ JoinWorkers \/ ForcedStop
  <2>1. outcome # "none" /\ pc # "put" /\ ~Walking'
    BY <1>1, <1>5 DEF WalkInv, PlaceInv, Walking, Count, JoinWorkers, ForcedStop
  <2> QED BY <1>1, <1>5, <2>1, WalkIsLeft DEF Count, JoinWorkers, ForcedStop, walkVars, sessionVars
<1>6. CASE Continue
  <2>1. /\ pc' = "enter" /\ outcome' = "none" /\ at' = <<>> /\ progress' = NoProgress
        /\ seeded' = {} /\ old' = store /\ UNCHANGED <<store, handed, cached>>
    BY <1>6 DEF Continue, Forget
  <2>2. PlaceInv' /\ StoreInv'
    BY <2>1 DEF PlaceInv, EnterOK, Walking, StoreInv
  <2>3. \A p : ~Passed(p)'
    BY <2>1 DEF Passed, Before
  <2>4. PassedInv'
    BY <1>1, <2>1, <2>3 DEF WalkInv, PassedInv, SkippedIsKept, Kept
  <2> QED BY <2>2, <2>4 DEF WalkInv
<1> QED BY <1>2, <1>3, <1>4, <1>5, <1>6, EnterWalks, OutsideWalks, RecurseWalks, LastLevelWalks,
           ReturnWalks, TileWalks, PutWalks, WalkedWalks DEF Next, Main

LEMMA SeedStep == SeedInv /\ [Next]_vars => SeedInv'
<1> SUFFICES ASSUME SeedInv, [Next]_vars PROVE SeedInv'
  OBVIOUS
<1>1. CASE Next
  <2>1. TypeOK' /\ LoadingInv'
    BY <1>1, WalkTypes, PoolTypes, WorkerTypes, SessionTypes DEF Next, Main
  <2>2. FlowInv'
    <3>1. CASE Enter \/ Outside \/ Recurse \/ LastLevel \/ Return \/ Tile \/ Walked
      <4>1. WalkerOnly
        BY <3>1, WalkTypes
      <4>2. UNCHANGED handed /\ pc' # "over" /\ Walking /\ (Walking' \/ outcome' = "done")
        BY <3>1 DEF Enter, Outside, Recurse, LastLevel, Return, Tile, Walked, InLoop, Walking
      <4> QED BY <4>1, <4>2, WalkFlow
    <3> QED BY <1>1, <3>1, PutFlow, SendFlow, StopFlow, WorkerFlow, SessionFlow DEF Next, Main
  <2> QED BY <1>1, <2>1, <2>2, WalkStep DEF SeedInv, WalkInv
<1>2. CASE UNCHANGED vars
  <2>1. TypeOK' /\ LoadingInv'
    BY <1>2 DEF vars, walkVars, workVars, sessionVars, SeedInv, TypeOK, LoadingInv
  <2>2. WalkInv'
    BY <1>2, BesideWalk DEF vars, SeedInv, WalkInv, KeptStays, Kept
  <2>3. FlowInv'
    BY <1>2 DEF vars, walkVars, workVars, sessionVars, SeedInv, FlowInv, FlowOK,
       Pending, SentinelsLast, OnlySentinels, NoSentinels, Regular, Walking, Alive
  <2> QED BY <2>1, <2>2, <2>3 DEF SeedInv, WalkInv
<1> QED BY <1>1, <1>2

LEMMA AlwaysSeedInv == Spec => []SeedInv
  BY SeedInit, SeedStep, PTL DEF Spec

\* The queue never holds more tiles than there are workers, and the walker,
\* the workers and the progress file keep to their types.
THEOREM TypeCorrect == Spec => []TypeOK
<1>1. SeedInv => TypeOK
  BY DEF SeedInv
<1> QED BY <1>1, AlwaysSeedInv, PTL

\* Whatever a later call would skip because of the stored progress was put
\* into the queue by some call, or was cached.
THEOREM StoredProgressIsKept == Spec => []StoredProgressIsHandedOver
<1>1. SeedInv => StoredProgressIsHandedOver
  BY DEF SeedInv, PassedInv, SkippedIsKept, SkipsTo, WantedPaths, Kept, StoredProgressIsHandedOver
<1> QED BY <1>1, AlwaysSeedInv, PTL

\* All calls together leave out no tile of the task.
THEOREM NoTileIsLeftOut == Spec => []DoneMeansHandedOver
<1>1. SeedInv => DoneMeansHandedOver
  BY DEF SeedInv, PassedInv, WantedPaths, Wanted, Kept, DoneMeansHandedOver
<1> QED BY <1>1, AlwaysSeedInv, PTL

\* A call that is not interrupted ends with all tiles seeded.
THEOREM UninterruptedSeedIsComplete == Spec => []DoneMeansSeeded
<1>1. ASSUME SeedInv PROVE DoneMeansSeeded
  <2> SUFFICES ASSUME pc = "over", outcome = "done", session = 1, ~gaveUp PROVE Wanted \subseteq cached
    BY DEF DoneMeansSeeded
  <2>1. FlowOK /\ TypeOK /\ PassedInv
    BY <1>1 DEF SeedInv, FlowInv, Regular
  <2>2. \A w \in Workers : worker[w] = "ended"
    BY <2>1 DEF FlowOK, TypeOK, Alive
  <2>3. OnlySentinels
    BY <2>1, <2>2, SeedingAssumption DEF FlowOK
  <2>4. handed = {}
    <3> SUFFICES ASSUME NEW t \in handed PROVE FALSE
      OBVIOUS
    <3>1. t # NoTile /\ Pending(t)
      BY <2>1, TileTypes DEF FlowOK, TypeOK
    <3> QED BY <2>2, <2>3, <3>1 DEF Pending, OnlySentinels
  <2> QED BY <2>1, <2>4 DEF PassedInv, WantedPaths, Wanted, Kept
<1> QED BY <1>1, AlwaysSeedInv, PTL

\* Progress is only ever replaced by progress that is further, so calls that
\* are interrupted again and again get on.
THEOREM ProgressAdvances == Spec => ProgressNeverMovesBack
<1>1. ASSUME SeedInv, [Next]_vars
      PROVE  [store' # NoProgress => ~CanSkip(store, store')]_store
  <2> SUFFICES ASSUME store' # store, store' # NoProgress PROVE ~CanSkip(store, store')
    OBVIOUS
  <2>1. Next
    BY <1>1 DEF vars
  <2>2. Enter \/ Walked
    BY <2>1 DEF Next, Main, Outside, Recurse, LastLevel, Return, Tile, Put, NoWorkersLeft, Count,
       Send, JoinWorkers, ForcedStop, Worker, Get, Loaded, Retry, GiveUp, WorkerInterrupt,
       Interrupt, Crash, Continue
  <2> QED BY <1>1, <2>2, EnterWalks, WalkedWalks
<1> QED BY <1>1, AlwaysSeedInv, PTL DEF Spec, ProgressNeverMovesBack
=============================================================================
