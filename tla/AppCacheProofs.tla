--------------------------- MODULE AppCacheProofs ---------------------------
(***************************************************************************)
(* Proofs about AppCache, the applications of mapproxy/multiapp.py in the  *)
(* LRU dictionary of mapproxy/util/lru.py: for any number of threads,      *)
(* applications and changes, and for any size of the dictionary.  The      *)
(* dictionary has no lock, yet only the thread in _app_init_lock ever      *)
(* changes its values: what that thread read there stays true.             *)
(***************************************************************************)
EXTENDS AppCache, TLAPS, FiniteSetTheorems, SequenceTheorems, WellFoundedInduction

-----------------------------------------------------------------------------
(* How often a name is in a sequence *)

Occurs(s, n) == {i \in DOMAIN s : s[i] = n}
Count(s, n) == Cardinality(Occurs(s, n))

LEMMA CountTypes ==
  ASSUME NEW S, NEW s \in Seq(S), NEW n
  PROVE  /\ IsFiniteSet(Occurs(s, n)) /\ Count(s, n) \in Nat
         /\ Count(s, n) = 0 <=> \A i \in DOMAIN s : s[i] # n
<1>1. DOMAIN s = 1 .. Len(s) /\ Len(s) \in Nat
  BY LenProperties
<1>2. IsFiniteSet(1 .. Len(s))
  BY <1>1, FS_Interval
<1>3. IsFiniteSet(Occurs(s, n))
  BY <1>1, <1>2, FS_Subset DEF Occurs
<1>4. Count(s, n) \in Nat /\ (Count(s, n) = 0 <=> Occurs(s, n) = {})
  BY <1>3, FS_CardinalityType, FS_EmptySet DEF Count
<1> QED BY <1>3, <1>4 DEF Occurs

LEMMA CountEmpty == \A n : Count(<<>>, n) = 0
<1>1. \A n : Occurs(<<>>, n) = {}
  BY DEF Occurs
<1> QED BY <1>1, FS_EmptySet DEF Count

\* Two sets of positions of the same size.
LEMMA SameCount ==
  ASSUME NEW A, NEW B, IsFiniteSet(A), NEW f, f \in [A -> B],
         \A x, y \in A : f[x] = f[y] => x = y,
         \A z \in B : \E x \in A : f[x] = z
  PROVE  IsFiniteSet(B) /\ Cardinality(B) = Cardinality(A)
<1>1. f \in Bijection(A, B)
  BY DEF Bijection, Injection, Surjection, IsInjective
<1>2. ExistsBijection(A, B)
  BY <1>1 DEF ExistsBijection
<1> QED BY <1>2, FS_Bijection

LEMMA LeastOf == ASSUME NEW T, T \subseteq Nat, T # {} PROVE Min(T) \in T
<1>1. \E x \in T : \A y \in T : ~(<<y, x>> \in OpToRel(<, Nat))
  BY NatLessThanWellFounded, WFMin
<1>2. PICK x \in T : \A y \in T : ~(<<y, x>> \in OpToRel(<, Nat))
  BY <1>1
<1>3. \A y \in T : ~(y < x)
  BY <1>2, Zenon DEF OpToRel
<1>4. \A y \in T : x <= y
  BY <1>3
<1> QED BY <1>4 DEF Min

\* deque.appendleft
LEMMA CountPrepend ==
  ASSUME NEW S, NEW s \in Seq(S), NEW m \in S, NEW n
  PROVE  /\ <<m>> \o s \in Seq(S)
         /\ Count(<<m>> \o s, n) = IF n = m THEN Count(s, n) + 1 ELSE Count(s, n)
<1> DEFINE r == <<m>> \o s
<1>1. <<m>> \in Seq(S) /\ Len(<<m>>) = 1 /\ <<m>>[1] = m
  OBVIOUS
<1>2. /\ r \in Seq(S) /\ Len(r) = 1 + Len(s) /\ Len(s) \in Nat
      /\ \A i \in 1 .. 1 + Len(s) : r[i] = IF i <= 1 THEN <<m>>[i] ELSE s[i - 1]
  BY <1>1, ConcatProperties, LenProperties
<1> HIDE DEF r
<1>3. r[1] = m /\ (\A i \in 1 .. Len(s) : r[i + 1] = s[i])
  <2>1. 1 \in 1 .. 1 + Len(s)
    BY <1>2
  <2>2. \A i \in 1 .. Len(s) : /\ i + 1 \in 1 .. 1 + Len(s) /\ ~(i + 1 <= 1)
                               /\ (i + 1) - 1 = i
    BY <1>2
  <2> QED BY <1>1, <1>2, <2>1, <2>2
<1>4. DOMAIN r = 1 .. 1 + Len(s) /\ DOMAIN s = 1 .. Len(s)
  BY <1>2, LenProperties
<1> DEFINE B == Occurs(r, n) \ {1}
           f == [k \in Occurs(s, n) |-> k + 1]
<1>5. f \in [Occurs(s, n) -> B]
  BY <1>2, <1>3, <1>4 DEF Occurs
<1>6. \A x, y \in Occurs(s, n) : f[x] = f[y] => x = y
  BY <1>4 DEF Occurs
<1>7. \A z \in B : \E x \in Occurs(s, n) : f[x] = z
  <2> TAKE z \in B
  <2>1. z \in 1 .. 1 + Len(s) /\ z # 1 /\ r[z] = n
    BY <1>4 DEF Occurs
  <2>2. z - 1 \in 1 .. Len(s) /\ (z - 1) + 1 = z
    BY <1>2, <2>1
  <2>3. s[z - 1] = n
    BY <1>3, <2>1, <2>2
  <2>4. z - 1 \in Occurs(s, n)
    BY <1>4, <2>2, <2>3 DEF Occurs
  <2> QED BY <2>2, <2>4
<1>8. IsFiniteSet(Occurs(s, n))
  BY CountTypes
<1> HIDE DEF f
<1>9. IsFiniteSet(B) /\ Cardinality(B) = Count(s, n)
  <2> HIDE DEF B
  <2> QED BY <1>5, <1>6, <1>7, <1>8, SameCount DEF Count
<1>10. CASE n = m
  <2>1. Occurs(r, n) = B \cup {1} /\ 1 \notin B
    BY <1>2, <1>3, <1>4, <1>10 DEF Occurs
  <2>2. Cardinality(Occurs(r, n)) = Cardinality(B) + 1
    <3> HIDE DEF B
    <3> QED BY <1>9, <2>1, FS_AddElement
  <2> QED BY <1>2, <1>9, <1>10, <2>2 DEF Count, r
<1>11. CASE n # m
  <2>1. Occurs(r, n) = B
    BY <1>3, <1>11 DEF Occurs
  <2> QED BY <1>2, <1>9, <1>11, <2>1 DEF Count, r
<1> QED BY <1>10, <1>11

LEMMA RestLength ==
  ASSUME NEW l \in Nat, NEW j \in 1 .. l
  PROVE  (IF j + 1 <= l THEN l - (j + 1) + 1 ELSE 0) = l - j
OBVIOUS

LEMMA CountRemoveAt ==
  ASSUME NEW S, NEW s \in Seq(S), NEW j \in 1 .. Len(s), NEW n
  PROVE  /\ RemoveAt(s, j) \in Seq(S)
         /\ Count(RemoveAt(s, j), n) = IF s[j] = n THEN Count(s, n) - 1 ELSE Count(s, n)
<1> DEFINE a == SubSeq(s, 1, j - 1)
           b == SubSeq(s, j + 1, Len(s))
           r == RemoveAt(s, j)
<1>1. Len(s) \in Nat /\ DOMAIN s = 1 .. Len(s) /\ j \in Nat /\ j >= 1 /\ j <= Len(s)
  BY LenProperties
<1>2. /\ a \in Seq(S) /\ Len(a) = j - 1
      /\ \A i \in 1 .. j - 1 : a[i] = s[i]
  BY <1>1, SubSeqProperties
<1>3. /\ b \in Seq(S) /\ Len(b) = Len(s) - j
      /\ \A i \in 1 .. Len(s) - j : b[i] = s[i + j]
  <2>1. j + 1 \in Int /\ Len(s) \in Int /\ (\A i \in j + 1 .. Len(s) : s[i] \in S)
    BY <1>1
  <2>2. /\ SubSeq(s, j + 1, Len(s)) \in Seq(S)
        /\ Len(SubSeq(s, j + 1, Len(s))) = IF j + 1 <= Len(s) THEN Len(s) - (j + 1) + 1 ELSE 0
        /\ \A i \in 1 .. Len(s) - (j + 1) + 1 : SubSeq(s, j + 1, Len(s))[i] = s[(j + 1) + i - 1]
    BY <2>1, SubSeqProperties
  <2> HIDE DEF b
  <2>3. b = SubSeq(s, j + 1, Len(s))
    BY DEF b
  <2>4. Len(b) = Len(s) - j
    BY <1>1, <2>2, <2>3, RestLength
  <2>5. ASSUME NEW i \in 1 .. Len(s) - j PROVE b[i] = s[i + j]
    <3>1. i \in 1 .. Len(s) - (j + 1) + 1 /\ (j + 1) + i - 1 = i + j
      BY <1>1
    <3> QED BY <2>2, <2>3, <3>1
  <2> QED BY <2>2, <2>3, <2>4, <2>5
<1>4. r = a \o b
  BY DEF RemoveAt
<1> HIDE DEF a, b, r
<1>5. /\ r \in Seq(S) /\ Len(r) = Len(s) - 1 /\ DOMAIN r = 1 .. (Len(s) - 1)
      /\ \A i \in 1 .. (Len(s) - 1) : r[i] = IF i < j THEN s[i] ELSE s[i + 1]
  <2>1. /\ a \o b \in Seq(S) /\ Len(a \o b) = Len(a) + Len(b)
        /\ \A i \in 1 .. Len(a) + Len(b) : (a \o b)[i] = IF i <= Len(a) THEN a[i] ELSE b[i - Len(a)]
    BY <1>2, <1>3, ConcatProperties
  <2>2. Len(a) + Len(b) = Len(s) - 1
    BY <1>1, <1>2, <1>3
  <2>3. DOMAIN r = 1 .. Len(r)
    BY <1>4, <2>1, LenProperties
  <2>4. ASSUME NEW i \in 1 .. (Len(s) - 1) PROVE r[i] = IF i < j THEN s[i] ELSE s[i + 1]
    <3>1. r[i] = IF i <= j - 1 THEN a[i] ELSE b[i - (j - 1)]
      BY <1>2, <1>4, <2>1, <2>2
    <3>2. CASE i < j
      BY <1>1, <1>2, <3>1, <3>2
    <3>3. CASE i >= j
      <4>1. i - (j - 1) \in 1 .. Len(s) - j /\ (i - (j - 1)) + j = i + 1
        BY <1>1, <3>3
      <4> QED BY <1>1, <1>3, <3>1, <3>3, <4>1
    <3> QED BY <1>1, <3>2, <3>3
  <2> QED BY <1>4, <2>1, <2>2, <2>3, <2>4
<1> DEFINE A == Occurs(s, n) \ {j}
           f == [k \in A |-> IF k < j THEN k ELSE k - 1]
<1>6. ASSUME NEW k \in A
      PROVE  f[k] \in Occurs(r, n) /\ f[k] = (IF k < j THEN k ELSE k - 1)
             /\ k \in 1 .. Len(s) /\ k # j
  <2>1. k \in 1 .. Len(s) /\ k # j /\ s[k] = n
    BY <1>1 DEF Occurs
  <2>2. CASE k < j
    BY <1>1, <1>5, <2>1, <2>2 DEF Occurs
  <2>3. CASE k > j
    <3>1. k - 1 \in 1 .. (Len(s) - 1) /\ ~(k - 1 < j) /\ (k - 1) + 1 = k
      BY <1>1, <2>1, <2>3
    <3>2. r[k - 1] = n
      BY <1>5, <2>1, <3>1
    <3> QED BY <1>1, <1>5, <2>1, <2>3, <3>1, <3>2 DEF Occurs
  <2> QED BY <1>1, <2>1, <2>2, <2>3
<1>7. f \in [A -> Occurs(r, n)]
  BY <1>6
<1>8. \A x, y \in A : f[x] = f[y] => x = y
  <2> TAKE x, y \in A
  <2>1. /\ f[x] = (IF x < j THEN x ELSE x - 1) /\ f[y] = (IF y < j THEN y ELSE y - 1)
        /\ x \in 1 .. Len(s) /\ y \in 1 .. Len(s) /\ x # j /\ y # j
    BY <1>6
  <2> HIDE DEF f
  <2> QED BY <1>1, <2>1
<1>9. \A z \in Occurs(r, n) : \E x \in A : f[x] = z
  <2> TAKE z \in Occurs(r, n)
  <2>1. z \in 1 .. (Len(s) - 1) /\ r[z] = n
    BY <1>5 DEF Occurs
  <2>2. CASE z < j
    <3>1. z \in A
      BY <1>1, <1>5, <2>1, <2>2 DEF Occurs
    <3> QED BY <2>2, <3>1
  <2>3. CASE z >= j
    <3>1. z + 1 \in 1 .. Len(s) /\ z + 1 # j /\ ~(z + 1 < j) /\ (z + 1) - 1 = z /\ ~(z < j)
      BY <1>1, <2>1, <2>3
    <3>2. s[z + 1] = n
      BY <1>5, <2>1, <3>1
    <3>3. z + 1 \in A
      BY <1>1, <3>1, <3>2 DEF Occurs
    <3> QED BY <3>1, <3>3
  <2> QED BY <1>1, <2>1, <2>2, <2>3
<1>10. IsFiniteSet(Occurs(s, n))
  BY CountTypes
<1>11. IsFiniteSet(A)
  BY <1>10, FS_Subset
<1> HIDE DEF f
<1>12. Count(r, n) = Cardinality(A)
  <2> HIDE DEF A
  <2> QED BY <1>7, <1>8, <1>9, <1>11, SameCount DEF Count
<1>13. CASE s[j] = n
  <2>1. j \in Occurs(s, n)
    BY <1>1, <1>13 DEF Occurs
  <2>2. Cardinality(A) = Count(s, n) - 1
    BY <1>10, <2>1, FS_RemoveElement DEF Count
  <2> HIDE DEF A
  <2> QED BY <1>5, <1>12, <1>13, <2>2 DEF r
<1>14. CASE s[j] # n
  <2>1. A = Occurs(s, n)
    BY <1>14 DEF Occurs
  <2> QED BY <1>5, <1>12, <1>14, <2>1 DEF r, Count
<1> QED BY <1>13, <1>14

\* deque.remove
LEMMA CountRemove ==
  ASSUME NEW S, NEW s \in Seq(S), NEW m \in S, NEW n
  PROVE  /\ RemoveFirst(s, m) \in Seq(S)
         /\ Count(RemoveFirst(s, m), n) =
              IF n = m /\ Count(s, n) # 0 THEN Count(s, n) - 1 ELSE Count(s, n)
<1> DEFINE T == {i \in 1 .. Len(s) : s[i] = m}
<1>0. Len(s) \in Nat /\ DOMAIN s = 1 .. Len(s)
  BY LenProperties
<1>1. CASE T = {}
  <2>1. RemoveFirst(s, m) = s
    BY <1>1 DEF RemoveFirst
  <2>2. n = m => Count(s, n) = 0
    BY <1>0, <1>1, CountTypes
  <2> QED BY <2>1, <2>2
<1>2. CASE T # {}
  <2>0. T \subseteq Nat
    OBVIOUS
  <2>1. Min(T) \in T
    <3> HIDE DEF T
    <3> QED BY <1>2, <2>0, LeastOf
  <2>2. RemoveFirst(s, m) = RemoveAt(s, Min(T))
    BY <1>2 DEF RemoveFirst, SelectInSeq
  <2>3. PICK j \in 1 .. Len(s) : s[j] = m /\ RemoveFirst(s, m) = RemoveAt(s, j)
    BY <2>1, <2>2
  <2>4. n = m => Count(s, n) # 0
    BY <1>0, <2>3, CountTypes
  <2> HIDE DEF T
  <2> QED BY <2>3, <2>4, CountRemoveAt
<1> QED BY <1>1, <1>2

\* deque.pop
LEMMA CountFront ==
  ASSUME NEW S, NEW s \in Seq(S), s # <<>>, NEW n
  PROVE  /\ Front(s) \in Seq(S) /\ Last(s) \in S
         /\ Count(Front(s), n) = IF n = Last(s) THEN Count(s, n) - 1 ELSE Count(s, n)
<1>1. Len(s) \in Nat /\ Len(s) # 0 /\ DOMAIN s = 1 .. Len(s)
  BY LenProperties, EmptySeq
<1>2. /\ Front(s) \in Seq(S) /\ Len(Front(s)) = Len(s) - 1
      /\ \A i \in 1 .. Len(s) - 1 : Front(s)[i] = s[i]
  BY <1>1, SubSeqProperties DEF Front
<1>3. DOMAIN Front(s) = 1 .. Len(s) - 1
  BY <1>2, LenProperties
<1>4. Last(s) = s[Len(s)] /\ Last(s) \in S
  BY <1>1, ElementOfSeq DEF Last
<1>5. Occurs(Front(s), n) = Occurs(s, n) \ {Len(s)}
  BY <1>1, <1>2, <1>3 DEF Occurs
<1>6. IsFiniteSet(Occurs(s, n))
  BY CountTypes
<1>7. CASE n = Last(s)
  <2>1. Len(s) \in Occurs(s, n)
    BY <1>1, <1>4, <1>7 DEF Occurs
  <2> QED BY <1>2, <1>4, <1>5, <1>6, <1>7, <2>1, FS_RemoveElement DEF Count
<1>8. CASE n # Last(s)
  <2>1. Occurs(Front(s), n) = Occurs(s, n)
    BY <1>4, <1>5, <1>8 DEF Occurs
  <2> QED BY <1>2, <1>4, <1>8, <2>1 DEF Count
<1> QED BY <1>7, <1>8

-----------------------------------------------------------------------------
(* The inductive invariant *)

Accessing == {"item", "remove", "front", "check"}

\* The types without the bound on last_used.
Types ==
  /\ mtime \in [Names -> 0 .. MaxChanges]
  /\ values \in [Names -> Apps \cup {NoApp}]
  /\ lastUsed \in Seq(Names)
  /\ pc \in [Threads -> States] /\ name \in [Threads -> Names]
  /\ pass \in [Threads -> 1 .. 3]
  /\ app \in [Threads -> [content : 0 .. MaxChanges, stamp : 0 .. MaxChanges + 1]]
  /\ since \in [Threads -> 0 .. MaxChanges]
  /\ evicted \in BOOLEAN

\* _app_init_lock: one thread at a time is in its second or third access.
OneOwner == \A t, u \in Threads : Owns(t) /\ Owns(u) => t = u

\* The content of an application was read before its timestamp was taken.
ReadFirst(a, now) == a.content <= a.stamp /\ a.stamp <= now
ValuesInv == \A n \in Names : values[n] # NoApp => ReadFirst(values[n], mtime[n])

\* Where a thread is with the lock and without it.
LockInv(t) ==
  /\ pc[t] \in Ended \cup {"lock"} => pass[t] = 1
  /\ pc[t] \in Setting \cup {"read", "stamp"} => pass[t] = 2
  /\ pass[t] = 3 => pc[t] \in Accessing \ {"check"}

\* What a thread makes an application from.
CreateInv(t) ==
  /\ since[t] <= mtime[name[t]]
  /\ pc[t] \in {"setremove", "setfront", "setvalue"} => ReadFirst(app[t], mtime[name[t]])
  /\ pc[t] = "stamp" => app[t].content <= mtime[name[t]]
  /\ pc[t] \in Setting \cup {"stamp"} => app[t].content >= since[t]
  /\ pc[t] = "read" => values[name[t]] = NoApp \/ values[name[t]].stamp < mtime[name[t]]

\* What the thread with the lock has from the dictionary is still there, and
\* the third access only finds what the second found to be up to date.
AnswerInv(t) ==
  /\ Owns(t) /\ pc[t] \in Accessing \ {"item"} => app[t] = values[name[t]] /\ app[t] # NoApp
  /\ pass[t] = 3 => values[name[t]] # NoApp /\ values[name[t]].stamp >= since[t]
  /\ pc[t] = "done" => app[t].content >= since[t] \/ app[t].content < app[t].stamp

\* Without an eviction, an application that was there stays there.
PresentInv(t) ==
  ~evicted => /\ pc[t] # "error"
              /\ pc[t] \in Accessing => values[name[t]] # NoApp

ThreadInv(t) == LockInv(t) /\ CreateInv(t) /\ AnswerInv(t) /\ PresentInv(t)

CoreInv == Types /\ OneOwner /\ ValuesInv /\ \A t \in Threads : ThreadInv(t)

-----------------------------------------------------------------------------
(* What the threads do to each other *)

\* A step of t: only the thread with the lock changes the dictionary's values,
\* and only an eviction takes one out.
LeavesOthers(t) ==
  /\ mtime' = mtime
  /\ \A u \in Threads \ {t} :
       /\ pc'[u] = pc[u] /\ pass'[u] = pass[u] /\ app'[u] = app[u]
       /\ name'[u] = name[u] /\ since'[u] = since[u]
  /\ evicted => evicted'
  /\ values' = values \/ Owns(t)
  /\ evicted' \/ \A n \in Names : values[n] # NoApp => values'[n] # NoApp

LEMMA OthersKeep ==
  ASSUME CoreInv, NEW t \in Threads, LeavesOthers(t), NEW u \in Threads \ {t}
  PROVE  ThreadInv(u)'
<1>1. /\ mtime' = mtime
      /\ pc'[u] = pc[u] /\ pass'[u] = pass[u] /\ app'[u] = app[u]
      /\ name'[u] = name[u] /\ since'[u] = since[u]
      /\ name[u] \in Names
  BY DEF LeavesOthers, CoreInv, Types
<1>2. LockInv(u)'
  BY <1>1 DEF CoreInv, ThreadInv, LockInv
<1>3. Owns(u) => values' = values
  BY DEF LeavesOthers, CoreInv, OneOwner
<1>4. pc[u] = "read" => Owns(u)
  <2>1. pc[u] = "read" => pass[u] = 2
    BY DEF CoreInv, ThreadInv, LockInv
  <2> QED BY <2>1 DEF Owns
<1>5. CreateInv(u)'
  BY <1>1, <1>3, <1>4 DEF CoreInv, ThreadInv, CreateInv
<1>6. AnswerInv(u)'
  <2>1. pass[u] = 3 => Owns(u)
    BY DEF Owns
  <2>2. Owns(u)' <=> Owns(u)
    BY <1>1 DEF Owns
  <2> QED BY <1>1, <1>3, <2>1, <2>2 DEF CoreInv, ThreadInv, AnswerInv
<1>7. PresentInv(u)'
  BY <1>1 DEF CoreInv, ThreadInv, PresentInv, LeavesOthers
<1> QED BY <1>2, <1>5, <1>6, <1>7 DEF ThreadInv

LEMMA Together ==
  ASSUME CoreInv, NEW t \in Threads, LeavesOthers(t),
         Types', ValuesInv', ThreadInv(t)',
         Owns(t)' => Owns(t) \/ \A u \in Threads : ~Owns(u)
  PROVE  CoreInv'
<1>1. \A u \in Threads : ThreadInv(u)'
  BY OthersKeep
<1>2. \A u \in Threads \ {t} : Owns(u)' <=> Owns(u)
  BY DEF LeavesOthers, Owns
<1>3. OneOwner'
  BY <1>2 DEF CoreInv, OneOwner
<1> QED BY <1>1, <1>3 DEF CoreInv

LEMMA AppTypes ==
  /\ NoApp \notin Apps /\ MaxChanges \in Nat
  /\ NoApp \in [content : 0 .. MaxChanges, stamp : 0 .. MaxChanges + 1]
  /\ Apps \subseteq [content : 0 .. MaxChanges, stamp : 0 .. MaxChanges + 1]
  /\ \A a \in Apps : a \in [content : 0 .. MaxChanges, stamp : 0 .. MaxChanges + 1]
  /\ \A c \in 0 .. MaxChanges :
       LET a == [NoApp EXCEPT !.content = c] IN
       a \in [content : 0 .. MaxChanges, stamp : 0 .. MaxChanges + 1] /\ a.content = c
BY SizeAssumption DEF Apps, NoApp

LEMMA Initially == Init => CoreInv
<1> SUFFICES ASSUME Init PROVE CoreInv
  OBVIOUS
<1>1. Types
  <2>1. lastUsed \in Seq(Names)
    BY EmptySeq DEF Init
  <2>2. /\ mtime = [n \in Names |-> 0] /\ values = [n \in Names |-> NoApp]
        /\ pc = [t \in Threads |-> "idle"] /\ name \in [Threads -> Names]
        /\ pass = [t \in Threads |-> 1] /\ app = [t \in Threads |-> NoApp]
        /\ since = [t \in Threads |-> 0] /\ evicted = FALSE
    BY DEF Init
  <2>3. "idle" \in States /\ 0 \in 0 .. MaxChanges
    BY AppTypes DEF States
  <2>4. /\ mtime \in [Names -> 0 .. MaxChanges] /\ values \in [Names -> Apps \cup {NoApp}]
        /\ pc \in [Threads -> States] /\ pass \in [Threads -> 1 .. 3]
        /\ since \in [Threads -> 0 .. MaxChanges]
    BY <2>2, <2>3
  <2>5. app \in [Threads -> [content : 0 .. MaxChanges, stamp : 0 .. MaxChanges + 1]]
    BY <2>2, AppTypes
  <2> QED BY <2>1, <2>2, <2>4, <2>5 DEF Types
<1>2. OneOwner /\ ValuesInv
  BY DEF Init, OneOwner, Owns, ValuesInv
<1>3. ASSUME NEW t \in Threads PROVE ThreadInv(t)
  BY DEF Init, ThreadInv, LockInv, CreateInv, AnswerInv, PresentInv, Owns, Ended, Setting, Accessing
<1> QED BY <1>1, <1>2, <1>3 DEF CoreInv

-----------------------------------------------------------------------------
(* The steps *)

LEMMA StateNames ==
  /\ {"get", "item", "remove", "front", "setremove", "setfront", "setvalue", "evict",
      "idle", "check", "lock", "read", "stamp", "done", "error", "invalid"} \subseteq States
  /\ Setting = {"setremove", "setfront", "setvalue", "evict"}
  /\ Ended = {"idle", "done", "error", "invalid"}
  /\ {1, 2, 3} \subseteq 1 .. 3
BY DEF States, Getting, Setting, Ended

\* A step of t that leaves the dictionary's values and what t knows alone.
LEMMA Moves ==
  ASSUME CoreInv, NEW t \in Threads, NEW p \in States, NEW q \in 1 .. 3,
         pc' = [pc EXCEPT ![t] = p], pass' = [pass EXCEPT ![t] = q],
         lastUsed' \in Seq(Names), UNCHANGED <<mtime, values, name, app, since, evicted>>
  PROVE  /\ LeavesOthers(t) /\ Types' /\ ValuesInv'
         /\ pc'[t] = p /\ pass'[t] = q
         /\ pc[t] \in States /\ name[t] \in Names /\ pass[t] \in 1 .. 3 /\ ThreadInv(t)
         /\ mtime[name[t]] \in 0 .. MaxChanges /\ since[t] \in 0 .. MaxChanges
<1>1. LeavesOthers(t)
  BY DEF LeavesOthers, CoreInv, Types
<1>2. Types'
  BY DEF CoreInv, Types
<1>3. ValuesInv'
  BY DEF CoreInv, ValuesInv
<1>4. pc'[t] = p /\ pass'[t] = q
  BY DEF CoreInv, Types
<1>5. /\ pc[t] \in States /\ name[t] \in Names /\ pass[t] \in 1 .. 3 /\ ThreadInv(t)
      /\ mtime[name[t]] \in 0 .. MaxChanges /\ since[t] \in 0 .. MaxChanges
  BY DEF CoreInv, Types
<1> QED BY <1>1, <1>2, <1>3, <1>4, <1>5

LEMMA ArriveCore == ASSUME CoreInv, NEW t \in Threads, NEW n \in Names, Arrive(t, n) PROVE CoreInv'
<1>1. /\ pc[t] \in Ended /\ pc' = [pc EXCEPT ![t] = "get"]
      /\ name' = [name EXCEPT ![t] = n] /\ since' = [since EXCEPT ![t] = mtime[n]]
      /\ app' = [app EXCEPT ![t] = NoApp]
      /\ UNCHANGED <<mtime, values, lastUsed, pass, evicted>>
  BY DEF Arrive, Goto, SetApp
<1>2. LeavesOthers(t)
  BY <1>1 DEF LeavesOthers, CoreInv, Types
<1>3. Types'
  <2>1. app' \in [Threads -> [content : 0 .. MaxChanges, stamp : 0 .. MaxChanges + 1]]
    BY <1>1, AppTypes DEF CoreInv, Types
  <2>2. pc' \in [Threads -> States]
    BY <1>1, StateNames DEF CoreInv, Types
  <2> QED BY <1>1, <2>1, <2>2 DEF CoreInv, Types
<1>4. ValuesInv'
  BY <1>1 DEF CoreInv, ValuesInv
<1>5. pass[t] = 1 /\ Owns(t)' = Owns(t)
  BY <1>1 DEF CoreInv, ThreadInv, LockInv, Owns
<1>6. /\ pc'[t] = "get" /\ pass'[t] = 1 /\ name'[t] = n /\ since'[t] = mtime[n]
      /\ mtime[n] \in 0 .. MaxChanges
  BY <1>1, <1>5 DEF CoreInv, Types
<1>7. ThreadInv(t)'
  BY <1>1, <1>6, AppTypes, StateNames
     DEF ThreadInv, LockInv, CreateInv, AnswerInv, PresentInv, Owns, Accessing
<1> QED BY <1>2, <1>3, <1>4, <1>5, <1>7, Together

LEMMA GetCore == ASSUME CoreInv, NEW t \in Threads, Get(t) PROVE CoreInv'
<1>1. /\ pc[t] = "get" /\ UNCHANGED <<mtime, values, lastUsed, name, pass, since, evicted>>
  BY DEF Get
<1>2. /\ pass[t] \in 1 .. 3 /\ pass' = [pass EXCEPT ![t] = pass[t]] /\ lastUsed' \in Seq(Names)
  BY <1>1 DEF CoreInv, Types
<1>3. CASE values[name[t]] # NoApp
  <2>1. pc' = [pc EXCEPT ![t] = "item"] /\ app' = app
    BY <1>3 DEF Get, Goto
  <2>2. /\ LeavesOthers(t) /\ Types' /\ ValuesInv'
        /\ pc'[t] = "item" /\ pass'[t] = pass[t] /\ pass[t] \in 1 .. 3 /\ ThreadInv(t)
    BY <1>1, <1>2, <2>1, Moves, StateNames
  <2>3. ThreadInv(t)'
    BY <1>1, <1>3, <2>1, <2>2, StateNames
       DEF ThreadInv, LockInv, CreateInv, AnswerInv, PresentInv, Accessing, Owns
  <2> QED BY <2>2, <2>3, Together DEF Owns
<1>4. CASE values[name[t]] = NoApp
  <2>1. /\ app' = [app EXCEPT ![t] = NoApp]
        /\ pc' = [pc EXCEPT ![t] = IF Owns(t) THEN "read" ELSE "lock"]
    BY <1>4 DEF Get, Goto, SetApp
  <2>2. LeavesOthers(t)
    BY <1>1, <2>1 DEF LeavesOthers, CoreInv, Types
  <2>3. Types'
    <3>1. app' \in [Threads -> [content : 0 .. MaxChanges, stamp : 0 .. MaxChanges + 1]]
      BY <2>1, AppTypes DEF CoreInv, Types
    <3>2. pc' \in [Threads -> States]
      BY <2>1, StateNames DEF CoreInv, Types
    <3> QED BY <1>1, <3>1, <3>2 DEF CoreInv, Types
  <2>4. ValuesInv'
    BY <1>1 DEF CoreInv, ValuesInv
  <2>5. /\ pc'[t] = (IF Owns(t) THEN "read" ELSE "lock") /\ pass[t] \in {1, 2} /\ ThreadInv(t)
    <3>1. ThreadInv(t) /\ pass[t] \in 1 .. 3
      BY DEF CoreInv, Types
    <3>2. pass[t] # 3
      BY <1>1, <3>1 DEF ThreadInv, LockInv, Accessing
    <3>3. pass[t] \in {1, 2}
      BY <3>1, <3>2
    <3>4. pc'[t] = (IF Owns(t) THEN "read" ELSE "lock")
      BY <2>1 DEF CoreInv, Types
    <3> QED BY <3>1, <3>3, <3>4
  <2>6. ThreadInv(t)'
    <3>1. CASE pass[t] = 1
      <4>1. pc'[t] = "lock"
        BY <2>5, <3>1 DEF Owns
      <4> QED BY <1>1, <2>5, <3>1, <4>1, StateNames
                 DEF ThreadInv, LockInv, CreateInv, AnswerInv, PresentInv, Accessing, Owns
    <3>2. CASE pass[t] = 2
      <4>1. pc'[t] = "read"
        BY <2>5, <3>2 DEF Owns
      <4> QED BY <1>1, <1>4, <2>5, <3>2, <4>1, StateNames
                 DEF ThreadInv, LockInv, CreateInv, AnswerInv, PresentInv, Accessing, Owns
    <3> QED BY <2>5, <3>1, <3>2
  <2> QED BY <1>1, <2>2, <2>3, <2>4, <2>6, Together DEF Owns
<1> QED BY <1>3, <1>4

LEMMA ItemCore == ASSUME CoreInv, NEW t \in Threads, Item(t) PROVE CoreInv'
<1>1. /\ pc[t] = "item" /\ UNCHANGED <<mtime, values, lastUsed, name, since, evicted>>
  BY DEF Item
<1>2. pass[t] \in 1 .. 3 /\ lastUsed' \in Seq(Names) /\ ThreadInv(t)
  BY <1>1 DEF CoreInv, Types
<1>3. CASE values[name[t]] = NoApp
  <2>1. pc' = [pc EXCEPT ![t] = "error"] /\ pass' = [pass EXCEPT ![t] = 1] /\ app' = app
    BY <1>3 DEF Item, End, Goto
  <2>2. /\ LeavesOthers(t) /\ Types' /\ ValuesInv' /\ pc'[t] = "error" /\ pass'[t] = 1
    BY <1>1, <1>2, <2>1, Moves, StateNames
  <2>3. ThreadInv(t)'
    BY <1>1, <1>2, <1>3, <2>1, <2>2, StateNames
       DEF ThreadInv, LockInv, CreateInv, AnswerInv, PresentInv, Accessing, Owns
  <2> QED BY <2>2, <2>3, Together DEF Owns
<1>4. CASE values[name[t]] # NoApp
  <2>1. /\ pc' = [pc EXCEPT ![t] = "remove"] /\ pass' = pass
        /\ app' = [app EXCEPT ![t] = values[name[t]]]
    BY <1>4 DEF Item, Goto, SetApp
  <2>2. LeavesOthers(t)
    BY <1>1, <2>1 DEF LeavesOthers, CoreInv, Types
  <2>3. values[name[t]] \in Apps
    BY <1>4 DEF CoreInv, Types
  <2>4. Types'
    <3>1. app' \in [Threads -> [content : 0 .. MaxChanges, stamp : 0 .. MaxChanges + 1]]
      BY <2>1, <2>3, AppTypes DEF CoreInv, Types
    <3>2. pc' \in [Threads -> States]
      BY <2>1, StateNames DEF CoreInv, Types
    <3> QED BY <1>1, <2>1, <3>1, <3>2 DEF CoreInv, Types
  <2>5. ValuesInv'
    BY <1>1 DEF CoreInv, ValuesInv
  <2>6. pc'[t] = "remove" /\ app'[t] = values[name[t]]
    BY <2>1 DEF CoreInv, Types
  <2>7. ThreadInv(t)'
    BY <1>1, <1>2, <1>4, <2>1, <2>6, StateNames
       DEF ThreadInv, LockInv, CreateInv, AnswerInv, PresentInv, Accessing, Owns
  <2> QED BY <2>1, <2>2, <2>4, <2>5, <2>7, Together DEF Owns
<1> QED BY <1>3, <1>4

LEMMA RemoveCore == ASSUME CoreInv, NEW t \in Threads, RemoveUsed(t) PROVE CoreInv'
<1>1. /\ pc[t] = "remove" /\ lastUsed' = RemoveFirst(lastUsed, name[t])
      /\ pc' = [pc EXCEPT ![t] = "front"]
      /\ UNCHANGED <<mtime, values, name, pass, app, since, evicted>>
  BY DEF RemoveUsed, RemoveName, Goto
<1>2. pass[t] \in 1 .. 3 /\ pass' = [pass EXCEPT ![t] = pass[t]]
  BY <1>1 DEF CoreInv, Types
<1>3. lastUsed' \in Seq(Names)
  BY <1>1, CountRemove DEF CoreInv, Types
<1>4. /\ LeavesOthers(t) /\ Types' /\ ValuesInv'
      /\ pc'[t] = "front" /\ pass'[t] = pass[t] /\ ThreadInv(t)
  BY <1>1, <1>2, <1>3, Moves, StateNames
<1>5. ThreadInv(t)'
  BY <1>1, <1>4, StateNames
     DEF ThreadInv, LockInv, CreateInv, AnswerInv, PresentInv, Accessing, Owns
<1> QED BY <1>1, <1>4, <1>5, Together DEF Owns

LEMMA FrontCore == ASSUME CoreInv, NEW t \in Threads, AppendLeft(t) PROVE CoreInv'
<1>1. /\ pc[t] = "front" /\ lastUsed' = <<name[t]>> \o lastUsed
      /\ UNCHANGED <<mtime, values, name, app, since, evicted>>
  BY DEF AppendLeft
<1>2. lastUsed' \in Seq(Names) /\ pass[t] \in 1 .. 3
  BY <1>1, CountPrepend DEF CoreInv, Types
<1>3. CASE pass[t] = 3
  <2>1. pc' = [pc EXCEPT ![t] = "done"] /\ pass' = [pass EXCEPT ![t] = 1]
    BY <1>3 DEF AppendLeft, End, Goto
  <2>2. /\ LeavesOthers(t) /\ Types' /\ ValuesInv'
        /\ pc'[t] = "done" /\ pass'[t] = 1 /\ ThreadInv(t)
    BY <1>1, <1>2, <2>1, Moves, StateNames
  <2>3. app[t].stamp >= since[t]
    BY <1>1, <1>3, <2>2 DEF ThreadInv, AnswerInv, Owns, Accessing
  <2>4. app[t].content >= since[t] \/ app[t].content < app[t].stamp
    <3>1. /\ app[t] \in [content : 0 .. MaxChanges, stamp : 0 .. MaxChanges + 1]
          /\ since[t] \in 0 .. MaxChanges
      BY DEF CoreInv, Types
    <3> QED BY <2>3, <3>1, AppTypes
  <2>5. ThreadInv(t)'
    BY <1>1, <2>2, <2>4, StateNames
       DEF ThreadInv, LockInv, CreateInv, AnswerInv, PresentInv, Accessing, Owns
  <2> QED BY <2>2, <2>5, Together DEF Owns
<1>4. CASE pass[t] # 3
  <2>1. pc' = [pc EXCEPT ![t] = "check"] /\ pass' = pass
    BY <1>4 DEF AppendLeft, Goto
  <2>2. pass' = [pass EXCEPT ![t] = pass[t]]
    BY <2>1 DEF CoreInv, Types
  <2>3. /\ LeavesOthers(t) /\ Types' /\ ValuesInv'
        /\ pc'[t] = "check" /\ pass'[t] = pass[t] /\ ThreadInv(t)
    BY <1>1, <1>2, <2>1, <2>2, Moves, StateNames
  <2>4. ThreadInv(t)'
    BY <1>1, <1>4, <2>3, StateNames
       DEF ThreadInv, LockInv, CreateInv, AnswerInv, PresentInv, Accessing, Owns
  <2> QED BY <2>1, <2>3, <2>4, Together DEF Owns
<1> QED BY <1>3, <1>4

\* An application that is not outdated knows what there was when the request
\* came: a file changed since then has a later mtime.
LEMMA CheckCore == ASSUME CoreInv, NEW t \in Threads, Check(t) PROVE CoreInv'
<1>1. /\ pc[t] = "check" /\ UNCHANGED <<mtime, values, lastUsed, name, app, since, evicted>>
  BY DEF Check
<1>2. /\ pass[t] \in 1 .. 3 /\ lastUsed' \in Seq(Names) /\ ThreadInv(t)
      /\ mtime[name[t]] \in 0 .. MaxChanges /\ since[t] \in 0 .. MaxChanges
      /\ app[t] \in [content : 0 .. MaxChanges, stamp : 0 .. MaxChanges + 1]
      /\ pass' = pass => pass' = [pass EXCEPT ![t] = pass[t]]
  BY <1>1 DEF CoreInv, Types
<1>3. pass[t] # 3 /\ since[t] <= mtime[name[t]]
  BY <1>1, <1>2 DEF ThreadInv, LockInv, CreateInv, Accessing
<1>4. CASE NeedsReload(t) /\ ~Owns(t)
  <2>1. pc' = [pc EXCEPT ![t] = "lock"] /\ pass' = pass
    BY <1>4 DEF Check, Goto
  <2>2. /\ LeavesOthers(t) /\ Types' /\ ValuesInv' /\ pc'[t] = "lock"
    BY <1>1, <1>2, <2>1, Moves, StateNames
  <2>3. pass[t] = 1
    BY <1>2, <1>4 DEF Owns
  <2>4. ThreadInv(t)'
    BY <1>1, <1>2, <2>1, <2>2, <2>3, StateNames
       DEF ThreadInv, LockInv, CreateInv, AnswerInv, PresentInv, Accessing, Owns
  <2> QED BY <2>1, <2>2, <2>4, Together DEF Owns
<1>5. CASE NeedsReload(t) /\ Owns(t)
  <2>1. pc' = [pc EXCEPT ![t] = "read"] /\ pass' = pass
    BY <1>5 DEF Check, Goto
  <2>2. /\ LeavesOthers(t) /\ Types' /\ ValuesInv' /\ pc'[t] = "read"
    BY <1>1, <1>2, <2>1, Moves, StateNames
  <2>3. pass[t] = 2 /\ values[name[t]].stamp < mtime[name[t]]
    <3>1. app[t] = values[name[t]] /\ mtime[name[t]] > app[t].stamp
      BY <1>1, <1>2, <1>5 DEF ThreadInv, AnswerInv, Accessing, NeedsReload
    <3>2. app[t].stamp \in 0 .. MaxChanges + 1
      BY <1>2
    <3> QED BY <1>2, <1>3, <1>5, <3>1, <3>2, AppTypes DEF Owns
  <2>4. ThreadInv(t)'
    BY <1>1, <1>2, <2>1, <2>2, <2>3, StateNames
       DEF ThreadInv, LockInv, CreateInv, AnswerInv, PresentInv, Accessing, Owns
  <2> QED BY <2>1, <2>2, <2>4, Together DEF Owns
<1>6. CASE ~NeedsReload(t)
  <2>1. app[t].stamp >= since[t] /\ app[t].stamp >= mtime[name[t]]
    BY <1>2, <1>3, <1>6, AppTypes DEF NeedsReload
  <2>2. app[t].content >= since[t] \/ app[t].content < app[t].stamp
    BY <1>2, <2>1, AppTypes
  <2>3. CASE ~Owns(t)
    <3>1. pc' = [pc EXCEPT ![t] = "done"] /\ pass' = [pass EXCEPT ![t] = 1]
      BY <1>6, <2>3 DEF Check, End, Goto
    <3>2. /\ LeavesOthers(t) /\ Types' /\ ValuesInv' /\ pc'[t] = "done" /\ pass'[t] = 1
      BY <1>1, <1>2, <3>1, Moves, StateNames
    <3>3. ThreadInv(t)'
      BY <1>1, <1>2, <2>2, <3>2, StateNames
         DEF ThreadInv, LockInv, CreateInv, AnswerInv, PresentInv, Accessing, Owns
    <3> QED BY <3>2, <3>3, Together DEF Owns
  <2>4. CASE Owns(t)
    <3>1. pc' = [pc EXCEPT ![t] = "item"] /\ pass' = [pass EXCEPT ![t] = 3]
      BY <1>6, <2>4 DEF Check, Goto
    <3>2. /\ LeavesOthers(t) /\ Types' /\ ValuesInv' /\ pc'[t] = "item" /\ pass'[t] = 3
      <4>1. "item" \in States /\ 3 \in 1 .. 3
        BY StateNames
      <4>2. lastUsed' \in Seq(Names) /\ UNCHANGED <<mtime, values, name, app, since, evicted>>
        BY <1>1, <1>2
      <4> DEFINE p == "item"
                 q == 3
      <4>3. p \in States /\ q \in 1 .. 3 /\ pc' = [pc EXCEPT ![t] = p] /\ pass' = [pass EXCEPT ![t] = q]
        BY <3>1, <4>1
      <4> HIDE DEF p, q
      <4>4. LeavesOthers(t) /\ Types' /\ ValuesInv' /\ pc'[t] = p /\ pass'[t] = q
        BY <4>2, <4>3, Moves
      <4> QED BY <4>4 DEF p, q
    <3>3. values[name[t]] # NoApp /\ values[name[t]].stamp >= since[t]
      BY <1>1, <1>2, <2>1, <2>4 DEF ThreadInv, AnswerInv, Accessing
    <3>4. ThreadInv(t)'
      BY <1>1, <1>2, <3>2, <3>3, StateNames
         DEF ThreadInv, LockInv, CreateInv, AnswerInv, PresentInv, Accessing, Owns
    <3> QED BY <2>4, <3>2, <3>4, Together
  <2> QED BY <2>3, <2>4
<1> QED BY <1>4, <1>5, <1>6

LEMMA LockCore == ASSUME CoreInv, NEW t \in Threads, Lock(t) PROVE CoreInv'
<1>1. /\ pc[t] = "lock" /\ \A u \in Threads : ~Owns(u)
      /\ pass' = [pass EXCEPT ![t] = 2] /\ pc' = [pc EXCEPT ![t] = "get"]
      /\ UNCHANGED <<mtime, values, lastUsed, name, app, since, evicted>>
  BY DEF Lock, Goto
<1>2. lastUsed' \in Seq(Names)
  BY <1>1 DEF CoreInv, Types
<1>3. /\ LeavesOthers(t) /\ Types' /\ ValuesInv' /\ pc'[t] = "get" /\ pass'[t] = 2 /\ ThreadInv(t)
  BY <1>1, <1>2, Moves, StateNames
<1>4. ThreadInv(t)'
  BY <1>1, <1>3, StateNames
     DEF ThreadInv, LockInv, CreateInv, AnswerInv, PresentInv, Accessing, Owns
<1> QED BY <1>1, <1>3, <1>4, Together

LEMMA ReadCore == ASSUME CoreInv, NEW t \in Threads, Read(t) PROVE CoreInv'
<1> DEFINE a == [NoApp EXCEPT !.content = mtime[name[t]]]
<1>1. /\ pc[t] = "read" /\ pc' = [pc EXCEPT ![t] = "stamp"]
      /\ app' = [app EXCEPT ![t] = a]
      /\ UNCHANGED <<mtime, values, lastUsed, name, pass, since, evicted>>
  BY DEF Read, Goto, SetApp
<1>2. /\ ThreadInv(t) /\ mtime[name[t]] \in 0 .. MaxChanges /\ since[t] \in 0 .. MaxChanges
  BY DEF CoreInv, Types
<1>3. /\ a \in [content : 0 .. MaxChanges, stamp : 0 .. MaxChanges + 1]
      /\ a.content = mtime[name[t]]
  BY <1>2, AppTypes
<1> HIDE DEF a
<1>4. LeavesOthers(t)
  BY <1>1 DEF LeavesOthers, CoreInv, Types
<1>5. Types'
  <2>1. pc' \in [Threads -> States]
    BY <1>1, StateNames DEF CoreInv, Types
  <2> QED BY <1>1, <1>3, <2>1 DEF CoreInv, Types
<1>6. ValuesInv'
  BY <1>1 DEF CoreInv, ValuesInv
<1>7. pc'[t] = "stamp" /\ app'[t] = a
  BY <1>1 DEF CoreInv, Types
<1>8. app'[t].content <= mtime[name[t]] /\ app'[t].content >= since[t]
  BY <1>2, <1>3, <1>7, AppTypes DEF ThreadInv, CreateInv
<1>9. ThreadInv(t)'
  BY <1>1, <1>2, <1>7, <1>8, StateNames
     DEF ThreadInv, LockInv, CreateInv, AnswerInv, PresentInv, Accessing, Owns
<1> QED BY <1>1, <1>4, <1>5, <1>6, <1>9, Together DEF Owns

LEMMA StampCore == ASSUME CoreInv, NEW t \in Threads, Stamp(t) PROVE CoreInv'
<1> DEFINE a == [app[t] EXCEPT !.stamp = mtime[name[t]]]
<1>1. /\ pc[t] = "stamp" /\ pc' = [pc EXCEPT ![t] = "setremove"]
      /\ app' = [app EXCEPT ![t] = a]
      /\ UNCHANGED <<mtime, values, lastUsed, name, pass, since, evicted>>
  BY DEF Stamp, Goto, SetApp
<1>2. /\ ThreadInv(t) /\ mtime[name[t]] \in 0 .. MaxChanges /\ since[t] \in 0 .. MaxChanges
      /\ app[t] \in [content : 0 .. MaxChanges, stamp : 0 .. MaxChanges + 1]
  BY DEF CoreInv, Types
<1>3. /\ a \in [content : 0 .. MaxChanges, stamp : 0 .. MaxChanges + 1]
      /\ a.content = app[t].content /\ a.stamp = mtime[name[t]]
  <2>1. mtime[name[t]] \in 0 .. MaxChanges + 1
    BY <1>2, AppTypes
  <2> QED BY <1>2, <2>1
<1> HIDE DEF a
<1>4. LeavesOthers(t)
  BY <1>1 DEF LeavesOthers, CoreInv, Types
<1>5. Types'
  <2>1. pc' \in [Threads -> States]
    BY <1>1, StateNames DEF CoreInv, Types
  <2> QED BY <1>1, <1>3, <2>1 DEF CoreInv, Types
<1>6. ValuesInv'
  BY <1>1 DEF CoreInv, ValuesInv
<1>7. pc'[t] = "setremove" /\ app'[t] = a
  BY <1>1 DEF CoreInv, Types
<1>8. ReadFirst(app'[t], mtime[name[t]]) /\ app'[t].content >= since[t]
  <2>1. app[t].content <= mtime[name[t]] /\ app[t].content >= since[t]
    BY <1>1, <1>2 DEF ThreadInv, CreateInv
  <2> QED BY <1>2, <1>3, <1>7, <2>1, AppTypes DEF ReadFirst
<1>9. ThreadInv(t)'
  BY <1>1, <1>2, <1>7, <1>8, StateNames
     DEF ThreadInv, LockInv, CreateInv, AnswerInv, PresentInv, Accessing, Owns
<1> QED BY <1>1, <1>4, <1>5, <1>6, <1>9, Together DEF Owns

LEMMA InvalidCore == ASSUME CoreInv, NEW t \in Threads, Invalid(t) PROVE CoreInv'
<1>1. /\ pc' = [pc EXCEPT ![t] = "invalid"] /\ pass' = [pass EXCEPT ![t] = 1]
      /\ UNCHANGED <<mtime, values, lastUsed, name, app, since, evicted>>
  BY DEF Invalid, End, Goto
<1>2. lastUsed' \in Seq(Names)
  BY <1>1 DEF CoreInv, Types
<1>3. /\ LeavesOthers(t) /\ Types' /\ ValuesInv' /\ pc'[t] = "invalid" /\ pass'[t] = 1 /\ ThreadInv(t)
  BY <1>1, <1>2, Moves, StateNames
<1>4. ThreadInv(t)'
  BY <1>1, <1>3, StateNames
     DEF ThreadInv, LockInv, CreateInv, AnswerInv, PresentInv, Accessing, Owns
<1> QED BY <1>3, <1>4, Together DEF Owns

\* last_used follows; until the value is set, the application is the thread's.
LEMMA SetCore ==
  ASSUME CoreInv, NEW t \in Threads, SetRemove(t) \/ SetFront(t) PROVE CoreInv'
<1> DEFINE p == IF pc[t] = "setremove" THEN "setfront" ELSE "setvalue"
<1>1. /\ pc[t] \in {"setremove", "setfront"} /\ pc' = [pc EXCEPT ![t] = p]
      /\ UNCHANGED <<mtime, values, name, pass, app, since, evicted>>
  BY DEF SetRemove, SetFront, Goto
<1>2. lastUsed' \in Seq(Names)
  <2>1. name[t] \in Names /\ lastUsed \in Seq(Names)
    BY DEF CoreInv, Types
  <2>2. lastUsed' \in {lastUsed, RemoveFirst(lastUsed, name[t]), <<name[t]>> \o lastUsed}
    BY DEF SetRemove, SetFront, RemoveName
  <2> QED BY <2>1, <2>2, CountRemove, CountPrepend
<1>3. p \in {"setfront", "setvalue"} /\ p \in States
  BY StateNames
<1> HIDE DEF p
<1>4. pass[t] \in 1 .. 3 /\ pass' = [pass EXCEPT ![t] = pass[t]]
  BY <1>1 DEF CoreInv, Types
<1>5. /\ LeavesOthers(t) /\ Types' /\ ValuesInv' /\ pc'[t] = p /\ pass'[t] = pass[t] /\ ThreadInv(t)
  BY <1>1, <1>2, <1>3, <1>4, Moves
<1>6. ThreadInv(t)'
  BY <1>1, <1>3, <1>5, StateNames
     DEF ThreadInv, LockInv, CreateInv, AnswerInv, PresentInv, Accessing, Owns
<1> QED BY <1>1, <1>5, <1>6, Together DEF Owns

LEMMA ValueCore == ASSUME CoreInv, NEW t \in Threads, SetValue(t) PROVE CoreInv'
<1>1. /\ pc[t] = "setvalue" /\ pc' = [pc EXCEPT ![t] = "evict"]
      /\ values' = [values EXCEPT ![name[t]] = app[t]]
      /\ UNCHANGED <<mtime, lastUsed, name, pass, app, since, evicted>>
  BY DEF SetValue, Goto
<1>2. /\ ThreadInv(t) /\ name[t] \in Names /\ mtime[name[t]] \in 0 .. MaxChanges
      /\ app[t] \in [content : 0 .. MaxChanges, stamp : 0 .. MaxChanges + 1]
  BY DEF CoreInv, Types
<1>3. ReadFirst(app[t], mtime[name[t]]) /\ app[t].content >= since[t] /\ pass[t] = 2
  BY <1>1, <1>2, StateNames DEF ThreadInv, CreateInv, LockInv
<1>4. app[t] \in Apps /\ app[t] # NoApp
  <2>1. app[t].stamp \in 0 .. MaxChanges
    BY <1>2, <1>3, AppTypes DEF ReadFirst
  <2>2. app[t] \in Apps
    BY <1>2, <2>1 DEF Apps
  <2> QED BY <2>2, AppTypes
<1>5. LeavesOthers(t)
  <2>1. Owns(t)
    BY <1>3 DEF Owns
  <2> QED BY <1>1, <1>2, <1>4, <2>1 DEF LeavesOthers, CoreInv, Types
<1>6. Types'
  <2>1. pc' \in [Threads -> States]
    BY <1>1, StateNames DEF CoreInv, Types
  <2> QED BY <1>1, <1>4, <2>1 DEF CoreInv, Types
<1>7. ValuesInv'
  BY <1>1, <1>2, <1>3 DEF CoreInv, Types, ValuesInv
<1>8. pc'[t] = "evict" /\ pass'[t] = 2
  BY <1>1, <1>3 DEF CoreInv, Types
<1>9. ThreadInv(t)'
  BY <1>1, <1>2, <1>3, <1>8, StateNames
     DEF ThreadInv, LockInv, CreateInv, AnswerInv, PresentInv, Accessing, Owns
<1> QED BY <1>1, <1>5, <1>6, <1>7, <1>9, Together DEF Owns

LEMMA StoredCore == ASSUME CoreInv, NEW t \in Threads, Stored(t) PROVE CoreInv'
<1>1. /\ pc[t] = "evict" /\ pc' = [pc EXCEPT ![t] = "done"] /\ pass' = [pass EXCEPT ![t] = 1]
      /\ UNCHANGED <<mtime, values, lastUsed, name, app, since, evicted>>
  BY DEF Stored, End, Goto
<1>2. lastUsed' \in Seq(Names)
  BY <1>1 DEF CoreInv, Types
<1>3. /\ LeavesOthers(t) /\ Types' /\ ValuesInv' /\ pc'[t] = "done" /\ pass'[t] = 1 /\ ThreadInv(t)
  BY <1>1, <1>2, Moves, StateNames
<1>4. app[t].content >= since[t]
  BY <1>1, <1>3, StateNames DEF ThreadInv, CreateInv
<1>5. ThreadInv(t)'
  BY <1>1, <1>3, <1>4, StateNames
     DEF ThreadInv, LockInv, CreateInv, AnswerInv, PresentInv, Accessing, Owns
<1> QED BY <1>3, <1>5, Together DEF Owns

LEMMA EvictCore == ASSUME CoreInv, NEW t \in Threads, Evict(t) PROVE CoreInv'
<1>1. /\ pc[t] = "evict" /\ evicted' = TRUE /\ UNCHANGED <<mtime, name, app, since>>
  BY DEF Evict
<1>2. ThreadInv(t) /\ pass[t] \in 1 .. 3 /\ lastUsed \in Seq(Names)
  BY DEF CoreInv, Types
<1>3. pass[t] = 2 /\ Owns(t)
  BY <1>1, <1>2, StateNames DEF ThreadInv, LockInv, Owns
<1>4. /\ \/ pc' = pc /\ pass' = pass
         \/ pc' = [pc EXCEPT ![t] = "error"] /\ pass' = [pass EXCEPT ![t] = 1]
      /\ \/ values' = values
         \/ values' = [values EXCEPT ![Last(lastUsed)] = NoApp]
      /\ \/ lastUsed' = lastUsed
         \/ lastUsed # <<>> /\ lastUsed' = Front(lastUsed)
  BY DEF Evict, End, Goto
<1>5. lastUsed' \in Seq(Names)
  <2>1. lastUsed # <<>> => Front(lastUsed) \in Seq(Names)
    BY <1>2, CountFront
  <2> QED BY <1>2, <1>4, <2>1
<1>6. \A n \in Names : values'[n] \in {values[n], NoApp} /\ values' \in [Names -> Apps \cup {NoApp}]
  BY <1>4 DEF CoreInv, Types
<1>7. \/ pc'[t] = "evict" /\ pass'[t] = 2
      \/ pc'[t] = "error" /\ pass'[t] = 1
  BY <1>1, <1>3, <1>4 DEF CoreInv, Types
<1>8. LeavesOthers(t)
  <2>1. \A u \in Threads \ {t} : pc'[u] = pc[u] /\ pass'[u] = pass[u]
    BY <1>4 DEF CoreInv, Types
  <2> QED BY <1>1, <1>3, <2>1 DEF LeavesOthers
<1>9. Types'
  <2>1. pc' \in [Threads -> States] /\ pass' \in [Threads -> 1 .. 3]
    <3>1. "error" \in States /\ 1 \in 1 .. 3
      BY StateNames
    <3>2. pc \in [Threads -> States] /\ pass \in [Threads -> 1 .. 3]
      BY DEF CoreInv, Types
    <3>3. CASE pc' = pc /\ pass' = pass
      BY <3>2, <3>3
    <3>4. CASE pc' = [pc EXCEPT ![t] = "error"] /\ pass' = [pass EXCEPT ![t] = 1]
      BY <3>1, <3>2, <3>4
    <3> QED BY <1>4, <3>3, <3>4
  <2>2. values' \in [Names -> Apps \cup {NoApp}]
    BY <1>4 DEF CoreInv, Types
  <2> QED BY <1>1, <1>5, <2>1, <2>2 DEF CoreInv, Types
<1>10. ValuesInv'
  BY <1>1, <1>6 DEF CoreInv, ValuesInv
<1>11. ThreadInv(t)'
  BY <1>1, <1>2, <1>7, StateNames
     DEF ThreadInv, LockInv, CreateInv, AnswerInv, PresentInv, Accessing, Owns
<1> QED BY <1>3, <1>8, <1>9, <1>10, <1>11, Together

LEMMA EditCore == ASSUME CoreInv, NEW n \in Names, Edit(n) PROVE CoreInv'
<1>1. /\ mtime[n] < MaxChanges /\ mtime' = [mtime EXCEPT ![n] = mtime[n] + 1]
      /\ UNCHANGED <<values, lastUsed, pc, name, pass, app, since, evicted>>
  BY DEF Edit
<1>2. /\ mtime' \in [Names -> 0 .. MaxChanges]
      /\ \A m \in Names : mtime[m] <= mtime'[m] /\ mtime[m] \in Nat /\ mtime'[m] \in Nat
  <2>1. mtime \in [Names -> 0 .. MaxChanges] /\ MaxChanges \in Nat
    BY AppTypes DEF CoreInv, Types
  <2>2. \A k \in 0 .. MaxChanges : k < MaxChanges => k + 1 \in 0 .. MaxChanges /\ k <= k + 1
    BY <2>1
  <2>3. mtime[n] + 1 \in 0 .. MaxChanges
    BY <1>1, <2>1, <2>2
  <2>4. mtime' \in [Names -> 0 .. MaxChanges]
    BY <1>1, <2>1, <2>3
  <2>5. \A m \in Names : mtime[m] <= mtime'[m]
    BY <1>1, <2>1
  <2> QED BY <2>1, <2>4, <2>5
<1>3. Types'
  BY <1>1, <1>2 DEF CoreInv, Types
<1>4. ASSUME NEW a \in [content : 0 .. MaxChanges, stamp : 0 .. MaxChanges + 1], NEW m \in Names,
             ReadFirst(a, mtime[m])
      PROVE  ReadFirst(a, mtime'[m])
  BY <1>2, <1>4 DEF ReadFirst
<1>5. ValuesInv'
  <2>1. \A m \in Names : values[m] # NoApp =>
          values[m] \in [content : 0 .. MaxChanges, stamp : 0 .. MaxChanges + 1]
    BY AppTypes DEF CoreInv, Types
  <2> QED BY <1>1, <1>4, <2>1 DEF CoreInv, ValuesInv
<1>6. ASSUME NEW t \in Threads PROVE ThreadInv(t)'
  <2>1. /\ ThreadInv(t) /\ name[t] \in Names /\ since[t] \in 0 .. MaxChanges
        /\ app[t] \in [content : 0 .. MaxChanges, stamp : 0 .. MaxChanges + 1]
    BY DEF CoreInv, Types
  <2>2. LockInv(t)' /\ AnswerInv(t)' /\ PresentInv(t)'
    BY <1>1, <2>1 DEF ThreadInv, LockInv, AnswerInv, PresentInv, Owns
  <2>3. CreateInv(t)'
    <3>1. mtime[name[t]] \in Nat /\ mtime'[name[t]] \in Nat /\ mtime[name[t]] <= mtime'[name[t]]
      BY <1>2, <2>1
    <3>2. since[t] <= mtime'[name[t]]
      BY <2>1, <3>1 DEF ThreadInv, CreateInv
    <3>3. pc[t] \in {"setremove", "setfront", "setvalue"} => ReadFirst(app[t], mtime'[name[t]])
      BY <1>4, <2>1 DEF ThreadInv, CreateInv
    <3>4. pc[t] = "stamp" => app[t].content <= mtime'[name[t]]
      BY <2>1, <3>1 DEF ThreadInv, CreateInv
    <3>5. pc[t] = "read" => values[name[t]] = NoApp \/ values[name[t]].stamp < mtime'[name[t]]
      <4>1. values[name[t]] # NoApp => values[name[t]].stamp \in 0 .. MaxChanges
        BY <2>1 DEF CoreInv, Types, Apps
      <4> QED BY <2>1, <3>1, <4>1 DEF ThreadInv, CreateInv
    <3> QED BY <1>1, <2>1, <3>2, <3>3, <3>4, <3>5 DEF ThreadInv, CreateInv
  <2> QED BY <2>2, <2>3 DEF ThreadInv
<1>7. OneOwner'
  BY <1>1 DEF CoreInv, OneOwner, Owns
<1> QED BY <1>3, <1>5, <1>6, <1>7 DEF CoreInv

LEMMA CoreStep == CoreInv /\ [Next]_vars => CoreInv'
<1> SUFFICES ASSUME CoreInv, [Next]_vars PROVE CoreInv'
  OBVIOUS
<1>1. CASE Next
  BY <1>1, ArriveCore, GetCore, ItemCore, RemoveCore, FrontCore, CheckCore, LockCore, ReadCore,
     StampCore, InvalidCore, SetCore, ValueCore, StoredCore, EvictCore, EditCore
     DEF Next, Step, Access, Create, Set
<1>2. CASE UNCHANGED vars
  BY <1>2 DEF vars, CoreInv, Types, OneOwner, Owns, ValuesInv, ThreadInv, LockInv, CreateInv,
              AnswerInv, PresentInv
<1> QED BY <1>1, <1>2

-----------------------------------------------------------------------------
(* last_used *)

\* The threads that removed a name from last_used, or did not find it there,
\* and are about to put it in front.
Adding(n) == {t \in Threads : name[t] = n /\ pc[t] \in {"front", "setfront"}}
Busy(n) == {t \in Threads : name[t] = n /\ pc[t] \in {"remove", "front"}}

\* There is no such application, and it is not about to be set.
Absent(n) == /\ values[n] = NoApp
             /\ \A t \in Threads : name[t] = n => pc[t] \notin {"setfront", "setvalue"}

\* A name is in last_used, or about to be, once for each thread at most; once
\* less while it is absent, since its creation does not remove it first.
OrderOf(n) ==
  /\ Count(lastUsed, n) + Cardinality(Adding(n)) <= Cardinality(Threads)
  /\ Absent(n) => /\ Count(lastUsed, n) + Cardinality(Adding(n)) < Cardinality(Threads)
                  /\ Busy(n) # Threads
OrderInv == \A n \in Names : Threads # {} => OrderOf(n)

LEMMA OrderTypes ==
  ASSUME CoreInv, NEW n
  PROVE  /\ IsFiniteSet(Adding(n)) /\ Cardinality(Adding(n)) \in Nat
         /\ Cardinality(Threads) \in Nat /\ Count(lastUsed, n) \in Nat
<1>1. lastUsed \in Seq(Names)
  BY DEF CoreInv, Types
<1>2. Adding(n) \subseteq Threads /\ IsFiniteSet(Threads)
  BY SizeAssumption DEF Adding
<1> QED BY <1>1, <1>2, CountTypes, FS_Subset, FS_CardinalityType

LEMMA SmallerThanThreads ==
  ASSUME NEW A, A \subseteq Threads
  PROVE  /\ IsFiniteSet(A) /\ Cardinality(A) \in Nat /\ Cardinality(Threads) \in Nat
         /\ Cardinality(A) <= Cardinality(Threads)
         /\ A # Threads => Cardinality(A) < Cardinality(Threads)
<1>1. IsFiniteSet(Threads)
  BY SizeAssumption
<1>2. /\ IsFiniteSet(A) /\ Cardinality(A) <= Cardinality(Threads)
      /\ Cardinality(A) = Cardinality(Threads) => A = Threads
  BY <1>1, FS_Subset
<1>3. Cardinality(A) \in Nat /\ Cardinality(Threads) \in Nat
  BY <1>1, <1>2, FS_CardinalityType
<1> QED BY <1>2, <1>3

LEMMA OrderInit == Init => OrderInv
<1> SUFFICES ASSUME Init, NEW n \in Names, Threads # {} PROVE OrderOf(n)
  BY DEF OrderInv
<1>1. Count(lastUsed, n) = 0
  BY CountEmpty DEF Init
<1>2. Adding(n) = {} /\ Busy(n) = {}
  BY DEF Init, Adding, Busy
<1>3. Cardinality(Adding(n)) = 0 /\ Busy(n) # Threads
  BY <1>2, FS_EmptySet
<1>4. Cardinality(Threads) \in Nat /\ Cardinality(Threads) # 0
  BY SizeAssumption, FS_CardinalityType, FS_EmptySet
<1> QED BY <1>1, <1>3, <1>4 DEF OrderOf

\* A step of t.
OthersStay(t) == \A u \in Threads \ {t} : pc'[u] = pc[u] /\ name'[u] = name[u]

\* A step of t that neither adds nor removes anything.
LEMMA QuietOrder ==
  ASSUME CoreInv, OrderInv, NEW t \in Threads, OthersStay(t), lastUsed' = lastUsed,
         pc[t] \notin {"front", "setfront"}, pc'[t] \notin {"front", "setfront"},
         \A n \in Names : values'[n] = NoApp => values[n] = NoApp,
         pc'[t] = "remove" => values'[name'[t]] # NoApp,
         pc[t] = "setvalue" => values'[name[t]] # NoApp
  PROVE  OrderInv'
<1> SUFFICES ASSUME NEW n \in Names, Threads # {} PROVE OrderOf(n)'
  BY DEF OrderInv
<1>0. \A u \in Threads \ {t} : pc'[u] = pc[u] /\ name'[u] = name[u]
  BY DEF OthersStay
<1>1. Adding(n)' = Adding(n)
  BY <1>0 DEF Adding
<1>2. Absent(n)' => Absent(n) /\ Busy(n)' \subseteq Busy(n)
  BY <1>0 DEF Absent, Busy
<1>3. Busy(n) \subseteq Threads
  BY DEF Busy
<1>4. OrderOf(n)
  BY DEF OrderInv
<1> QED BY <1>1, <1>2, <1>3, <1>4 DEF OrderOf

\* What a step of t on last_used does to the count of one name: the names of
\* other requests are not concerned.
LEMMA OtherNames ==
  ASSUME CoreInv, OrderInv, NEW t \in Threads, OthersStay(t), values' = values, name' = name,
         NEW n \in Names \ {name[t]}, Count(lastUsed', n) = Count(lastUsed, n)
  PROVE  OrderOf(n)'
<1>1. \A u \in Threads : u # t => pc'[u] = pc[u]
  BY DEF OthersStay
<1>2. Adding(n)' = Adding(n) /\ Busy(n)' = Busy(n) /\ (Absent(n)' <=> Absent(n))
  BY <1>1 DEF Adding, Busy, Absent
<1>3. OrderOf(n)
  BY DEF OrderInv
<1> QED BY <1>2, <1>3 DEF OrderOf

\* The entry of t is taken out of last_used, if there is one.
LEMMA Removes ==
  ASSUME CoreInv, OrderInv, NEW t \in Threads, OthersStay(t), values' = values, name' = name,
         lastUsed' = RemoveFirst(lastUsed, name[t]),
         \/ pc[t] = "remove" /\ pc'[t] = "front"
         \/ pc[t] = "setremove" /\ pc'[t] = "setfront"
  PROVE  OrderInv'
<1>0. name[t] \in Names /\ lastUsed \in Seq(Names)
  BY DEF CoreInv, Types
<1>1. \A m \in Names : Count(lastUsed', m) =
        IF m = name[t] /\ Count(lastUsed, m) # 0 THEN Count(lastUsed, m) - 1 ELSE Count(lastUsed, m)
  BY <1>0, CountRemove
<1>2. \A m \in Names \ {name[t]} : OrderOf(m)'
  BY <1>1, OtherNames
<1> SUFFICES ASSUME NEW n \in Names, n = name[t], Threads # {} PROVE OrderOf(n)'
  BY <1>2 DEF OrderInv
<1>3. OrderOf(n)
  BY DEF OrderInv
<1>4. /\ \A u \in Threads : u # t => pc'[u] = pc[u]
      /\ name' = name /\ values' = values
  BY DEF OthersStay
<1>5. t \notin Adding(n) /\ Adding(n)' = Adding(n) \cup {t} /\ Adding(n)' \subseteq Threads
  BY <1>4 DEF Adding
<1>6. Absent(n)' => /\ Absent(n) /\ Busy(n)' = Busy(n)
                    /\ Adding(n)' \subseteq Busy(n)
  BY <1>4 DEF Absent, Busy, Adding
<1>7. /\ IsFiniteSet(Adding(n)) /\ Cardinality(Adding(n)) \in Nat
      /\ Cardinality(Threads) \in Nat /\ Count(lastUsed, n) \in Nat
  BY OrderTypes
<1>8. Cardinality(Adding(n)') = Cardinality(Adding(n)) + 1
  BY <1>5, <1>7, FS_AddElement
<1>9. Cardinality(Adding(n)') <= Cardinality(Threads)
  BY <1>5, SmallerThanThreads
<1>10. Absent(n)' => Cardinality(Adding(n)') < Cardinality(Threads) /\ Busy(n)' # Threads
  <2> SUFFICES ASSUME Absent(n)' PROVE Cardinality(Adding(n)') < Cardinality(Threads) /\ Busy(n) # Threads
    BY <1>6
  <2>1. Busy(n) # Threads /\ Busy(n) \subseteq Threads
    BY <1>3, <1>6 DEF OrderOf, Busy
  <2>2. Adding(n)' # Threads
    BY <1>6, <2>1
  <2> QED BY <1>5, <2>1, <2>2, SmallerThanThreads
<1>11. CASE Count(lastUsed, n) # 0
  <2>1. Count(lastUsed', n) = Count(lastUsed, n) - 1
    BY <1>0, <1>1, <1>11
  <2>2. Count(lastUsed', n) + Cardinality(Adding(n)') = Count(lastUsed, n) + Cardinality(Adding(n))
    BY <1>7, <1>8, <2>1
  <2> QED BY <1>3, <1>6, <2>2, <1>10 DEF OrderOf
<1>12. CASE Count(lastUsed, n) = 0
  <2>1. Count(lastUsed', n) = 0
    BY <1>0, <1>1, <1>12
  <2>2. Count(lastUsed', n) + Cardinality(Adding(n)') = Cardinality(Adding(n)')
    BY <1>7, <1>8, <2>1
  <2> QED BY <1>9, <1>10, <2>2 DEF OrderOf
<1> QED BY <1>11, <1>12

\* t puts its name in front.
LEMMA Adds ==
  ASSUME CoreInv, OrderInv, NEW t \in Threads, OthersStay(t), values' = values, name' = name,
         lastUsed' = <<name[t]>> \o lastUsed,
         \/ pc[t] = "front" /\ pc'[t] \in {"check", "done"}
         \/ pc[t] = "setfront" /\ pc'[t] = "setvalue"
  PROVE  OrderInv'
<1>0. name[t] \in Names /\ lastUsed \in Seq(Names)
  BY DEF CoreInv, Types
<1>1. \A m \in Names : Count(lastUsed', m) =
        IF m = name[t] THEN Count(lastUsed, m) + 1 ELSE Count(lastUsed, m)
  BY <1>0, CountPrepend
<1>2. \A m \in Names \ {name[t]} : OrderOf(m)'
  BY <1>1, OtherNames
<1> SUFFICES ASSUME NEW n \in Names, n = name[t], Threads # {} PROVE OrderOf(n)'
  BY <1>2 DEF OrderInv
<1>3. OrderOf(n)
  BY DEF OrderInv
<1>4. /\ \A u \in Threads : u # t => pc'[u] = pc[u]
      /\ name' = name /\ values' = values
  BY DEF OthersStay
<1>5. t \in Adding(n) /\ Adding(n)' = Adding(n) \ {t}
  BY <1>4 DEF Adding
<1>6. Absent(n)' => Absent(n) /\ Busy(n)' \subseteq Busy(n)
  BY <1>4 DEF Absent, Busy
<1>7. /\ IsFiniteSet(Adding(n)) /\ Cardinality(Adding(n)) \in Nat
      /\ Cardinality(Threads) \in Nat /\ Count(lastUsed, n) \in Nat
  BY OrderTypes
<1>8. Cardinality(Adding(n)') = Cardinality(Adding(n)) - 1
  BY <1>5, <1>7, FS_RemoveElement
<1>9. Count(lastUsed', n) = Count(lastUsed, n) + 1
  BY <1>0, <1>1
<1>10. Count(lastUsed', n) + Cardinality(Adding(n)') = Count(lastUsed, n) + Cardinality(Adding(n))
  BY <1>7, <1>8, <1>9
<1>11. Busy(n) \subseteq Threads
  BY DEF Busy
<1> QED BY <1>3, <1>6, <1>10, <1>11 DEF OrderOf

\* A new application goes into last_used without a look for older entries.
LEMMA Creates ==
  ASSUME CoreInv, OrderInv, NEW t \in Threads, OthersStay(t), values' = values, name' = name,
         lastUsed' = lastUsed, values[name[t]] = NoApp,
         pc[t] = "setremove", pc'[t] = "setfront"
  PROVE  OrderInv'
<1>1. \A m \in Names \ {name[t]} : OrderOf(m)'
  BY OtherNames
<1> SUFFICES ASSUME NEW n \in Names, n = name[t], Threads # {} PROVE OrderOf(n)'
  BY <1>1 DEF OrderInv
<1>2. \A u \in Threads : u # t => pc[u] \notin {"setfront", "setvalue"}
  <2>1. \A u \in Threads : pc[u] \in Setting => Owns(u)
    BY StateNames DEF CoreInv, ThreadInv, LockInv, Owns
  <2> QED BY <2>1, StateNames DEF CoreInv, OneOwner
<1>3. Absent(n)
  BY <1>2 DEF Absent
<1>4. Count(lastUsed, n) + Cardinality(Adding(n)) < Cardinality(Threads)
  BY <1>3 DEF OrderInv, OrderOf
<1>5. \A u \in Threads : u # t => pc'[u] = pc[u]
  BY DEF OthersStay
<1>6. t \notin Adding(n) /\ Adding(n)' = Adding(n) \cup {t}
  BY <1>5 DEF Adding
<1>7. ~Absent(n)'
  BY DEF Absent
<1>8. /\ IsFiniteSet(Adding(n)) /\ Cardinality(Adding(n)) \in Nat
      /\ Cardinality(Threads) \in Nat /\ Count(lastUsed, n) \in Nat
  BY OrderTypes
<1>9. Cardinality(Adding(n)') = Cardinality(Adding(n)) + 1
  BY <1>6, <1>8, FS_AddElement
<1>10. Count(lastUsed, n) + Cardinality(Adding(n)') <= Cardinality(Threads)
  BY <1>4, <1>8, <1>9
<1> QED BY <1>7, <1>10 DEF OrderOf

LEMMA EvictOrder ==
  ASSUME CoreInv, OrderInv, NEW t \in Threads, Evict(t) PROVE OrderInv'
<1>1. pc[t] = "evict" /\ name' = name /\ lastUsed \in Seq(Names)
  BY DEF Evict, CoreInv, Types
<1>2. /\ pc'[t] \in {"evict", "error"}
      /\ \A u \in Threads : u # t => pc'[u] = pc[u]
  <2>1. pc' = pc \/ pc' = [pc EXCEPT ![t] = "error"]
    BY DEF Evict, End, Goto
  <2> QED BY <1>1, <2>1 DEF CoreInv, Types
<1>3. \A n \in Names : /\ Adding(n)' = Adding(n) /\ Busy(n)' = Busy(n)
                       /\ t \notin Busy(n)
  BY <1>1, <1>2 DEF Adding, Busy
<1>4. CASE lastUsed = <<>>
  <2>1. lastUsed' = lastUsed /\ values' = values
    BY <1>4 DEF Evict
  <2>2. \A n \in Names : Absent(n)' <=> Absent(n)
    BY <1>1, <1>2, <2>1 DEF Absent
  <2> QED BY <1>3, <2>1, <2>2 DEF OrderInv, OrderOf
<1>5. CASE lastUsed # <<>>
  <2>1. /\ lastUsed' = Front(lastUsed)
        /\ values' = values \/ values' = [values EXCEPT ![Last(lastUsed)] = NoApp]
    BY <1>5 DEF Evict
  <2>2. \A n \in Names : Count(lastUsed', n) =
          IF n = Last(lastUsed) THEN Count(lastUsed, n) - 1 ELSE Count(lastUsed, n)
    BY <1>1, <1>5, <2>1, CountFront
  <2> SUFFICES ASSUME NEW n \in Names, Threads # {} PROVE OrderOf(n)'
    BY DEF OrderInv
  <2>3. OrderOf(n)
    BY DEF OrderInv
  <2>4. /\ Cardinality(Adding(n)) \in Nat
        /\ Cardinality(Threads) \in Nat /\ Count(lastUsed, n) \in Nat
    BY OrderTypes
  <2>5. CASE n = Last(lastUsed)
    <3>1. Count(lastUsed', n) + Cardinality(Adding(n)) < Cardinality(Threads)
      <4>1. Count(lastUsed', n) = Count(lastUsed, n) - 1
        BY <2>2, <2>5
      <4>2. Count(lastUsed, n) + Cardinality(Adding(n)) <= Cardinality(Threads)
        BY <2>3 DEF OrderOf
      <4> QED BY <2>4, <4>1, <4>2
    <3>2. Busy(n)' # Threads
      BY <1>3
    <3>3. Count(lastUsed', n) + Cardinality(Adding(n)) <= Cardinality(Threads)
      BY <2>2, <2>3, <2>4, <2>5 DEF OrderOf
    <3> QED BY <1>3, <3>1, <3>2, <3>3 DEF OrderOf
  <2>6. CASE n # Last(lastUsed)
    <3>1. values'[n] = values[n]
      BY <2>1, <2>6 DEF CoreInv, Types
    <3>2. Absent(n)' <=> Absent(n)
      BY <1>1, <1>2, <3>1 DEF Absent
    <3>3. Count(lastUsed', n) = Count(lastUsed, n)
      BY <2>2, <2>6
    <3> QED BY <1>3, <2>3, <3>2, <3>3 DEF OrderOf
  <2> QED BY <2>5, <2>6
<1> QED BY <1>4, <1>5

LEMMA StepFacts ==
  ASSUME CoreInv, NEW t \in Threads, Step(t)
  PROVE  name' = name /\ OthersStay(t)
<1>1. name' = name
  BY DEF Step, Access, Create, Set, Check, Lock, Get, Item, RemoveUsed, AppendLeft, Read, Stamp,
         Invalid, SetRemove, SetFront, SetValue, Evict, Stored
<1>2. pc' = pc \/ \E p : pc' = [pc EXCEPT ![t] = p]
  BY DEF Step, Access, Create, Set, Check, Lock, Get, Item, RemoveUsed, AppendLeft, Read, Stamp,
         Invalid, SetRemove, SetFront, SetValue, Evict, Stored, End, Goto
<1> QED BY <1>1, <1>2 DEF OthersStay, CoreInv, Types

LEMMA ArriveOrder ==
  ASSUME CoreInv, OrderInv, NEW t \in Threads, NEW m \in Names, Arrive(t, m) PROVE OrderInv'
<1>1. /\ pc[t] \in Ended /\ pc' = [pc EXCEPT ![t] = "get"] /\ name' = [name EXCEPT ![t] = m]
      /\ UNCHANGED <<values, lastUsed>>
  BY DEF Arrive, Goto
<1>2. OthersStay(t) /\ pc'[t] = "get" /\ pc[t] \notin {"front", "setfront", "setvalue"}
  BY <1>1, StateNames DEF OthersStay, CoreInv, Types
<1> QED BY <1>1, <1>2, QuietOrder

LEMMA StepOrder ==
  ASSUME CoreInv, OrderInv, NEW t \in Threads, Step(t) PROVE OrderInv'
<1>0. /\ name' = name /\ OthersStay(t)
      /\ pc \in [Threads -> States] /\ values \in [Names -> Apps \cup {NoApp}] /\ name[t] \in Names
  BY StepFacts DEF CoreInv, Types
<1>1. CASE Get(t)
  <2>1. pc[t] = "get" /\ pc'[t] \in {"item", "read", "lock"} /\ UNCHANGED <<lastUsed, values>>
    BY <1>0, <1>1 DEF Get, Goto
  <2> QED BY <1>0, <2>1, QuietOrder
<1>2. CASE Item(t)
  <2>1. pc[t] = "item" /\ UNCHANGED <<lastUsed, values>>
    BY <1>2 DEF Item
  <2>2. pc'[t] = "error" \/ (pc'[t] = "remove" /\ values[name[t]] # NoApp)
    BY <1>0, <1>2 DEF Item, End, Goto
  <2> QED BY <1>0, <2>1, <2>2, QuietOrder
<1>3. CASE RemoveUsed(t)
  <2>1. /\ pc[t] = "remove" /\ pc'[t] = "front" /\ values' = values
        /\ lastUsed' = RemoveFirst(lastUsed, name[t])
    BY <1>0, <1>3 DEF RemoveUsed, RemoveName, Goto
  <2> QED BY <1>0, <2>1, Removes
<1>4. CASE AppendLeft(t)
  <2>1. /\ pc[t] = "front" /\ pc'[t] \in {"check", "done"} /\ values' = values
        /\ lastUsed' = <<name[t]>> \o lastUsed
    BY <1>0, <1>4 DEF AppendLeft, End, Goto
  <2> QED BY <1>0, <2>1, Adds
<1>5. CASE Check(t)
  <2>1. pc[t] = "check" /\ UNCHANGED <<lastUsed, values>>
    BY <1>5 DEF Check
  <2>2. pc'[t] \in {"lock", "read", "done", "item"}
    <3>1. CASE NeedsReload(t) /\ ~Owns(t)
      BY <1>0, <1>5, <3>1 DEF Check, Goto
    <3>2. CASE NeedsReload(t) /\ Owns(t)
      BY <1>0, <1>5, <3>2 DEF Check, Goto
    <3>3. CASE ~NeedsReload(t) /\ ~Owns(t)
      BY <1>0, <1>5, <3>3 DEF Check, End, Goto
    <3>4. CASE ~NeedsReload(t) /\ Owns(t)
      BY <1>0, <1>5, <3>4 DEF Check, Goto
    <3> QED BY <3>1, <3>2, <3>3, <3>4
  <2> QED BY <1>0, <2>1, <2>2, QuietOrder
<1>6. CASE Lock(t)
  <2>1. pc[t] = "lock" /\ pc'[t] = "get" /\ UNCHANGED <<lastUsed, values>>
    BY <1>0, <1>6 DEF Lock, Goto
  <2> QED BY <1>0, <2>1, QuietOrder
<1>7. CASE Read(t) \/ Stamp(t) \/ Invalid(t)
  <2>1. /\ pc[t] \in {"read", "stamp"} /\ pc'[t] \in {"stamp", "setremove", "invalid"}
        /\ UNCHANGED <<lastUsed, values>>
    BY <1>0, <1>7 DEF Read, Stamp, Invalid, End, Goto
  <2> QED BY <1>0, <2>1, QuietOrder
<1>8. CASE SetRemove(t)
  <2>1. pc[t] = "setremove" /\ pc'[t] = "setfront" /\ values' = values
    BY <1>0, <1>8 DEF SetRemove, Goto
  <2>2. CASE values[name[t]] # NoApp
    <3>1. lastUsed' = RemoveFirst(lastUsed, name[t])
      BY <1>8, <2>2 DEF SetRemove, RemoveName
    <3> QED BY <1>0, <2>1, <3>1, Removes
  <2>3. CASE values[name[t]] = NoApp
    <3>1. lastUsed' = lastUsed
      BY <1>8, <2>3 DEF SetRemove
    <3> QED BY <1>0, <2>1, <2>3, <3>1, Creates
  <2> QED BY <2>2, <2>3
<1>9. CASE SetFront(t)
  <2>1. /\ pc[t] = "setfront" /\ pc'[t] = "setvalue" /\ values' = values
        /\ lastUsed' = <<name[t]>> \o lastUsed
    BY <1>0, <1>9 DEF SetFront, Goto
  <2> QED BY <1>0, <2>1, Adds
<1>10. CASE SetValue(t)
  <2>1. /\ pc[t] = "setvalue" /\ pc'[t] = "evict" /\ lastUsed' = lastUsed
        /\ values' = [values EXCEPT ![name[t]] = app[t]]
    BY <1>0, <1>10 DEF SetValue, Goto
  <2>2. app[t] # NoApp
    <3>1. /\ app[t].stamp <= mtime[name[t]] /\ mtime[name[t]] \in 0 .. MaxChanges
      BY <1>0, <2>1 DEF CoreInv, Types, ThreadInv, CreateInv, ReadFirst
    <3>2. NoApp.stamp = MaxChanges + 1 /\ MaxChanges \in Nat
      BY SizeAssumption DEF NoApp
    <3> QED BY <3>1, <3>2
  <2>3. \A n \in Names : values'[n] = NoApp => values[n] = NoApp
    BY <1>0, <2>1, <2>2
  <2>4. values'[name'[t]] # NoApp /\ values'[name[t]] # NoApp
    BY <1>0, <2>1, <2>2
  <2> QED BY <1>0, <2>1, <2>3, <2>4, QuietOrder
<1>11. CASE Stored(t)
  <2>1. pc[t] = "evict" /\ pc'[t] = "done" /\ UNCHANGED <<lastUsed, values>>
    BY <1>0, <1>11 DEF Stored, End, Goto
  <2> QED BY <1>0, <2>1, QuietOrder
<1>12. CASE Evict(t)
  BY <1>12, EvictOrder
<1> QED BY <1>1, <1>2, <1>3, <1>4, <1>5, <1>6, <1>7, <1>8, <1>9, <1>10, <1>11, <1>12
        DEF Step, Access, Create, Set

\* A dictionary that no thread uses stays empty.
Unused == Threads = {} => lastUsed = <<>>

LEMMA OrderStep ==
  CoreInv /\ OrderInv /\ Unused /\ [Next]_vars => OrderInv' /\ Unused'
<1> SUFFICES ASSUME CoreInv, OrderInv, Unused, [Next]_vars PROVE OrderInv' /\ Unused'
  OBVIOUS
<1>1. ASSUME NEW n \in Names, Edit(n) PROVE OrderInv' /\ Unused'
  BY <1>1 DEF Edit, OrderInv, OrderOf, Adding, Busy, Absent, Unused
<1>2. CASE UNCHANGED vars
  BY <1>2 DEF vars, OrderInv, OrderOf, Adding, Busy, Absent, Unused
<1>3. ASSUME NEW t \in Threads, Step(t) \/ \E n \in Names : Arrive(t, n) PROVE OrderInv' /\ Unused'
  BY <1>3, StepOrder, ArriveOrder DEF Unused
<1> QED BY <1>1, <1>2, <1>3 DEF Next

-----------------------------------------------------------------------------
(* The theorems *)

\* Whoever is in _app_init_lock is alone there, and what it has read from the
\* dictionary stays true; last_used keeps its order under concurrent access.
THEOREM Invariance == Spec => [](CoreInv /\ OrderInv /\ Unused)
<1>1. Init => CoreInv /\ OrderInv /\ Unused
  BY Initially, OrderInit DEF Init, Unused
<1>2. CoreInv /\ OrderInv /\ Unused /\ [Next]_vars => (CoreInv /\ OrderInv /\ Unused)'
  BY CoreStep, OrderStep
<1> QED BY <1>1, <1>2, PTL DEF Spec

\* last_used names an application once for each thread at most, whatever the
\* order in which the threads remove and add it: what they leave behind does
\* not grow with the requests.
THEOREM TypeCorrect == Spec => []TypeOK
<1>1. CoreInv /\ OrderInv /\ Unused => TypeOK
  <2> SUFFICES ASSUME CoreInv, OrderInv, Unused PROVE TypeOK
    OBVIOUS
  <2>1. ASSUME NEW n \in Names PROVE Entries(n) <= Cardinality(Threads)
    <3>1. Entries(n) = Count(lastUsed, n)
      BY DEF Entries, Count, Occurs
    <3>2. /\ Cardinality(Adding(n)) \in Nat /\ Cardinality(Threads) \in Nat
          /\ Count(lastUsed, n) \in Nat
      BY OrderTypes
    <3>3. CASE Threads = {}
      BY <3>1, <3>2, <3>3, CountEmpty, FS_EmptySet DEF Unused
    <3>4. CASE Threads # {}
      BY <3>1, <3>2, <3>4 DEF OrderInv, OrderOf
    <3> QED BY <3>3, <3>4
  <2> QED BY <2>1 DEF CoreInv, Types, TypeOK
<1> QED BY <1>1, Invariance, PTL

\* create_app runs only while the dictionary has no up to date application of
\* that name, however many threads wait for the lock.
THEOREM OneCreationIsEnough == Spec => []CreatedOnce
<1>1. CoreInv => CreatedOnce
  BY DEF CoreInv, ThreadInv, CreateInv, CreatedOnce
<1> QED BY <1>1, Invariance, PTL

\* needs_reload: an answer comes from an application that knows all changes
\* made before the request, or from one whose file was changed between being
\* read and being looked at for its mtime.
THEOREM AnswersAreCurrent == Spec => []CurrentUnlessEditedWhileRead
<1>1. CoreInv => CurrentUnlessEditedWhileRead
  BY DEF CoreInv, ThreadInv, AnswerInv, CurrentUnlessEditedWhileRead
<1> QED BY <1>1, Invariance, PTL

\* The dictionary raises no KeyError or IndexError before the first eviction.
THEOREM ErrorsNeedAnEviction == Spec => []NoErrorWithoutEviction
<1>1. CoreInv => NoErrorWithoutEviction
  BY DEF CoreInv, ThreadInv, PresentInv, NoErrorWithoutEviction
<1> QED BY <1>1, Invariance, PTL
=============================================================================
