------------------------ MODULE InMemoryCacheProofs ------------------------
(***************************************************************************)
(* The bounds on the size of the in-memory cache, for any number of        *)
(* threads, keys and entries.  A thread that has read a size below the     *)
(* limit holds a right to one insertion, and one that has read a full dict *)
(* a right to one eviction; the bounds count the rights still held.  With  *)
(* one thread such a right is used on the dict as it was read, so that the *)
(* oldest entry is the one that leaves.                                    *)
(***************************************************************************)
EXTENDS InMemoryCache, FiniteSetTheorems, SequenceTheorems, TLAPS

\* A thread in set has its key, and an eviction finds an entry to evict: an
\* emptied dict would make next() raise StopIteration.
SetOK ==
    /\ \A t \in Threads : pc[t] # "idle" => key[t] \in Keys
    /\ Evicting # {} => Len(store) >= 1

IInv == TypeOK /\ SetOK /\ BoundedOverrun /\ EvictionIsBounded

N == Cardinality(Threads)

LEMMA ThreadSets ==
    ASSUME NEW S \in SUBSET Threads
    PROVE  /\ IsFiniteSet(S) /\ Cardinality(S) \in Nat /\ N \in Nat
           /\ Cardinality(S) <= N
           /\ \A t \in Threads :
                 /\ t \notin S => Cardinality(S \cup {t}) = Cardinality(S) + 1
                 /\ t \in S => /\ Cardinality(S \ {t}) = Cardinality(S) - 1
                               /\ Cardinality(S) > 0
                 /\ t \notin S => Cardinality(S) < N
<1>1. IsFiniteSet(S) /\ Cardinality(S) \in Nat /\ N \in Nat
      /\ Cardinality(S) <= N
  BY CacheAssumption, FS_Subset, FS_CardinalityType DEF N
<1>2. ASSUME NEW t \in Threads, t \notin S
      PROVE  Cardinality(S \cup {t}) = Cardinality(S) + 1 /\ Cardinality(S) < N
  <2>1. Cardinality(S \cup {t}) = Cardinality(S) + 1
    BY <1>1, <1>2, FS_AddElement
  <2>2. Cardinality(S \cup {t}) <= N
    <3>1. S \cup {t} \subseteq Threads
      OBVIOUS
    <3> QED  BY <3>1, CacheAssumption, FS_Subset DEF N
  <2> QED  BY <1>1, <2>1, <2>2
<1>3. ASSUME NEW t \in Threads, t \in S
      PROVE  Cardinality(S \ {t}) = Cardinality(S) - 1 /\ Cardinality(S) > 0
  <2>1. Cardinality(S \ {t}) = Cardinality(S) - 1
    BY <1>1, <1>3, FS_RemoveElement
  <2>2. Cardinality(S \ {t}) \in Nat
    BY <1>1, FS_Subset, FS_CardinalityType
  <2> QED  BY <1>1, <2>1, <2>2
<1> QED  BY <1>1, <1>2, <1>3

\* Storing a key, present or not.
LEMMA PutLength ==
    ASSUME NEW s \in Seq(Keys), IsInjective(s), NEW k \in Keys
    PROVE  /\ Put(s, k) \in Seq(Keys) /\ IsInjective(Put(s, k))
           /\ Len(s) \in Nat
           /\ Len(Put(s, k)) \in {Len(s), Len(s) + 1}
           /\ k \notin ToSet(s) => Len(Put(s, k)) = Len(s) + 1
<1>1. Len(s) \in Nat /\ DOMAIN s = 1..Len(s)
  BY LenProperties
<1>2. CASE k \in ToSet(s)
  BY <1>1, <1>2 DEF Put
<1>3. CASE k \notin ToSet(s)
  <2> DEFINE v == Append(s, k)
  <2>1. /\ v \in Seq(Keys) /\ Len(v) = Len(s) + 1 /\ v[Len(s) + 1] = k
        /\ \A i \in 1..Len(s) : v[i] = s[i]
    BY AppendProperties
  <2>2. DOMAIN v = 1..(Len(s) + 1)
    BY <2>1, LenProperties
  <2>3. \A i \in 1..Len(s) : s[i] # k
    BY <1>1, <1>3 DEF ToSet
  <2> HIDE DEF v
  <2>4. IsInjective(v)
    <3> SUFFICES ASSUME NEW a \in 1..(Len(s) + 1), NEW b \in 1..(Len(s) + 1),
                        v[a] = v[b]
                 PROVE  a = b
      BY <2>2 DEF IsInjective
    <3>1. CASE a \in 1..Len(s) /\ b \in 1..Len(s)
      BY <1>1, <2>1, <3>1 DEF IsInjective
    <3>2. CASE ~(a \in 1..Len(s) /\ b \in 1..Len(s))
      BY <1>1, <2>1, <2>3, <3>2
    <3> QED  BY <3>1, <3>2
  <2>5. Put(s, k) = v
    BY <1>3 DEF Put, v
  <2> QED  BY <1>1, <2>1, <2>4, <2>5
<1> QED  BY <1>2, <1>3

\* Deleting one entry.
LEMMA RemoveLength ==
    ASSUME NEW s \in Seq(Keys), IsInjective(s), NEW i \in DOMAIN s
    PROVE  /\ RemoveAt(s, i) \in Seq(Keys) /\ IsInjective(RemoveAt(s, i))
           /\ Len(RemoveAt(s, i)) = Len(s) - 1
<1> DEFINE p == SubSeq(s, 1, i - 1)
           q == SubSeq(s, i + 1, Len(s))
           v == p \o q
<1>1. Len(s) \in Nat /\ DOMAIN s = 1..Len(s) /\ i \in 1..Len(s)
      /\ \A j \in 1..Len(s) : s[j] \in Keys
  BY LenProperties, ElementOfSeq
<1>2. /\ p \in Seq(Keys) /\ Len(p) = i - 1
      /\ \A j \in 1..(i - 1) : p[j] = s[j]
  <2>1. /\ p \in Seq(Keys)
        /\ Len(p) = IF 1 <= i - 1 THEN i - 1 - 1 + 1 ELSE 0
        /\ \A j \in 1..(i - 1 - 1 + 1) : p[j] = s[1 + j - 1]
    <3>1. 1 \in Int /\ i - 1 \in Int /\ \A j \in 1..(i - 1) : s[j] \in Keys
      BY <1>1
    <3> QED  BY <3>1, SubSeqProperties
  <2> HIDE DEF p
  <2> QED  BY <1>1, <2>1
<1>3. /\ q \in Seq(Keys) /\ Len(q) = Len(s) - i
      /\ \A j \in 1..(Len(s) - i) : q[j] = s[i + j]
  <2>1. /\ q \in Seq(Keys)
        /\ Len(q) = IF i + 1 <= Len(s) THEN Len(s) - (i + 1) + 1 ELSE 0
        /\ \A j \in 1..(Len(s) - (i + 1) + 1) : q[j] = s[i + 1 + j - 1]
    <3>1. Len(s) \in Int /\ i + 1 \in Int
          /\ \A j \in (i + 1)..Len(s) : s[j] \in Keys
      BY <1>1
    <3> QED  BY <3>1, SubSeqProperties
  <2>2. /\ \A j \in 1..(Len(s) - i) : i + 1 + j - 1 = i + j
        /\ Len(s) - (i + 1) + 1 = Len(s) - i
        /\ i + 1 > Len(s) => Len(s) - i = 0
    BY <1>1
  <2> HIDE DEF q
  <2> QED  BY <1>1, <2>1, <2>2
<1> HIDE DEF p, q
<1>4. /\ v \in Seq(Keys) /\ Len(v) = Len(s) - 1
      /\ \A j \in 1..(Len(s) - 1) :
            v[j] = IF j <= i - 1 THEN s[j] ELSE s[j + 1]
  <2>1. /\ v \in Seq(Keys) /\ Len(v) = Len(p) + Len(q)
        /\ \A j \in 1..(Len(p) + Len(q)) :
              v[j] = IF j <= Len(p) THEN p[j] ELSE q[j - Len(p)]
    BY <1>2, <1>3, ConcatProperties
  <2>2. Len(p) + Len(q) = Len(s) - 1
    BY <1>1, <1>2, <1>3
  <2> HIDE DEF v
  <2>3. ASSUME NEW j \in 1..(Len(s) - 1)
        PROVE  v[j] = IF j <= i - 1 THEN s[j] ELSE s[j + 1]
    <3>1. CASE j <= i - 1
      BY <1>1, <1>2, <2>1, <2>2, <3>1
    <3>2. CASE j > i - 1
      <4>1. v[j] = q[j - (i - 1)]
        BY <1>1, <1>2, <2>1, <2>2, <3>2
      <4>2. j - (i - 1) \in 1..(Len(s) - i) /\ i + (j - (i - 1)) = j + 1
        BY <1>1, <3>2
      <4>3. q[j - (i - 1)] = s[j + 1]
        BY <1>3, <4>2
      <4> QED  BY <1>1, <3>2, <4>1, <4>3
    <3> QED  BY <1>1, <3>1, <3>2
  <2> QED  BY <2>1, <2>2, <2>3
<1> HIDE DEF v
<1>5. DOMAIN v = 1..(Len(s) - 1)
  BY <1>4, LenProperties
<1>6. IsInjective(v)
  <2> SUFFICES ASSUME NEW a \in 1..(Len(s) - 1), NEW b \in 1..(Len(s) - 1),
                      v[a] = v[b]
               PROVE  a = b
    BY <1>5 DEF IsInjective
  <2> DEFINE f(x) == IF x <= i - 1 THEN x ELSE x + 1
  <2>1. f(a) \in 1..Len(s) /\ f(b) \in 1..Len(s)
    BY <1>1
  <2>2. v[a] = s[f(a)] /\ v[b] = s[f(b)]
    BY <1>1, <1>4
  <2>3. f(a) = f(b)
    BY <1>1, <2>1, <2>2 DEF IsInjective
  <2> QED  BY <1>1, <2>3
<1>7. RemoveAt(s, i) = v
  BY DEF RemoveAt, p, q, v
<1> QED  BY <1>4, <1>6, <1>7
-----------------------------------------------------------------------------
(* The inductive invariant *)

LEMMA InitIInv == Init => IInv
<1> SUFFICES ASSUME Init PROVE IInv
  OBVIOUS
<1> USE CacheAssumption DEF Init
<1>1. Len(<<>>) = 0 /\ <<>> \in Seq(Keys) /\ DOMAIN <<>> = {}
  BY EmptySeq
<1>2. TypeOK
  BY <1>1 DEF TypeOK, Steps, Outcomes, IsInjective
<1>3. Inserting = {} /\ Evicting = {}
  BY DEF Inserting, Evicting
<1>4. Cardinality({}) = 0 /\ N \in Nat /\ N # 0
  BY FS_EmptySet, FS_CardinalityType DEF N
<1>5. Len(store) + Cardinality(Inserting) < MaxEntries + Cardinality(Threads)
  BY <1>1, <1>3, <1>4 DEF N
<1> QED
  BY <1>2, <1>3, <1>5 DEF IInv, SetOK, BoundedOverrun, EvictionIsBounded

\* A step of t that leaves the dict alone and takes no new right.
LEMMA QuietStep ==
    ASSUME IInv, TypeOK', store' = store, NEW t \in Threads,
           \A u \in Threads : u # t => pc'[u] = pc[u] /\ key'[u] = key[u]
                                       /\ seen'[u] = seen[u],
           pc'[t] # "idle" => key'[t] \in Keys,
           t \in Inserting' => t \in Inserting,
           t \in Evicting' => t \in Evicting
    PROVE  IInv'
<1>1. Inserting' \subseteq Inserting /\ Evicting' \subseteq Evicting
      /\ Inserting \subseteq Threads /\ Evicting \subseteq Threads
  BY DEF Inserting, Evicting
<1>2. /\ Cardinality(Inserting') <= Cardinality(Inserting)
      /\ Cardinality(Evicting') <= Cardinality(Evicting)
  BY <1>1, ThreadSets, FS_Subset
<1>3. /\ Len(store) \in Nat /\ MaxEntries \in Nat /\ Cardinality(Threads) \in Nat
      /\ Cardinality(Inserting) \in Nat /\ Cardinality(Inserting') \in Nat
      /\ Cardinality(Evicting) \in Nat /\ Cardinality(Evicting') \in Nat
  BY <1>1, CacheAssumption, LenProperties, ThreadSets, FS_CardinalityType
     DEF IInv, TypeOK
<1>4. SetOK'
  BY <1>1 DEF IInv, SetOK
<1>5. BoundedOverrun'
  BY <1>2, <1>3 DEF IInv, BoundedOverrun
<1>6. EvictionIsBounded'
  BY <1>1, <1>2, <1>3 DEF IInv, EvictionIsBounded
<1> QED  BY <1>4, <1>5, <1>6 DEF IInv

\* A frame that ends leaves its thread idle and every other one alone.
LEMMA FinishTypes ==
    ASSUME TypeOK, NEW t \in Threads, NEW how \in Outcomes, Finish(t, how),
           store' \in Seq(Keys), IsInjective(store')
    PROVE  /\ TypeOK'
           /\ pc'[t] = "idle"
           /\ \A u \in Threads : u # t => pc'[u] = pc[u] /\ key'[u] = key[u]
                                          /\ seen'[u] = seen[u]
           /\ Inserting' = Inserting \ {t}
           /\ Evicting' = Evicting \ {t}
<1>1. TypeOK'
  BY DEF TypeOK, Finish, Steps
<1>2. /\ pc'[t] = "idle"
      /\ \A u \in Threads : u # t => pc'[u] = pc[u] /\ key'[u] = key[u]
                                     /\ seen'[u] = seen[u]
  BY DEF TypeOK, Finish
<1> QED  BY <1>1, <1>2 DEF Inserting, Evicting

\* A set that ends without touching the dict.
LEMMA QuietFinish ==
    ASSUME IInv, NEW t \in Threads, NEW how \in Outcomes, Finish(t, how),
           store' = store
    PROVE  IInv'
<1>1. store' \in Seq(Keys) /\ IsInjective(store')
  BY DEF IInv, TypeOK
<1> QED  BY <1>1, FinishTypes, QuietStep DEF IInv

LEMMA LookupIInv ==
    ASSUME IInv, NEW t \in Threads, NEW k \in Keys, Lookup(t, k) PROVE IInv'
<1>1. CASE Present(k)
  BY <1>1, QuietFinish DEF Lookup, Outcomes
<1>2. CASE ~Present(k)
  <2>1. /\ store' = store /\ key' = [key EXCEPT ![t] = k]
        /\ pc' = [pc EXCEPT ![t] = "len"] /\ pc[t] = "idle"
        /\ outcome' = [outcome EXCEPT ![t] = "none"]
        /\ seen' = seen /\ oldest' = oldest
    BY <1>2 DEF Lookup
  <2>2. TypeOK'
    BY <2>1 DEF IInv, TypeOK, Steps, Outcomes
  <2>3. /\ pc'[t] = "len" /\ key'[t] = k
        /\ \A u \in Threads : u # t => pc'[u] = pc[u] /\ key'[u] = key[u]
                                       /\ seen'[u] = seen[u]
    BY <2>1 DEF IInv, TypeOK
  <2>4. t \notin Inserting' /\ t \notin Evicting'
    BY <2>3 DEF Inserting, Evicting
  <2> QED  BY <2>1, <2>2, <2>3, <2>4, QuietStep
<1> QED  BY <1>1, <1>2

LEMMA ReadLenIInv ==
    ASSUME IInv, NEW t \in Threads, ReadLen(t) PROVE IInv'
<1>1. Len(store) \in Nat /\ MaxEntries \in Nat \ {0} /\ N \in Nat
  BY CacheAssumption, LenProperties, ThreadSets DEF IInv, TypeOK
<1>3. CASE Present(key[t])
  BY <1>3, QuietFinish DEF ReadLen, Outcomes
<1>4. CASE ~Present(key[t])
  <2>1. /\ store' = store /\ key' = key /\ pc[t] = "len"
        /\ oldest' = oldest /\ outcome' = outcome
        /\ pc' = [pc EXCEPT ![t] = "compare"]
        /\ seen' = [seen EXCEPT ![t] = Len(store)]
        /\ pc'[t] = "compare" /\ seen'[t] = Len(store)
        /\ \A u \in Threads : u # t => pc'[u] = pc[u] /\ seen'[u] = seen[u]
    BY <1>4 DEF IInv, TypeOK, ReadLen
  <2>2. t \notin Inserting /\ t \notin Evicting
        /\ Inserting \subseteq Threads /\ Evicting \subseteq Threads
    BY <2>1 DEF Inserting, Evicting
  <2>3. SetOK' /\ BoundedOverrun' /\ EvictionIsBounded'
    <3>1. CASE HasRoom(Len(store))
      <4>1. Inserting' = Inserting \cup {t} /\ Evicting' = Evicting
        BY <2>1, <2>2, <3>1 DEF Inserting, Evicting
      <4>2. Len(store) < MaxEntries
        BY <3>1 DEF HasRoom
      <4>3. Cardinality(Inserting') \in Nat /\ Cardinality(Inserting') <= N
        BY <2>2, <4>1, ThreadSets
      <4>4. BoundedOverrun'
        BY <1>1, <2>1, <4>2, <4>3 DEF BoundedOverrun, N
      <4> QED  BY <2>1, <4>1, <4>4 DEF IInv, SetOK, EvictionIsBounded
    <3>2. CASE ~HasRoom(Len(store))
      <4>1. Inserting' = Inserting /\ Evicting' = Evicting \cup {t}
        BY <2>1, <2>2, <3>2 DEF Inserting, Evicting
      <4>2. Len(store) >= MaxEntries /\ Len(store) >= 1
        BY <1>1, <3>2 DEF HasRoom
      <4>3. Cardinality(Evicting') \in Nat /\ Cardinality(Evicting') <= N
        BY <2>2, <4>1, ThreadSets
      <4>4. EvictionIsBounded'
        BY <1>1, <2>1, <4>2, <4>3 DEF EvictionIsBounded, N
      <4>5. SetOK'
        BY <2>1, <4>2 DEF IInv, SetOK
      <4> QED  BY <2>1, <4>1, <4>4, <4>5 DEF IInv, BoundedOverrun
    <3> QED  BY <3>1, <3>2
  <2>4. TypeOK'
    BY <1>1, <2>1 DEF IInv, TypeOK, Steps
  <2> QED  BY <2>3, <2>4 DEF IInv
<1> QED  BY <1>3, <1>4

LEMMA InsertIInv ==
    ASSUME IInv, NEW t \in Threads, Insert(t) PROVE IInv'
<1>1. /\ pc[t] = "compare" /\ HasRoom(seen[t]) /\ store' = Put(store, key[t])
      /\ Finish(t, "stored") /\ key[t] \in Keys
      /\ store \in Seq(Keys) /\ IsInjective(store)
  BY DEF Insert, IInv, SetOK, TypeOK
<1>2. /\ Len(store) \in Nat /\ Len(store') \in {Len(store), Len(store) + 1}
      /\ store' \in Seq(Keys) /\ IsInjective(store')
  BY <1>1, PutLength
<1>3. TypeOK' /\ pc'[t] = "idle"
      /\ (\A u \in Threads : u # t => pc'[u] = pc[u] /\ key'[u] = key[u]
                                     /\ seen'[u] = seen[u])
      /\ Inserting' = Inserting \ {t} /\ Evicting' = Evicting \ {t}
  BY <1>1, <1>2, FinishTypes DEF IInv, Outcomes
<1>4. t \in Inserting /\ Evicting' = Evicting
      /\ Inserting \subseteq Threads /\ Evicting \subseteq Threads
  BY <1>1, <1>3 DEF Inserting, Evicting
<1>5. /\ Cardinality(Inserting') = Cardinality(Inserting) - 1
      /\ Cardinality(Inserting) \in Nat /\ Cardinality(Evicting) \in Nat
      /\ N \in Nat /\ MaxEntries \in Nat
  BY <1>3, <1>4, ThreadSets, CacheAssumption
<1>6. BoundedOverrun'
  BY <1>2, <1>5 DEF IInv, BoundedOverrun, N
<1>7. EvictionIsBounded'
  BY <1>2, <1>4, <1>5 DEF IInv, EvictionIsBounded, N
<1>8. SetOK'
  BY <1>2, <1>3, <1>4 DEF IInv, SetOK
<1> QED  BY <1>3, <1>6, <1>7, <1>8 DEF IInv

LEMMA MakeIteratorIInv ==
    ASSUME IInv, NEW t \in Threads, MakeIterator(t) PROVE IInv'
<1>1. /\ pc[t] = "compare" /\ ~HasRoom(seen[t]) /\ store' = store
      /\ key' = key /\ oldest' = oldest /\ outcome' = outcome
      /\ pc' = [pc EXCEPT ![t] = "next"]
      /\ seen' = [seen EXCEPT ![t] = Len(store)]
  BY DEF MakeIterator
<1>2. TypeOK'
  BY <1>1, LenProperties DEF IInv, TypeOK, Steps
<1>3. /\ pc'[t] = "next" /\ key[t] \in Keys
      /\ \A u \in Threads : u # t => pc'[u] = pc[u] /\ seen'[u] = seen[u]
  BY <1>1 DEF IInv, TypeOK, SetOK
<1>4. t \notin Inserting' /\ t \in Evicting
  BY <1>1, <1>3 DEF Inserting, Evicting
<1> QED  BY <1>1, <1>2, <1>3, <1>4, QuietStep

LEMMA TakeOldestIInv ==
    ASSUME IInv, NEW t \in Threads, TakeOldest(t) PROVE IInv'
<1>1. /\ pc[t] = "next" /\ store' = store
      /\ key' = key /\ seen' = seen /\ outcome' = outcome
      /\ pc' = [pc EXCEPT ![t] = "evict"]
      /\ oldest' = [oldest EXCEPT ![t] = First(store)]
  BY DEF TakeOldest
<1>2. t \in Evicting
  BY <1>1 DEF Evicting
<1>3. First(store) \in Keys
  <2>1. 1 \in 1..Len(store)
    BY <1>2, LenProperties DEF IInv, SetOK, TypeOK
  <2> QED  BY <2>1, ElementOfSeq DEF IInv, TypeOK, First
<1>4. TypeOK'
  BY <1>1, <1>3 DEF IInv, TypeOK, Steps
<1>5. /\ pc'[t] = "evict" /\ key[t] \in Keys
      /\ \A u \in Threads : u # t => pc'[u] = pc[u]
  BY <1>1 DEF IInv, TypeOK, SetOK
<1>6. t \notin Inserting'
  BY <1>5 DEF Inserting
<1> QED  BY <1>1, <1>2, <1>4, <1>5, <1>6, QuietStep

LEMMA EvictIInv ==
    ASSUME IInv, NEW t \in Threads, Evict(t) PROVE IInv'
<1>1. /\ pc[t] = "evict" /\ Finish(t, "stored") /\ key[t] \in Keys
      /\ store \in Seq(Keys) /\ IsInjective(store)
  BY DEF Evict, IInv, SetOK, TypeOK
<1>2. PICK i \in DOMAIN store : store' = Put(RemoveAt(store, i), key[t])
  BY DEF Evict
<1>3. /\ RemoveAt(store, i) \in Seq(Keys) /\ IsInjective(RemoveAt(store, i))
      /\ Len(RemoveAt(store, i)) = Len(store) - 1
  BY <1>1, RemoveLength
<1>4. /\ Len(store) \in Nat /\ Len(store) - 1 \in Nat
      /\ Len(store') \in {Len(store) - 1, Len(store)}
      /\ store' \in Seq(Keys) /\ IsInjective(store')
  <2>1. Len(store) \in Nat /\ Len(RemoveAt(store, i)) \in Nat
    BY <1>1, <1>3, LenProperties
  <2> DEFINE s == RemoveAt(store, i)
  <2>2. /\ Put(s, key[t]) \in Seq(Keys) /\ IsInjective(Put(s, key[t]))
        /\ Len(Put(s, key[t])) \in {Len(s), Len(s) + 1}
    <3> HIDE DEF s
    <3>1. s \in Seq(Keys) /\ IsInjective(s)
      BY <1>3 DEF s
    <3> QED  BY <1>1, <3>1, PutLength
  <2> QED  BY <1>2, <1>3, <2>1, <2>2
<1>5. Len(store') >= 1
  <2> DEFINE s == RemoveAt(store, i)
  <2>1. CASE key[t] \in ToSet(s)
    <3>1. PICK j \in DOMAIN s : s[j] = key[t]
      BY <2>1 DEF ToSet
    <3>2. store' = s
      BY <1>2, <2>1 DEF Put
    <3>3. DOMAIN s = 1..Len(s) /\ Len(s) \in Nat
      BY <1>3, LenProperties
    <3> HIDE DEF s
    <3> QED  BY <3>1, <3>2, <3>3
  <2>2. CASE key[t] \notin ToSet(s)
    <3>1. Len(Put(s, key[t])) = Len(s) + 1 /\ Len(s) \in Nat
      BY <1>1, <1>3, <2>2, PutLength
    <3> QED  BY <1>2, <3>1
  <2> QED  BY <2>1, <2>2
<1>6. TypeOK' /\ pc'[t] = "idle"
      /\ (\A u \in Threads : u # t => pc'[u] = pc[u] /\ key'[u] = key[u]
                                     /\ seen'[u] = seen[u])
      /\ Inserting' = Inserting \ {t} /\ Evicting' = Evicting \ {t}
  BY <1>1, <1>4, FinishTypes DEF IInv, Outcomes
<1>7. t \in Evicting /\ t \notin Inserting /\ Inserting' = Inserting
      /\ Inserting \subseteq Threads /\ Evicting \subseteq Threads
  BY <1>1, <1>6 DEF Inserting, Evicting
<1>8. /\ Cardinality(Evicting') = Cardinality(Evicting) - 1
      /\ Cardinality(Inserting) \in Nat /\ Cardinality(Evicting) \in Nat
      /\ N \in Nat /\ MaxEntries \in Nat
  BY <1>6, <1>7, ThreadSets, CacheAssumption
<1>9. BoundedOverrun'
  BY <1>4, <1>7, <1>8 DEF IInv, BoundedOverrun, N
<1>10. EvictionIsBounded'
  BY <1>4, <1>7, <1>8 DEF IInv, EvictionIsBounded, N
<1>11. SetOK'
  BY <1>5, <1>6 DEF IInv, SetOK
<1> QED  BY <1>6, <1>9, <1>10, <1>11 DEF IInv

LEMMA StepIInv == IInv /\ [Next]_vars => IInv'
<1> SUFFICES ASSUME IInv, [Next]_vars PROVE IInv'
  OBVIOUS
<1>1. ASSUME NEW t \in Threads, NEW k \in Keys, Lookup(t, k) PROVE IInv'
  BY <1>1, LookupIInv
<1>2. ASSUME NEW t \in Threads,
             ReadLen(t) \/ Insert(t) \/ MakeIterator(t) \/ TakeOldest(t) \/ Evict(t)
      PROVE  IInv'
  BY <1>2, ReadLenIInv, InsertIInv, MakeIteratorIInv, TakeOldestIInv, EvictIInv
<1>3. ASSUME NEW t \in Threads, ChangedSize(t) \/ AlreadyEvicted(t) PROVE IInv'
  BY <1>3, QuietFinish DEF ChangedSize, AlreadyEvicted, Outcomes
<1>4. CASE UNCHANGED vars
  BY <1>4 DEF vars, IInv, TypeOK, SetOK, BoundedOverrun, EvictionIsBounded,
              Inserting, Evicting
<1> QED  BY <1>1, <1>2, <1>3, <1>4 DEF Next

LEMMA SpecIInv == Spec => []IInv
BY InitIInv, StepIInv, PTL DEF Spec
-----------------------------------------------------------------------------
(* Theorems *)

\* However many threads race through set, a key is in the dict once and
\* every thread's locals are well typed.
THEOREM TypeCorrect == Spec => []TypeOK
<1>1. IInv => TypeOK
  BY DEF IInv
<1> QED  BY <1>1, SpecIInv, PTL

\* The unlocked capacity test of set (redis_cache.py:103) lets the dict
\* overrun max_entries by less than one entry a thread, whatever the
\* interleaving.
THEOREM OverrunIsBounded == Spec => []BoundedOverrun
<1>1. IInv => BoundedOverrun
  BY DEF IInv
<1> QED  BY <1>1, SpecIInv, PTL

\* Threads evicting at once (redis_cache.py:103-107) shrink a full dict by
\* no more than one entry each.
THEOREM ShrinkIsBounded == Spec => []EvictionIsBounded
<1>1. IInv => EvictionIsBounded
  BY DEF IInv
<1> QED  BY <1>1, SpecIInv, PTL

-----------------------------------------------------------------------------
(* One thread *)

Alone == \A t, u \in Threads : t = u

\* What the thread has read of the dict still holds when it acts on it.
Undisturbed == \A t \in Threads :
    /\ pc[t] = "next" => seen[t] = Len(store)
    /\ pc[t] = "evict" => Present(oldest[t])
    /\ outcome[t] \notin {"RuntimeError", "KeyError"}

LEMMA FinishUndisturbed ==
    ASSUME Alone, IInv, NEW t \in Threads, NEW how, Finish(t, how),
           how \notin {"RuntimeError", "KeyError"}
    PROVE  Undisturbed'
<1>1. \A u \in Threads : pc'[u] = "idle" /\ outcome'[u] = how
  BY DEF Alone, Finish, IInv, TypeOK
<1> QED
  BY <1>1 DEF Undisturbed

LEMMA StepUndisturbed ==
    ASSUME Alone, IInv, Undisturbed, [Next]_vars PROVE Undisturbed'
<1>1. CASE UNCHANGED vars
  BY <1>1 DEF vars, Undisturbed, Present
<1>2. ASSUME NEW t \in Threads, NEW k \in Keys, Lookup(t, k) PROVE Undisturbed'
  <2>1. CASE Finish(t, "hit")
    BY <2>1, FinishUndisturbed
  <2>2. CASE ~Finish(t, "hit")
    <3>1. pc'[t] = "len" /\ outcome'[t] = "none"
      BY <1>2, <2>2 DEF Lookup, IInv, TypeOK
    <3> QED
      BY <3>1 DEF Alone, Undisturbed
  <2> QED
    BY <2>1, <2>2
<1>3. ASSUME NEW t \in Threads, ReadLen(t) PROVE Undisturbed'
  <2>1. CASE Finish(t, "stored")
    BY <2>1, FinishUndisturbed
  <2>2. CASE ~Finish(t, "stored")
    <3>1. pc'[t] = "compare" /\ outcome' = outcome
      BY <1>3, <2>2 DEF ReadLen, IInv, TypeOK
    <3> QED
      BY <3>1 DEF Alone, Undisturbed
  <2> QED
    BY <2>1, <2>2
<1>4. ASSUME NEW t \in Threads, Insert(t) \/ Evict(t) PROVE Undisturbed'
  BY <1>4, FinishUndisturbed DEF Insert, Evict
<1>5. ASSUME NEW t \in Threads, MakeIterator(t) PROVE Undisturbed'
  <2>1. pc'[t] = "next" /\ seen'[t] = Len(store') /\ outcome' = outcome
    BY <1>5 DEF MakeIterator, IInv, TypeOK
  <2> QED
    BY <2>1 DEF Alone, Undisturbed
<1>6. ASSUME NEW t \in Threads, TakeOldest(t) PROVE Undisturbed'
  <2>1. store \in Seq(Keys) /\ Len(store) >= 1
    BY <1>6 DEF TakeOldest, IInv, SetOK, TypeOK, Evicting
  <2>2. Present(store[1])
    BY <2>1 DEF Present, ToSet
  <2>3. /\ pc'[t] = "evict" /\ oldest'[t] = store[1]
        /\ store' = store /\ outcome' = outcome
    BY <1>6 DEF TakeOldest, First, IInv, TypeOK
  <2>4. Present(oldest[t])'
    BY <2>2, <2>3 DEF Present
  <2> QED
    BY <2>3, <2>4 DEF Alone, Undisturbed
<1>7. ASSUME NEW t \in Threads PROVE ~ChangedSize(t) /\ ~AlreadyEvicted(t)
  BY DEF ChangedSize, AlreadyEvicted, Undisturbed
<1> QED
  BY <1>1, <1>2, <1>3, <1>4, <1>5, <1>6, <1>7 DEF Next

\* In a process with one worker thread the class keeps its word on its size,
\* "Bounded by max_entries".
THEOREM OneThreadIsBounded ==
    ASSUME N = 1 PROVE Spec => []BoundedByMaxEntries
<1>1. ASSUME IInv PROVE BoundedByMaxEntries
  <2>1. Inserting \in SUBSET Threads
    BY DEF Inserting
  <2>2. Cardinality(Inserting) \in Nat
    BY <2>1, ThreadSets
  <2>3. Len(store) \in Nat
    BY <1>1, LenProperties DEF IInv, TypeOK
  <2> QED
    BY <1>1, <2>2, <2>3, CacheAssumption
    DEF IInv, BoundedOverrun, BoundedByMaxEntries, N
<1> QED
  BY <1>1, SpecIInv, PTL

\* In a process with one worker thread no triage fails because of the cache.
THEOREM OneThreadNeverRaises ==
    ASSUME Alone PROVE Spec => []SetNeverRaises
<1>1. Init => Undisturbed
  BY DEF Init, Undisturbed
<1>2. IInv /\ Undisturbed /\ [Next]_vars => Undisturbed'
  BY Alone, StepUndisturbed
<1>3. Undisturbed => SetNeverRaises
  BY DEF Undisturbed, SetNeverRaises
<1> QED
  BY <1>1, <1>2, <1>3, SpecIInv, PTL DEF Spec
-----------------------------------------------------------------------------
(* The order of eviction, with one thread *)

\* A prefix, entry by entry.
LEMMA PrefixByEntries ==
    ASSUME NEW s \in Seq(Keys), NEW d \in Seq(Keys), Len(s) <= Len(d),
           \A i \in 1..Len(s) : d[i] = s[i]
    PROVE  IsPrefix(s, d)
<1>1. Len(s) \in Nat /\ Len(d) \in Nat
  BY LenProperties
<1>2. /\ \A i \in 1..Len(s) : s[i] \in Keys
      /\ \A i \in 1..Len(s) : d[i] \in Keys
  BY <1>1, ElementOfSeq
<1>3. /\ SubSeq(s, 1, Len(s)) \in Seq(Keys)
      /\ Len(SubSeq(s, 1, Len(s))) = Len(s)
      /\ \A i \in 1..Len(s) : SubSeq(s, 1, Len(s))[i] = s[i]
  <2>1. \A m, n \in Int : (\A i \in m..n : s[i] \in Keys) =>
           /\ SubSeq(s, m, n) \in Seq(Keys)
           /\ Len(SubSeq(s, m, n)) = IF m <= n THEN n - m + 1 ELSE 0
           /\ \A i \in 1..(n - m + 1) : SubSeq(s, m, n)[i] = s[m + i - 1]
    BY SubSeqProperties
  <2> QED  BY <1>1, <1>2, <2>1
<1>4. /\ SubSeq(d, 1, Len(s)) \in Seq(Keys)
      /\ Len(SubSeq(d, 1, Len(s))) = Len(s)
      /\ \A i \in 1..Len(s) : SubSeq(d, 1, Len(s))[i] = d[i]
  <2>1. \A m, n \in Int : (\A i \in m..n : d[i] \in Keys) =>
           /\ SubSeq(d, m, n) \in Seq(Keys)
           /\ Len(SubSeq(d, m, n)) = IF m <= n THEN n - m + 1 ELSE 0
           /\ \A i \in 1..(n - m + 1) : SubSeq(d, m, n)[i] = d[m + i - 1]
    BY SubSeqProperties
  <2> QED  BY <1>1, <1>2, <2>1
<1>5. SubSeq(s, 1, Len(s)) = SubSeq(d, 1, Len(s))
  <2> DEFINE a == SubSeq(s, 1, Len(s))
             b == SubSeq(d, 1, Len(s))
  <2>1. a \in Seq(Keys) /\ b \in Seq(Keys) /\ Len(a) = Len(b)
        /\ \A i \in 1..Len(a) : a[i] = b[i]
    BY <1>3, <1>4
  <2> HIDE DEF a, b
  <2>2. a = b
    BY <2>1, SeqEqual
  <2> QED  BY <2>2 DEF a, b
<1> QED  BY <1>5 DEF IsPrefix

\* Storing a key adds it at the end, if anything.
LEMMA PutKeepsPlaces ==
    ASSUME NEW s \in Seq(Keys), NEW k \in Keys
    PROVE  IsPrefix(s, Put(s, k))
<1>1. Len(s) \in Nat
  BY LenProperties
<1>2. CASE k \in ToSet(s)
  BY <1>1, <1>2, PrefixByEntries DEF Put
<1>3. CASE k \notin ToSet(s)
  <2>1. /\ Append(s, k) \in Seq(Keys) /\ Len(Append(s, k)) = Len(s) + 1
        /\ \A i \in 1..Len(s) : Append(s, k)[i] = s[i]
    BY AppendProperties
  <2> DEFINE v == Append(s, k)
  <2> HIDE DEF v
  <2>2. IsPrefix(s, v)
    <3>1. v \in Seq(Keys) /\ Len(s) <= Len(v) /\ \A i \in 1..Len(s) : v[i] = s[i]
      BY <1>1, <2>1 DEF v
    <3> QED  BY <3>1, PrefixByEntries
  <2> QED  BY <1>3, <2>2 DEF Put, v
<1> QED  BY <1>2, <1>3

\* Deleting the first entry moves every other one place forward.
LEMMA RemoveOldestEntry ==
    ASSUME NEW s \in Seq(Keys), s # <<>>
    PROVE  RemoveAt(s, 1) = Tail(s) /\ Tail(s) \in Seq(Keys)
<1>1. Len(s) \in Nat /\ Len(s) >= 1 /\ \A i \in 1..Len(s) : s[i] \in Keys
  BY LenProperties, EmptySeq, ElementOfSeq
<1>2. \A m, n \in Int : (\A i \in m..n : s[i] \in Keys) =>
           /\ SubSeq(s, m, n) \in Seq(Keys)
           /\ Len(SubSeq(s, m, n)) = IF m <= n THEN n - m + 1 ELSE 0
           /\ \A i \in 1..(n - m + 1) : SubSeq(s, m, n)[i] = s[m + i - 1]
  BY SubSeqProperties
<1>3. SubSeq(s, 1, 0) = <<>>
  <2>1. SubSeq(s, 1, 0) \in Seq(Keys) /\ Len(SubSeq(s, 1, 0)) = 0
    <3>1. \A i \in 1..0 : s[i] \in Keys
      OBVIOUS
    <3> QED  BY <1>2, <3>1
  <2> QED  BY <2>1, EmptySeq
<1>4. /\ SubSeq(s, 2, Len(s)) \in Seq(Keys)
      /\ Len(SubSeq(s, 2, Len(s))) = Len(s) - 1
      /\ \A i \in 1..(Len(s) - 1) : SubSeq(s, 2, Len(s))[i] = s[i + 1]
  <2>1. \A i \in 2..Len(s) : s[i] \in Keys
    BY <1>1
  <2>2. /\ SubSeq(s, 2, Len(s)) \in Seq(Keys)
        /\ Len(SubSeq(s, 2, Len(s))) = IF 2 <= Len(s) THEN Len(s) - 2 + 1 ELSE 0
        /\ \A i \in 1..(Len(s) - 2 + 1) : SubSeq(s, 2, Len(s))[i] = s[2 + i - 1]
    BY <1>1, <1>2, <2>1
  <2> DEFINE a == SubSeq(s, 2, Len(s))
  <2> HIDE DEF a
  <2>3. /\ a \in Seq(Keys)
        /\ Len(a) = IF 2 <= Len(s) THEN Len(s) - 2 + 1 ELSE 0
        /\ \A i \in 1..(Len(s) - 2 + 1) : a[i] = s[2 + i - 1]
    BY <2>2 DEF a
  <2>4. Len(a) = Len(s) - 1 /\ Len(s) - 2 + 1 = Len(s) - 1
    <3>1. Len(a) \in Nat
      BY <2>3, LenProperties
    <3>2. \A n, m \in Nat : n >= 1 /\ m = (IF 2 <= n THEN n - 2 + 1 ELSE 0)
                              => m = n - 1 /\ n - 2 + 1 = n - 1
      OBVIOUS
    <3> QED  BY <1>1, <2>3, <3>1, <3>2, Zenon
  <2>5. \A i \in 1..(Len(s) - 1) : a[i] = s[i + 1]
    <3>1. \A i \in 1..(Len(s) - 1) : 2 + i - 1 = i + 1
      BY <1>1
    <3> QED  BY <2>3, <2>4, <3>1
  <2> QED  BY <2>3, <2>4, <2>5 DEF a
<1>5. /\ Tail(s) \in Seq(Keys) /\ Len(Tail(s)) = Len(s) - 1
      /\ \A i \in 1..Len(Tail(s)) : Tail(s)[i] = s[i + 1]
  BY HeadTailProperties
<1>6. SubSeq(s, 2, Len(s)) = Tail(s)
  <2> DEFINE a == SubSeq(s, 2, Len(s))
             b == Tail(s)
  <2>1. a \in Seq(Keys) /\ b \in Seq(Keys) /\ Len(a) = Len(b)
        /\ \A i \in 1..Len(a) : a[i] = b[i]
    BY <1>4, <1>5
  <2> HIDE DEF a, b
  <2>2. a = b
    BY <2>1, SeqEqual
  <2> QED  BY <2>2 DEF a, b
<1>7. RemoveAt(s, 1) = SubSeq(s, 1, 0) \o SubSeq(s, 2, Len(s))
  BY DEF RemoveAt
<1> QED  BY <1>3, <1>5, <1>6, <1>7, ConcatEmptySeq

\* An eviction under way found the dict full, and it is still as it was:
\* its first entry is the one to evict.
Full ==
    \A t \in Threads :
        /\ pc[t] = "compare" => seen[t] = Len(store)
        /\ pc[t] \in {"next", "evict"} => Len(store) = MaxEntries
        /\ pc[t] = "evict" => oldest[t] = store[1]

\* A lone thread never overruns the limit.
LEMMA AloneIsBounded == ASSUME Alone, IInv PROVE Len(store) <= MaxEntries
<1>1. PICK t \in Threads : Threads = {t}
  BY CacheAssumption DEF Alone
<1>2. Cardinality(Threads) = 1
  BY <1>1, FS_Singleton
<1>3. Inserting \in SUBSET Threads
  BY DEF Inserting
<1>4. Cardinality(Inserting) \in Nat /\ Len(store) \in Nat /\ MaxEntries \in Nat
  BY <1>3, ThreadSets, LenProperties, CacheAssumption DEF IInv, TypeOK
<1> QED  BY <1>2, <1>4 DEF IInv, BoundedOverrun

LEMMA FinishFull ==
    ASSUME Alone, IInv, NEW t \in Threads, NEW how, Finish(t, how)
    PROVE  Full'
<1>1. \A u \in Threads : pc'[u] = "idle"
  BY DEF Alone, Finish, IInv, TypeOK
<1> QED  BY <1>1 DEF Full

LEMMA StepFull ==
    ASSUME Alone, IInv, Full, [Next]_vars PROVE Full'
<1>1. CASE UNCHANGED vars
  BY <1>1 DEF vars, Full
<1>2. ASSUME NEW t \in Threads, NEW k \in Keys, Lookup(t, k) PROVE Full'
  <2>1. CASE Finish(t, "hit")
    BY <2>1, FinishFull
  <2>2. CASE ~Finish(t, "hit")
    <3>1. pc'[t] = "len"
      BY <1>2, <2>2 DEF Lookup, IInv, TypeOK
    <3> QED  BY <3>1 DEF Alone, Full
  <2> QED  BY <2>1, <2>2
<1>3. ASSUME NEW t \in Threads, ReadLen(t) PROVE Full'
  <2>1. CASE Finish(t, "stored")
    BY <2>1, FinishFull
  <2>2. CASE ~Finish(t, "stored")
    <3>1. pc'[t] = "compare" /\ seen'[t] = Len(store) /\ store' = store
      BY <1>3, <2>2 DEF ReadLen, IInv, TypeOK
    <3> QED  BY <3>1 DEF Alone, Full
  <2> QED  BY <2>1, <2>2
<1>4. ASSUME NEW t \in Threads,
             Insert(t) \/ Evict(t) \/ ChangedSize(t) \/ AlreadyEvicted(t)
      PROVE  Full'
  BY <1>4, FinishFull DEF Insert, Evict, ChangedSize, AlreadyEvicted
<1>5. ASSUME NEW t \in Threads, MakeIterator(t) PROVE Full'
  <2>1. /\ pc'[t] = "next" /\ store' = store
        /\ pc[t] = "compare" /\ ~(seen[t] < MaxEntries)
    BY <1>5 DEF MakeIterator, HasRoom, IInv, TypeOK
  <2>2. seen[t] = Len(store) /\ Len(store) <= MaxEntries
    BY <2>1, AloneIsBounded DEF Full
  <2>3. Len(store) \in Nat /\ MaxEntries \in Nat
    BY LenProperties, CacheAssumption DEF IInv, TypeOK
  <2>4. Len(store) = MaxEntries
    BY <2>1, <2>2, <2>3
  <2> QED  BY <2>1, <2>4 DEF Alone, Full
<1>6. ASSUME NEW t \in Threads, TakeOldest(t) PROVE Full'
  <2>1. /\ pc'[t] = "evict" /\ store' = store /\ oldest'[t] = store[1]
        /\ pc[t] = "next"
    BY <1>6 DEF TakeOldest, First, IInv, TypeOK
  <2> QED  BY <2>1 DEF Alone, Full
<1> QED  BY <1>1, <1>2, <1>3, <1>4, <1>5, <1>6 DEF Next

OldestOut ==
    \/ IsPrefix(store, store')
    \/ /\ Len(store) = MaxEntries
       /\ IsPrefix(Tail(store), store')

LEMMA EvictsOldest ==
    ASSUME IInv, Full, NEW t \in Threads, Evict(t)
    PROVE  OldestOut
<1>1. /\ store \in Seq(Keys) /\ IsInjective(store) /\ key[t] \in Keys
      /\ pc[t] = "evict"
  BY DEF Evict, IInv, TypeOK, SetOK
<1>2. PICK i \in DOMAIN store :
        store[i] = oldest[t] /\ store' = Put(RemoveAt(store, i), key[t])
  BY DEF Evict
<1>3. Len(store) = MaxEntries /\ oldest[t] = store[1]
  BY <1>1 DEF Full
<1>4. 1 \in DOMAIN store /\ store # <<>>
  BY <1>1, <1>2, LenProperties, EmptySeq
<1>5. i = 1
  BY <1>1, <1>2, <1>3, <1>4 DEF IsInjective
<1>6. store' = Put(Tail(store), key[t]) /\ Tail(store) \in Seq(Keys)
  BY <1>1, <1>2, <1>4, <1>5, RemoveOldestEntry
<1>7. IsPrefix(Tail(store), store')
  BY <1>1, <1>6, PutKeepsPlaces
<1> QED  BY <1>3, <1>7 DEF OldestOut

\* In a process with one worker thread an entry is only ever evicted from a
\* full dict, and it is the one stored first: "simple insertion-order
\* eviction" (redis_cache.py:90-91, 103-107).
THEOREM OneThreadEvictsInOrder ==
    ASSUME Alone PROVE Spec => InsertionOrderEviction
<1>1. Init => Full
  BY DEF Init, Full
<1>2. IInv /\ Full /\ [Next]_vars => Full'
  BY Alone, StepFull
<1>3. IInv /\ Full /\ [Next]_vars => [OldestOut]_store
  <2> SUFFICES ASSUME IInv, Full, [Next]_vars, store' # store
               PROVE  OldestOut
    OBVIOUS
  <2>1. PICK t \in Threads : Insert(t) \/ Evict(t)
    BY DEF Next, vars, Lookup, ReadLen, MakeIterator, TakeOldest, ChangedSize,
           AlreadyEvicted
  <2>2. CASE Insert(t)
    <3>1. store' = Put(store, key[t]) /\ store \in Seq(Keys) /\ key[t] \in Keys
      BY <2>2 DEF Insert, IInv, TypeOK, SetOK
    <3> QED  BY <3>1, PutKeepsPlaces DEF OldestOut
  <2>3. CASE Evict(t)
    BY <2>3, EvictsOldest
  <2> QED  BY <2>1, <2>2, <2>3
<1> QED  BY <1>1, <1>2, <1>3, SpecIInv, PTL
         DEF Spec, InsertionOrderEviction, OldestOut
=============================================================================
