--------------------------- MODULE InMemoryCache ---------------------------
(***************************************************************************)
(* InMemoryDecisionCache (adapters/redis_cache.py), shared by the worker   *)
(* threads that run TriageService.triage in one process.  No lock guards   *)
(* it.  The interpreter runs the body of get and set in pieces: a thread   *)
(* may lose the interpreter lock after any of the calls len(), iter() and  *)
(* next(), and keeps what it has read by then.  Each action is the code    *)
(* from one such point to the next.                                        *)
(*                                                                         *)
(* The dict is the sequence of its keys in insertion order.  Values are    *)
(* left out: what a process stores under a key is a function of the key    *)
(* (Triage.tla is about the values).                                       *)
(***************************************************************************)
EXTENDS Integers, Sequences, SequencesExt, FiniteSets

CONSTANTS Threads, Keys, MaxEntries,
          NoKey           \* what a thread holds before it has read a key

ASSUME CacheAssumption ==
    /\ IsFiniteSet(Threads) /\ Threads # {}
    /\ MaxEntries \in Nat \ {0}
    /\ NoKey \notin Keys

VARIABLES
    store,     \* the keys of _store, oldest first
    pc,        \* thread -> the call it is about to make
    key,       \* thread -> the key it looks up or sets
    seen,      \* thread -> the size of the dict it read last
    oldest,    \* thread -> the key next() gave it
    outcome    \* thread -> how its last triage ended, "none" while it runs

vars == <<store, pc, key, seen, oldest, outcome>>

Present(k) == k \in ToSet(store)

\* Mutant: `>` for `>=` in the capacity test.
HasRoomOffByOne(size) == size <= MaxEntries

\* Mutant: the new entry is counted twice.
HasRoomReserving(size) == size + 1 < MaxEntries

HasRoom(size) == size < MaxEntries

\* Mutant: a key that is present gets a second place.
PutAgain(dict, k) == Append(dict, k)

\* Assigning to a key already present keeps its place in the order.
Put(dict, k) == IF k \in ToSet(dict) THEN dict ELSE Append(dict, k)

\* Mutant: the newest entry goes first, as dict.popitem() does.
FirstAsPopitem(dict) == dict[Len(dict)]

First(dict) == dict[1]
-----------------------------------------------------------------------------
Init ==
    /\ store = <<>>
    /\ pc = [t \in Threads |-> "idle"]
    /\ key = [t \in Threads |-> NoKey]
    /\ seen = [t \in Threads |-> 0]
    /\ oldest = [t \in Threads |-> NoKey]
    /\ outcome = [t \in Threads |-> "none"]

\* The frame of get or set ends, and its locals with it.
Finish(t, how) ==
    /\ pc' = [pc EXCEPT ![t] = "idle"]
    /\ outcome' = [outcome EXCEPT ![t] = how]
    /\ key' = [key EXCEPT ![t] = NoKey]
    /\ seen' = [seen EXCEPT ![t] = 0]
    /\ oldest' = [oldest EXCEPT ![t] = NoKey]

\* get: one dict lookup.  On a miss the thread goes on to predict and set.
Lookup(t, k) ==
    /\ pc[t] = "idle"
    /\ \/ Present(k) /\ Finish(t, "hit")
       \/ /\ ~Present(k)
          /\ key' = [key EXCEPT ![t] = k]
          /\ pc' = [pc EXCEPT ![t] = "len"]
          /\ outcome' = [outcome EXCEPT ![t] = "none"]
          /\ UNCHANGED <<seen, oldest>>
    /\ UNCHANGED store

\* set, up to len(): a key stored meanwhile short-circuits the `and`, and
\* its value is overwritten at once.
ReadLen(t) ==
    /\ pc[t] = "len"
    /\ \/ Present(key[t]) /\ Finish(t, "stored")
       \/ /\ ~Present(key[t])
          /\ seen' = [seen EXCEPT ![t] = Len(store)]
          /\ pc' = [pc EXCEPT ![t] = "compare"]
          /\ UNCHANGED <<key, oldest, outcome>>
    /\ UNCHANGED store

Insert(t) ==
    /\ pc[t] = "compare"
    /\ HasRoom(seen[t])
    /\ store' = Put(store, key[t])
    /\ Finish(t, "stored")

\* Mutant: the key is stored before the iterator is advanced.
MakeIteratorAndInsert(t) ==
    /\ pc[t] = "compare"
    /\ ~HasRoom(seen[t])
    /\ seen' = [seen EXCEPT ![t] = Len(store)]
    /\ store' = Put(store, key[t])
    /\ pc' = [pc EXCEPT ![t] = "next"]
    /\ UNCHANGED <<key, oldest, outcome>>

\* iter(self._store) remembers the size of the dict it was made from.
MakeIterator(t) ==
    /\ pc[t] = "compare"
    /\ ~HasRoom(seen[t])
    /\ seen' = [seen EXCEPT ![t] = Len(store)]
    /\ pc' = [pc EXCEPT ![t] = "next"]
    /\ UNCHANGED <<store, key, oldest, outcome>>

\* next(): the first entry now, unless the dict changed size since iter().
TakeOldest(t) ==
    /\ pc[t] = "next"
    /\ seen[t] = Len(store)
    /\ oldest' = [oldest EXCEPT ![t] = First(store)]
    /\ pc' = [pc EXCEPT ![t] = "evict"]
    /\ UNCHANGED <<store, key, seen, outcome>>

ChangedSize(t) ==
    /\ pc[t] = "next"
    /\ seen[t] # Len(store)
    /\ Finish(t, "RuntimeError")
    /\ UNCHANGED store

\* del and the assignment that follows it: no call between them.
Evict(t) ==
    /\ pc[t] = "evict"
    /\ \E i \in DOMAIN store :
          /\ store[i] = oldest[t]
          /\ store' = Put(RemoveAt(store, i), key[t])
    /\ Finish(t, "stored")

AlreadyEvicted(t) ==
    /\ pc[t] = "evict"
    /\ ~Present(oldest[t])
    /\ Finish(t, "KeyError")
    /\ UNCHANGED store

Next ==
    \E t \in Threads :
        \/ \E k \in Keys : Lookup(t, k)
        \/ ReadLen(t) \/ Insert(t) \/ MakeIterator(t)
        \/ TakeOldest(t) \/ ChangedSize(t)
        \/ Evict(t) \/ AlreadyEvicted(t)

Spec == Init /\ [][Next]_vars
-----------------------------------------------------------------------------
(* Properties *)

Steps == {"idle", "len", "compare", "next", "evict"}

Outcomes == {"none", "hit", "stored", "RuntimeError", "KeyError"}

\* Threads that have decided to insert without evicting.
Inserting == {t \in Threads : pc[t] = "compare" /\ HasRoom(seen[t])}

\* Threads that have decided to evict.
Evicting ==
    {t \in Threads :
        \/ pc[t] = "compare" /\ ~HasRoom(seen[t])
        \/ pc[t] \in {"next", "evict"}}

\* Type invariant; a dict holds a key once.
TypeOK ==
    /\ store \in Seq(Keys)
    /\ IsInjective(store)
    /\ pc \in [Threads -> Steps]
    /\ key \in [Threads -> Keys \cup {NoKey}]
    /\ seen \in [Threads -> Nat]
    /\ oldest \in [Threads -> Keys \cup {NoKey}]
    /\ outcome \in [Threads -> Outcomes]

\* The class's own claim, "Bounded by max_entries" (redis_cache.py:90).
\* Refuted for two threads by MCCacheOverrun.cfg.
BoundedByMaxEntries == Len(store) <= MaxEntries

\* The bound that survives the race between the capacity test and the
\* insertion: each of the other threads can have read a size below the
\* limit before the dict filled up, so it can overrun the limit by at most
\* one entry a thread, and never drifts further (set, redis_cache.py:103-107).
BoundedOverrun ==
    Len(store) + Cardinality(Inserting) < MaxEntries + Cardinality(Threads)

\* Threads that set the same new key at once each evict an entry for it, so
\* a full dict can shrink; but by no more than one entry for each thread
\* still to evict or done evicting (set, redis_cache.py:103-107).
EvictionIsBounded ==
    Evicting # {} =>
        Len(store) + Cardinality(Threads)
            >= MaxEntries + Cardinality(Evicting)

\* With one thread an entry leaves the dict only when it is full, and it is
\* the one inserted first: "simple insertion-order eviction"
\* (redis_cache.py:90-91).
InsertionOrderEviction ==
    [][\/ IsPrefix(store, store')
       \/ /\ Len(store) = MaxEntries
          /\ IsPrefix(Tail(store), store')]_store

\* set swallows backend errors by contract (interfaces.py:45): no triage
\* fails because of the cache.
SetNeverRaises ==
    \A t \in Threads : outcome[t] \notin {"RuntimeError", "KeyError"}
=============================================================================
