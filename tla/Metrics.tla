------------------------------- MODULE Metrics -------------------------------
(***************************************************************************)
(* MetricsRegistry (api/metrics.py): four counters under one lock, updated *)
(* and read by the worker threads and by the event loop.  `x += 1` is a    *)
(* load and a store, and a snapshot reads its fields one after the other,  *)
(* so that what the lock is there for can go wrong without it.             *)
(***************************************************************************)
EXTENDS Integers, FiniteSets, Functions

CONSTANTS Threads,
          Actions,            \* the keys of _by_action
          MaxRecords          \* bound on what is counted

VARIABLES lock,               \* the thread that holds _lock, or Free
          counter,            \* field -> its value; an absent action is 0
          pc,                 \* thread -> its place in the call
          call,               \* thread -> the call it is in, or Idle
          left,               \* thread -> the fields it has still to visit
          reg                 \* thread -> the values it has read

vars == <<lock, counter, pc, call, left, reg>>

Free == "free"

ASSUME MetricsAssumption ==
    /\ Free \notin Threads
    /\ IsFiniteSet(Actions) /\ Actions \cap {"total", "errors", "hits"} = {}

Idle == [op |-> "idle"]
Fields == {"total", "errors", "hits"} \cup Actions

Zero == [f \in Fields |-> 0]

Decision(a, hit) == [op |-> "decision", action |-> a, hit |-> hit]
Error == [op |-> "error"]
Snapshot == [op |-> "snapshot"]
Calls ==
    {Error, Snapshot} \cup {Decision(a, h) : a \in Actions, h \in BOOLEAN}

\* The fields a call increments.
Adds == [c \in Calls |->
    CASE c.op = "decision" ->
            {"total", c.action} \cup (IF c.hit THEN {"hits"} ELSE {})
      [] c.op = "error" -> {"errors"}
      [] OTHER -> {}]

\* The fields a call visits: those it increments, or all to read them.
FieldsOf(c) == IF Adds[c] = {} THEN Fields ELSE Adds[c]

\* The order of the statements, and of the parts of the returned tuple.
Rank(f) ==
    CASE f = "total" -> 1 [] f = "errors" -> 3 [] f = "hits" -> 4 [] OTHER -> 2

\* What the next statement of t concerns: one field, or the whole dict.
Current(t) == {f \in left[t] : \A g \in left[t] : Rank(f) <= Rank(g)}

Init ==
    /\ lock = Free
    /\ counter = Zero
    /\ pc = [t \in Threads |-> "idle"]
    /\ call = [t \in Threads |-> Idle]
    /\ left = [t \in Threads |-> {}]
    /\ reg = [t \in Threads |-> Zero]

Begin(t, c) ==
    /\ pc[t] = "idle"
    /\ Adds[c] # {} => counter["total"] + counter["errors"] < MaxRecords
    /\ pc' = [pc EXCEPT ![t] = "acquire"]
    /\ call' = [call EXCEPT ![t] = c]
    /\ UNCHANGED <<lock, counter, left, reg>>

\* Mutant: the calls do not take the lock.
AcquireNothing(t) ==
    /\ pc[t] = "acquire"
    /\ lock' = t
    /\ pc' = [pc EXCEPT ![t] = "load"]
    /\ left' = [left EXCEPT ![t] = FieldsOf(call[t])]
    /\ UNCHANGED <<counter, call, reg>>

\* Mutant: only the calls that write take the lock.
AcquireToWrite(t) ==
    /\ pc[t] = "acquire"
    /\ call[t] # Snapshot => lock = Free
    /\ lock' = IF call[t] = Snapshot THEN lock ELSE t
    /\ pc' = [pc EXCEPT ![t] = "load"]
    /\ left' = [left EXCEPT ![t] = FieldsOf(call[t])]
    /\ UNCHANGED <<counter, call, reg>>

\* with self._lock:
Acquire(t) ==
    /\ pc[t] = "acquire"
    /\ lock = Free
    /\ lock' = t
    /\ pc' = [pc EXCEPT ![t] = "load"]
    /\ left' = [left EXCEPT ![t] = FieldsOf(call[t])]
    /\ UNCHANGED <<counter, call, reg>>

Load(t) ==
    /\ pc[t] = "load"
    /\ left[t] # {}
    /\ reg' = [reg EXCEPT ![t] =
          [f \in Fields |-> IF f \in Current(t) THEN counter[f] ELSE @[f]]]
    /\ IF Adds[call[t]] = {}
       THEN left' = [left EXCEPT ![t] = @ \ Current(t)] /\ pc' = pc
       ELSE pc' = [pc EXCEPT ![t] = "store"] /\ left' = left
    /\ UNCHANGED <<lock, counter, call>>

\* Mutant: the wrong sign.
StoreLess(t) ==
    /\ pc[t] = "store"
    /\ counter' = [f \in Fields |->
          IF f \in Current(t) THEN reg[t][f] - 1 ELSE counter[f]]
    /\ left' = [left EXCEPT ![t] = @ \ Current(t)]
    /\ pc' = [pc EXCEPT ![t] = "load"]
    /\ UNCHANGED <<lock, call, reg>>

Store(t) ==
    /\ pc[t] = "store"
    /\ counter' = [f \in Fields |->
          IF f \in Current(t) THEN reg[t][f] + 1 ELSE counter[f]]
    /\ left' = [left EXCEPT ![t] = @ \ Current(t)]
    /\ pc' = [pc EXCEPT ![t] = "load"]
    /\ UNCHANGED <<lock, call, reg>>

\* The block is left, and the lock with it.
Release(t) ==
    /\ pc[t] = "load"
    /\ left[t] = {}
    /\ lock' = Free
    /\ pc' = [pc EXCEPT ![t] = "return"]
    /\ UNCHANGED <<counter, call, left, reg>>

End(t) ==
    /\ pc[t] = "return"
    /\ pc' = [pc EXCEPT ![t] = "idle"]
    /\ call' = [call EXCEPT ![t] = Idle]
    /\ reg' = [reg EXCEPT ![t] = Zero]
    /\ UNCHANGED <<lock, counter, left>>

Next == \E t \in Threads :
    \/ \E c \in Calls : Begin(t, c)
    \/ Acquire(t) \/ Load(t) \/ Store(t) \/ Release(t) \/ End(t)

Spec == Init /\ [][Next]_vars
-----------------------------------------------------------------------------
(* Properties *)

TypeOK ==
    /\ lock \in Threads \cup {Free}
    /\ counter \in [Fields -> Nat]
    /\ pc \in [Threads -> {"idle", "acquire", "load", "store", "return"}]
    /\ call \in [Threads -> Calls \cup {Idle}]
    /\ left \in [Threads -> SUBSET Fields]
    /\ reg \in [Threads -> [Fields -> Nat]]

\* What /v1/metrics reports adds up (main.py:431-438; test_api.py:295-301):
\* the requests are the sum of the actions, and the hits are among them,
\* however many threads record while the snapshot is taken.
SnapshotAddsUp == \A t \in Threads :
    (pc[t] = "return" /\ call[t] = Snapshot) =>
        /\ reg[t]["total"] = FoldFunctionOnSet(+, 0, reg[t], Actions)
        /\ reg[t]["hits"] <= reg[t]["total"]

\* The counters without what the holder of the lock has not finished.
Committed == [f \in Fields |->
    IF lock # Free /\ f \in Adds[call[lock]] \ left[lock]
    THEN counter[f] - 1 ELSE counter[f]]

NotYet == [is |-> "pending"]
Nothing == [is |-> "done"]
Result == [t \in Threads |->
    IF pc[t] # "return" THEN NotYet
    ELSE IF Adds[call[t]] = {} THEN reg[t] ELSE Nothing]

Abstract == INSTANCE Counters
    WITH counter <- Committed, result <- Result,
         Pending <- NotYet, Done <- Nothing

\* The registry is linearizable (metrics.py:8-10): no update is lost and no
\* snapshot is torn, for any interleaving of the threads' loads and stores.
ImplementsCounters == Abstract!Spec
=============================================================================
