---------------------------- MODULE MetricsProofs ----------------------------
(***************************************************************************)
(* The registry is linearizable for any number of threads and actions:     *)
(* what a thread has read under the lock is still what the counters hold,  *)
(* so its stores lose nothing and its snapshot is of one instant, in which *)
(* the requests are the sum of their actions.                              *)
(***************************************************************************)
EXTENDS Metrics, FiniteSetTheorems, WellFoundedInduction, TLAPS

\* Exactly the holder of the lock is inside the block.
Exclusion == \A t \in Threads : pc[t] \in {"load", "store"} <=> lock = t

\* Where each thread is in its call.
Progress == \A t \in Threads :
    /\ pc[t] = "idle" => call[t] = Idle
    /\ pc[t] # "idle" => call[t] \in Calls
    /\ pc[t] \in {"load", "store"} => left[t] \subseteq FieldsOf(call[t])
    /\ pc[t] = "store" => Adds[call[t]] # {}
    /\ pc[t] = "return" => left[t] = {}

\* What has been read under the lock is current.
Fresh == \A t \in Threads :
    /\ pc[t] = "store" => \A f \in Current(t) : reg[t][f] = counter[f]
    /\ (pc[t] = "load" /\ Adds[call[t]] = {}) =>
           \A f \in Fields \ left[t] : reg[t][f] = counter[f]

IInv == TypeOK /\ Exclusion /\ Progress /\ Fresh
-----------------------------------------------------------------------------
LEMMA AddsFacts ==
    ASSUME NEW c \in Calls
    PROVE  /\ Adds[c] \in SUBSET Fields
           /\ FieldsOf(c) \in SUBSET Fields
           /\ c # Idle
           /\ Adds[c] # {} => FieldsOf(c) = Adds[c]
           /\ Adds[c] = {} => FieldsOf(c) = Fields
<1>1. c # Idle /\ Adds[c] \in SUBSET Fields
  <2>1. CASE c = Error
    BY <2>1 DEF Adds, Error, Fields, Idle
  <2>2. CASE c = Snapshot
    BY <2>2 DEF Adds, Snapshot, Fields, Idle
  <2>3. CASE \E a \in Actions, h \in BOOLEAN : c = Decision(a, h)
    BY <2>3 DEF Adds, Decision, Fields, Idle
  <2> QED  BY <2>1, <2>2, <2>3 DEF Calls
<1> QED  BY <1>1 DEF FieldsOf

LEMMA CurrentFacts ==
    ASSUME NEW t \in Threads
    PROVE  Current(t) \subseteq left[t]
BY DEF Current

LEMMA InitIInv == Init => IInv
BY MetricsAssumption
   DEF Init, IInv, TypeOK, Exclusion, Progress, Fresh, Zero, Fields

LEMMA BeginIInv ==
    ASSUME IInv, NEW t \in Threads, NEW c \in Calls, Begin(t, c)
    PROVE  IInv'
<1>1. TypeOK' /\ Exclusion' /\ Progress'
  BY DEF Begin, IInv, TypeOK, Exclusion, Progress
<1>2. Fresh'
  BY DEF Begin, IInv, TypeOK, Fresh, Current
<1> QED  BY <1>1, <1>2 DEF IInv

LEMMA AcquireIInv ==
    ASSUME IInv, NEW t \in Threads, Acquire(t)
    PROVE  IInv'
<1>1. FieldsOf(call[t]) \in SUBSET Fields /\ call[t] \in Calls
  BY AddsFacts DEF Acquire, IInv, Progress
<1>2. \A u \in Threads : pc[u] \notin {"load", "store"}
  BY MetricsAssumption DEF Acquire, IInv, Exclusion
<1>3. TypeOK' /\ Exclusion' /\ Progress'
  BY <1>1, <1>2 DEF Acquire, IInv, TypeOK, Exclusion, Progress
<1>4. Fresh'
  BY <1>1, <1>2, AddsFacts DEF Acquire, IInv, TypeOK, Fresh
<1> QED  BY <1>3, <1>4 DEF IInv

LEMMA LoadIInv ==
    ASSUME IInv, NEW t \in Threads, Load(t)
    PROVE  IInv'
<1>1. /\ call[t] \in Calls
      /\ \A u \in Threads \ {t} : pc[u] \notin {"load", "store"}
  BY DEF Load, IInv, Exclusion, Progress
<1>2. TypeOK' /\ Exclusion' /\ Progress'
  <2>1. reg' \in [Threads -> [Fields -> Nat]]
    BY DEF Load, IInv, TypeOK
  <2>2. CASE Adds[call[t]] = {}
    BY <1>1, <2>1, <2>2 DEF Load, IInv, TypeOK, Exclusion, Progress
  <2>3. CASE Adds[call[t]] # {}
    BY <1>1, <2>1, <2>3 DEF Load, IInv, TypeOK, Exclusion, Progress
  <2> QED  BY <2>2, <2>3
<1>3. Fresh'
  <2>1. ASSUME NEW f \in Fields
        PROVE  reg'[t][f] = IF f \in Current(t) THEN counter[f] ELSE reg[t][f]
    BY DEF Load, IInv, TypeOK
  <2>2. CASE Adds[call[t]] = {}
    BY <1>1, <2>1, <2>2 DEF Load, IInv, TypeOK, Fresh
  <2>3. CASE Adds[call[t]] # {}
    <3>1. left' = left /\ counter' = counter /\ pc'[t] = "store"
      BY <2>3 DEF Load, IInv, TypeOK
    <3>2. Current(t)' = Current(t) /\ Current(t) \subseteq Fields
      BY <3>1 DEF Current, IInv, TypeOK
    <3> QED  BY <1>1, <2>1, <2>3, <3>1, <3>2 DEF Load, IInv, TypeOK, Fresh
  <2> QED  BY <2>2, <2>3
<1> QED  BY <1>2, <1>3 DEF IInv

LEMMA StoreIInv ==
    ASSUME IInv, NEW t \in Threads, Store(t)
    PROVE  IInv'
<1>1. /\ call[t] \in Calls /\ Adds[call[t]] # {}
      /\ \A u \in Threads \ {t} : pc[u] \notin {"load", "store"}
  BY DEF Store, IInv, Exclusion, Progress
<1>2. \A f \in Fields : reg[t][f] + 1 \in Nat
  BY DEF IInv, TypeOK
<1>3. TypeOK' /\ Exclusion' /\ Progress'
  BY <1>1, <1>2 DEF Store, IInv, TypeOK, Exclusion, Progress
<1>4. Fresh'
  BY <1>1 DEF Store, IInv, TypeOK, Fresh
<1> QED  BY <1>3, <1>4 DEF IInv

LEMMA ReleaseIInv ==
    ASSUME IInv, NEW t \in Threads, Release(t)
    PROVE  IInv'
<1>1. \A u \in Threads \ {t} : pc[u] \notin {"load", "store"}
  BY DEF Release, IInv, Exclusion
<1>2. TypeOK' /\ Exclusion' /\ Progress'
  BY <1>1, MetricsAssumption DEF Release, IInv, TypeOK, Exclusion, Progress
<1>3. Fresh'
  BY <1>1 DEF Release, IInv, TypeOK, Fresh
<1> QED  BY <1>2, <1>3 DEF IInv

LEMMA EndIInv ==
    ASSUME IInv, NEW t \in Threads, End(t)
    PROVE  IInv'
<1>1. TypeOK' /\ Exclusion' /\ Progress'
  BY DEF End, IInv, TypeOK, Exclusion, Progress, Zero
<1>2. Fresh'
  BY DEF End, IInv, TypeOK, Fresh, Current
<1> QED  BY <1>1, <1>2 DEF IInv

LEMMA StepIInv == IInv /\ [Next]_vars => IInv'
<1> SUFFICES ASSUME IInv, [Next]_vars PROVE IInv'
  OBVIOUS
<1>1. ASSUME NEW t \in Threads, NEW c \in Calls, Begin(t, c) PROVE IInv'
  BY <1>1, BeginIInv
<1>2. ASSUME NEW t \in Threads,
             Acquire(t) \/ Load(t) \/ Store(t) \/ Release(t) \/ End(t)
      PROVE  IInv'
  BY <1>2, AcquireIInv, LoadIInv, StoreIInv, ReleaseIInv, EndIInv
<1>3. CASE UNCHANGED vars
  BY <1>3 DEF vars, IInv, TypeOK, Exclusion, Progress, Fresh, Current
<1> QED  BY <1>1, <1>2, <1>3 DEF Next

LEMMA SpecIInv == Spec => []IInv
BY InitIInv, StepIInv, PTL DEF Spec
-----------------------------------------------------------------------------
(* The refinement *)

\* Nothing of a call shows before its effect.
LEMMA Invisible ==
    ASSUME IInv, NEW t \in Threads, Committed' = Committed, call' = call,
           \A u \in Threads : pc'[u] = "return" <=> pc[u] = "return",
           \A u \in Threads : pc[u] = "return" => reg'[u] = reg[u]
    PROVE  UNCHANGED Abstract!vars
<1>1. Result' = Result
  BY DEF Result
<1> QED  BY <1>1 DEF Abstract!vars

LEMMA AcquireStutters ==
    ASSUME IInv, NEW t \in Threads, Acquire(t)
    PROVE  UNCHANGED Abstract!vars
<1>1. /\ call[t] \in Calls /\ lock = Free /\ lock' = t /\ counter' = counter
      /\ call' = call /\ left'[t] = FieldsOf(call[t])
  BY DEF Acquire, IInv, TypeOK, Progress
<1>2. Adds[call[t]] \subseteq FieldsOf(call[t])
  BY <1>1, AddsFacts DEF FieldsOf
<1>3. Committed' = Committed
  BY <1>1, <1>2 DEF Committed
<1> QED  BY <1>1, <1>3, Invisible DEF Acquire, IInv, TypeOK

LEMMA LoadStutters ==
    ASSUME IInv, NEW t \in Threads, Load(t)
    PROVE  UNCHANGED Abstract!vars
<1>1. lock = t /\ call[t] \in Calls
  BY DEF Load, IInv, Exclusion, Progress
<1>2. Committed' = Committed
  BY <1>1 DEF Load, Committed, IInv, TypeOK
<1>3. \A u \in Threads : pc[u] = "return" => reg'[u] = reg[u]
  BY DEF Load, IInv, TypeOK
<1>4. \A u \in Threads : pc'[u] = "return" <=> pc[u] = "return"
  <2>1. CASE Adds[call[t]] = {}
    BY <2>1 DEF Load, IInv, TypeOK
  <2>2. CASE Adds[call[t]] # {}
    BY <2>2 DEF Load, IInv, TypeOK
  <2> QED  BY <2>1, <2>2
<1> QED  BY <1>2, <1>3, <1>4, Invisible DEF Load

LEMMA StoreStutters ==
    ASSUME IInv, NEW t \in Threads, Store(t)
    PROVE  UNCHANGED Abstract!vars
<1>1. /\ lock = t /\ lock # Free /\ lock' = lock /\ call[t] \in Calls
      /\ call' = call /\ Adds[call[t]] # {}
  BY MetricsAssumption DEF Store, IInv, Exclusion, Progress
<1>2. /\ Current(t) \subseteq left[t] /\ left[t] \subseteq Adds[call[t]]
      /\ left'[t] = left[t] \ Current(t)
  BY <1>1, AddsFacts, CurrentFacts DEF Store, IInv, TypeOK, Progress
<1>3. ASSUME NEW f \in Fields PROVE Committed'[f] = Committed[f]
  <2>1. counter'[f] = IF f \in Current(t) THEN counter[f] + 1 ELSE counter[f]
    BY DEF Store, IInv, Fresh
  <2>2. counter[f] \in Int
    BY DEF IInv, TypeOK
  <2> QED  BY <1>1, <1>2, <2>1, <2>2 DEF Committed
<1>4. Committed' = Committed
  BY <1>3 DEF Committed
<1> QED  BY <1>1, <1>4, Invisible DEF Store, IInv, TypeOK

\* The call takes effect when the lock is released.
LEMMA ReleaseTakesEffect ==
    ASSUME IInv, NEW t \in Threads, Release(t)
    PROVE  Abstract!TakeEffect(t)
<1>1. /\ lock = t /\ lock # Free /\ lock' = Free /\ call[t] \in Calls
      /\ call' = call /\ counter' = counter /\ left[t] = {}
      /\ reg' = reg /\ pc[t] = "load"
      /\ pc' = [pc EXCEPT ![t] = "return"]
  BY MetricsAssumption DEF Release, IInv, Exclusion, Progress
<1>2. call[t] # Idle /\ Result[t] = NotYet
  BY <1>1, AddsFacts DEF Result
<1>3. Committed' = counter
  BY <1>1 DEF Committed, IInv, TypeOK
<1>4. \A f \in Fields : Committed[f] =
          IF f \in Adds[call[t]] THEN counter[f] - 1 ELSE counter[f]
  BY <1>1 DEF Committed
<1>5. Committed' = [f \in Fields |->
          IF f \in Adds[call[t]] THEN Committed[f] + 1 ELSE Committed[f]]
  <2>1. \A f \in Fields : counter[f] \in Int
    BY DEF IInv, TypeOK
  <2> QED  BY <1>3, <1>4, <2>1 DEF IInv, TypeOK
<1>6. Adds[call[t]] = {} => reg[t] = Committed
  <2>1. SUFFICES ASSUME Adds[call[t]] = {} PROVE reg[t] = Committed
    OBVIOUS
  <2>2. \A f \in Fields : reg[t][f] = Committed[f]
    BY <1>1, <1>4, <2>1 DEF IInv, Fresh
  <2> QED  BY <2>2 DEF Committed, IInv, TypeOK
<1>7. Result' = [Result EXCEPT ![t] =
          IF Adds[call[t]] = {} THEN Committed ELSE Nothing]
  BY <1>1, <1>6 DEF Result, IInv, TypeOK
<1> QED  BY <1>1, <1>2, <1>5, <1>7 DEF Abstract!TakeEffect

LEMMA EndEnds ==
    ASSUME IInv, NEW t \in Threads, End(t)
    PROVE  Abstract!End(t)
<1>1. call[t] \in Calls /\ pc[t] = "return"
  BY DEF End, IInv, Progress
<1>2. Nothing # NotYet
  BY DEF Nothing, NotYet
<1>3. reg[t] # NotYet
  <2>1. DOMAIN reg[t] = Fields /\ "total" \in Fields
    BY DEF IInv, TypeOK, Fields
  <2>2. DOMAIN NotYet = {"is"}
    BY DEF NotYet
  <2> QED  BY <2>1, <2>2
<1>4. Result[t] # NotYet
  BY <1>1, <1>2, <1>3 DEF Result
<1>5. Result' = [Result EXCEPT ![t] = NotYet]
  BY DEF End, Result, IInv, TypeOK
<1>6. Committed' = Committed
  <2>1. lock # t
    BY <1>1 DEF IInv, Exclusion
  <2>2. lock # Free => call'[lock] = call[lock]
    BY <2>1 DEF End, IInv, TypeOK
  <2> QED  BY <2>2 DEF End, Committed
<1> QED  BY <1>4, <1>5, <1>6 DEF End, Abstract!End

LEMMA BeginBegins ==
    ASSUME IInv, NEW t \in Threads, NEW c \in Calls, Begin(t, c)
    PROVE  Abstract!Begin(t, c)
<1>1. call[t] = Idle /\ pc[t] = "idle"
  BY DEF Begin, IInv, Progress
<1>2. Result' = Result
  BY <1>1 DEF Begin, Result, IInv, TypeOK
<1>3. Committed' = Committed
  <2>1. lock # t
    BY <1>1 DEF IInv, Exclusion
  <2>2. lock # Free => call'[lock] = call[lock]
    BY <2>1 DEF Begin, IInv, TypeOK
  <2> QED  BY <2>2 DEF Begin, Committed
<1> QED  BY <1>1, <1>2, <1>3 DEF Begin, Abstract!Begin

LEMMA StepRefines == IInv /\ [Next]_vars => [Abstract!Next]_(Abstract!vars)
<1> SUFFICES ASSUME IInv, [Next]_vars PROVE [Abstract!Next]_(Abstract!vars)
  OBVIOUS
<1>1. ASSUME NEW t \in Threads, Acquire(t) \/ Load(t) \/ Store(t)
      PROVE  UNCHANGED Abstract!vars
  BY <1>1, AcquireStutters, LoadStutters, StoreStutters
<1>2. ASSUME NEW t \in Threads, Release(t) \/ End(t) PROVE Abstract!Next
  BY <1>2, ReleaseTakesEffect, EndEnds DEF Abstract!Next
<1>3. ASSUME NEW t \in Threads, NEW c \in Calls, Begin(t, c)
      PROVE  Abstract!Next
  BY <1>3, BeginBegins DEF Abstract!Next
<1>4. CASE UNCHANGED vars
  BY <1>4 DEF vars, Abstract!vars, Committed, Result
<1> QED  BY <1>1, <1>2, <1>3, <1>4 DEF Next
-----------------------------------------------------------------------------
(* Theorems *)

\* The counters and the locals of every thread keep their types.
THEOREM TypeCorrect == Spec => []TypeOK
<1>1. IInv => TypeOK
  BY DEF IInv
<1> QED  BY <1>1, SpecIInv, PTL

\* The registry is linearizable (metrics.py:8-10): for any number of threads
\* and actions, each call takes effect at one instant.
THEOREM RegistryIsLinearizable == Spec => ImplementsCounters
<1>1. Init => Abstract!Init
  BY MetricsAssumption
     DEF Init, Abstract!Init, Committed, Result, Zero, Fields
<1> QED  BY <1>1, SpecIInv, StepRefines, PTL
         DEF Spec, ImplementsCounters, Abstract!Spec
-----------------------------------------------------------------------------
(* What the counters of the actions add up to.  The fold of the property is *)
(* recursive; a sum of naturals is also the size of a set, a definition     *)
(* without recursion, and by least counterexample the two are the same.     *)

\* As many pairs for each x in s as f[x] says.
Units(f, s) == {p \in s \X Nat : 1 <= p[2] /\ p[2] <= f[p[1]]}

\* What FoldFunctionOnSet(+, 0, f, S) stands for.
Sums(f, S) ==
    CHOOSE sum : sum = [s \in SUBSET S |->
        IF s = {} THEN 0
        ELSE f[CHOOSE x \in s : TRUE] + sum[s \ {CHOOSE x \in s : TRUE}]]

LEMMA FoldIsSums ==
    ASSUME NEW f, NEW S
    PROVE  FoldFunctionOnSet(+, 0, f, S) = Sums(f, S)[S]
BY DEF FoldFunctionOnSet, MapThenFoldSet, Sums

NatOn(f, S) == \A x \in S : f[x] \in Nat

LEMMA UnitsOfNone == ASSUME NEW f PROVE Units(f, {}) = {}
BY DEF Units

LEMMA UnitsOfOneMore ==
    ASSUME NEW S, NEW f, NatOn(f, S),
           NEW s \in SUBSET S, NEW x \in s,
           IsFiniteSet(Units(f, s \ {x}))
    PROVE  /\ IsFiniteSet(Units(f, s))
           /\ Cardinality(Units(f, s)) = f[x] + Cardinality(Units(f, s \ {x}))
<1> DEFINE own == {x} \X (1..f[x])
           rest == Units(f, s \ {x})
<1>1. f[x] \in Nat /\ \A y \in s : f[y] \in Nat
  BY DEF NatOn
<1>2. Units(f, s) = rest \cup own /\ rest \cap own = {}
  BY <1>1 DEF Units
<1>3. IsFiniteSet(own) /\ Cardinality(own) = f[x]
  <2>1. IsFiniteSet({x}) /\ Cardinality({x}) = 1
    BY FS_Singleton
  <2>2. IsFiniteSet(1..f[x]) /\ Cardinality(1..f[x]) = f[x]
    <3>1. \A a, b \in Int :
             /\ IsFiniteSet(a..b)
             /\ Cardinality(a..b) = IF a > b THEN 0 ELSE b - a + 1
      BY FS_Interval
    <3>2. \A n \in Nat : (IF 1 > n THEN 0 ELSE n - 1 + 1) = n
      OBVIOUS
    <3> QED  BY <1>1, <3>1, <3>2
  <2>3. /\ IsFiniteSet(own)
        /\ Cardinality(own) = Cardinality({x}) * Cardinality(1..f[x])
    BY <2>1, <2>2, FS_Product
  <2> QED  BY <1>1, <2>1, <2>2, <2>3
<1>4. Cardinality(rest) \in Nat /\ Cardinality(rest \cap own) = 0
  BY <1>2, FS_CardinalityType, FS_EmptySet
<1> HIDE DEF own, rest
<1>5. IsFiniteSet(rest)
  BY DEF rest
<1>6. /\ IsFiniteSet(rest \cup own)
      /\ Cardinality(rest \cup own) =
            Cardinality(rest) + Cardinality(own) - Cardinality(rest \cap own)
  BY <1>3, <1>5, FS_Union
<1> QED  BY <1>1, <1>2, <1>3, <1>4, <1>6 DEF rest

\* A smallest subset with a property.
LEMMA SmallestSubset ==
    ASSUME NEW S, IsFiniteSet(S), NEW T \in SUBSET (SUBSET S), T # {}
    PROVE  \E s \in T : \A u \in T : u \subseteq s => u = s
<1>1. IsWellFoundedOn(StrictSubsetOrdering(S), SUBSET S)
  BY FS_StrictSubsetOrderingWellFounded, FS_FiniteSubsetsOfFinite
<1>2. PICK s \in T : \A u \in T : ~(<<u, s>> \in StrictSubsetOrdering(S))
  BY <1>1, WFMin
<1>3. ASSUME NEW u \in T, u \subseteq s, u # s PROVE FALSE
  <2>1. <<u, s>> \in (SUBSET S) \X (SUBSET S)
    OBVIOUS
  <2> QED  BY <1>2, <1>3, <2>1 DEF StrictSubsetOrdering
<1> QED  BY <1>3

LEMMA UnitsAreFinite ==
    ASSUME NEW S, IsFiniteSet(S), NEW f, NatOn(f, S),
           NEW s \in SUBSET S
    PROVE  IsFiniteSet(Units(f, s))
<1> DEFINE T == {u \in SUBSET S : ~IsFiniteSet(Units(f, u))}
<1> SUFFICES ASSUME T # {} PROVE FALSE
  OBVIOUS
<1>1. PICK u \in T : \A v \in T : v \subseteq u => v = u
  <2>1. T \in SUBSET (SUBSET S)
    OBVIOUS
  <2> HIDE DEF T
  <2> QED  BY <2>1, SmallestSubset
<1>2. u \in SUBSET S /\ ~IsFiniteSet(Units(f, u))
  OBVIOUS
<1>3. u # {}
  BY <1>2, UnitsOfNone, FS_EmptySet
<1>4. PICK x : x \in u
  BY <1>3
<1>5. u \ {x} \notin T
  BY <1>1, <1>4
<1>6. IsFiniteSet(Units(f, u \ {x}))
  BY <1>2, <1>5
<1>7. IsFiniteSet(Units(f, u))
  BY <1>2, <1>4, <1>6, UnitsOfOneMore
<1> QED  BY <1>2, <1>7

Pick(s) == CHOOSE x \in s : TRUE

LEMMA SumsExist ==
    ASSUME NEW S, IsFiniteSet(S), NEW f, NatOn(f, S)
    PROVE  \A s \in SUBSET S : Sums(f, S)[s] =
              IF s = {} THEN 0
              ELSE f[Pick(s)] + Sums(f, S)[s \ {Pick(s)}]
<1> DEFINE size == [s \in SUBSET S |-> Cardinality(Units(f, s))]
<1>1. ASSUME NEW s \in SUBSET S, s # {}
      PROVE  Cardinality(Units(f, s)) =
                f[CHOOSE x \in s : TRUE]
                  + Cardinality(Units(f, s \ {CHOOSE x \in s : TRUE}))
  <2> DEFINE y == CHOOSE x \in s : TRUE
  <2>1. y \in s
    BY <1>1
  <2> HIDE DEF y, size
  <2>2. IsFiniteSet(Units(f, s \ {y}))
    BY UnitsAreFinite
  <2>3. Cardinality(Units(f, s)) = f[y] + Cardinality(Units(f, s \ {y}))
    BY <2>1, <2>2, UnitsOfOneMore
  <2> QED  BY <2>3 DEF y
<1>2. Cardinality(Units(f, {})) = 0
  BY UnitsOfNone, FS_EmptySet
<1>3. size = [s \in SUBSET S |->
          IF s = {} THEN 0
          ELSE f[CHOOSE x \in s : TRUE] + size[s \ {CHOOSE x \in s : TRUE}]]
  <2>1. ASSUME NEW s \in SUBSET S
        PROVE  Cardinality(Units(f, s)) =
                  IF s = {} THEN 0
                  ELSE f[CHOOSE x \in s : TRUE]
                         + size[s \ {CHOOSE x \in s : TRUE}]
    <3>1. s \ {CHOOSE x \in s : TRUE} \in SUBSET S
      OBVIOUS
    <3>2. size[s \ {CHOOSE x \in s : TRUE}] =
             Cardinality(Units(f, s \ {CHOOSE x \in s : TRUE}))
      BY <3>1
    <3> HIDE DEF size
    <3> QED  BY <1>1, <1>2, <3>2
  <2> QED  BY <2>1
<1> HIDE DEF size
<1>4. Sums(f, S) = [s \in SUBSET S |->
          IF s = {} THEN 0
          ELSE f[CHOOSE x \in s : TRUE]
                 + Sums(f, S)[s \ {CHOOSE x \in s : TRUE}]]
  BY <1>3 DEF Sums
<1> QED  BY <1>4 DEF Pick

\* The fold over the actions counts units.
LEMMA FoldCounts ==
    ASSUME NEW S, IsFiniteSet(S), NEW f, NatOn(f, S)
    PROVE  FoldFunctionOnSet(+, 0, f, S) = Cardinality(Units(f, S))
<1> DEFINE sum == Sums(f, S)
           T == {u \in SUBSET S : sum[u] # Cardinality(Units(f, u))}
<1>0. \A s \in SUBSET S : sum[s] =
          IF s = {} THEN 0
          ELSE f[Pick(s)] + sum[s \ {Pick(s)}]
  BY SumsExist
<1> HIDE DEF sum
<1>1. T = {}
  <2> SUFFICES ASSUME T # {} PROVE FALSE
    OBVIOUS
  <2>1. PICK u \in T : \A v \in T : v \subseteq u => v = u
    <3>1. T \in SUBSET (SUBSET S)
      OBVIOUS
    <3> HIDE DEF T
    <3> QED  BY <3>1, SmallestSubset
  <2>2. u \in SUBSET S /\ sum[u] # Cardinality(Units(f, u))
    OBVIOUS
  <2>3. u # {}
    BY <1>0, <2>2, UnitsOfNone, FS_EmptySet
  <2> DEFINE x == Pick(u)
  <2>4. x \in u
    BY <2>3 DEF Pick
  <2>5. sum[u] = f[x] + sum[u \ {x}]
    BY <1>0, <2>2, <2>3
  <2> HIDE DEF x
  <2>6. u \ {x} \notin T /\ u \ {x} \in SUBSET S
    BY <2>1, <2>2, <2>4
  <2>7. sum[u \ {x}] = Cardinality(Units(f, u \ {x}))
    BY <2>6
  <2>8. Cardinality(Units(f, u)) = f[x] + Cardinality(Units(f, u \ {x}))
    BY <2>2, <2>4, <2>6, UnitsAreFinite, UnitsOfOneMore
  <2> QED  BY <2>2, <2>5, <2>7, <2>8
<1>2. sum[S] = Cardinality(Units(f, S))
  BY <1>1
<1> QED  BY <1>2, FoldIsSums DEF sum

Total(f) == Cardinality(Units(f, Actions))

LEMMA TotalOfZero ==
    ASSUME NEW f, \A a \in Actions : f[a] = 0
    PROVE  Total(f) = 0
<1>1. Units(f, Actions) = {}
  BY DEF Units
<1> QED  BY <1>1, FS_EmptySet DEF Total

LEMMA TotalOfSame ==
    ASSUME NEW f, NEW g, \A a \in Actions : f[a] \in Nat /\ g[a] = f[a]
    PROVE  Total(g) = Total(f)
<1>1. Units(g, Actions) = Units(f, Actions)
  BY DEF Units
<1> QED  BY <1>1 DEF Total

LEMMA TotalOfOneMore ==
    ASSUME NEW f, NEW g, \A x \in Actions : f[x] \in Nat,
           NEW a \in Actions,
           \A x \in Actions : g[x] = IF x = a THEN f[x] + 1 ELSE f[x]
    PROVE  Total(g) = Total(f) + 1
<1> DEFINE new == <<a, f[a] + 1>>
<1>1. NatOn(f, Actions) /\ Actions \in SUBSET Actions
  BY DEF NatOn
<1>2. IsFiniteSet(Units(f, Actions))
  BY <1>1, MetricsAssumption, UnitsAreFinite
<1>3. Units(g, Actions) = Units(f, Actions) \cup {new}
  <2>1. ASSUME NEW x \in Actions, NEW i \in Nat
        PROVE  (1 <= i /\ i <= g[x]) <=>
                  (1 <= i /\ i <= f[x]) \/ (x = a /\ i = f[a] + 1)
    OBVIOUS
  <2>2. f[a] + 1 \in Nat /\ f[a] \in Nat
    OBVIOUS
  <2> QED  BY <2>1, <2>2 DEF Units
<1>4. new \notin Units(f, Actions)
  BY DEF Units
<1> HIDE DEF new
<1> QED  BY <1>2, <1>3, <1>4, FS_AddElement DEF Total
-----------------------------------------------------------------------------
(* The snapshots add up *)

Balanced(f) == f["total"] = Total(f) /\ f["hits"] <= f["total"]

\* So do the counters between two effects, and every snapshot not yet
\* handed to its caller.
Sound ==
    /\ Committed \in [Fields -> Nat] /\ Balanced(Committed)
    /\ \A t \in Threads :
          (pc[t] = "return" /\ call[t] = Snapshot) => Balanced(reg[t])

\* Each call adds to the counters what keeps them in balance.
LEMMA EffectBalances ==
    ASSUME NEW f \in [Fields -> Nat], Balanced(f), NEW c \in Calls,
           NEW g, g = [x \in Fields |-> IF x \in Adds[c] THEN f[x] + 1 ELSE f[x]]
    PROVE  g \in [Fields -> Nat] /\ Balanced(g)
<1>1. /\ {"total", "hits", "errors"} \subseteq Fields /\ Actions \subseteq Fields
      /\ "total" \notin Actions /\ "hits" \notin Actions /\ "errors" \notin Actions
  BY MetricsAssumption DEF Fields
<1>2. g \in [Fields -> Nat]
  OBVIOUS
<1>3. /\ f["total"] \in Nat /\ f["hits"] \in Nat
      /\ \A a \in Actions : f[a] \in Nat
  BY <1>1
<1>4. CASE \E a \in Actions, h \in BOOLEAN : c = Decision(a, h)
  <2>1. PICK a \in Actions, h \in BOOLEAN : c = Decision(a, h)
    BY <1>4
  <2>2. Adds[c] = {"total", a} \cup (IF h THEN {"hits"} ELSE {})
    BY <2>1 DEF Adds, Decision
  <2>3. \A x \in Actions : g[x] = IF x = a THEN f[x] + 1 ELSE f[x]
    BY <1>1, <2>2
  <2>4. Total(g) = Total(f) + 1
    BY <1>3, <2>1, <2>3, TotalOfOneMore
  <2>5. g["total"] = f["total"] + 1 /\ g["hits"] \in {f["hits"], f["hits"] + 1}
    BY <1>1, <2>2
  <2> QED  BY <1>2, <1>3, <2>4, <2>5 DEF Balanced
<1>5. CASE c = Error \/ c = Snapshot
  <2>1. Adds[c] \subseteq {"errors"}
    BY <1>5 DEF Adds, Calls, Error, Snapshot
  <2>2. g["total"] = f["total"] /\ g["hits"] = f["hits"]
        /\ \A a \in Actions : g[a] = f[a]
    BY <1>1, <2>1
  <2>3. Total(g) = Total(f)
    BY <1>3, <2>2, TotalOfSame
  <2> QED  BY <1>2, <2>2, <2>3 DEF Balanced
<1> QED  BY <1>4, <1>5 DEF Calls

LEMMA InitSound == Init => Sound
<1> SUFFICES ASSUME Init PROVE Sound
  OBVIOUS
<1>1. Committed = Zero /\ \A t \in Threads : pc[t] = "idle"
  BY DEF Init, Committed, Zero
<1>2. Zero \in [Fields -> Nat] /\ Zero["total"] = 0 /\ Zero["hits"] = 0
      /\ \A a \in Actions : Zero[a] = 0
  BY DEF Zero, Fields
<1>3. Total(Zero) = 0
  BY <1>2, TotalOfZero
<1> QED  BY <1>1, <1>2, <1>3 DEF Sound, Balanced

\* A step that hands out no snapshot and has no effect.
LEMMA QuietSound ==
    ASSUME Sound, Committed' = Committed,
           \A t \in Threads : (pc'[t] = "return" /\ call'[t] = Snapshot) =>
               pc[t] = "return" /\ call[t] = Snapshot /\ reg'[t] = reg[t]
    PROVE  Sound'
BY DEF Sound, Balanced, Total

LEMMA ReleaseSound ==
    ASSUME IInv, Sound, NEW t \in Threads, Release(t)
    PROVE  Sound'
<1>1. /\ call[t] \in Calls /\ call' = call /\ reg' = reg
      /\ pc' = [pc EXCEPT ![t] = "return"] /\ t \in DOMAIN pc
  BY DEF Release, IInv, TypeOK, Progress
<1>2. /\ Committed' = [f \in Fields |->
            IF f \in Adds[call[t]] THEN Committed[f] + 1 ELSE Committed[f]]
      /\ Result' = [Result EXCEPT ![t] =
            IF Adds[call[t]] = {} THEN Committed ELSE Nothing]
  BY ReleaseTakesEffect DEF Abstract!TakeEffect
<1>3. Committed' \in [Fields -> Nat] /\ Balanced(Committed')
  BY <1>1, <1>2, EffectBalances DEF Sound
<1>4. call[t] = Snapshot => reg[t] = Committed
  <2>1. SUFFICES ASSUME call[t] = Snapshot PROVE reg[t] = Committed
    OBVIOUS
  <2>2. Adds[call[t]] = {}
    BY <2>1 DEF Adds, Snapshot, Calls
  <2>3. Result'[t] = Committed
    BY <1>2, <2>2 DEF Result
  <2>4. Result'[t] = reg'[t]
    BY <1>1, <2>2 DEF Result
  <2> QED  BY <1>1, <2>3, <2>4
<1>5. ASSUME NEW u \in Threads, pc'[u] = "return", call'[u] = Snapshot
      PROVE  Balanced(reg'[u])
  BY <1>1, <1>4, <1>5 DEF Sound
<1>6. Balanced(Committed)'
  BY <1>3 DEF Balanced, Total
<1> QED  BY <1>3, <1>5, <1>6 DEF Sound, Balanced, Total

LEMMA StepSound == IInv /\ Sound /\ [Next]_vars => Sound'
<1> SUFFICES ASSUME IInv, Sound, [Next]_vars PROVE Sound'
  OBVIOUS
<1>1. ASSUME NEW t \in Threads, Acquire(t) \/ Load(t) \/ Store(t) PROVE Sound'
  <2>1. Committed' = Committed /\ Result' = Result
    BY <1>1, AcquireStutters, LoadStutters, StoreStutters DEF Abstract!vars
  <2>2. /\ call' = call /\ pc[t] # "return" /\ pc'[t] # "return"
        /\ \A u \in Threads : u # t => pc'[u] = pc[u] /\ reg'[u] = reg[u]
    <3>1. CASE Acquire(t)
      BY <3>1 DEF Acquire, IInv, TypeOK
    <3>2. CASE Load(t)
      <4>1. pc' = pc \/ pc' = [pc EXCEPT ![t] = "store"]
        BY <3>2 DEF Load
      <4> QED  BY <3>2, <4>1 DEF Load, IInv, TypeOK
    <3>3. CASE Store(t)
      BY <3>3 DEF Store, IInv, TypeOK
    <3> QED  BY <1>1, <3>1, <3>2, <3>3
  <2> QED  BY <2>1, <2>2, QuietSound
<1>2. ASSUME NEW t \in Threads, Release(t) PROVE Sound'
  BY <1>2, ReleaseSound
<1>3. ASSUME NEW t \in Threads, End(t) PROVE Sound'
  <2>1. Committed' = Committed
    BY <1>3, EndEnds DEF Abstract!End
  <2>2. /\ pc'[t] = "idle"
        /\ \A u \in Threads : u # t =>
              pc'[u] = pc[u] /\ call'[u] = call[u] /\ reg'[u] = reg[u]
    BY <1>3 DEF End, IInv, TypeOK
  <2> QED  BY <2>1, <2>2, QuietSound
<1>4. ASSUME NEW t \in Threads, NEW c \in Calls, Begin(t, c) PROVE Sound'
  <2>1. Committed' = Committed
    BY <1>4, BeginBegins DEF Abstract!Begin
  <2>2. /\ pc'[t] = "acquire" /\ reg' = reg
        /\ \A u \in Threads : u # t => pc'[u] = pc[u] /\ call'[u] = call[u]
    BY <1>4 DEF Begin, IInv, TypeOK
  <2> QED  BY <2>1, <2>2, QuietSound
<1>5. CASE UNCHANGED vars
  <2>1. Committed' = Committed /\ UNCHANGED <<pc, call, reg>>
    BY <1>5 DEF vars, Committed
  <2> QED  BY <2>1, QuietSound
<1> QED  BY <1>1, <1>2, <1>3, <1>4, <1>5 DEF Next

\* What /v1/metrics reports adds up (main.py:431-438; metrics.py:17-37): for
\* any number of threads and actions, the requests of a snapshot are the sum
\* of its actions, and its hits are among them.
THEOREM SnapshotsAddUp == Spec => []SnapshotAddsUp
<1>1. IInv /\ Sound => SnapshotAddsUp
  <2> SUFFICES ASSUME IInv, Sound, NEW t \in Threads,
                      pc[t] = "return", call[t] = Snapshot
               PROVE  /\ reg[t]["total"] = FoldFunctionOnSet(+, 0, reg[t], Actions)
                      /\ reg[t]["hits"] <= reg[t]["total"]
    BY DEF SnapshotAddsUp
  <2>1. NatOn(reg[t], Actions)
    BY DEF NatOn, IInv, TypeOK, Fields
  <2>2. FoldFunctionOnSet(+, 0, reg[t], Actions) = Total(reg[t])
    BY <2>1, MetricsAssumption, FoldCounts DEF Total
  <2> QED  BY <2>2 DEF Sound, Balanced
<1> QED  BY <1>1, InitSound, StepSound, SpecIInv, PTL DEF Spec
=============================================================================
