------------------------------ MODULE Counters ------------------------------
(***************************************************************************)
(* What MetricsRegistry promises the threads that call it: every record_   *)
(* call adds to the counters it concerns, and every snapshot returns them, *)
(* each in one indivisible step between its call and its return.           *)
(***************************************************************************)
EXTENDS Integers

CONSTANTS Threads, Calls, Fields,
          Adds,               \* call -> the fields it increments
          Idle, Pending, Done

VARIABLES counter,            \* field -> its value
          call,               \* thread -> the call it is in, or Idle
          result              \* thread -> what the call returned, or Pending

vars == <<counter, call, result>>

Init ==
    /\ counter = [f \in Fields |-> 0]
    /\ call = [t \in Threads |-> Idle]
    /\ result = [t \in Threads |-> Pending]

Begin(t, c) ==
    /\ call[t] = Idle
    /\ call' = [call EXCEPT ![t] = c]
    /\ UNCHANGED <<counter, result>>

TakeEffect(t) ==
    /\ call[t] # Idle
    /\ result[t] = Pending
    /\ counter' = [f \in Fields |->
          IF f \in Adds[call[t]] THEN counter[f] + 1 ELSE counter[f]]
    /\ result' = [result EXCEPT ![t] =
          IF Adds[call[t]] = {} THEN counter ELSE Done]
    /\ UNCHANGED call

End(t) ==
    /\ result[t] # Pending
    /\ call' = [call EXCEPT ![t] = Idle]
    /\ result' = [result EXCEPT ![t] = Pending]
    /\ UNCHANGED counter

Next == \E t \in Threads :
    TakeEffect(t) \/ End(t) \/ \E c \in Calls : Begin(t, c)

Spec == Init /\ [][Next]_vars
=============================================================================
