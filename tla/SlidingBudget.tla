--------------------------- MODULE SlidingBudget ---------------------------
(***************************************************************************)
(* What a caller is promised by the rate limiter of api/security.py: a     *)
(* budget of MaxRequests granted requests in any sliding window of Window  *)
(* ticks, decided from the complete log of the grants.  Nothing is ever    *)
(* dropped from the log, so there is no pruning, no sweeping and no table  *)
(* of callers here: those are how RateLimiter implements this promise.     *)
(***************************************************************************)
EXTENDS Integers, Sequences, FiniteSets

CONSTANTS Callers,        \* the identities caller_identity() tells apart
          MaxRequests,    \* the budget
          Window,         \* length of the window, in clock ticks
          Horizon         \* bound on the clock

VARIABLES now,            \* time.monotonic()
          granted,        \* caller -> the times its requests were granted
          answer          \* the last answer given, to whom and when

vars == <<now, granted, answer>>

\* The grants of c that still count against its budget.
Counted(c) == {i \in DOMAIN granted[c] : granted[c][i] > now - Window}

Init ==
    /\ now = 0
    /\ granted = [c \in Callers |-> <<>>]
    /\ answer = [kind |-> "none"]

Tick ==
    /\ now < Horizon
    /\ now' = now + 1
    /\ UNCHANGED <<granted, answer>>

Grant(c) ==
    /\ Cardinality(Counted(c)) < MaxRequests
    /\ granted' = [granted EXCEPT ![c] = Append(@, now)]
    /\ answer' = [kind |-> "grant", caller |-> c, at |-> now]
    /\ UNCHANGED now

Deny(c) ==
    /\ Cardinality(Counted(c)) >= MaxRequests
    /\ answer' = [kind |-> "deny", caller |-> c, at |-> now]
    /\ UNCHANGED <<now, granted>>

Next == Tick \/ \E c \in Callers : Grant(c) \/ Deny(c)

Spec == Init /\ [][Next]_vars

=============================================================================
