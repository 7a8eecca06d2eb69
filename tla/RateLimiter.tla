---------------------------- MODULE RateLimiter ----------------------------
(***************************************************************************)
(* SlidingWindowRateLimiter (api/security.py): a table from caller to the  *)
(* deque of the times its recent requests were granted, pruned lazily when *)
(* the caller comes back and swept of silent callers at most once a        *)
(* window.  The `harden` middleware calls check() on the event loop, and   *)
(* check() awaits nothing, so one call is one atomic step.                 *)
(*                                                                         *)
(* The clock is counted in ticks, TicksPerSecond of them to the second;    *)
(* several calls may read the same tick.                                   *)
(***************************************************************************)
EXTENDS Integers, Sequences

CONSTANTS Callers, MaxRequests, Window, TicksPerSecond, Horizon

\* Settings declares rate_limit_requests with ge=1 and
\* rate_limit_window_seconds with gt=0.
ASSUME LimiterAssumption ==
    /\ MaxRequests \in Nat \ {0}
    /\ Window \in Nat \ {0}
    /\ TicksPerSecond \in Nat \ {0}
    /\ Horizon \in Nat

VARIABLES
    now,         \* time.monotonic()
    hits,        \* _hits: its domain is the set of tracked callers
    lastSweep,   \* _last_sweep
    granted,     \* history: caller -> times of all its grants
    answer,      \* history: the last answer given
    comeBack     \* history: caller -> the moment its last Retry-After named

vars == <<now, hits, lastSweep, granted, answer, comeBack>>

NoPromise == -1
-----------------------------------------------------------------------------
Cutoff == now - Window

SweepDue == now - lastSweep >= Window

\* Mutant: looks at the oldest time where the code looks at the newest.
StaleByOldest(window) == window = <<>> \/ window[1] <= Cutoff

\* _sweep_if_due drops a caller whose deque is empty or has only old times.
Stale(window) == window = <<>> \/ window[Len(window)] <= Cutoff

\* Mutant: only an empty deque is dropped, and none ever is.
SweptOfEmptyOnly ==
    IF SweepDue
    THEN [c \in {d \in DOMAIN hits : hits[d] # <<>>} |-> hits[c]]
    ELSE hits

Swept ==
    IF SweepDue
    THEN [c \in {d \in DOMAIN hits : ~Stale(hits[d])} |-> hits[c]]
    ELSE hits

\* self._hits[caller] on a defaultdict(deque).
WindowOf(table, c) == IF c \in DOMAIN table THEN table[c] ELSE <<>>

\* Mutant: `<` for `<=`, so a time exactly one window old still counts.
PopsOlder(window, n) ==
    /\ \A i \in 1..n : window[i] < Cutoff
    /\ n < Len(window) => window[n + 1] >= Cutoff

\* The while loop of check() pops exactly n times from the left.
PopsExactly(window, n) ==
    /\ \A i \in 1..n : window[i] <= Cutoff
    /\ n < Len(window) => window[n + 1] > Cutoff

Store(table, c, window) ==
    [d \in DOMAIN table \cup {c} |-> IF d = c THEN window ELSE table[d]]

\* Mutant: int() rounds down and nothing makes up for it.
RetryAfterTruncated(window) ==
    LET seconds == (window[1] + Window - now) \div TicksPerSecond
    IN  IF seconds < 1 THEN 1 ELSE seconds

\* max(1, int(window[0] + window_seconds - now) + 1), in seconds.
RetryAfter(window) ==
    LET seconds == ((window[1] + Window - now) \div TicksPerSecond) + 1
    IN  IF seconds < 1 THEN 1 ELSE seconds
-----------------------------------------------------------------------------
Init ==
    /\ now = 0
    /\ hits = [c \in {} |-> <<>>]
    /\ lastSweep = 0
    /\ granted = [c \in Callers |-> <<>>]
    /\ answer = [kind |-> "none"]
    /\ comeBack = [c \in Callers |-> NoPromise]

Tick ==
    /\ now < Horizon
    /\ now' = now + 1
    /\ UNCHANGED <<hits, lastSweep, granted, answer, comeBack>>

Deny(c, window) ==
    /\ Len(window) >= MaxRequests
    /\ hits' = Store(Swept, c, window)
    /\ answer' = [kind |-> "deny", caller |-> c, at |-> now]
    /\ comeBack' = [comeBack EXCEPT
                      ![c] = now + RetryAfter(window) * TicksPerSecond]
    /\ UNCHANGED granted

\* Mutant: the cutoff is recorded where the code records the time.
GrantAtCutoff(c, window) ==
    /\ Len(window) < MaxRequests
    /\ hits' = Store(Swept, c, Append(window, Cutoff))
    /\ answer' = [kind |-> "grant", caller |-> c, at |-> now]
    /\ granted' = [granted EXCEPT ![c] = Append(@, now)]
    /\ comeBack' = [comeBack EXCEPT ![c] = NoPromise]

Grant(c, window) ==
    /\ Len(window) < MaxRequests
    /\ hits' = Store(Swept, c, Append(window, now))
    /\ answer' = [kind |-> "grant", caller |-> c, at |-> now]
    /\ granted' = [granted EXCEPT ![c] = Append(@, now)]
    /\ comeBack' = [comeBack EXCEPT ![c] = NoPromise]

Check(c) ==
    LET window == WindowOf(Swept, c) IN
    /\ \E n \in 0..Len(window) :
          /\ PopsExactly(window, n)
          /\ LET live == SubSeq(window, n + 1, Len(window))
             IN  Deny(c, live) \/ Grant(c, live)
    /\ lastSweep' = IF SweepDue THEN now ELSE lastSweep
    /\ UNCHANGED now

Next == Tick \/ \E c \in Callers : Check(c)

Spec == Init /\ [][Next]_vars
-----------------------------------------------------------------------------
(* Properties *)

Answers ==
    [kind : {"none"}]
        \cup [kind : {"grant", "deny"}, caller : Callers, at : Nat]

\* Type invariant of the limiter's table and of the history variables.
TypeOK ==
    /\ now \in Nat
    /\ DOMAIN hits \subseteq Callers
    /\ \A c \in DOMAIN hits : hits[c] \in Seq(Nat)
    /\ lastSweep \in Nat
    /\ granted \in [Callers -> Seq(Nat)]
    /\ answer \in Answers
    /\ comeBack \in [Callers -> Int]

\* However the pruning, the sweeping and the calls of other callers
\* interleave, a caller never gets more than MaxRequests grants in a window:
\* of MaxRequests + 1 consecutive grants, the last comes at least Window
\* after the first (check, security.py:69-85).
BudgetPerWindow ==
    \A c \in Callers : \A i, j \in DOMAIN granted[c] :
        j >= i + MaxRequests => granted[c][j] - granted[c][i] >= Window

\* A caller that waits as long as the Retry-After of its 429 told it to is
\* not answered 429 again, whatever other callers did meanwhile: seconds are
\* rounded so that the slot has really expired (security.py:81-82).
RetryAfterHonoured ==
    [][\A c \in Callers :
          comeBack[c] # NoPromise /\ now >= comeBack[c]
             => comeBack'[c] \in {comeBack[c], NoPromise}]_vars

\* The table does not grow with the callers ever seen: although a sweep runs
\* at most once a window, after any check every tracked caller had a grant
\* less than two windows before (_sweep_if_due, security.py:87-104).
OnlyRecentCallersTracked ==
    answer.kind # "none" =>
        \A c \in DOMAIN hits :
            /\ hits[c] # <<>>
            /\ hits[c][Len(hits[c])] > answer.at - 2 * Window

Budget == INSTANCE SlidingBudget

\* Lazy pruning and sweeping are invisible to callers: every answer is the
\* one the complete log of grants gives.
ImplementsBudget == Budget!Spec
=============================================================================
