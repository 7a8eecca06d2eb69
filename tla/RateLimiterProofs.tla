------------------------- MODULE RateLimiterProofs -------------------------
(***************************************************************************)
(* Proofs about the rate limiter, for every set of callers, budget, window *)
(* and clock.  The inductive invariant relates each deque to the complete  *)
(* log of grants: it is the tail of the log, and all it no longer holds    *)
(* has left the window.  A promise made with a refusal stays true until    *)
(* the caller comes back.                                                  *)
(***************************************************************************)
EXTENDS RateLimiter, FiniteSetTheorems, SequenceTheorems, TLAPS

\* The times of a log never decrease.
Sorted(log) == \A i, j \in DOMAIN log : i <= j => log[i] <= log[j]

\* `window` is the tail of `log`, and all before it is no later than `cutoff`.
Accounts(window, log, cutoff) ==
    /\ Len(window) <= Len(log)
    /\ \A i \in 1..Len(window) :
          window[i] = log[Len(log) - Len(window) + i]
    /\ \A i \in 1..(Len(log) - Len(window)) : log[i] <= cutoff

LogOK ==
    \A c \in Callers :
        /\ Sorted(granted[c])
        /\ \A i \in DOMAIN granted[c] : granted[c][i] <= now

TableOK ==
    \A c \in Callers :
        /\ Len(WindowOf(hits, c)) <= MaxRequests
        /\ Accounts(WindowOf(hits, c), granted[c], Cutoff)

SweepOK ==
    /\ lastSweep <= now
    /\ \A c \in DOMAIN hits :
          /\ hits[c] # <<>>
          /\ hits[c][Len(hits[c])] > lastSweep - Window
    /\ answer.kind # "none" => answer.at - lastSweep < Window

IInv == TypeOK /\ LogOK /\ TableOK /\ SweepOK /\ BudgetPerWindow
-----------------------------------------------------------------------------
(* Lemmas about a deque and the log it is a tail of *)

\* A deque whose newest time has left the window may be forgotten.
LEMMA AccountsStale ==
    ASSUME NEW w \in Seq(Nat), NEW log \in Seq(Nat), NEW cut \in Int,
           Accounts(w, log, cut), Sorted(log),
           w # <<>> => w[Len(w)] <= cut
    PROVE  Accounts(<<>>, log, cut)
<1>1. CASE w = <<>>
  BY <1>1
<1>2. CASE w # <<>>
  <2>1. Len(w) \in Nat /\ Len(w) > 0 /\ Len(log) \in Nat
    BY <1>2, EmptySeq, LenProperties
  <2>2. w[Len(w)] = log[Len(log)]
    BY <2>1 DEF Accounts
  <2>3. \A i \in 1..Len(log) : log[i] \in Nat /\ log[i] <= log[Len(log)]
    BY <2>1, ElementOfSeq, LenProperties DEF Sorted, Accounts
  <2>4. \A i \in 1..Len(log) : log[i] <= cut
    <3>1. log[Len(log)] \in Nat /\ log[Len(log)] <= cut
      BY <1>2, <2>1, <2>2, <2>3 DEF Accounts
    <3> QED  BY <3>1, <2>3
  <2> QED  BY <2>1, <2>4, EmptySeq DEF Accounts
<1> QED  BY <1>1, <1>2

\* Popping old times from the left leaves a tail of the log.
LEMMA AccountsPop ==
    ASSUME NEW w \in Seq(Nat), NEW log \in Seq(Nat), NEW cut \in Int,
           Accounts(w, log, cut),
           NEW n \in 0..Len(w), \A i \in 1..n : w[i] <= cut
    PROVE  /\ SubSeq(w, n + 1, Len(w)) \in Seq(Nat)
           /\ Len(SubSeq(w, n + 1, Len(w))) = Len(w) - n
           /\ \A i \in 1..(Len(w) - n) :
                 SubSeq(w, n + 1, Len(w))[i] = w[n + i]
           /\ Accounts(SubSeq(w, n + 1, Len(w)), log, cut)
<1> DEFINE v == SubSeq(w, n + 1, Len(w))
<1>1. Len(w) \in Nat /\ Len(log) \in Nat /\ n \in Int /\ n + 1 \in Int
      /\ Len(w) \in Int
  BY LenProperties
<1>2. \A i \in (n + 1)..Len(w) : w[i] \in Nat
  BY <1>1, ElementOfSeq
<1>3. /\ v \in Seq(Nat)
      /\ Len(v) = IF n + 1 <= Len(w) THEN Len(w) - (n + 1) + 1 ELSE 0
      /\ \A i \in 1..(Len(w) - (n + 1) + 1) : v[i] = w[(n + 1) + i - 1]
  BY <1>1, <1>2, SubSeqProperties
<1>4. Len(v) = Len(w) - n
  BY <1>1, <1>3
<1>5. \A i \in 1..(Len(w) - n) : v[i] = w[n + i]
  BY <1>1, <1>3
<1> HIDE DEF v
<1>6. \A i \in 1..(Len(log) - Len(v)) : log[i] <= cut
  <2> SUFFICES ASSUME NEW i \in 1..(Len(log) - Len(v)) PROVE log[i] <= cut
    OBVIOUS
  <2>1. CASE i <= Len(log) - Len(w)
    BY <2>1, <1>1, <1>4 DEF Accounts
  <2>2. CASE i > Len(log) - Len(w)
    <3>1. i - (Len(log) - Len(w)) \in 1..n
      BY <2>2, <1>1, <1>4 DEF Accounts
    <3>2. w[i - (Len(log) - Len(w))] = log[i]
      BY <3>1, <1>1 DEF Accounts
    <3> QED  BY <3>1, <3>2
  <2> QED  BY <2>1, <2>2, <1>1, <1>4
<1>7. \A i \in 1..Len(v) : v[i] = log[Len(log) - Len(v) + i]
  BY <1>1, <1>4, <1>5 DEF Accounts
<1>8. Accounts(v, log, cut)
  BY <1>1, <1>4, <1>6, <1>7 DEF Accounts
<1> QED  BY <1>3, <1>4, <1>5, <1>8 DEF v

\* Recording a grant in the deque and in the log keeps them in step.
LEMMA AccountsAppend ==
    ASSUME NEW w \in Seq(Nat), NEW log \in Seq(Nat), NEW cut \in Int,
           Accounts(w, log, cut), NEW t \in Nat
    PROVE  Accounts(Append(w, t), Append(log, t), cut)
<1> DEFINE v == Append(w, t)
           l == Append(log, t)
<1>1. Len(w) \in Nat /\ Len(log) \in Nat
  BY LenProperties
<1>2. /\ Len(v) = Len(w) + 1 /\ v[Len(w) + 1] = t
      /\ \A i \in 1..Len(w) : v[i] = w[i]
  BY AppendProperties
<1>3. /\ Len(l) = Len(log) + 1 /\ l[Len(log) + 1] = t
      /\ \A i \in 1..Len(log) : l[i] = log[i]
  BY AppendProperties
<1> HIDE DEF v, l
<1>4. \A i \in 1..Len(v) : v[i] = l[Len(l) - Len(v) + i]
  <2> SUFFICES ASSUME NEW i \in 1..Len(v)
               PROVE  v[i] = l[Len(l) - Len(v) + i]
    OBVIOUS
  <2>1. Len(l) - Len(v) + i = Len(log) - Len(w) + i
    BY <1>1, <1>2, <1>3
  <2>2. CASE i \in 1..Len(w)
    <3>1. Len(log) - Len(w) + i \in 1..Len(log)
      BY <2>2, <1>1 DEF Accounts
    <3>2. l[Len(log) - Len(w) + i] = log[Len(log) - Len(w) + i]
      BY <3>1, <1>3
    <3>3. w[i] = log[Len(log) - Len(w) + i]
      BY <2>2 DEF Accounts
    <3> QED  BY <2>1, <2>2, <3>2, <3>3, <1>2
  <2>3. CASE i = Len(w) + 1
    <3>1. Len(log) - Len(w) + i = Len(log) + 1
      BY <2>3, <1>1
    <3> QED  BY <2>1, <2>3, <3>1, <1>2, <1>3
  <2> QED  BY <2>2, <2>3, <1>1, <1>2
<1>5. \A i \in 1..(Len(l) - Len(v)) : l[i] <= cut
  <2> SUFFICES ASSUME NEW i \in 1..(Len(l) - Len(v)) PROVE l[i] <= cut
    OBVIOUS
  <2>1. i \in 1..(Len(log) - Len(w)) /\ i \in 1..Len(log)
    BY <1>1, <1>2, <1>3
  <2> QED  BY <2>1, <1>3 DEF Accounts
<1>6. Len(v) <= Len(l)
  BY <1>1, <1>2, <1>3 DEF Accounts
<1>7. Accounts(v, l, cut)
  BY <1>4, <1>5, <1>6 DEF Accounts
<1> QED  BY <1>7 DEF v, l

\* Time passes only in favour of the deque.
LEMMA AccountsLater ==
    ASSUME NEW w \in Seq(Nat), NEW log \in Seq(Nat), NEW cut \in Int,
           Accounts(w, log, cut), NEW later \in Int, later >= cut
    PROVE  Accounts(w, log, later)
BY LenProperties, ElementOfSeq DEF Accounts
-----------------------------------------------------------------------------
(* Lemmas about the operators of the limiter *)

\* Sweeping forgets only callers whose every grant has left the window.
LEMMA SweptTable ==
    ASSUME IInv
    PROVE  /\ DOMAIN Swept \subseteq DOMAIN hits
           /\ \A c \in DOMAIN Swept :
                 /\ Swept[c] = hits[c]
                 /\ Swept[c] # <<>>
                 /\ Swept[c][Len(Swept[c])] > lastSweep - Window
                 /\ SweepDue => Swept[c][Len(Swept[c])] > Cutoff
           /\ \A c \in Callers :
                 /\ WindowOf(Swept, c) \in Seq(Nat)
                 /\ Len(WindowOf(Swept, c)) <= MaxRequests
                 /\ Accounts(WindowOf(Swept, c), granted[c], Cutoff)
<1> USE DEF IInv
<1>1. /\ now \in Int /\ lastSweep \in Int /\ Window \in Int /\ Cutoff \in Int
      /\ MaxRequests \in Nat
  BY LimiterAssumption DEF TypeOK, Cutoff
<1>2. \A c \in DOMAIN hits :
        hits[c] \in Seq(Nat) /\ hits[c][Len(hits[c])] \in Nat
  BY ElementOfSeq, EmptySeq DEF TypeOK, SweepOK
<1>3. /\ DOMAIN Swept \subseteq DOMAIN hits
      /\ \A c \in DOMAIN Swept : Swept[c] = hits[c]
  BY DEF Swept
<1>4. ASSUME SweepDue, NEW c \in DOMAIN Swept
      PROVE  Swept[c][Len(Swept[c])] > Cutoff
  BY <1>1, <1>2, <1>4 DEF Swept, Stale
<1>5. ASSUME NEW c \in Callers
      PROVE  /\ WindowOf(Swept, c) \in Seq(Nat)
             /\ Len(WindowOf(Swept, c)) <= MaxRequests
             /\ Accounts(WindowOf(Swept, c), granted[c], Cutoff)
  <2>1. CASE c \in DOMAIN Swept \/ c \notin DOMAIN hits
    BY <2>1, <1>2, <1>3, EmptySeq DEF WindowOf, TableOK
  <2>2. CASE c \in DOMAIN hits /\ c \notin DOMAIN Swept
    <3>1. WindowOf(Swept, c) = <<>> /\ WindowOf(hits, c) = hits[c]
      BY <2>2 DEF WindowOf
    <3>2. Stale(hits[c])
      BY <2>2 DEF Swept
    <3>3. granted[c] \in Seq(Nat) /\ Sorted(granted[c])
      BY DEF TypeOK, LogOK
    <3>4. Accounts(hits[c], granted[c], Cutoff)
      BY <3>1 DEF TableOK
    <3>5. Accounts(<<>>, granted[c], Cutoff)
      BY <1>1, <1>2, <2>2, <3>2, <3>3, <3>4, AccountsStale DEF Stale
    <3>6. Len(<<>>) = 0
      BY EmptySeq
    <3> QED  BY <1>1, <3>1, <3>5, <3>6, EmptySeq
  <2> QED  BY <2>1, <2>2
<1> QED  BY <1>3, <1>4, <1>5 DEF SweepOK
-----------------------------------------------------------------------------
(* The inductive invariant *)

LEMMA InitIInv == Init => IInv
<1> SUFFICES ASSUME Init PROVE IInv
  OBVIOUS
<1> USE LimiterAssumption DEF Init
<1>1. \A c \in Callers : granted[c] = <<>> /\ WindowOf(hits, c) = <<>>
  BY DEF WindowOf
<1>2. Len(<<>>) = 0 /\ <<>> \in Seq(Nat) /\ DOMAIN <<>> = {}
  BY EmptySeq
<1>3. TypeOK
  BY <1>2 DEF TypeOK, Answers, NoPromise
<1>4. LogOK /\ BudgetPerWindow
  BY <1>1, <1>2 DEF LogOK, Sorted, BudgetPerWindow
<1>5. TableOK
  <2>1. Accounts(<<>>, <<>>, Cutoff)
    <3>1. 1..0 = {} /\ Len(<<>>) - Len(<<>>) = 0
      BY <1>2
    <3> QED  BY <1>2, <3>1 DEF Accounts
  <2>2. 0 <= MaxRequests
    OBVIOUS
  <2> QED  BY <1>1, <1>2, <2>1, <2>2 DEF TableOK
<1>6. SweepOK
  BY DEF SweepOK
<1> QED  BY <1>3, <1>4, <1>5, <1>6 DEF IInv

LEMMA TickIInv == IInv /\ Tick => IInv'
<1> SUFFICES ASSUME IInv, Tick PROVE IInv'
  OBVIOUS
<1> USE DEF IInv, Tick
<1>1. now \in Nat /\ now' = now + 1 /\ Window \in Int /\ lastSweep \in Nat
  BY LimiterAssumption DEF TypeOK
<1>2. TypeOK' /\ BudgetPerWindow'
  BY <1>1 DEF TypeOK, BudgetPerWindow
<1>3. LogOK'
  <2> SUFFICES ASSUME NEW c \in Callers, NEW i \in DOMAIN granted[c]
               PROVE  granted[c][i] <= now'
    BY DEF LogOK, Sorted
  <2>1. granted[c][i] \in Nat /\ granted[c][i] <= now
    BY ElementOfSeq, LenProperties DEF LogOK, TypeOK
  <2> QED  BY <1>1, <2>1
<1>4. TableOK'
  <2> SUFFICES ASSUME NEW c \in Callers
               PROVE  Accounts(WindowOf(hits, c), granted[c], Cutoff')
    BY DEF TableOK, WindowOf
  <2>1. WindowOf(hits, c) \in Seq(Nat) /\ granted[c] \in Seq(Nat)
    BY EmptySeq DEF WindowOf, TypeOK
  <2>2. Cutoff \in Int /\ Cutoff' \in Int /\ Cutoff' >= Cutoff
    BY <1>1 DEF Cutoff
  <2> QED  BY <2>1, <2>2, AccountsLater DEF TableOK
<1>5. SweepOK'
  BY <1>1 DEF SweepOK
<1> QED  BY <1>2, <1>3, <1>4, <1>5

\* What a check of c leaves behind, whatever it answers.
LEMMA CheckOutcome ==
    ASSUME IInv, NEW c \in Callers, Check(c)
    PROVE  /\ now' = now
           /\ lastSweep' = IF SweepDue THEN now ELSE lastSweep
           /\ DOMAIN hits' = DOMAIN Swept \cup {c}
           /\ \A d \in DOMAIN Swept : d # c => hits'[d] = Swept[d]
           /\ hits'[c] \in Seq(Nat)
           /\ hits'[c] # <<>>
           /\ Len(hits'[c]) <= MaxRequests
           /\ hits'[c][Len(hits'[c])] > lastSweep' - Window
           /\ Accounts(hits'[c], granted'[c], Cutoff)
           /\ \E k \in {"grant", "deny"} :
                 answer' = [kind |-> k, caller |-> c, at |-> now]
           /\ comeBack' \in [Callers -> Int]
           /\ \/ granted' = granted
              \/ /\ granted' = [granted EXCEPT ![c] = Append(@, now)]
                 /\ \A i \in DOMAIN granted[c] :
                       i <= Len(granted[c]) + 1 - MaxRequests
                          => granted[c][i] <= Cutoff
<1> DEFINE window == WindowOf(Swept, c)
<1>1. window \in Seq(Nat) /\ Len(window) <= MaxRequests
      /\ Accounts(window, granted[c], Cutoff)
  BY SweptTable
<1>2. PICK n \in 0..Len(window) :
        /\ PopsExactly(window, n)
        /\ \/ Deny(c, SubSeq(window, n + 1, Len(window)))
           \/ Grant(c, SubSeq(window, n + 1, Len(window)))
  BY DEF Check
<1> DEFINE live == SubSeq(window, n + 1, Len(window))
<1>3. /\ now \in Nat /\ lastSweep \in Nat /\ Cutoff \in Int /\ lastSweep <= now
      /\ Window \in Nat \ {0} /\ MaxRequests \in Nat \ {0} /\ Cutoff = now - Window
      /\ TicksPerSecond \in Nat \ {0}
      /\ granted \in [Callers -> Seq(Nat)] /\ comeBack \in [Callers -> Int]
  BY LimiterAssumption DEF IInv, TypeOK, Cutoff, SweepOK
<1>4. Len(window) \in Nat /\ Len(granted[c]) \in Nat
  BY <1>1, <1>3, LenProperties
<1>5. /\ live \in Seq(Nat) /\ Len(live) = Len(window) - n
      /\ \A i \in 1..(Len(window) - n) : live[i] = window[n + i]
      /\ Accounts(live, granted[c], Cutoff)
  <2>1. \A i \in 1..n : window[i] <= Cutoff
    BY <1>2 DEF PopsExactly
  <2> QED  BY <1>1, <1>3, <2>1, AccountsPop
<1>6. /\ now' = now
      /\ lastSweep' = IF SweepDue THEN now ELSE lastSweep
  BY DEF Check
<1> HIDE DEF live
<1>7. CASE Deny(c, live)
  <2>1. hits' = Store(Swept, c, live) /\ Len(live) >= MaxRequests
        /\ granted' = granted
    BY <1>7 DEF Deny
  <2>2. /\ DOMAIN hits' = DOMAIN Swept \cup {c} /\ hits'[c] = live
        /\ \A d \in DOMAIN Swept : d # c => hits'[d] = Swept[d]
    BY <2>1 DEF Store
  <2>3. Len(live) \in Nat /\ Len(live) > 0 /\ live # <<>>
    BY <1>3, <1>5, <2>1, EmptySeq, LenProperties
  <2>4. live[Len(live)] = window[Len(window)]
    BY <1>4, <1>5, <2>3
  <2>5. c \in DOMAIN Swept /\ window = Swept[c]
    BY <1>4, <1>5, <2>3, EmptySeq DEF WindowOf
  <2>6. live[Len(live)] > lastSweep' - Window
    BY <1>3, <1>6, <2>4, <2>5, SweptTable
  <2>7. comeBack' \in [Callers -> Int]
    <3>1. live[1] \in Nat
      BY <1>5, <2>3, ElementOfSeq
    <3>2. (live[1] + Window - now) \div TicksPerSecond \in Int
      BY <1>3, <3>1
    <3>3. RetryAfter(live) \in Int
      BY <3>2 DEF RetryAfter
    <3> QED  BY <1>3, <1>7, <3>3 DEF Deny
  <2>8. Len(live) <= MaxRequests
    BY <1>1, <1>3, <1>4, <1>5
  <2> QED  BY <1>5, <1>6, <1>7, <2>1, <2>2, <2>3, <2>6, <2>7, <2>8 DEF Deny
<1>8. CASE Grant(c, live)
  <2>1. hits' = Store(Swept, c, Append(live, now)) /\ Len(live) < MaxRequests
        /\ granted' = [granted EXCEPT ![c] = Append(@, now)]
        /\ comeBack' \in [Callers -> Int]
    BY <1>3, <1>8 DEF Grant, NoPromise
  <2>2. /\ DOMAIN hits' = DOMAIN Swept \cup {c} /\ hits'[c] = Append(live, now)
        /\ \A d \in DOMAIN Swept : d # c => hits'[d] = Swept[d]
    BY <2>1 DEF Store
  <2>3. /\ hits'[c] \in Seq(Nat) /\ hits'[c] # <<>>
        /\ Len(hits'[c]) = Len(live) + 1 /\ hits'[c][Len(live) + 1] = now
    <3>1. now \in Nat /\ live \in Seq(Nat)
      BY <1>3, <1>5
    <3>2. /\ Append(live, now) \in Seq(Nat) /\ Append(live, now) # <<>>
          /\ Len(Append(live, now)) = Len(live) + 1
          /\ Append(live, now)[Len(live) + 1] = now
      BY <3>1, AppendProperties
    <3> QED  BY <2>2, <3>2
  <2>4. Len(live) \in Nat
    BY <1>5, LenProperties
  <2>5. Len(hits'[c]) <= MaxRequests
    BY <1>3, <2>1, <2>3, <2>4
  <2>6. hits'[c][Len(hits'[c])] > lastSweep' - Window
    BY <1>3, <1>6, <2>3
  <2>7. granted'[c] = Append(granted[c], now)
    BY <1>3, <2>1
  <2>8. Accounts(hits'[c], granted'[c], Cutoff)
    BY <1>3, <1>5, <2>2, <2>7, AccountsAppend
  <2>9. \A i \in DOMAIN granted[c] :
           i <= Len(granted[c]) + 1 - MaxRequests => granted[c][i] <= Cutoff
    <3> SUFFICES ASSUME NEW i \in DOMAIN granted[c],
                        i <= Len(granted[c]) + 1 - MaxRequests
                 PROVE  granted[c][i] <= Cutoff
      OBVIOUS
    <3>1. i \in 1..Len(granted[c])
      BY <1>3, LenProperties
    <3>2. i \in 1..(Len(granted[c]) - Len(live))
      BY <1>3, <1>4, <2>1, <2>4, <3>1
    <3> QED  BY <1>5, <3>2 DEF Accounts
  <2> QED  BY <1>6, <1>8, <2>1, <2>2, <2>3, <2>5, <2>6, <2>8, <2>9 DEF Grant
<1> QED  BY <1>2, <1>7, <1>8 DEF live

LEMMA CheckIInv == ASSUME IInv, NEW c \in Callers, Check(c) PROVE IInv'
<1> DEFINE log == granted[c]
<1>a. /\ now' = now
      /\ lastSweep' = IF SweepDue THEN now ELSE lastSweep
  BY CheckOutcome
<1>b. PICK k \in {"grant", "deny"} :
        answer' = [kind |-> k, caller |-> c, at |-> now]
  BY CheckOutcome
<1>1. /\ now \in Nat /\ now' = now /\ lastSweep \in Nat /\ lastSweep <= now
      /\ Window \in Nat \ {0} /\ Cutoff \in Int /\ Cutoff = now - Window
      /\ Cutoff' = Cutoff /\ MaxRequests \in Nat \ {0}
      /\ granted \in [Callers -> Seq(Nat)] /\ log \in Seq(Nat)
      /\ Len(log) \in Nat /\ DOMAIN log = 1..Len(log)
  BY <1>a, LimiterAssumption, LenProperties DEF IInv, TypeOK, SweepOK, Cutoff
<1>2. /\ lastSweep' \in Nat /\ lastSweep' <= now /\ now - lastSweep' < Window
      /\ lastSweep' = lastSweep \/ (SweepDue /\ lastSweep' = now)
  BY <1>a, <1>1 DEF SweepDue
<1>3. /\ DOMAIN hits' = DOMAIN Swept \cup {c} /\ DOMAIN hits' \subseteq Callers
      /\ \A d \in DOMAIN Swept : d # c => hits'[d] = Swept[d] /\ hits'[d] = hits[d]
  BY CheckOutcome, SweptTable DEF IInv, TypeOK
<1>4. \A d \in Callers : d # c => granted'[d] = granted[d]
  BY <1>1, CheckOutcome
<1>5. /\ granted'[c] \in Seq(Nat)
      /\ \/ granted'[c] = log
         \/ /\ Len(granted'[c]) = Len(log) + 1
            /\ granted'[c][Len(log) + 1] = now
            /\ \A i \in 1..Len(log) : granted'[c][i] = log[i]
            /\ \A i \in 1..Len(log) :
                  i <= Len(log) + 1 - MaxRequests => log[i] <= Cutoff
  <2>1. CASE granted' = granted
    BY <1>1, <2>1
  <2>2. CASE granted' # granted
    <3>1. /\ granted' = [granted EXCEPT ![c] = Append(@, now)]
          /\ \A i \in DOMAIN log :
                i <= Len(log) + 1 - MaxRequests => log[i] <= Cutoff
      BY <2>2, CheckOutcome
    <3>2. granted'[c] = Append(log, now)
      BY <1>1, <3>1
    <3> HIDE DEF log
    <3>3. /\ Append(log, now) \in Seq(Nat)
          /\ Len(Append(log, now)) = Len(log) + 1
          /\ Append(log, now)[Len(log) + 1] = now
          /\ \A i \in 1..Len(log) : Append(log, now)[i] = log[i]
      BY <1>1, AppendProperties
    <3> QED  BY <1>1, <3>1, <3>2, <3>3
  <2> QED  BY <2>1, <2>2
<1>6. /\ DOMAIN granted'[c] = 1..Len(granted'[c])
      /\ \A i \in 1..Len(log) : log[i] \in Nat /\ log[i] <= now
      /\ Sorted(log)
  BY <1>1, <1>5, ElementOfSeq, LenProperties DEF IInv, LogOK
<1>6a. ASSUME granted'[c] # log
       PROVE  /\ DOMAIN granted'[c] = 1..(Len(log) + 1)
              /\ granted'[c][Len(log) + 1] = now
              /\ \A i \in 1..Len(log) : granted'[c][i] = log[i]
  BY <1>5, <1>6, <1>6a
<1>7. TypeOK'
  <2>1. granted' \in [Callers -> Seq(Nat)]
    <3>1. CASE granted' = granted
      BY <1>1, <3>1
    <3>2. CASE granted' = [granted EXCEPT ![c] = Append(@, now)]
      BY <1>1, <1>5, <3>2
    <3> QED  BY <3>1, <3>2, CheckOutcome
  <2>2. \A d \in DOMAIN hits' : hits'[d] \in Seq(Nat)
    BY <1>3, CheckOutcome, SweptTable DEF IInv, TypeOK
  <2>3. answer' \in Answers
    BY <1>b, <1>1 DEF Answers
  <2> QED  BY <1>1, <1>2, <1>3, <2>1, <2>2, <2>3, CheckOutcome DEF TypeOK
<1>8. LogOK'
  <2>1. \A d \in Callers : d # c =>
           Sorted(granted'[d]) /\ \A i \in DOMAIN granted'[d] : granted'[d][i] <= now
    BY <1>4 DEF IInv, LogOK
  <2>2. \A i \in DOMAIN granted'[c] : granted'[c][i] <= now
    <3>1. CASE granted'[c] = log
      BY <1>1, <1>6, <3>1
    <3>2. CASE granted'[c] # log
      <4> HIDE DEF log
      <4> SUFFICES ASSUME NEW i \in 1..(Len(log) + 1)
                   PROVE  granted'[c][i] <= now
        BY <1>6a, <3>2
      <4>1. CASE i = Len(log) + 1
        BY <1>1, <1>6a, <3>2, <4>1
      <4>2. CASE i # Len(log) + 1
        <5>1. i \in 1..Len(log)
          BY <1>1, <4>2
        <5> QED  BY <1>6, <1>6a, <3>2, <5>1
      <4> QED  BY <4>1, <4>2
    <3> QED  BY <3>1, <3>2
  <2>3. Sorted(granted'[c])
    <3>1. CASE granted'[c] = log
      BY <3>1, <1>6
    <3>2. CASE granted'[c] # log
      <4> SUFFICES ASSUME NEW i \in DOMAIN granted'[c],
                          NEW j \in DOMAIN granted'[c], i <= j
                   PROVE  granted'[c][i] <= granted'[c][j]
        BY DEF Sorted
      <4>1. i \in 1..(Len(log) + 1) /\ j \in 1..(Len(log) + 1)
        BY <3>2, <1>5, <1>6
      <4> HIDE DEF log
      <4>2. CASE j = Len(log) + 1
        <5>1. granted'[c][i] <= now
          BY <2>2
        <5> QED  BY <1>6a, <3>2, <4>2, <5>1
      <4>3. CASE j # Len(log) + 1
        <5>1. i \in 1..Len(log) /\ j \in 1..Len(log)
          BY <1>1, <4>1, <4>3
        <5> QED  BY <3>2, <5>1, <1>1, <1>5, <1>6 DEF Sorted
      <4> QED  BY <4>2, <4>3
    <3> QED  BY <3>1, <3>2
  <2> QED  BY <1>1, <2>1, <2>2, <2>3 DEF LogOK, Sorted
<1>9. TableOK'
  <2> SUFFICES ASSUME NEW d \in Callers
               PROVE  /\ Len(WindowOf(hits', d)) <= MaxRequests
                      /\ Accounts(WindowOf(hits', d), granted'[d], Cutoff)
    BY <1>1 DEF TableOK, WindowOf, Accounts
  <2>1. CASE d = c
    BY <2>1, <1>3, CheckOutcome DEF WindowOf
  <2>2. CASE d # c
    <3>1. WindowOf(hits', d) = WindowOf(Swept, d)
      BY <2>2, <1>3 DEF WindowOf
    <3> QED  BY <2>2, <3>1, <1>4, SweptTable
  <2> QED  BY <2>1, <2>2
<1>10. SweepOK'
  <2>1. \A d \in DOMAIN hits' :
           hits'[d] # <<>> /\ hits'[d][Len(hits'[d])] > lastSweep' - Window
    BY <1>1, <1>2, <1>3, CheckOutcome, SweptTable
  <2>2. answer'.at = now
    BY <1>b
  <2> QED  BY <1>1, <1>2, <2>1, <2>2 DEF SweepOK
<1>11. BudgetPerWindow'
  <2> SUFFICES ASSUME NEW d \in Callers,
                      NEW i \in DOMAIN granted'[d], NEW j \in DOMAIN granted'[d],
                      j >= i + MaxRequests
               PROVE  granted'[d][j] - granted'[d][i] >= Window
    BY DEF BudgetPerWindow
  <2>1. CASE granted'[d] = granted[d]
    BY <2>1 DEF IInv, BudgetPerWindow
  <2>2. CASE d = c /\ granted'[c] # log
    <3>1. CASE j = Len(log) + 1
      <4>1. i \in 1..Len(log) /\ i <= Len(log) + 1 - MaxRequests
        BY <1>1, <1>5, <1>6, <2>2, <3>1
      <4>2. granted'[c][i] = log[i] /\ log[i] <= Cutoff /\ log[i] \in Nat
        BY <1>5, <1>6, <2>2, <4>1
      <4>3. granted'[c][j] = now
        BY <1>6a, <2>2, <3>1
      <4>4. now - log[i] >= Window
        BY <1>1, <4>2
      <4> QED  BY <2>2, <4>2, <4>3, <4>4
    <3>2. CASE j # Len(log) + 1
      <4>0. i \in 1..(Len(log) + 1) /\ j \in 1..(Len(log) + 1)
        BY <1>5, <1>6, <2>2
      <4>1. i \in 1..Len(log) /\ j \in 1..Len(log)
        <5> HIDE DEF log
        <5> QED  BY <1>1, <3>2, <4>0
      <4>2. log[j] - log[i] >= Window
        BY <1>1, <4>1 DEF IInv, BudgetPerWindow
      <4> QED  BY <1>5, <2>2, <4>1, <4>2
    <3> QED  BY <3>1, <3>2
  <2> QED  BY <2>1, <2>2, <1>4
<1> QED  BY <1>7, <1>8, <1>9, <1>10, <1>11 DEF IInv

LEMMA StepIInv == IInv /\ [Next]_vars => IInv'
<1> SUFFICES ASSUME IInv, [Next]_vars PROVE IInv'
  OBVIOUS
<1>1. CASE Tick
  BY <1>1, TickIInv
<1>2. CASE \E c \in Callers : Check(c)
  BY <1>2, CheckIInv
<1>3. CASE UNCHANGED vars
  BY <1>3 DEF vars, IInv, TypeOK, LogOK, TableOK, SweepOK, BudgetPerWindow,
              WindowOf, Cutoff, Answers
<1> QED  BY <1>1, <1>2, <1>3 DEF Next

LEMMA SpecIInv == Spec => []IInv
BY InitIInv, StepIInv, PTL DEF Spec
-----------------------------------------------------------------------------
(* Theorems *)

\* The limiter's state and the history kept beside it are well typed.
THEOREM TypeCorrect == Spec => []TypeOK
<1>1. IInv => TypeOK
  BY DEF IInv
<1> QED  BY <1>1, SpecIInv, PTL

\* No caller is ever granted more than MaxRequests requests in a window: the
\* lazily pruned, occasionally swept table of check() (security.py:69-104)
\* never forgets a grant that still counts.
THEOREM BudgetHolds == Spec => []BudgetPerWindow
<1>1. IInv => BudgetPerWindow
  BY DEF IInv
<1> QED  BY <1>1, SpecIInv, PTL

\* The table only ever holds callers granted something in the last two
\* windows, however many callers there are (_sweep_if_due, security.py:87-104).
THEOREM TableStaysSmall == Spec => []OnlyRecentCallersTracked
<1>1. IInv => OnlyRecentCallersTracked
  <2> SUFFICES ASSUME IInv, answer.kind # "none", NEW c \in DOMAIN hits
               PROVE  /\ hits[c] # <<>>
                      /\ hits[c][Len(hits[c])] > answer.at - 2 * Window
    BY DEF OnlyRecentCallersTracked
  <2>1. /\ hits[c] # <<>> /\ hits[c][Len(hits[c])] > lastSweep - Window
        /\ answer.at - lastSweep < Window
    BY DEF IInv, SweepOK
  <2>2. hits[c][Len(hits[c])] \in Nat
    BY <2>1, ElementOfSeq, EmptySeq DEF IInv, TypeOK
  <2>3. answer.at \in Nat /\ lastSweep \in Nat /\ Window \in Nat
    BY LimiterAssumption DEF IInv, TypeOK, Answers
  <2> QED  BY <2>1, <2>2, <2>3
<1> QED  BY <1>1, SpecIInv, PTL
-----------------------------------------------------------------------------
(* The limiter implements the budget decided from the whole log *)

\* A pruned deque counts exactly the grants of the log still in the window.
LEMMA LiveCount ==
    ASSUME NEW w \in Seq(Nat), NEW log \in Seq(Nat), NEW cut \in Int,
           Accounts(w, log, cut), Sorted(log),
           Len(w) > 0 => w[1] > cut
    PROVE  Cardinality({i \in DOMAIN log : log[i] > cut}) = Len(w)
<1> DEFINE first == Len(log) - Len(w) + 1
<1>1. /\ Len(w) \in Nat /\ Len(log) \in Nat /\ DOMAIN log = 1..Len(log)
      /\ first \in Int /\ first >= 1
      /\ \A i \in 1..Len(log) : log[i] \in Nat
  BY ElementOfSeq, LenProperties DEF Accounts
<1>2. ASSUME NEW i \in 1..Len(log) PROVE log[i] > cut <=> i >= first
  <2>1. CASE i < first
    <3>1. log[i] <= cut
      BY <1>1, <2>1 DEF Accounts
    <3> QED  BY <1>1, <2>1, <3>1
  <2>2. CASE i >= first
    <3>1. Len(w) > 0 /\ first \in 1..Len(log)
      BY <1>1, <2>2
    <3>2. w[1] = log[first]
      <4>1. 1 \in 1..Len(w) /\ Len(log) - Len(w) + 1 = first
        BY <1>1, <3>1
      <4> QED  BY <4>1 DEF Accounts
    <3>3. log[first] <= log[i]
      BY <1>1, <2>2, <3>1 DEF Sorted
    <3> QED  BY <1>1, <2>2, <3>1, <3>2, <3>3
  <2> QED  BY <1>1, <2>1, <2>2
<1>3. {i \in DOMAIN log : log[i] > cut} = first..Len(log)
  <2> HIDE DEF first
  <2> QED  BY <1>1, <1>2
<1>4. Cardinality(first..Len(log)) =
        IF first > Len(log) THEN 0 ELSE Len(log) - first + 1
  <2>1. \A a, b \in Int :
           Cardinality(a..b) = IF a > b THEN 0 ELSE b - a + 1
    BY FS_Interval
  <2>2. first \in Int /\ Len(log) \in Int
    BY <1>1
  <2> HIDE DEF first
  <2> QED  BY <2>1, <2>2
<1>5. (IF first > Len(log) THEN 0 ELSE Len(log) - first + 1) = Len(w)
  BY <1>1
<1> QED  BY <1>3, <1>4, <1>5

\* The abstract specification counts with the Cardinality of its own
\* instance of FiniteSets.
LEMMA SameCardinality ==
    ASSUME NEW S PROVE Budget!Cardinality(S) = Cardinality(S)
BY DEF Cardinality, Budget!Cardinality

LEMMA CheckAnswers ==
    ASSUME IInv, NEW c \in Callers, Check(c)
    PROVE  Budget!Grant(c) \/ Budget!Deny(c)
<1> DEFINE window == WindowOf(Swept, c)
<1>1. /\ window \in Seq(Nat) /\ Len(window) <= MaxRequests
      /\ Accounts(window, granted[c], Cutoff)
  BY SweptTable
<1>2. PICK n \in 0..Len(window) :
        /\ PopsExactly(window, n)
        /\ \/ Deny(c, SubSeq(window, n + 1, Len(window)))
           \/ Grant(c, SubSeq(window, n + 1, Len(window)))
  BY DEF Check
<1> DEFINE live == SubSeq(window, n + 1, Len(window))
<1>3. /\ Cutoff \in Int /\ granted[c] \in Seq(Nat) /\ Sorted(granted[c])
      /\ Cutoff = now - Window
  BY LimiterAssumption DEF IInv, TypeOK, LogOK, Cutoff
<1>4. Len(window) \in Nat
  BY <1>1, LenProperties
<1>5. /\ live \in Seq(Nat) /\ Len(live) = Len(window) - n
      /\ \A i \in 1..(Len(window) - n) : live[i] = window[n + i]
      /\ Accounts(live, granted[c], Cutoff)
  <2>1. \A i \in 1..n : window[i] <= Cutoff
    BY <1>2 DEF PopsExactly
  <2> QED  BY <1>1, <1>3, <2>1, AccountsPop
<1> HIDE DEF live
<1>6. Len(live) > 0 => live[1] > Cutoff
  BY <1>2, <1>4, <1>5 DEF PopsExactly
<1>7. Budget!Cardinality(Budget!Counted(c)) = Len(live)
  <2>1. Budget!Counted(c) = {i \in DOMAIN granted[c] : granted[c][i] > Cutoff}
    BY <1>3 DEF Budget!Counted
  <2>2. Cardinality({i \in DOMAIN granted[c] : granted[c][i] > Cutoff}) = Len(live)
    BY <1>3, <1>5, <1>6, LiveCount
  <2> QED  BY <2>1, <2>2, SameCardinality
<1>8. UNCHANGED now
  BY DEF Check
<1>9. CASE Deny(c, live)
  BY <1>7, <1>8, <1>9 DEF Deny, Budget!Deny
<1>10. CASE Grant(c, live)
  BY <1>7, <1>8, <1>10 DEF Grant, Budget!Grant
<1> QED  BY <1>2, <1>9, <1>10 DEF live

\* Every answer of check() is the one the complete log of grants gives:
\* pruning lazily, sweeping once a window and sharing one table with the
\* other callers changes no answer (security.py:69-104).
THEOREM LimiterImplementsBudget == Spec => ImplementsBudget
<1>1. Init => Budget!Init
  BY DEF Init, Budget!Init
<1>2. IInv /\ [Next]_vars => [Budget!Next]_(Budget!vars)
  <2> SUFFICES ASSUME IInv, [Next]_vars
               PROVE  [Budget!Next]_(Budget!vars)
    OBVIOUS
  <2>1. CASE Tick
    BY <2>1 DEF Tick, Budget!Tick, Budget!Next
  <2>2. CASE \E c \in Callers : Check(c)
    BY <2>2, CheckAnswers DEF Budget!Next
  <2>3. CASE UNCHANGED vars
    BY <2>3 DEF vars, Budget!vars
  <2> QED  BY <2>1, <2>2, <2>3 DEF Next
<1> QED  BY <1>1, <1>2, SpecIInv, PTL DEF Spec, Budget!Spec, ImplementsBudget
-----------------------------------------------------------------------------
(* A Retry-After is kept *)

\* The moment a denied caller was told to come back at, it has no more than
\* its newest MaxRequests - 1 grants left in the window.
PromiseOf(c) ==
    comeBack[c] # NoPromise =>
        /\ Len(granted[c]) >= MaxRequests
        /\ granted[c][Len(granted[c]) - MaxRequests + 1] + Window <= comeBack[c]

Promises == \A c \in Callers : PromiseOf(c)

\* Rounding down and adding one waits at least as long as is left to wait.
LEMMA RoundsUp ==
    ASSUME NEW w \in Seq(Nat), Len(w) > 0, IInv
    PROVE  /\ RetryAfter(w) \in Int
           /\ now + RetryAfter(w) * TicksPerSecond >= w[1] + Window
<1> DEFINE left == w[1] + Window - now
           q == left \div TicksPerSecond
<1>1. /\ w[1] \in Nat /\ now \in Nat /\ Window \in Nat
      /\ TicksPerSecond \in Nat \ {0}
  BY LimiterAssumption, ElementOfSeq, LenProperties DEF IInv, TypeOK
<1>2. left \in Int /\ w[1] + Window = now + left
  BY <1>1
<1> HIDE DEF left
<1>3. q \in Int /\ left < TicksPerSecond * q + TicksPerSecond
  BY <1>1, <1>2
<1>4. RetryAfter(w) = IF q + 1 < 1 THEN 1 ELSE q + 1
  BY DEF RetryAfter, left
<1> HIDE DEF q
<1>5. RetryAfter(w) \in Int /\ RetryAfter(w) >= q + 1
  BY <1>3, <1>4
<1>6. RetryAfter(w) * TicksPerSecond >= (q + 1) * TicksPerSecond
  <2>1. \A a, b, d \in Int : a >= b /\ d > 0 => a * d >= b * d
    OBVIOUS
  <2>2. /\ RetryAfter(w) \in Int /\ q + 1 \in Int /\ TicksPerSecond \in Int
        /\ TicksPerSecond > 0
    BY <1>1, <1>3, <1>5
  <2> QED  BY <1>5, <2>1, <2>2, Zenon
<1>7. (q + 1) * TicksPerSecond = TicksPerSecond * q + TicksPerSecond
  BY <1>1, <1>3
<1> QED  BY <1>1, <1>2, <1>3, <1>5, <1>6, <1>7

\* What a check of c decides from: the newest grants of c, those still in
\* the window.
LEMMA CheckLive ==
    ASSUME IInv, NEW c \in Callers, Check(c)
    PROVE  \E live \in Seq(Nat) :
              /\ Len(live) <= MaxRequests
              /\ Accounts(live, granted[c], Cutoff)
              /\ Len(live) > 0 => live[1] > Cutoff
              /\ Deny(c, live) \/ Grant(c, live)
<1> DEFINE window == WindowOf(Swept, c)
<1>1. /\ window \in Seq(Nat) /\ Len(window) <= MaxRequests
      /\ Accounts(window, granted[c], Cutoff)
  BY SweptTable
<1>2. PICK n \in 0..Len(window) :
        /\ PopsExactly(window, n)
        /\ \/ Deny(c, SubSeq(window, n + 1, Len(window)))
           \/ Grant(c, SubSeq(window, n + 1, Len(window)))
  BY DEF Check
<1> DEFINE live == SubSeq(window, n + 1, Len(window))
<1>3. /\ Cutoff \in Int /\ granted[c] \in Seq(Nat) /\ MaxRequests \in Nat
  BY LimiterAssumption DEF IInv, TypeOK, Cutoff
<1>4. Len(window) \in Nat
  BY <1>1, LenProperties
<1>5. /\ live \in Seq(Nat) /\ Len(live) = Len(window) - n
      /\ \A i \in 1..(Len(window) - n) : live[i] = window[n + i]
      /\ Accounts(live, granted[c], Cutoff)
  <2>1. \A i \in 1..n : window[i] <= Cutoff
    BY <1>2 DEF PopsExactly
  <2> QED  BY <1>1, <1>3, <2>1, AccountsPop
<1> HIDE DEF live
<1>6. Len(live) > 0 => live[1] > Cutoff
  BY <1>2, <1>4, <1>5 DEF PopsExactly
<1>7. Len(live) <= MaxRequests
  BY <1>1, <1>3, <1>4, <1>5
<1>8. Deny(c, live) \/ Grant(c, live)
  BY <1>2 DEF live
<1> QED  BY <1>5, <1>6, <1>7, <1>8

\* A denial names a moment at which the oldest live grant has expired, and
\* it is only given while that grant is live.
LEMMA DenyPromises ==
    ASSUME IInv, NEW c \in Callers, NEW live \in Seq(Nat),
           Len(live) <= MaxRequests, Accounts(live, granted[c], Cutoff),
           Len(live) > 0 => live[1] > Cutoff,
           Deny(c, live)
    PROVE  /\ PromiseOf(c)'
           /\ PromiseOf(c) /\ now >= comeBack[c] => comeBack[c] = NoPromise
<1> DEFINE oldest == granted[c][Len(granted[c]) - MaxRequests + 1]
<1>1. /\ MaxRequests \in Nat \ {0} /\ now \in Nat /\ Window \in Nat
      /\ TicksPerSecond \in Nat \ {0} /\ Cutoff = now - Window
      /\ granted[c] \in Seq(Nat) /\ comeBack \in [Callers -> Int]
      /\ Len(live) \in Nat /\ Len(granted[c]) \in Nat
  BY LimiterAssumption, LenProperties DEF IInv, TypeOK, Cutoff
<1>2. Len(live) = MaxRequests
  BY <1>1 DEF Deny
<1>3. Len(granted[c]) >= MaxRequests /\ live[1] = oldest /\ live[1] \in Nat
  <2>1. 1 \in 1..Len(live)
    BY <1>1, <1>2
  <2> QED  BY <1>2, <2>1, ElementOfSeq, LenProperties DEF Accounts
<1>4. live[1] > Cutoff
  BY <1>1, <1>2
<1>5. /\ comeBack'[c] = now + RetryAfter(live) * TicksPerSecond
      /\ granted' = granted
  BY <1>1 DEF Deny
<1>6. now + RetryAfter(live) * TicksPerSecond >= live[1] + Window
  BY <1>1, <1>2, RoundsUp
<1>7. PromiseOf(c)'
  <2>1. oldest + Window <= comeBack'[c]
    <3>1. RetryAfter(live) * TicksPerSecond \in Int
      BY <1>1, <1>2, RoundsUp
    <3> QED  BY <1>1, <1>3, <1>5, <1>6, <3>1
  <2> QED  BY <1>3, <1>5, <2>1 DEF PromiseOf
<1>8. ASSUME PromiseOf(c), now >= comeBack[c], comeBack[c] # NoPromise
      PROVE  FALSE
  <2>1. oldest + Window <= comeBack[c] /\ comeBack[c] \in Int
    BY <1>1, <1>8 DEF PromiseOf
  <2> HIDE DEF oldest
  <2> QED  BY <1>1, <1>3, <1>4, <1>8, <2>1
<1> QED  BY <1>7, <1>8

LEMMA GrantPromises ==
    ASSUME IInv, NEW c \in Callers, NEW live, Grant(c, live)
    PROVE  comeBack'[c] = NoPromise
BY DEF IInv, TypeOK, Grant

LEMMA CheckElsewhere ==
    ASSUME IInv, NEW c \in Callers, Check(c), NEW d \in Callers, d # c
    PROVE  comeBack'[d] = comeBack[d] /\ granted'[d] = granted[d]
BY CheckLive DEF IInv, TypeOK, Grant, Deny

LEMMA StepPromises ==
    ASSUME IInv, Promises, [Next]_vars
    PROVE  /\ Promises'
           /\ \A c \in Callers :
                 comeBack[c] # NoPromise /\ now >= comeBack[c]
                    => comeBack'[c] \in {comeBack[c], NoPromise}
<1>1. CASE Tick \/ UNCHANGED vars
  BY <1>1 DEF Tick, vars, Promises, PromiseOf
<1>2. ASSUME NEW c \in Callers, Check(c)
      PROVE  /\ Promises'
             /\ \A d \in Callers :
                   comeBack[d] # NoPromise /\ now >= comeBack[d]
                      => comeBack'[d] \in {comeBack[d], NoPromise}
  <2>1. PromiseOf(c)' /\ (now >= comeBack[c] =>
           comeBack[c] = NoPromise \/ comeBack'[c] = NoPromise)
    <3>1. PICK live \in Seq(Nat) :
             /\ Len(live) <= MaxRequests
             /\ Accounts(live, granted[c], Cutoff)
             /\ Len(live) > 0 => live[1] > Cutoff
             /\ Deny(c, live) \/ Grant(c, live)
      BY <1>2, CheckLive
    <3>2. CASE Deny(c, live)
      BY <3>1, <3>2, DenyPromises DEF Promises
    <3>3. CASE Grant(c, live)
      BY <3>3, GrantPromises DEF PromiseOf
    <3> QED  BY <3>1, <3>2, <3>3
  <2>2. ASSUME NEW d \in Callers, d # c
        PROVE  PromiseOf(d)' /\ comeBack'[d] = comeBack[d]
    BY <1>2, <2>2, CheckElsewhere DEF Promises, PromiseOf
  <2> QED  BY <2>1, <2>2 DEF Promises
<1> QED  BY <1>1, <1>2 DEF Next

\* A caller that waited as long as its Retry-After said is not refused at
\* once again, for any tick of the clock and any other callers: the rounding
\* of check() (security.py:81-82) never names too early a moment.
THEOREM RetryAfterIsKept == Spec => RetryAfterHonoured
<1>1. Init => Promises
  BY DEF Init, Promises, PromiseOf
<1>2. Promises /\ IInv /\ [Next]_vars => Promises'
  BY StepPromises
<1>3. IInv /\ Promises /\ [Next]_vars =>
        [\A c \in Callers :
            comeBack[c] # NoPromise /\ now >= comeBack[c]
               => comeBack'[c] \in {comeBack[c], NoPromise}]_vars
  BY StepPromises
<1> QED  BY <1>1, <1>2, <1>3, SpecIInv, PTL DEF Spec, RetryAfterHonoured
=============================================================================
