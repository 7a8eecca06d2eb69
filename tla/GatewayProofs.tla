---------------------------- MODULE GatewayProofs ----------------------------
(***************************************************************************)
(* The worker pool is never overdrawn, no window outgrows the budget, and  *)
(* the stages, threads and handlers together answer and count as           *)
(* HttpContract says, for any requests, callers, pool and number of        *)
(* requests held at a time, as long as nobody sends a key with a character *)
(* outside ASCII.                                                          *)
(*                                                                         *)
(* The inductive invariant says, of each stage, which of the contract's    *)
(* reasons the request that is there has already got past.                 *)
(***************************************************************************)
EXTENDS Gateway, FiniteSetTheorems, TLAPS

Clients == {r.client : r \in Requests}
Codes == {"", "bare", "data", "error", "unauthorized", "not_found",
          "length_required", "payload_too_large", "rate_limited",
          "validation_error", "internal_error", "service_unavailable"}
Answers == [status : Nat, code : Codes]

Flow ==
    /\ stage \in [Slots -> Stages]
    /\ request \in [Slots -> Requests \cup {Nobody}]
    /\ answer \in [Slots -> Answers]

Windows ==
    /\ window \in [Identities -> Seq(Clients)]
    /\ \A i \in Identities : Len(window[i]) <= Budget

Pools == [busy : SUBSET Slots, queue : Seq(Slots)]
PoolOK(p) == p \in Pools /\ Cardinality(p.busy) <= PoolSize

Tallies == decisions \in Nat /\ errors \in Nat

-----------------------------------------------------------------------------
(* The worker pool *)

LEMMA BusyIsFinite == ASSUME NEW p, PoolOK(p) PROVE IsFiniteSet(p.busy)
  BY GatewayAssumption, FS_Subset DEF PoolOK, Pools

LEMMA JoinOK ==
    ASSUME NEW p, PoolOK(p), NEW s \in Slots PROVE PoolOK(Join(p, s))
<1>1. p \in Pools /\ IsFiniteSet(p.busy) /\ Cardinality(p.busy) \in Nat
  BY BusyIsFinite, FS_CardinalityType DEF PoolOK
<1>2. CASE Cardinality(p.busy) < PoolSize /\ p.queue = <<>>
  <2>1. Join(p, s) = [p EXCEPT !.busy = @ \cup {s}]
    BY <1>2 DEF Join
  <2>2. Join(p, s) \in Pools /\ Join(p, s).busy = p.busy \cup {s}
    BY <1>1, <2>1 DEF Pools
  <2>3. Cardinality(p.busy \cup {s}) <= Cardinality(p.busy) + 1
    BY <1>1, FS_AddElement
  <2>4. Cardinality(p.busy \cup {s}) \in Nat
    BY <1>1, FS_AddElement, FS_CardinalityType
  <2> QED
    BY <1>1, <1>2, <2>2, <2>3, <2>4, GatewayAssumption DEF PoolOK
<1>3. CASE ~(Cardinality(p.busy) < PoolSize /\ p.queue = <<>>)
  <2>1. Join(p, s) = [p EXCEPT !.queue = Append(@, s)]
    BY <1>3 DEF Join
  <2>2. Append(p.queue, s) \in Seq(Slots)
    BY <1>1 DEF Pools
  <2>3. Join(p, s) \in Pools /\ Join(p, s).busy = p.busy
    BY <1>1, <2>1, <2>2 DEF Pools
  <2> QED
    BY <2>3 DEF PoolOK
<1> QED
  BY <1>2, <1>3

LEMMA LeaveOK ==
    ASSUME NEW p, PoolOK(p), NEW s \in p.busy PROVE PoolOK(Leave(p, s))
<1>1. p \in Pools /\ IsFiniteSet(p.busy) /\ Cardinality(p.busy) \in Nat
  BY BusyIsFinite, FS_CardinalityType DEF PoolOK
<1>2. /\ IsFiniteSet(p.busy \ {s})
      /\ Cardinality(p.busy \ {s}) = Cardinality(p.busy) - 1
  BY <1>1, FS_RemoveElement
<1>3. CASE p.queue = <<>>
  <2>1. Leave(p, s) = [p EXCEPT !.busy = @ \ {s}]
    BY <1>3 DEF Leave
  <2>2. Leave(p, s) \in Pools /\ Leave(p, s).busy = p.busy \ {s}
    BY <1>1, <2>1 DEF Pools
  <2> QED
    BY <1>1, <1>2, <2>2, GatewayAssumption DEF PoolOK
<1>4. CASE p.queue # <<>>
  <2> DEFINE busy == (p.busy \ {s}) \cup {Head(p.queue)}
  <2>1. Leave(p, s) = [busy |-> busy, queue |-> Tail(p.queue)]
    BY <1>4 DEF Leave
  <2>2. Head(p.queue) \in Slots /\ Tail(p.queue) \in Seq(Slots)
    BY <1>1, <1>4 DEF Pools
  <2>3. busy \in SUBSET Slots
    BY <1>1, <2>2 DEF Pools
  <2>4. /\ Cardinality(busy) \in Nat
        /\ Cardinality(busy) <= Cardinality(p.busy \ {s}) + 1
    <3>1. Cardinality(p.busy \ {s}) \in Nat
      BY <1>2, FS_CardinalityType
    <3>2. Cardinality(busy) = IF Head(p.queue) \in p.busy \ {s}
                              THEN Cardinality(p.busy \ {s})
                              ELSE Cardinality(p.busy \ {s}) + 1
      BY <1>2, FS_AddElement
    <3> QED
      BY <3>1, <3>2
  <2>5. Cardinality(busy) <= PoolSize
    BY <1>1, <1>2, <2>4, GatewayAssumption DEF PoolOK
  <2> HIDE DEF busy
  <2> QED
    BY <2>1, <2>2, <2>3, <2>5 DEF PoolOK, Pools
<1> QED
  BY <1>3, <1>4

LEMMA RaiseKeepsPool ==
    ASSUME PoolOK(pool), NEW s \in Slots, NEW n, Raise(s, n)
    PROVE  PoolOK(pool')
  BY LeaveOK DEF Raise

LEMMA AdvanceKeepsPool ==
    ASSUME PoolOK(pool), NEW s \in Slots, NEW where, Advance(s, where)
    PROVE  PoolOK(pool')
<1> DEFINE left == IF s \in pool.busy THEN Leave(pool, s) ELSE pool
<1>1. PoolOK(left)
  BY LeaveOK
<1>2. pool' = Join(left, s)
  BY DEF Advance
<1> HIDE DEF left
<1> QED
  BY <1>1, <1>2, JoinOK

-----------------------------------------------------------------------------
(* One slot at a time *)

\* The request has got past the checks of harden, the router and the
\* dependency.
Declared(q) == ~Undeclared(q) /\ ~Oversized(q)
Routed(q) == q.path # "slashed" /\ Misrouted(q) = 0
Entitled(q) == AuthFailure(q) = 0 /\ ~(q.path = "predict" /\ q.body = "invalid")

\* What is known of a request q at stage g, and of what is in its answer a.
PlacedAt(g, q, a) ==
    /\ g = "free" <=> q = Nobody
    /\ g \in {"route", "auth", "endpoint"} => Declared(q)
    /\ g \in {"auth", "endpoint"} => Routed(q)
    /\ g = "auth" => q.path \notin ProbePaths
    /\ g = "endpoint" => q.path \in ProbePaths \/ Entitled(q)
    /\ g = "raised" /\ a.status = 500 =>
          /\ Declared(q)
          /\ a = Contract!Verdict(q) \/ q.key \in NonAscii
    /\ g \in {"raised", "serialize", "answered"} => a.status # 0

Placed == \A s \in Slots : PlacedAt(stage[s], request[s], answer[s])

IInv == Flow /\ Windows /\ PoolOK(pool) /\ Tallies /\ Placed

\* What a client sees of an answer a at stage g.
Shown(g, a) ==
    IF g \in {"serialize", "answered"} \/ (g = "raised" /\ a.status # 500)
    THEN a ELSE Unanswered

Moves(s, g, q, a) ==
    /\ stage' = [stage EXCEPT ![s] = g]
    /\ request' = [request EXCEPT ![s] = q]
    /\ answer' = [answer EXCEPT ![s] = a]
    /\ loaded' = loaded

LEMMA ObservedIs ==
    ASSUME NEW s \in Slots PROVE Observed[s] = Shown(stage[s], answer[s])
  BY DEF Observed, HasAnswer, Shown

LEMMA MovesKeep ==
    ASSUME Flow, Placed, NEW s \in Slots, NEW g \in Stages,
           NEW q \in Requests \cup {Nobody}, NEW a \in Answers,
           Moves(s, g, q, a), PlacedAt(g, q, a)
    PROVE  /\ Flow' /\ Placed'
           /\ Observed' = [Observed EXCEPT ![s] = Shown(g, a)]
<1>1. Flow'
  BY DEF Flow, Moves
<1>2. ASSUME NEW t \in Slots PROVE PlacedAt(stage[t], request[t], answer[t])'
  <2>1. ASSUME NEW h, NEW p, NEW b, PlacedAt(h, p, b),
               stage'[t] = h, request'[t] = p, answer'[t] = b
        PROVE  PlacedAt(stage[t], request[t], answer[t])'
    BY <2>1 DEF Moves, PlacedAt, Contract!Verdict
  <2>2. CASE t = s
    BY <2>1, <2>2 DEF Flow, Moves
  <2>3. CASE t # s
    BY <2>1, <2>3 DEF Flow, Moves, Placed
  <2> QED
    BY <2>2, <2>3
<1>3. Observed' = [Observed EXCEPT ![s] = Shown(g, a)]
  <2> DEFINE seen(t) == IF HasAnswer(t) THEN answer[t] ELSE Unanswered
  <2>1. seen(s)' = Shown(g, a)
    BY DEF HasAnswer, Shown, Flow, Moves
  <2>2. ASSUME NEW t \in Slots, t # s PROVE seen(t)' = seen(t)
    BY <2>2 DEF HasAnswer, Flow, Moves
  <2>3. Observed = [t \in Slots |-> seen(t)] /\ Observed' = [t \in Slots |-> seen(t)']
    BY DEF Observed
  <2> HIDE DEF seen
  <2> QED
    BY <2>1, <2>2, <2>3
<1> QED
  BY <1>1, <1>2, <1>3 DEF Placed

\* The two kinds of step that the contract allows a slot, apart from Deliver
\* and Receive.
LEMMA ReplyStep ==
    ASSUME NEW s \in Slots, NEW r \in Requests, NEW a \in Contract!Permitted(r),
           request[s] \in {r, Nobody}, Observed[s] = Unanswered,
           request' = [request EXCEPT ![s] = r],
           Observed' = [Observed EXCEPT ![s] = a], loaded' = loaded,
           decisions' = Contract!Plus(decisions, Contract!IsDecision(r, a)),
           errors' = Contract!Plus(errors, Contract!IsError(r, a))
    PROVE  Contract!Next
  BY DEF Contract!Next, Contract!Reply

LEMMA StutterStep ==
    ASSUME UNCHANGED <<loaded, request, decisions, errors>>, Flow,
           NEW s \in Slots, Observed' = [Observed EXCEPT ![s] = Observed[s]]
    PROVE  UNCHANGED Contract!vars
  BY DEF Contract!vars, Observed

KeysAreAscii == \A q \in Requests : q.key \notin NonAscii

Contracted == KeysAreAscii => [Contract!Next]_(Contract!vars)

\* The slot shows an answer, and the counters move with it.
LEMMA Replies ==
    ASSUME IInv, NEW s \in Slots, NEW g \in Stages, NEW q \in Requests,
           NEW a \in Answers, Moves(s, g, q, a), PlacedAt(g, q, a),
           Shown(g, a) = a, Observed[s] = Unanswered, request[s] \in {q, Nobody},
           a \in Contract!Permitted(q),
           decisions' = Contract!Plus(decisions, Contract!IsDecision(q, a)),
           errors' = Contract!Plus(errors, Contract!IsError(q, a)),
           Windows', PoolOK(pool')
    PROVE  IInv' /\ Contracted
<1>1. Flow' /\ Placed' /\ Observed' = [Observed EXCEPT ![s] = a]
  BY MovesKeep DEF IInv
<1>2. Tallies'
  BY DEF IInv, Tallies, Contract!Plus
<1>3. Contract!Next
  BY <1>1, ReplyStep DEF Moves
<1> QED
  BY <1>1, <1>2, <1>3 DEF IInv, Contracted

\* The slot moves on, and shows what it has shown.
LEMMA Stutters ==
    ASSUME IInv, NEW s \in Slots, NEW g \in Stages, NEW a \in Answers,
           Moves(s, g, request[s], a), PlacedAt(g, request[s], a),
           Shown(g, a) = Observed[s], UNCHANGED counters,
           Windows', PoolOK(pool')
    PROVE  IInv' /\ Contracted
<1>1. /\ Flow' /\ Placed'
      /\ Observed' = [Observed EXCEPT ![s] = Observed[s]]
  BY MovesKeep DEF IInv, Flow
<1>2. Tallies' /\ UNCHANGED <<decisions, errors>>
  BY DEF IInv, Tallies, counters
<1>3. UNCHANGED <<loaded, request>>
  BY DEF Moves, IInv, Flow
<1>4. UNCHANGED Contract!vars
  BY <1>1, <1>2, <1>3, StutterStep DEF IInv
<1> QED
  BY <1>1, <1>2, <1>4 DEF IInv, Contracted

\* A request that is somewhere is one of Requests.
LEMMA Present ==
    ASSUME IInv, NEW s \in Slots, stage[s] # "free"
    PROVE  /\ request[s] \in Requests
           /\ PlacedAt(stage[s], request[s], answer[s])
           /\ answer[s] \in Answers
  BY DEF IInv, Flow, Placed, PlacedAt

\* A slot whose request is still on its way shows nothing.
LEMMA NothingShown ==
    ASSUME NEW s \in Slots, stage[s] \in {"free", "route", "auth", "endpoint"}
    PROVE  Observed[s] = Unanswered
  BY ObservedIs DEF Shown

LEMMA RaiseMoves ==
    ASSUME IInv, NEW s \in Slots, NEW n \in Nat, Raise(s, n),
           UNCHANGED <<loaded, request>>
    PROVE  /\ Moves(s, "raised", request[s], Answer(n, Code(n)))
           /\ Answer(n, Code(n)) \in Answers
           /\ PoolOK(pool')
<1>1. PoolOK(pool')
  BY RaiseKeepsPool DEF IInv
<1>2. Code(n) \in Codes
  BY DEF Code, Codes
<1>3. Answer(n, Code(n)) \in Answers
  BY <1>2 DEF Answer, Answers
<1>4. request' = [request EXCEPT ![s] = request[s]]
  BY DEF IInv, Flow
<1> QED
  BY <1>1, <1>3, <1>4 DEF Raise, Moves

LEMMA AdvanceMoves ==
    ASSUME IInv, NEW s \in Slots, NEW where, Advance(s, where),
           UNCHANGED <<loaded, request, answer>>
    PROVE  Moves(s, where, request[s], answer[s]) /\ PoolOK(pool')
<1>1. PoolOK(pool')
  BY AdvanceKeepsPool DEF IInv
<1>2. /\ request' = [request EXCEPT ![s] = request[s]]
      /\ answer' = [answer EXCEPT ![s] = answer[s]]
  BY DEF IInv, Flow
<1> QED
  BY <1>1, <1>2 DEF Advance, Moves

LEMMA ReturnMoves ==
    ASSUME IInv, NEW s \in Slots, NEW n \in Nat, Return(s, n),
           UNCHANGED <<loaded, request>>
    PROVE  /\ Moves(s, "serialize", request[s], Answer(n, "data"))
           /\ Answer(n, "data") \in Answers
           /\ PoolOK(pool')
<1>1. PoolOK(pool')
  BY AdvanceKeepsPool DEF IInv, Return
<1>2. request' = [request EXCEPT ![s] = request[s]]
  BY DEF IInv, Flow
<1> QED
  BY <1>1, <1>2 DEF Return, Advance, Moves, Answer, Answers, Codes

-----------------------------------------------------------------------------
(* The actions *)

LEMMA RefuseLengthKeeps ==
    ASSUME IInv, NEW s \in Slots, NEW r \in Requests, RefuseLength(s, r)
    PROVE  IInv' /\ Contracted
<1> DEFINE a == IF Undeclared(r) THEN Answer(411, "length_required")
                                 ELSE Answer(413, "payload_too_large")
<1>1. Moves(s, "answered", r, a)
  BY DEF RefuseLength, Take, AnswerNow, Moves
<1>2. a \in Answers /\ a.status # 0 /\ a.status # 503
  BY DEF Answer, Answers, Codes
<1>3. PlacedAt("answered", r, a) /\ Shown("answered", a) = a
  BY <1>2, GatewayAssumption DEF PlacedAt, Shown
<1>4. request[s] = Nobody /\ Observed[s] = Unanswered
  BY NothingShown DEF RefuseLength, Take, IInv, Placed, PlacedAt
<1>5. a \in Contract!Permitted(r)
  BY DEF RefuseLength, Undeclared, Oversized, Contract!Permitted,
    Contract!Answer, Answer
<1>6. ~Contract!IsDecision(r, a) /\ ~Contract!IsError(r, a)
  BY DEF Contract!IsDecision, Contract!IsError, Answer
<1>7. PoolOK(pool') /\ Windows' /\ UNCHANGED <<decisions, errors>>
  BY DEF RefuseLength, IInv, Windows, counters
<1>8. /\ decisions' = Contract!Plus(decisions, Contract!IsDecision(r, a))
      /\ errors' = Contract!Plus(errors, Contract!IsError(r, a))
  BY <1>6, <1>7 DEF Contract!Plus
<1> HIDE DEF a
<1> QED
  BY <1>1, <1>2, <1>3, <1>4, <1>5, <1>7, <1>8, Replies DEF Stages

LEMMA RefuseRateKeeps ==
    ASSUME IInv, NEW s \in Slots, NEW r \in Requests, RefuseRate(s, r)
    PROVE  IInv' /\ Contracted
<1> DEFINE a == Answer(429, "rate_limited")
<1>1. Moves(s, "answered", r, a)
  BY DEF RefuseRate, Take, AnswerNow, Moves
<1>2. a \in Answers /\ a.status = 429
  BY DEF Answer, Answers, Codes
<1>3. PlacedAt("answered", r, a) /\ Shown("answered", a) = a
  BY <1>2, GatewayAssumption DEF PlacedAt, Shown
<1>4. request[s] = Nobody /\ Observed[s] = Unanswered
  BY NothingShown DEF RefuseRate, Take, IInv, Placed, PlacedAt
<1>5. a \in Contract!Permitted(r)
  BY DEF RefuseRate, Undeclared, Oversized, OverBudget, Limited, ProbePaths,
    Contract!Permitted, Contract!Probes, Contract!Answer, Answer
<1>6. ~Contract!IsDecision(r, a) /\ Contract!IsError(r, a)
  BY <1>2 DEF Contract!IsDecision, Contract!IsError
<1>7. /\ PoolOK(pool') /\ Windows'
      /\ decisions' = decisions /\ errors' = errors + 1
  BY DEF RefuseRate, IInv, Windows
<1>8. /\ decisions' = Contract!Plus(decisions, Contract!IsDecision(r, a))
      /\ errors' = Contract!Plus(errors, Contract!IsError(r, a))
  BY <1>6, <1>7 DEF Contract!Plus
<1>9. "answered" \in Stages /\ PoolOK(pool') /\ Windows' /\ a \in Answers
  BY <1>2, <1>7 DEF Stages
<1> HIDE DEF a
<1> QED
  BY <1>1, <1>3, <1>4, <1>5, <1>8, <1>9, Replies

LEMMA AdmitKeeps ==
    ASSUME IInv, NEW s \in Slots, NEW r \in Requests, Admit(s, r)
    PROVE  IInv' /\ Contracted
<1>1. stage[s] = "free" /\ request[s] = Nobody /\ Observed[s] = Unanswered
  BY NothingShown DEF Admit, Take, IInv, Placed, PlacedAt
<1>2. Moves(s, "route", r, answer[s]) /\ answer[s] \in Answers
  BY DEF Admit, Take, Moves, IInv, Flow
<1>3. PlacedAt("route", r, answer[s]) /\ Shown("route", answer[s]) = Unanswered
  BY GatewayAssumption DEF Admit, PlacedAt, Shown, Declared
<1>4. Flow' /\ Placed' /\ Observed' = [Observed EXCEPT ![s] = Unanswered]
  BY <1>2, <1>3, MovesKeep DEF IInv, Stages
<1>5. Observed' = Observed
  BY <1>1, <1>4 DEF Observed
<1>6. Windows'
  <2> DEFINE i == Identity(r)
  <2>1. i \in Identities /\ r.client \in Clients
    BY DEF Identities, Clients
  <2>2. window[i] \in Seq(Clients) /\ Len(window[i]) \in Nat
    BY <2>1 DEF IInv, Windows
  <2>3. CASE ~Limited(r)
    BY <2>3 DEF Admit, IInv, Windows
  <2>4. CASE Limited(r)
    <3>1. Len(window[i]) < Budget
      BY <2>2, <2>4, GatewayAssumption DEF Admit, OverBudget
    <3>2. /\ Append(window[i], r.client) \in Seq(Clients)
          /\ Len(Append(window[i], r.client)) <= Budget
      BY <2>1, <2>2, <3>1, GatewayAssumption
    <3>3. window' = [window EXCEPT ![i] = Append(window[i], r.client)]
      BY <2>4 DEF Admit
    <3> HIDE DEF i
    <3> QED
      BY <2>1, <3>2, <3>3 DEF IInv, Windows
  <2> QED
    BY <2>3, <2>4
<1>7. PoolOK(pool') /\ UNCHANGED <<decisions, errors>> /\ Tallies'
  BY DEF Admit, IInv, counters, Tallies
<1>8. Contract!Receive(s, r)
  BY <1>1, <1>2, <1>5, <1>7 DEF Contract!Receive, Moves
<1> QED
  BY <1>4, <1>6, <1>7, <1>8 DEF IInv, Contracted, Contract!Next

LEMMA ExpireKeeps ==
    ASSUME IInv, NEW i \in Identities, Expire(i)
    PROVE  IInv' /\ Contracted
<1>1. window[i] \in Seq(Clients) /\ window[i] # <<>> /\ Len(window[i]) \in Nat
  BY DEF IInv, Windows, Expire
<1>2. /\ Tail(window[i]) \in Seq(Clients)
      /\ Len(Tail(window[i])) = Len(window[i]) - 1
  BY <1>1
<1>3. Len(Tail(window[i])) <= Budget
  BY <1>1, <1>2, GatewayAssumption DEF IInv, Windows
<1>4. Windows'
  BY <1>2, <1>3 DEF IInv, Windows, Expire
<1>5. Flow' /\ PoolOK(pool') /\ Tallies'
  BY DEF IInv, Flow, Tallies, Expire, counters
<1>6. Placed'
  BY DEF IInv, Placed, PlacedAt, Contract!Verdict, Expire
<1>7. UNCHANGED Contract!vars
  BY DEF Expire, counters, Contract!vars, Observed, HasAnswer
<1> QED
  BY <1>4, <1>5, <1>6, <1>7 DEF IInv, Contracted

LEMMA WindowsStay == ASSUME IInv, UNCHANGED window PROVE Windows'
  BY DEF IInv, Windows

LEMMA RouteKeeps ==
    ASSUME IInv, NEW s \in Slots, Route(s) PROVE IInv' /\ Contracted
<1> DEFINE r == request[s]
<1>1. stage[s] = "route" /\ UNCHANGED <<loaded, request, window, decisions, errors>>
  BY DEF Route, counters
<1>2. r \in Requests /\ Declared(r) /\ r # Nobody /\ answer[s] \in Answers
  BY <1>1, Present, GatewayAssumption DEF PlacedAt
<1>3. Windows' /\ Observed[s] = Unanswered
  BY <1>1, WindowsStay, NothingShown
<1>4. CASE r.path = "slashed"
  <2> DEFINE a == Answer(307, "bare")
  <2>1. Moves(s, "answered", r, a) /\ UNCHANGED pool
    <3>1. request' = [request EXCEPT ![s] = request[s]]
      BY <1>1 DEF IInv, Flow
    <3> QED
      BY <1>1, <1>4, <3>1 DEF Route, AnswerNow, Moves
  <2>2. a \in Answers /\ a.status # 0
    BY DEF Answer, Answers, Codes
  <2>3. PlacedAt("answered", r, a) /\ Shown("answered", a) = a
    BY <1>2, <2>2 DEF PlacedAt, Shown
  <2>4. a \in Contract!Permitted(r)
    BY <1>2, <1>4 DEF Declared, Undeclared, Oversized, Contract!Permitted,
      Contract!Verdict, Contract!Answer, Answer
  <2>5. ~Contract!IsDecision(r, a) /\ ~Contract!IsError(r, a)
    BY DEF Contract!IsDecision, Contract!IsError, Answer
  <2>6. /\ decisions' = Contract!Plus(decisions, Contract!IsDecision(r, a))
        /\ errors' = Contract!Plus(errors, Contract!IsError(r, a))
    BY <1>1, <2>5 DEF Contract!Plus
  <2>7. "answered" \in Stages /\ PoolOK(pool') /\ a \in Answers
    BY <2>1, <2>2 DEF Stages, IInv
  <2> HIDE DEF a
  <2> QED
    BY <1>2, <1>3, <2>1, <2>3, <2>4, <2>6, <2>7, Replies
<1>5. CASE r.path # "slashed" /\ Misrouted(r) # 0
  <2> DEFINE n == Misrouted(r)
             a == Answer(n, Code(n))
  <2>1. n \in {404, 405, 422} /\ Raise(s, n)
    BY <1>5 DEF Route, Misrouted
  <2>2. Moves(s, "raised", r, a) /\ a \in Answers /\ PoolOK(pool')
    BY <1>1, <2>1, RaiseMoves
  <2>3. a = Contract!Verdict(r) /\ a.status \in {404, 405, 422}
    BY <1>5, <2>1 DEF Misrouted, Code, Contract!Verdict, Contract!Answer,
      Contract!Served, Served, Answer
  <2>4. PlacedAt("raised", r, a) /\ Shown("raised", a) = a
    BY <1>2, <2>3 DEF PlacedAt, Shown
  <2>5. a \in Contract!Permitted(r)
    BY <1>2, <2>3 DEF Declared, Undeclared, Oversized, Contract!Permitted
  <2>6. ~Contract!IsDecision(r, a) /\ ~Contract!IsError(r, a)
    BY <2>3 DEF Contract!IsDecision, Contract!IsError
  <2>7. /\ decisions' = Contract!Plus(decisions, Contract!IsDecision(r, a))
        /\ errors' = Contract!Plus(errors, Contract!IsError(r, a))
    BY <1>1, <2>6 DEF Contract!Plus
  <2>8. "raised" \in Stages
    BY DEF Stages
  <2> HIDE DEF a
  <2> QED
    BY <1>2, <1>3, <2>2, <2>4, <2>5, <2>7, <2>8, Replies
<1>6. CASE r.path # "slashed" /\ Misrouted(r) = 0
  <2> DEFINE g == IF r.path \in ProbePaths THEN "endpoint" ELSE "auth"
  <2>1. Advance(s, g) /\ UNCHANGED answer
    BY <1>6 DEF Route
  <2>2. Moves(s, g, r, answer[s]) /\ PoolOK(pool')
    BY <1>1, <2>1, AdvanceMoves
  <2>3. PlacedAt(g, r, answer[s]) /\ Shown(g, answer[s]) = Observed[s]
    BY <1>2, <1>3, <1>6 DEF PlacedAt, Routed, Shown
  <2>4. g \in Stages /\ UNCHANGED counters
    BY <1>1 DEF Stages, Parts, counters
  <2> HIDE DEF g
  <2> QED
    BY <1>2, <1>3, <2>2, <2>3, <2>4, Stutters
<1> QED
  BY <1>4, <1>5, <1>6

LEMMA AuthenticateKeeps ==
    ASSUME IInv, NEW s \in Slots, Authenticate(s) PROVE IInv' /\ Contracted
<1> DEFINE r == request[s]
<1>1. stage[s] = "auth" /\ UNCHANGED <<loaded, request, window, decisions, errors>>
  BY DEF Authenticate, Runs, counters
<1>2. /\ r \in Requests /\ Declared(r) /\ r # Nobody /\ answer[s] \in Answers
      /\ Routed(r) /\ r.path \notin ProbePaths
  BY <1>1, Present, GatewayAssumption DEF PlacedAt
<1>3. Windows' /\ Observed[s] = Unanswered
  BY <1>1, WindowsStay, NothingShown
<1>4. ASSUME NEW n \in {401, 422}, Raise(s, n),
             Contract!Verdict(r) = Answer(n, Code(n))
      PROVE  IInv' /\ Contracted
  <2> DEFINE a == Answer(n, Code(n))
  <2>1. Moves(s, "raised", r, a) /\ a \in Answers /\ PoolOK(pool')
    BY <1>1, <1>4, RaiseMoves
  <2>2. a.status \in {401, 422}
    BY DEF Answer
  <2>3. PlacedAt("raised", r, a) /\ Shown("raised", a) = a
    BY <1>2, <2>2 DEF PlacedAt, Shown
  <2>4. a \in Contract!Permitted(r)
    BY <1>2, <1>4 DEF Declared, Undeclared, Oversized, Contract!Permitted
  <2>5. ~Contract!IsDecision(r, a) /\ ~Contract!IsError(r, a)
    BY <2>2 DEF Contract!IsDecision, Contract!IsError
  <2>6. /\ decisions' = Contract!Plus(decisions, Contract!IsDecision(r, a))
        /\ errors' = Contract!Plus(errors, Contract!IsError(r, a))
    BY <1>1, <2>5 DEF Contract!Plus
  <2>7. "raised" \in Stages
    BY DEF Stages
  <2> HIDE DEF a
  <2> QED
    BY <1>2, <1>3, <2>1, <2>3, <2>4, <2>6, <2>7, Replies
<1>5. CASE AuthFailure(r) = 401
  <2>1. Raise(s, 401)
    BY <1>5 DEF Authenticate
  <2>2. Contract!Verdict(r) = Answer(401, Code(401))
    BY <1>2, <1>5 DEF AuthFailure, Routed, Misrouted, Served, ProbePaths, Code,
      Contract!Verdict, Contract!Served, Contract!Probes, Contract!Answer, Answer
  <2> QED
    BY <1>4, <2>1, <2>2
<1>6. CASE AuthFailure(r) = 500
  <2> DEFINE a == Answer(500, Code(500))
  <2>1. Moves(s, "raised", r, a) /\ a \in Answers /\ PoolOK(pool')
    <3>1. Raise(s, 500)
      BY <1>6 DEF Authenticate
    <3> QED
      BY <1>1, <3>1, RaiseMoves
  <2>2. a.status = 500 /\ r.key \in NonAscii
    BY <1>6 DEF Answer, AuthFailure
  <2>3. PlacedAt("raised", r, a) /\ Shown("raised", a) = Observed[s]
    BY <1>2, <1>3, <2>2 DEF PlacedAt, Shown
  <2>4. "raised" \in Stages /\ UNCHANGED counters
    BY <1>1 DEF Stages, counters
  <2> HIDE DEF a
  <2> QED
    BY <1>3, <2>1, <2>3, <2>4, Stutters
<1>7. CASE AuthFailure(r) = 0 /\ r.path = "predict" /\ r.body = "invalid"
  <2>1. Raise(s, 422)
    BY <1>7 DEF Authenticate
  <2>2. Contract!Verdict(r) = Answer(422, Code(422))
    BY <1>2, <1>7 DEF AuthFailure, Routed, Misrouted, Served, ProbePaths, Code,
      Contract!Verdict, Contract!Served, Contract!Probes, Contract!Answer, Answer
  <2> QED
    BY <1>4, <2>1, <2>2
<1>8. CASE AuthFailure(r) = 0 /\ ~(r.path = "predict" /\ r.body = "invalid")
  <2>1. Advance(s, "endpoint") /\ UNCHANGED answer
    BY <1>8 DEF Authenticate
  <2>2. Moves(s, "endpoint", r, answer[s]) /\ PoolOK(pool')
    BY <1>1, <2>1, AdvanceMoves
  <2>3. PlacedAt("endpoint", r, answer[s])
    BY <1>2, <1>8 DEF PlacedAt, Entitled
  <2>4. Shown("endpoint", answer[s]) = Observed[s]
    BY <1>3 DEF Shown
  <2>5. "endpoint" \in Stages /\ UNCHANGED counters
    BY <1>1 DEF Stages, Parts, counters
  <2> QED
    BY <1>2, <1>3, <2>2, <2>3, <2>4, <2>5, Stutters
<1> QED
  BY <1>5, <1>6, <1>7, <1>8 DEF AuthFailure

\* What is known of a request that runs in an endpoint.
LEMMA InEndpoint ==
    ASSUME IInv, NEW s \in Slots, NEW path, Endpoint(s, path)
    PROVE  /\ request[s] \in Requests /\ request[s] # Nobody
           /\ request[s].path = path
           /\ Declared(request[s]) /\ Routed(request[s])
           /\ path \in ProbePaths \/ Entitled(request[s])
           /\ Observed[s] = Unanswered
           /\ UNCHANGED <<loaded, request>> /\ Windows'
<1>1. stage[s] = "endpoint" /\ UNCHANGED <<loaded, request, window>>
  BY DEF Endpoint, Runs
<1> QED
  BY <1>1, Present, NothingShown, WindowsStay, GatewayAssumption
  DEF Endpoint, PlacedAt

\* An endpoint that returns data, or raises anything but a 500, answers with
\* the verdict of the contract.
LEMMA EndpointReplies ==
    ASSUME IInv, NEW s \in Slots, NEW path, Endpoint(s, path), NEW n \in Nat,
           n \notin {0, 500},
           \/ Return(s, n) /\ Contract!Verdict(request[s]) = Answer(n, "data")
           \/ Raise(s, n) /\ Contract!Verdict(request[s]) = Answer(n, Code(n)),
           decisions' = Contract!Plus(decisions, path = "predict" /\ n = 200),
           errors' = Contract!Plus(errors, n = 429 \/ (path = "predict" /\ n = 503))
    PROVE  IInv' /\ Contracted
<1> DEFINE r == request[s]
           a == Contract!Verdict(r)
<1>1. /\ r \in Requests /\ r # Nobody /\ r.path = path /\ Declared(r)
      /\ Observed[s] = Unanswered /\ Windows' /\ UNCHANGED <<loaded, request>>
  BY InEndpoint
<1>2. a.status = n
  BY DEF Answer
<1>3. PICK g \in {"serialize", "raised"} :
          Moves(s, g, r, a) /\ a \in Answers /\ PoolOK(pool')
  BY <1>1, ReturnMoves, RaiseMoves
<1>4. PlacedAt(g, r, a) /\ Shown(g, a) = a
  BY <1>1, <1>2 DEF PlacedAt, Shown
<1>5. a \in Contract!Permitted(r)
  BY <1>1 DEF Declared, Undeclared, Oversized, Contract!Permitted
<1>6. /\ decisions' = Contract!Plus(decisions, Contract!IsDecision(r, a))
      /\ errors' = Contract!Plus(errors, Contract!IsError(r, a))
  BY <1>1, <1>2 DEF Contract!IsDecision, Contract!IsError, Contract!Plus
<1>7. g \in Stages
  BY DEF Stages, Parts
<1> HIDE DEF a
<1> QED
  BY <1>1, <1>3, <1>4, <1>5, <1>6, <1>7, Replies

\* Who is entitled, and routed to the endpoint, is answered for its own sake.
LEMMA VerdictInEndpoint ==
    ASSUME NEW q, Routed(q), q.path \in ProbePaths \/ Entitled(q)
    PROVE  Contract!Verdict(q) =
              IF ~loaded /\ q.path \in {"predict", "policy"}
              THEN Answer(503, "service_unavailable")
              ELSE IF ~loaded /\ q.path = "ready" THEN Answer(503, "data")
              ELSE IF q.path = "predict" /\ q.body = "fails"
                   THEN Answer(500, "internal_error")
              ELSE Answer(200, "data")
  BY DEF Routed, Misrouted, Entitled, AuthFailure, Served, ProbePaths,
    Contract!Verdict, Contract!Served, Contract!Probes, Contract!Answer, Answer

LEMMA ReadersKeep ==
    ASSUME IInv, NEW s \in Slots,
           Health(s) \/ Ready(s) \/ Policy(s) \/ Metrics(s)
    PROVE  IInv' /\ Contracted
<1> DEFINE r == request[s]
<1>1. PICK path \in {"health", "ready", "policy", "metrics"} :
          /\ Endpoint(s, path) /\ UNCHANGED <<decisions, errors>>
          /\ path = "health" => Health(s)
          /\ path = "ready" => Ready(s)
          /\ path = "policy" => Policy(s)
          /\ path = "metrics" => Metrics(s)
  <2>1. CASE Health(s)
    BY <2>1 DEF Health, counters
  <2>2. CASE Ready(s)
    BY <2>2 DEF Ready, counters
  <2>3. CASE Policy(s)
    BY <2>3 DEF Policy, counters
  <2>4. CASE Metrics(s)
    BY <2>4 DEF Metrics, counters
  <2> QED
    BY <2>1, <2>2, <2>3, <2>4
<1>2. r.path = path /\ Routed(r) /\ (path \in ProbePaths \/ Entitled(r))
  BY <1>1, InEndpoint
<1> DEFINE n == IF ~loaded /\ path \in {"policy", "ready"} THEN 503 ELSE 200
<1>3. \/ Return(s, n) /\ Contract!Verdict(r) = Answer(n, "data")
      \/ Raise(s, n) /\ Contract!Verdict(r) = Answer(n, Code(n))
  <2>1. CASE path = "policy" /\ ~loaded
    <3>1. Raise(s, 503) /\ n = 503
      BY <1>1, <2>1 DEF Policy
    <3>2. Contract!Verdict(r) = Answer(503, Code(503))
      BY <1>2, <2>1, VerdictInEndpoint DEF Code
    <3> QED
      BY <3>1, <3>2
  <2>2. CASE ~(path = "policy" /\ ~loaded)
    <3>1. Return(s, n)
      BY <1>1, <2>2 DEF Health, Ready, Policy, Metrics
    <3>2. Contract!Verdict(r) = Answer(n, "data")
      BY <1>2, <2>2, VerdictInEndpoint
    <3> QED
      BY <3>1, <3>2
  <2> QED
    BY <2>1, <2>2
<1>4. /\ decisions' = Contract!Plus(decisions, path = "predict" /\ n = 200)
      /\ errors' = Contract!Plus(errors, n = 429 \/ (path = "predict" /\ n = 503))
  BY <1>1 DEF Contract!Plus
<1>5. n \in Nat /\ n \notin {0, 500}
  OBVIOUS
<1> HIDE DEF n
<1> QED
  BY <1>1, <1>3, <1>4, <1>5, EndpointReplies

LEMMA PredictWithoutModelKeeps ==
    ASSUME IInv, NEW s \in Slots, PredictWithoutModel(s)
    PROVE  IInv' /\ Contracted
<1>1. Endpoint(s, "predict") /\ ~loaded /\ Raise(s, 503)
  BY DEF PredictWithoutModel
<1>2. Contract!Verdict(request[s]) = Answer(503, Code(503))
  BY <1>1, InEndpoint, VerdictInEndpoint DEF Code
<1>3. /\ decisions' = Contract!Plus(decisions, FALSE)
      /\ errors' = Contract!Plus(errors, TRUE)
  BY DEF PredictWithoutModel, Contract!Plus
<1> QED
  BY <1>1, <1>2, <1>3, EndpointReplies DEF Contract!Plus

LEMMA PredictKeeps ==
    ASSUME IInv, NEW s \in Slots, Predict(s) PROVE IInv' /\ Contracted
<1> DEFINE r == request[s]
<1>1. Endpoint(s, "predict") /\ loaded /\ errors' = errors
  BY DEF Predict
<1>2. /\ r \in Requests /\ r # Nobody /\ r.path = "predict"
      /\ Declared(r) /\ Routed(r) /\ (r.path \in ProbePaths \/ Entitled(r))
      /\ Observed[s] = Unanswered /\ UNCHANGED <<loaded, request>> /\ Windows'
  BY <1>1, InEndpoint
<1>3. CASE r.body # "fails"
  <2>1. Return(s, 200) /\ decisions' = decisions + 1
    BY <1>3 DEF Predict
  <2>2. Contract!Verdict(r) = Answer(200, "data")
    BY <1>1, <1>2, <1>3, VerdictInEndpoint
  <2> QED
    BY <1>1, <2>1, <2>2, EndpointReplies DEF Contract!Plus
<1>4. CASE r.body = "fails"
  <2> DEFINE a == Answer(500, Code(500))
  <2>1. Raise(s, 500) /\ UNCHANGED counters
    BY <1>1, <1>4 DEF Predict, counters
  <2>2. Moves(s, "raised", r, a) /\ a \in Answers /\ PoolOK(pool')
    BY <1>2, <2>1, RaiseMoves
  <2>3. a = Contract!Verdict(r)
    BY <1>1, <1>2, <1>4, VerdictInEndpoint DEF Code
  <2>4. a.status = 500
    BY DEF Answer
  <2>5. PlacedAt("raised", r, a) /\ Shown("raised", a) = Observed[s]
    BY <1>2, <2>3, <2>4 DEF PlacedAt, Shown
  <2>6. "raised" \in Stages
    BY DEF Stages
  <2> HIDE DEF a
  <2> QED
    BY <1>2, <2>1, <2>2, <2>5, <2>6, Stutters
<1> QED
  BY <1>3, <1>4

LEMMA SerializeKeeps ==
    ASSUME IInv, NEW s \in Slots, Serialize(s) PROVE IInv' /\ Contracted
<1> DEFINE r == request[s]
           a == answer[s]
<1>1. stage[s] = "serialize" /\ s \in pool.busy
  BY DEF Serialize, Runs
<1>2. r # Nobody /\ a \in Answers /\ a.status # 0
  BY <1>1, Present, GatewayAssumption DEF PlacedAt
<1>3. Observed[s] = a
  BY <1>1, ObservedIs DEF Shown
<1>4. /\ request' = [request EXCEPT ![s] = r]
      /\ answer' = [answer EXCEPT ![s] = a]
  BY DEF Serialize, IInv, Flow
<1>5. Moves(s, "answered", r, a)
  BY <1>4 DEF Serialize, Moves
<1>6. PlacedAt("answered", r, a) /\ Shown("answered", a) = Observed[s]
  BY <1>2, <1>3 DEF PlacedAt, Shown
<1>7. PoolOK(pool') /\ Windows' /\ UNCHANGED counters
  BY <1>1, LeaveOK, WindowsStay DEF Serialize, IInv, counters
<1>8. "answered" \in Stages
  BY DEF Stages
<1> QED
  BY <1>2, <1>5, <1>6, <1>7, <1>8, Stutters

LEMMA HandleKeeps ==
    ASSUME IInv, NEW s \in Slots, Handle(s) PROVE IInv' /\ Contracted
<1> DEFINE r == request[s]
           a == answer[s]
<1>1. stage[s] = "raised"
  BY DEF Handle
<1>2. r \in Requests /\ r # Nobody /\ a \in Answers /\ a.status # 0
  BY <1>1, Present, GatewayAssumption DEF PlacedAt
<1>3. /\ request' = [request EXCEPT ![s] = r]
      /\ answer' = [answer EXCEPT ![s] = a]
  BY DEF Handle, IInv, Flow
<1>4. Moves(s, "answered", r, a)
  BY <1>3 DEF Handle, Moves
<1>5. PlacedAt("answered", r, a) /\ Shown("answered", a) = a
  BY <1>2 DEF PlacedAt, Shown
<1>6. PoolOK(pool') /\ Windows' /\ decisions' = decisions
  BY WindowsStay DEF Handle, IInv
<1>7. "answered" \in Stages
  BY DEF Stages
<1>8. CASE a.status # 500
  <2>1. Observed[s] = a /\ UNCHANGED counters
    BY <1>1, <1>6, <1>8, ObservedIs DEF Shown, Handle, counters
  <2> QED
    BY <1>2, <1>4, <1>5, <1>6, <1>7, <2>1, Stutters
<1>9. CASE a.status = 500
  <2>1. errors' = errors + 1
    BY <1>9 DEF Handle
  <2>2. Observed[s] = Unanswered
    BY <1>1, <1>9, ObservedIs DEF Shown
  <2>3. CASE r.key \notin NonAscii
    <3>1. a = Contract!Verdict(r) /\ Declared(r)
      BY <1>1, <1>9, <2>3, Present DEF PlacedAt
    <3>2. a \in Contract!Permitted(r)
      BY <3>1 DEF Declared, Undeclared, Oversized, Contract!Permitted
    <3>3. ~Contract!IsDecision(r, a) /\ Contract!IsError(r, a)
      BY <1>9 DEF Contract!IsDecision, Contract!IsError
    <3>4. /\ decisions' = Contract!Plus(decisions, Contract!IsDecision(r, a))
          /\ errors' = Contract!Plus(errors, Contract!IsError(r, a))
      BY <1>6, <2>1, <3>3 DEF Contract!Plus
    <3> QED
      BY <1>2, <1>4, <1>5, <1>6, <1>7, <2>2, <3>2, <3>4, Replies
  <2>4. CASE r.key \in NonAscii
    <3>1. ~KeysAreAscii
      BY <1>2, <2>4 DEF KeysAreAscii
    <3>2. Flow' /\ Placed'
      BY <1>2, <1>4, <1>5, <1>7, MovesKeep DEF IInv
    <3>3. Tallies'
      BY <1>6, <2>1 DEF IInv, Tallies
    <3> QED
      BY <1>6, <3>1, <3>2, <3>3 DEF IInv, Contracted
  <2> QED
    BY <2>3, <2>4
<1> QED
  BY <1>8, <1>9

LEMMA DeliverKeeps ==
    ASSUME IInv, NEW s \in Slots, Deliver(s) PROVE IInv' /\ Contracted
<1>1. stage[s] = "answered" /\ answer[s].status # 0 /\ Observed[s] = answer[s]
  <2>1. stage[s] = "answered"
    BY DEF Deliver
  <2> QED
    BY <2>1, Present, ObservedIs DEF PlacedAt, Shown
<1>2. Moves(s, "free", Nobody, Unanswered)
  BY DEF Deliver, Moves
<1>3. PlacedAt("free", Nobody, Unanswered) /\ Shown("free", Unanswered) = Unanswered
  BY DEF PlacedAt, Shown
<1>4. "free" \in Stages /\ Unanswered \in Answers
  BY DEF Stages, Unanswered, Answer, Answers, Codes
<1>5. Flow' /\ Placed' /\ Observed' = [Observed EXCEPT ![s] = Unanswered]
  BY <1>2, <1>3, <1>4, MovesKeep DEF IInv
<1>6. /\ PoolOK(pool') /\ Windows' /\ Tallies'
      /\ UNCHANGED <<loaded, decisions, errors>>
  BY WindowsStay DEF Deliver, IInv, counters, Tallies
<1>7. Observed[s] # Unanswered
  <2>1. Unanswered.status = 0
    BY DEF Unanswered, Answer
  <2> QED
    BY <1>1, <2>1
<1>8. Contract!Deliver(s)
  BY <1>2, <1>5, <1>6, <1>7 DEF Contract!Deliver, Moves
<1> QED
  BY <1>5, <1>6, <1>8 DEF IInv, Contracted, Contract!Next

-----------------------------------------------------------------------------
(* Putting them together *)

LEMMA InitEstablishes == Init => IInv /\ Contract!Init
<1> SUFFICES ASSUME Init PROVE IInv /\ Contract!Init
  OBVIOUS
<1>1. Flow
  BY DEF Init, Flow, Stages, Unanswered, Answer, Answers, Codes
<1>2. Windows /\ Tallies
  BY GatewayAssumption DEF Init, Windows, Tallies
<1>3. PoolOK(pool)
  <2>1. pool.busy = {} /\ pool \in Pools
    BY DEF Init, Pools
  <2> QED
    BY <2>1, FS_EmptySet, GatewayAssumption DEF PoolOK
<1>4. Placed
  BY DEF Init, Placed, PlacedAt
<1>5. Contract!Init
  BY DEF Init, Contract!Init, Observed, HasAnswer
<1> QED
  BY <1>1, <1>2, <1>3, <1>4, <1>5 DEF IInv

LEMMA StepKeeps == IInv /\ [Next]_vars => IInv' /\ Contracted
<1> SUFFICES ASSUME IInv, [Next]_vars PROVE IInv' /\ Contracted
  OBVIOUS
<1>1. ASSUME NEW s \in Slots, NEW r \in Requests,
             RefuseLength(s, r) \/ RefuseRate(s, r) \/ Admit(s, r)
      PROVE  IInv' /\ Contracted
  BY <1>1, RefuseLengthKeeps, RefuseRateKeeps, AdmitKeeps
<1>2. ASSUME NEW s \in Slots, InThread(s) PROVE IInv' /\ Contracted
  BY <1>2, AuthenticateKeeps, ReadersKeep, PredictWithoutModelKeeps,
     PredictKeeps, SerializeKeeps DEF InThread
<1>3. ASSUME NEW s \in Slots, Route(s) \/ Handle(s) \/ Deliver(s)
      PROVE  IInv' /\ Contracted
  BY <1>3, RouteKeeps, HandleKeeps, DeliverKeeps
<1>4. ASSUME NEW i \in Identities, Expire(i) PROVE IInv' /\ Contracted
  BY <1>4, ExpireKeeps
<1>5. CASE UNCHANGED vars
  <2> USE <1>5 DEF vars, counters
  <2>1. Flow' /\ Windows' /\ PoolOK(pool') /\ Tallies'
    BY DEF IInv, Flow, Windows, Tallies
  <2>2. Placed'
    BY DEF IInv, Placed, PlacedAt, Contract!Verdict
  <2>3. UNCHANGED Contract!vars
    BY DEF Contract!vars, Observed, HasAnswer
  <2> QED
    BY <2>1, <2>2, <2>3 DEF IInv, Contracted
<1> QED
  BY <1>1, <1>2, <1>3, <1>4, <1>5 DEF Next

LEMMA LoadedStays == [Next]_vars => loaded' = loaded
  BY DEF Next, vars, RefuseLength, RefuseRate, Admit, Route, InThread, Handle,
    Deliver, Expire, Authenticate, Health, Ready, Policy, Metrics, Endpoint,
    PredictWithoutModel, Predict, Serialize

\* Every variable keeps its type; no more threads are at work than the pool
\* has, and no window holds more hits than the budget.
THEOREM TypeCorrect == Spec => []TypeOK
<1>1. IInv /\ loaded \in BOOLEAN => TypeOK
  BY DEF IInv, Flow, Windows, PoolOK, Pools, Tallies, TypeOK
<1>2. Init => IInv /\ loaded \in BOOLEAN
  BY InitEstablishes DEF Init
<1>3. IInv /\ loaded \in BOOLEAN /\ [Next]_vars => (IInv /\ loaded \in BOOLEAN)'
  BY StepKeeps, LoadedStays
<1> QED
  BY <1>1, <1>2, <1>3, PTL DEF Spec

\* Whatever the interleaving of stages, threads and handlers, answers and
\* counters are those of the contract, if nobody sends a key with a character
\* outside ASCII.
THEOREM GatewayImplementsContract ==
    ASSUME KeysAreAscii PROVE Spec => ImplementsContract
<1>1. [Next]_vars /\ IInv => IInv' /\ [Contract!Next]_(Contract!vars)
  BY KeysAreAscii, StepKeeps DEF Contracted
<1>2. Init => IInv /\ Contract!Init
  BY InitEstablishes
<1> QED
  BY <1>1, <1>2, PTL DEF Spec, ImplementsContract, Contract!Spec
-----------------------------------------------------------------------------
(* Budgets are shared only by callers that look alike *)

\* A limited request by c, and one that looks like r.
Sends(c, r) == \E q \in Requests : q.client = c /\ Limited(q) /\ Alike(q, r)

\* The hits in a window are requests of callers that look alike.
AlikeHits == \A r \in Requests :
    Limited(r) => \A n \in DOMAIN window[Identity(r)] : Sends(window[Identity(r)][n], r)

\* What caller_identity takes for one caller looks alike: a key is known by
\* its prefix, and an address is the one that was read.
LEMMA IdentityIsAlike ==
    ASSUME NEW q \in Requests, NEW r \in Requests, Identity(q) = Identity(r)
    PROVE  Alike(q, r)
<1> DEFINE Address(p) ==
             IF TrustProxy /\ p.forwarded # "" THEN p.forwarded ELSE p.host
<1>1. \A p \in Requests :
         Identity(p) = IF p.key # NoKey THEN <<"key", p.key[1]>> ELSE <<"ip", Address(p)>>
  BY Zenon DEF Identity
<1> HIDE DEF Address
<1>2. CASE q.key # NoKey /\ r.key # NoKey
  <2>1. <<"key", q.key[1]>> = <<"key", r.key[1]>>
    BY <1>1, <1>2
  <2> QED
    BY <1>2, <2>1 DEF Alike
<1>3. CASE q.key = NoKey /\ r.key = NoKey
  <2>1. <<"ip", Address(q)>> = <<"ip", Address(r)>>
    BY <1>1, <1>3
  <2>2. Address(q) = Address(r)
    BY <2>1
  <2> QED
    BY <1>3, <2>2, Zenon DEF Alike, Address
<1>4. CASE ~(q.key = NoKey <=> r.key = NoKey)
  <2>1. ASSUME NEW a, NEW b, <<"key", a>> = <<"ip", b>> PROVE FALSE
    BY <2>1
  <2> QED
    BY <1>1, <1>4, <2>1
<1> QED
  BY <1>2, <1>3, <1>4

LEMMA AlikeHitsStep ==
    ASSUME IInv, AlikeHits, [Next]_vars PROVE AlikeHits'
<1> SUFFICES ASSUME NEW q \in Requests, Limited(q),
                    NEW n \in DOMAIN window'[Identity(q)]
             PROVE  Sends(window'[Identity(q)][n], q)
  BY DEF AlikeHits
<1> DEFINE i == Identity(q)
<1>1. i \in Identities /\ window[i] \in Seq(Clients) /\ DOMAIN window = Identities
  BY DEF Identities, IInv, Windows
<1>2. \A m \in DOMAIN window[i] : Sends(window[i][m], q)
  BY DEF AlikeHits
<1>3. CASE UNCHANGED window
  BY <1>2, <1>3
<1>4. ASSUME NEW s \in Slots, NEW r \in Requests, Admit(s, r)
      PROVE  Sends(window'[i][n], q)
  <2>1. CASE Limited(r) /\ Identity(r) = i
    <3>1. window'[i] = Append(window[i], r.client)
      BY <1>1, <1>4, <2>1 DEF Admit
    <3>2. Sends(r.client, q)
      BY <2>1, IdentityIsAlike DEF Sends
    <3>3. \/ n \in DOMAIN window[i] /\ window'[i][n] = window[i][n]
          \/ window'[i][n] = r.client
      <4>1. r.client \in Clients
        BY DEF Clients
      <4> QED
        BY <1>1, <3>1, <4>1
    <3> QED
      BY <1>2, <3>2, <3>3
  <2>2. CASE ~(Limited(r) /\ Identity(r) = i)
    <3>1. window'[i] = window[i]
      BY <1>1, <1>4, <2>2 DEF Admit
    <3> QED
      BY <1>2, <3>1
  <2> QED
    BY <2>1, <2>2
<1>5. ASSUME NEW j \in Identities, Expire(j) PROVE Sends(window'[i][n], q)
  <2>1. CASE j = i
    <3>1. window[i] # <<>> /\ window'[i] = Tail(window[i])
      BY <1>1, <1>5, <2>1 DEF Expire
    <3>2. n + 1 \in DOMAIN window[i] /\ window'[i][n] = window[i][n + 1]
      BY <1>1, <3>1
    <3> QED
      BY <1>2, <3>2
  <2>2. CASE j # i
    <3>1. window'[i] = window[i]
      BY <1>1, <1>5, <2>2 DEF Expire
    <3> QED
      BY <1>2, <3>1
  <2> QED
    BY <2>1, <2>2
<1>6. \/ UNCHANGED window
      \/ (\E s \in Slots, r \in Requests : Admit(s, r))
      \/ (\E j \in Identities : Expire(j))
  BY DEF Next, vars, RefuseLength, RefuseRate, Route, InThread, Handle, Deliver,
    Authenticate, Health, Ready, Policy, Metrics, Endpoint, PredictWithoutModel,
    Predict, Serialize
<1> QED
  BY <1>3, <1>4, <1>5, <1>6

\* Whoever is refused for rate shares the window only with callers that send
\* what it sends: a key of the same prefix or, without keys, the same address.
THEOREM StrangersNeverShare == Spec => OnlyAlikeShareBudget
<1>1. Init => IInv /\ AlikeHits
  <2>1. Init => AlikeHits
    BY DEF Init, AlikeHits, Identities
  <2> QED
    BY <2>1, InitEstablishes
<1>2. IInv /\ AlikeHits /\ [Next]_vars => (IInv /\ AlikeHits)'
  BY StepKeeps, AlikeHitsStep
<1>3. ASSUME AlikeHits, NEW s \in Slots, NEW r \in Requests, RefuseRate(s, r),
             NEW c \in ToSet(window[Identity(r)])
      PROVE  \E q \in Requests : q.client = c /\ Limited(q) /\ Alike(q, r)
  <2>1. Limited(r)
    BY <1>3 DEF RefuseRate, OverBudget
  <2>2. PICK n \in DOMAIN window[Identity(r)] : c = window[Identity(r)][n]
    BY DEF ToSet
  <2> QED
    BY <1>3, <2>1, <2>2 DEF AlikeHits, Sends
<1>4. IInv /\ AlikeHits =>
        [\A s \in Slots, r \in Requests :
            RefuseRate(s, r) => \A c \in ToSet(window[Identity(r)]) :
                \E q \in Requests : q.client = c /\ Limited(q) /\ Alike(q, r)]_vars
  BY <1>3
<1> QED
  BY <1>1, <1>2, <1>4, PTL DEF Spec, OnlyAlikeShareBudget
=============================================================================
