------------------------------- MODULE Gateway -------------------------------
(***************************************************************************)
(* The path of a request through api/main.py and api/security.py: the      *)
(* middleware and the router on the event loop; the dependency             *)
(* require_api_key, the endpoint (a sync def) and the validation of its    *)
(* result each in the worker pool; the exception handlers on the loop.     *)
(*                                                                         *)
(* A request has a sender (its client, which the code cannot see), what    *)
(* the code reads of it (host, forwarded, key, method, path, length) and   *)
(* the kind of its body: valid, garbled (not JSON), invalid (not a         *)
(* TriageRequest) or fails (a valid one on which triage raises).           *)
(*                                                                         *)
(* FastAPI, Starlette and the pool of anyio are modelled from their use.   *)
(***************************************************************************)
EXTENDS Integers, FiniteSets, SequencesExt

CONSTANTS Slots,              \* the requests the server holds at a time
          Requests,
          Budget,             \* rate_limit_requests
          RequireKey, ApiKeys, TrustProxy,     \* the settings of that name
          NonAscii,           \* keys with a character outside ASCII
          PoolSize,           \* threads of the worker pool
          MaxCounted          \* when only probes arrive any more

VARIABLES loaded,             \* AppState.service is not None
          window,             \* identity -> clients of the hits in its window
          stage,              \* slot -> where its request is
          request, answer,    \* slot -> its request, its answer
          pool,               \* the threads at work, and who waits for one
          decisions, errors   \* MetricsRegistry

vars == <<loaded, window, stage, request, answer, pool, decisions, errors>>
counters == <<decisions, errors>>

Nobody == [path |-> "none"]
Answer(n, c) == [status |-> n, code |-> c]
Unanswered == Answer(0, "")
NoKey == <<>>

ASSUME GatewayAssumption ==
    /\ IsFiniteSet(Slots)
    /\ Budget \in Nat \ {0} /\ PoolSize \in Nat
    /\ Nobody \notin Requests
    /\ ApiKeys \cap NonAscii = {}       \* the configured keys are ASCII
-----------------------------------------------------------------------------
(* The worker pool: a limiter with a fixed number of tokens and a queue *)

\* Mutant: nobody waits.
JoinAtOnce(p, s) == [p EXCEPT !.busy = @ \cup {s}]

Join(p, s) ==
    IF Cardinality(p.busy) < PoolSize /\ p.queue = <<>>
    THEN [p EXCEPT !.busy = @ \cup {s}]
    ELSE [p EXCEPT !.queue = Append(@, s)]

Leave(p, s) ==
    IF p.queue = <<>>
    THEN [p EXCEPT !.busy = @ \ {s}]
    ELSE [busy |-> (p.busy \ {s}) \cup {Head(p.queue)}, queue |-> Tail(p.queue)]

\* s has a thread, and is where it runs this part.
Runs(s, where) == stage[s] = where /\ s \in pool.busy
-----------------------------------------------------------------------------
(* The middleware *)

\* Mutant: the header of the trusted proxy is not read.
IdentityByHost(r) ==
    IF r.key # NoKey THEN <<"key", r.key[1]>> ELSE <<"ip", r.host>>

\* caller_identity: a key counts by its first eight characters, r.key[1].
Identity(r) ==
    IF r.key # NoKey THEN <<"key", r.key[1]>>
    ELSE IF TrustProxy /\ r.forwarded # "" THEN <<"ip", r.forwarded>>
    ELSE <<"ip", r.host>>

Identities == {Identity(r) : r \in Requests}
ProbePaths == {"health", "ready"}

\* The Content-Length checks.
Undeclared(r) == r.method = "POST" /\ r.length = "missing"
Oversized(r) == r.method = "POST" /\ r.length = "large"
Limited(r) == r.path \notin ProbePaths
OverBudget(r) == Limited(r) /\ Len(window[Identity(r)]) >= Budget

Init ==
    /\ loaded \in BOOLEAN
    /\ window = [i \in Identities |-> <<>>]
    /\ stage = [s \in Slots |-> "free"]
    /\ request = [s \in Slots |-> Nobody]
    /\ answer = [s \in Slots |-> Unanswered]
    /\ pool = [busy |-> {}, queue |-> <<>>]
    /\ decisions = 0
    /\ errors = 0

Take(s, r) ==
    /\ stage[s] = "free"
    /\ r.path \in ProbePaths \/ decisions + errors < MaxCounted
    /\ request' = [request EXCEPT ![s] = r]

AnswerNow(s, a) ==
    /\ stage' = [stage EXCEPT ![s] = "answered"]
    /\ answer' = [answer EXCEPT ![s] = a]

\* harden answers 411 or 413 before it looks at the caller.
RefuseLength(s, r) ==
    /\ Undeclared(r) \/ Oversized(r)
    /\ Take(s, r)
    /\ AnswerNow(s, IF Undeclared(r) THEN Answer(411, "length_required")
                                     ELSE Answer(413, "payload_too_large"))
    /\ UNCHANGED <<loaded, window, pool, counters>>

\* harden answers 429.
RefuseRate(s, r) ==
    /\ ~Undeclared(r) /\ ~Oversized(r)
    /\ OverBudget(r)
    /\ Take(s, r)
    /\ AnswerNow(s, Answer(429, "rate_limited"))
    /\ errors' = errors + 1
    /\ UNCHANGED <<loaded, window, pool, decisions>>

\* harden lets the request through; a hit is charged unless it is a probe.
Admit(s, r) ==
    /\ ~Undeclared(r) /\ ~Oversized(r)
    /\ ~OverBudget(r)
    /\ Take(s, r)
    /\ window' = IF Limited(r)
                 THEN [window EXCEPT ![Identity(r)] = Append(@, r.client)]
                 ELSE window
    /\ stage' = [stage EXCEPT ![s] = "route"]
    /\ UNCHANGED <<loaded, answer, pool, counters>>

\* The oldest hit of a window grows old.
Expire(i) ==
    /\ window[i] # <<>>
    /\ window' = [window EXCEPT ![i] = Tail(@)]
    /\ UNCHANGED <<loaded, stage, request, answer, pool, counters>>
-----------------------------------------------------------------------------
(* The router, the dependency and the endpoints *)

Served == {<<"POST", "predict">>, <<"GET", "policy">>, <<"GET", "metrics">>,
           <<"GET", "health">>, <<"GET", "ready">>}

\* _ERROR_CODES, and the code on_validation_error sets itself.
Code(n) ==
    CASE n = 401 -> "unauthorized"
      [] n = 404 -> "not_found"
      [] n = 422 -> "validation_error"
      [] n = 500 -> "internal_error"
      [] n = 503 -> "service_unavailable"
      [] OTHER -> "error"

\* What keeps the router from running an endpoint: a status, or 0.
Misrouted(r) ==
    IF r.path = "unknown" THEN 404
    ELSE IF <<r.method, r.path>> \notin Served THEN 405
    ELSE IF r.path = "predict" /\ r.body = "garbled" THEN 422
    ELSE 0

\* require_api_key with is_authorised: compare_digest does not take a str
\* with characters outside ASCII, and raises.
AuthFailure(r) ==
    IF ~RequireKey \/ r.key \in ApiKeys THEN 0
    ELSE IF r.key \in NonAscii THEN 500
    ELSE 401

\* Mutant: an exception keeps its thread.
RaiseLeaking(s, n) ==
    /\ stage' = [stage EXCEPT ![s] = "raised"]
    /\ answer' = [answer EXCEPT ![s] = Answer(n, Code(n))]
    /\ pool' = pool

\* An exception on its way to its handler; the thread, if any, is free.
Raise(s, n) ==
    /\ stage' = [stage EXCEPT ![s] = "raised"]
    /\ answer' = [answer EXCEPT ![s] = Answer(n, Code(n))]
    /\ pool' = IF s \in pool.busy THEN Leave(pool, s) ELSE pool

\* On to the next part that needs a thread.
Advance(s, where) ==
    /\ stage' = [stage EXCEPT ![s] = where]
    /\ pool' = Join(IF s \in pool.busy THEN Leave(pool, s) ELSE pool, s)

\* The endpoint returns data with status n.
Return(s, n) ==
    /\ Advance(s, "serialize")
    /\ answer' = [answer EXCEPT ![s] = Answer(n, "data")]

Route(s) ==
    /\ stage[s] = "route"
    /\ LET r == request[s] IN
       IF r.path = "slashed"
       THEN AnswerNow(s, Answer(307, "bare")) /\ UNCHANGED pool
       ELSE IF Misrouted(r) # 0 THEN Raise(s, Misrouted(r))
       ELSE /\ Advance(s, IF r.path \in ProbePaths THEN "endpoint" ELSE "auth")
            /\ UNCHANGED answer
    /\ UNCHANGED <<loaded, window, request, counters>>

\* require_api_key, and then the validation of the parsed body.
Authenticate(s) ==
    /\ Runs(s, "auth")
    /\ LET r == request[s] IN
       IF AuthFailure(r) # 0 THEN Raise(s, AuthFailure(r))
       ELSE IF r.path = "predict" /\ r.body = "invalid" THEN Raise(s, 422)
       ELSE Advance(s, "endpoint") /\ UNCHANGED answer
    /\ UNCHANGED <<loaded, window, request, counters>>

Endpoint(s, path) ==
    /\ Runs(s, "endpoint")
    /\ request[s].path = path
    /\ UNCHANGED <<loaded, window, request>>

Health(s) == Endpoint(s, "health") /\ Return(s, 200) /\ UNCHANGED counters

Ready(s) ==
    /\ Endpoint(s, "ready")
    /\ Return(s, IF loaded THEN 200 ELSE 503)
    /\ UNCHANGED counters

Policy(s) ==
    /\ Endpoint(s, "policy")
    /\ IF loaded THEN Return(s, 200) ELSE Raise(s, 503)
    /\ UNCHANGED counters

Metrics(s) == Endpoint(s, "metrics") /\ Return(s, 200) /\ UNCHANGED counters

PredictWithoutModel(s) ==
    /\ Endpoint(s, "predict")
    /\ ~loaded
    /\ Raise(s, 503)
    /\ errors' = errors + 1
    /\ UNCHANGED decisions

\* Mutant: the decision is counted before it is made.
CountThenPredict(s) ==
    /\ Endpoint(s, "predict")
    /\ loaded
    /\ IF request[s].body = "fails" THEN Raise(s, 500) ELSE Return(s, 200)
    /\ decisions' = decisions + 1
    /\ UNCHANGED errors

Predict(s) ==
    /\ Endpoint(s, "predict")
    /\ loaded
    /\ IF request[s].body = "fails"
       THEN Raise(s, 500) /\ UNCHANGED decisions
       ELSE Return(s, 200) /\ decisions' = decisions + 1
    /\ UNCHANGED errors

\* The result is validated against the response model, and sent.
Serialize(s) ==
    /\ Runs(s, "serialize")
    /\ stage' = [stage EXCEPT ![s] = "answered"]
    /\ pool' = Leave(pool, s)
    /\ UNCHANGED <<loaded, window, request, answer, counters>>

\* on_validation_error, on_http_error or on_unhandled_error.
Handle(s) ==
    /\ stage[s] = "raised"
    /\ stage' = [stage EXCEPT ![s] = "answered"]
    /\ errors' = IF answer[s].status = 500 THEN errors + 1 ELSE errors
    /\ UNCHANGED <<loaded, window, request, answer, pool, decisions>>

\* The client has its answer.
Deliver(s) ==
    /\ stage[s] = "answered"
    /\ stage' = [stage EXCEPT ![s] = "free"]
    /\ request' = [request EXCEPT ![s] = Nobody]
    /\ answer' = [answer EXCEPT ![s] = Unanswered]
    /\ UNCHANGED <<loaded, window, pool, counters>>

InThread(s) ==
    \/ Authenticate(s) \/ Health(s) \/ Ready(s) \/ Policy(s) \/ Metrics(s)
    \/ PredictWithoutModel(s) \/ Predict(s) \/ Serialize(s)

Next ==
    \/ \E s \in Slots, r \in Requests :
          RefuseLength(s, r) \/ RefuseRate(s, r) \/ Admit(s, r)
    \/ \E s \in Slots : Route(s) \/ InThread(s) \/ Handle(s) \/ Deliver(s)
    \/ \E i \in Identities : Expire(i)

Spec == Init /\ [][Next]_vars

\* The loop runs what is ready, and what runs in a thread returns.
FairSpec == Spec /\ \A s \in Slots :
    WF_vars(Route(s)) /\ WF_vars(InThread(s)) /\ WF_vars(Handle(s))
-----------------------------------------------------------------------------
(* Properties *)

Parts == {"auth", "endpoint", "serialize"}
Stages == {"free", "route", "raised", "answered"} \cup Parts

TypeOK ==
    /\ loaded \in BOOLEAN
    /\ \A i \in Identities : Len(window[i]) <= Budget
    /\ stage \in [Slots -> Stages]
    /\ request \in [Slots -> Requests \cup {Nobody}]
    /\ pool.busy \in SUBSET Slots /\ pool.queue \in Seq(Slots)
    /\ Cardinality(pool.busy) <= PoolSize
    /\ decisions \in Nat /\ errors \in Nat

\* An exception after the endpoint has counted, or before, decides which
\* counters move (main.py:303-322, 453-463).  Whatever the interleaving, the
\* answers and the counters are those of the contract: the first reason in
\* the order of harden, router, require_api_key, body and endpoint names the
\* answer, and the answer is counted once or not at all.
HasAnswer(s) ==
    \/ stage[s] \in {"serialize", "answered"}
    \/ stage[s] = "raised" /\ answer[s].status # 500

Observed == [s \in Slots |-> IF HasAnswer(s) THEN answer[s] ELSE Unanswered]

Contract == INSTANCE HttpContract WITH answer <- Observed

ImplementsContract == Contract!Spec

\* A request that is admitted is answered (main.py:442-445, 457-459), though
\* it takes a thread up to three times and others raise, fail or queue before
\* it.
EveryRequestAnswered == \A s \in Slots :
    (stage[s] = "route") ~> (stage[s] = "answered")

\* What a caller sends that may make the service take it for another one.
Alike(q, r) ==
    IF q.key # NoKey \/ r.key # NoKey
    THEN q.key # NoKey /\ r.key # NoKey /\ q.key[1] = r.key[1]
    ELSE IF TrustProxy THEN q.forwarded = r.forwarded \/ "" \in {q.forwarded, r.forwarded}
    ELSE q.host = r.host

\* Nobody is refused for the requests of a caller whose key begins
\* differently, that has a key where it has none, or the other way round, or
\* that the trusted proxy reports under another address (security.py:112-134),
\* although keys may begin alike and all may come through one proxy.
OnlyAlikeShareBudget == [][\A s \in Slots, r \in Requests :
    RefuseRate(s, r) => \A c \in ToSet(window[Identity(r)]) :
        \E q \in Requests : q.client = c /\ Limited(q) /\ Alike(q, r)]_vars

\* Budgets are per caller (tests/unit/test_security.py:42-48), a short prefix
\* of the key being enough to separate them (security.py:123-124): who is
\* refused has used up the window with requests of its own.
\* Refuted by MCGatewayPrefix.cfg.
PerCallerBudget == [][\A s \in Slots, r \in Requests :
    RefuseRate(s, r) => ToSet(window[Identity(r)]) = {r.client}]_vars

\* A key that is not configured is answered 401 (README.md:323), and never
\* counted as an error of the service. Refuted by MCGatewayKey.cfg.
UnknownKeyIs401 == \A s \in Slots :
    (answer[s].status = 500) => request[s].key \in ApiKeys

\* The liveness probe answers at once (main.py:379-382, README.md:301-304).
\* Refuted by MCGatewayHealth.cfg.
HealthNeverWaits == \A s \in Slots :
    request[s].path = "health" => s \notin ToSet(pool.queue)

\* Every response has the envelope (schemas.py:9-14, README.md:290-291).
\* Refuted by MCGatewayRedirect.cfg.
EnvelopeEverywhere == \A s \in Slots : answer[s].code # "bare"
=============================================================================
