------------------------------- MODULE Triage -------------------------------
(***************************************************************************)
(* TriageService.triage (service/triage.py) on several instances of the    *)
(* service that share one Redis through RedisDecisionCache                 *)
(* (adapters/redis_cache.py), together with the lifespan of an instance    *)
(* (api/main.py): start with whatever build is deployed, warm up, serve,   *)
(* drain or crash.                                                         *)
(*                                                                         *)
(* A build is a record:                                                    *)
(*   version   model_version of its artifact                               *)
(*   floors    its PolicyThresholds                                        *)
(*   logic     its model weights, urgency terms and department map         *)
(*   fields    the fields its TriageDecision requires                      *)
(*   fails     the texts on which predict or decide raises                 *)
(*                                                                         *)
(* Redis is modelled from how the adapter uses it: it may hang or restart  *)
(* empty, evicts keys at will, counts each entry's life down, and may      *)
(* still apply a SETEX whose client has timed out.                         *)
(***************************************************************************)
EXTENDS Integers, FiniteSets

CONSTANTS Instances, Threads,
          Texts, WarmupText,
          Builds,
          TTL,               \* cache_ttl_seconds, in ticks
          MaxLate            \* bound on the SETEX commands in flight

ASSUME TriageAssumption ==
    /\ WarmupText \in Texts
    /\ TTL \in Nat \ {0}
    /\ MaxLate \in Nat

VARIABLES
    phase,       \* instance -> where its lifespan is
    build,       \* instance -> the build it was started with
    ready,       \* instance -> AppState.ready
    warm,        \* history: instance -> its model has predicted
    decided,     \* history: builds whose model has decided the warm-up message
    pc,          \* proc -> its place in triage
    text,        \* proc -> message.text
    reply,       \* proc -> what triage returned
    redisUp,     \* Redis answers within cache_timeout_seconds
    entries,     \* Redis: key -> payload and remaining life
    late         \* SETEX commands sent but not yet applied

lifeVars == <<phase, build, ready>>
procVars == <<pc, text, reply>>
redisVars == <<redisUp, entries, late>>
history == <<warm, decided>>
vars == <<lifeVars, history, procVars, redisVars>>

Procs == Instances \X Threads
Inst(p) == p[1]
BuildOf(p) == build[Inst(p)]

NoReply == [kind |-> "none"]
-----------------------------------------------------------------------------
(* The service and its adapter *)

\* Mutant: the thresholds are left out of the key.
CacheKeyOfVersion(b, x) ==
    [version |-> b.version, floors |-> "any", text |-> x]

\* cache_key: a hash of version, floors and text.
CacheKey(b, x) == [version |-> b.version, floors |-> b.floors, text |-> x]

\* decide(): a function of the build's rules and of the text.
Decide(b, x) ==
    [version |-> b.version, floors |-> b.floors, logic |-> b.logic, text |-> x]

Payload(b, x) == [decision |-> Decide(b, x), fields |-> b.fields]

\* Mutant: the payload is trusted.
ParsesAnything(b, payload) == TRUE

\* model_validate_json: every required field is there; others are ignored.
Parses(b, payload) == b.fields \subseteq payload.fields

Key(p) == CacheKey(BuildOf(p), text[p])

Return(p, r) ==
    /\ pc' = [pc EXCEPT ![p] = "reply"]
    /\ reply' = [reply EXCEPT ![p] = r]
    /\ UNCHANGED text

Goto(p, where) ==
    /\ pc' = [pc EXCEPT ![p] = where]
    /\ UNCHANGED <<text, reply>>

Decision(payload, cached) ==
    [kind |-> "decision", payload |-> payload, cached |-> cached]

\* A request for x reaches a serving instance.
Ask(p, x) ==
    /\ phase[Inst(p)] = "serving"
    /\ pc[p] = "idle"
    /\ pc' = [pc EXCEPT ![p] = "get"]
    /\ text' = [text EXCEPT ![p] = x]
    /\ UNCHANGED <<lifeVars, history, reply, redisVars>>

\* Mutant: an entry that is served gets a new life.
HitRenewing(p) ==
    /\ pc[p] = "get"
    /\ redisUp
    /\ Key(p) \in DOMAIN entries
    /\ Parses(BuildOf(p), entries[Key(p)].payload)
    /\ Return(p, Decision(entries[Key(p)].payload, TRUE))
    /\ entries' = [entries EXCEPT ![Key(p)].life = TTL]
    /\ UNCHANGED <<lifeVars, history, redisUp, late>>

\* cache.get finds a payload that parses.
Hit(p) ==
    /\ pc[p] = "get"
    /\ redisUp
    /\ Key(p) \in DOMAIN entries
    /\ Parses(BuildOf(p), entries[Key(p)].payload)
    /\ Return(p, Decision(entries[Key(p)].payload, TRUE))
    /\ UNCHANGED <<lifeVars, history, redisVars>>

\* Mutant: the client has no socket timeout and waits for Redis.
MissBlocking(p) ==
    /\ pc[p] = "get"
    /\ redisUp
    /\ Key(p) \notin DOMAIN entries
    /\ Goto(p, "predict")
    /\ UNCHANGED <<lifeVars, history, redisVars>>

\* cache.get finds nothing, finds a payload that no longer parses, or gives
\* up on Redis (it may time out on a Redis that is only slow).
Miss(p) ==
    /\ pc[p] = "get"
    /\ Goto(p, "predict")
    /\ UNCHANGED <<lifeVars, history, redisVars>>

\* model.predict and decide.
Predict(p) ==
    /\ pc[p] = "predict"
    /\ IF text[p] \in BuildOf(p).fails
       THEN Return(p, [kind |-> "error"])
       ELSE Goto(p, "set")
    /\ warm' = [warm EXCEPT ![Inst(p)] = TRUE]
    /\ decided' = decided \cup
          {b \in {BuildOf(p)} : text[p] = WarmupText /\ WarmupText \notin b.fails}
    /\ UNCHANGED <<lifeVars, redisVars>>

Setex(table, k, payload) ==
    [j \in DOMAIN table \cup {k} |->
        IF j = k THEN [payload |-> payload, life |-> TTL] ELSE table[j]]

\* cache.set: the command is applied or not, and one that timed out (the
\* client may have tried again) can still be in flight.  Whichever it is,
\* triage returns the decision it computed.
Set(p) ==
    LET payload == Payload(BuildOf(p), text[p])
        command == [key |-> Key(p), payload |-> payload]
    IN
    /\ pc[p] = "set"
    /\ \/ redisUp /\ entries' = Setex(entries, Key(p), payload)
       \/ UNCHANGED entries
    /\ \/ Cardinality(late) < MaxLate /\ late' = late \cup {command}
       \/ UNCHANGED late
    /\ Return(p, Decision(payload, FALSE))
    /\ UNCHANGED <<lifeVars, history, redisUp>>

EndProcs(S) ==
    /\ pc' = [p \in Procs |-> IF p \in S THEN "idle" ELSE pc[p]]
    /\ text' = [p \in Procs |-> IF p \in S THEN WarmupText ELSE text[p]]
    /\ reply' = [p \in Procs |-> IF p \in S THEN NoReply ELSE reply[p]]

\* The handler answers the request.
Reply(p) ==
    /\ pc[p] = "reply"
    /\ phase[Inst(p)] \in {"serving", "draining"}
    /\ EndProcs({p})
    /\ UNCHANGED <<lifeVars, history, redisVars>>
-----------------------------------------------------------------------------
(* The lifespan of an instance *)

ProcsOf(i) == {p \in Procs : Inst(p) = i}

\* load_app_state with the build that is deployed then (a new one, or an
\* older one rolled back to), and warm_up entering triage.
Start(i, b) ==
    /\ phase[i] = "down"
    /\ phase' = [phase EXCEPT ![i] = "warming"]
    /\ build' = [build EXCEPT ![i] = b]
    /\ warm' = [warm EXCEPT ![i] = FALSE]
    /\ \E p \in ProcsOf(i) : pc' = [pc EXCEPT ![p] = "get"]
    /\ UNCHANGED <<decided, ready, text, reply, redisVars>>

\* The process ends and its threads with it.
End(i) ==
    /\ phase' = [phase EXCEPT ![i] = "down"]
    /\ ready' = [ready EXCEPT ![i] = FALSE]
    /\ warm' = [warm EXCEPT ![i] = FALSE]
    /\ EndProcs(ProcsOf(i))
    /\ UNCHANGED <<build, decided, redisVars>>

\* Mutant: ready is set however triage ended.
WarmedUpAnyhow(p) ==
    /\ phase[Inst(p)] = "warming"
    /\ pc[p] = "reply"
    /\ ready' = [ready EXCEPT ![Inst(p)] = TRUE]
    /\ phase' = [phase EXCEPT ![Inst(p)] = "serving"]
    /\ EndProcs({p})
    /\ UNCHANGED <<build, history, redisVars>>

\* warm_up: triage returned; the lifespan yields and requests come in.
WarmedUp(p) ==
    /\ phase[Inst(p)] = "warming"
    /\ pc[p] = "reply"
    /\ reply[p].kind = "decision"
    /\ ready' = [ready EXCEPT ![Inst(p)] = TRUE]
    /\ phase' = [phase EXCEPT ![Inst(p)] = "serving"]
    /\ EndProcs({p})
    /\ UNCHANGED <<build, history, redisVars>>

\* warm_up: triage raised, and with it the startup of the application.
WarmupRaised(p) ==
    /\ phase[Inst(p)] = "warming"
    /\ pc[p] = "reply"
    /\ reply[p].kind = "error"
    /\ End(Inst(p))

\* SIGTERM: no new request is accepted, those in triage go on.
Stop(i) ==
    /\ phase[i] = "serving"
    /\ phase' = [phase EXCEPT ![i] = "draining"]
    /\ UNCHANGED <<build, ready, history, procVars, redisVars>>

\* The last request has been answered: shut_down, and the process ends.
ShutDown(i) ==
    /\ phase[i] = "draining"
    /\ \A p \in ProcsOf(i) : pc[p] = "idle"
    /\ End(i)

\* Killed at any moment, by the end of the grace period for one.
Crash(i) ==
    /\ phase[i] # "down"
    /\ End(i)

-----------------------------------------------------------------------------
(* Redis *)

Keep(table, keys) == [k \in keys |-> table[k]]

Apply(c) ==
    /\ redisUp
    /\ entries' = Setex(entries, c.key, c.payload)
    /\ late' = late \ {c}
    /\ UNCHANGED <<lifeVars, history, procVars, redisUp>>

Lose(c) ==
    /\ late' = late \ {c}
    /\ UNCHANGED <<lifeVars, history, procVars, redisUp, entries>>

\* allkeys-lru under memory pressure.
EvictKey(k) ==
    /\ entries' = Keep(entries, DOMAIN entries \ {k})
    /\ UNCHANGED <<lifeVars, history, procVars, redisUp, late>>

\* Mutant: an expired entry is still found.
TickKeeping ==
    /\ entries' = [k \in DOMAIN entries |->
                     [entries[k] EXCEPT !.life = IF @ = 0 THEN 0 ELSE @ - 1]]
    /\ UNCHANGED <<lifeVars, history, procVars, redisUp, late>>

Tick ==
    /\ entries' = [k \in {j \in DOMAIN entries : entries[j].life > 1} |->
                     [entries[k] EXCEPT !.life = @ - 1]]
    /\ UNCHANGED <<lifeVars, history, procVars, redisUp, late>>

Hang == redisUp /\ redisUp' = FALSE
        /\ UNCHANGED <<lifeVars, history, procVars, entries, late>>

Recover == ~redisUp /\ redisUp' = TRUE
           /\ UNCHANGED <<lifeVars, history, procVars, entries, late>>

\* Nothing is persisted (docker-compose.yml).
RestartRedis ==
    /\ entries' = Keep(entries, {})
    /\ late' = {}
    /\ redisUp' = TRUE
    /\ UNCHANGED <<lifeVars, history, procVars>>
-----------------------------------------------------------------------------
Init ==
    /\ phase = [i \in Instances |-> "down"]
    /\ build \in [Instances -> Builds]
    /\ ready = [i \in Instances |-> FALSE]
    /\ warm = [i \in Instances |-> FALSE]
    /\ decided = {}
    /\ pc = [p \in Procs |-> "idle"]
    /\ text = [p \in Procs |-> WarmupText]
    /\ reply = [p \in Procs |-> NoReply]
    /\ redisUp = TRUE
    /\ entries = [k \in {} |-> 0]
    /\ late = {}

Work(p) ==
    \/ Hit(p) \/ Miss(p) \/ Predict(p) \/ Set(p) \/ Reply(p)
    \/ WarmedUp(p) \/ WarmupRaised(p)

Lifespan ==
    \E i \in Instances :
        \/ \E b \in Builds : Start(i, b)
        \/ Stop(i) \/ ShutDown(i) \/ Crash(i)

Redis ==
    \/ \E c \in late : Apply(c) \/ Lose(c)
    \/ \E k \in DOMAIN entries : EvictKey(k)
    \/ Tick \/ Hang \/ Recover \/ RestartRedis

Next ==
    \/ \E p \in Procs : Work(p) \/ \E x \in Texts : Ask(p, x)
    \/ Lifespan
    \/ Redis

Spec == Init /\ [][Next]_vars

\* A thread that can run gets to run, the clock of Redis goes on, and a
\* command in flight arrives or is lost.  Nothing makes Redis recover, an
\* instance start or a request come in.
Commands ==
    [key : {CacheKey(b, x) : b \in Builds, x \in Texts},
     payload : {Payload(b, x) : b \in Builds, x \in Texts}]

Fairness ==
    /\ \A p \in Procs : WF_vars(Work(p))
    /\ WF_vars(Tick)
    /\ \A c \in Commands : WF_vars(c \in late /\ (Apply(c) \/ Lose(c)))

FairSpec == Spec /\ Fairness
-----------------------------------------------------------------------------
(* Properties *)

Payloads == {Payload(b, x) : b \in Builds, x \in Texts}

Replies ==
    {NoReply, [kind |-> "error"]}
        \cup {Decision(payload, cached) : payload \in Payloads, cached \in BOOLEAN}

\* Type invariant.
TypeOK ==
    /\ phase \in [Instances -> {"down", "warming", "serving", "draining"}]
    /\ build \in [Instances -> Builds]
    /\ ready \in [Instances -> BOOLEAN]
    /\ warm \in [Instances -> BOOLEAN]
    /\ decided \subseteq Builds
    /\ pc \in [Procs -> {"idle", "get", "predict", "set", "reply"}]
    /\ text \in [Procs -> Texts]
    /\ reply \in [Procs -> Replies]
    /\ redisUp \in BOOLEAN
    /\ \A k \in DOMAIN entries :
          entries[k].payload \in Payloads /\ entries[k].life \in 1..TTL
    /\ late \subseteq Commands

\* A decision is never served without a field its own build requires, even
\* when the key it was found under was filled by a build of another shape:
\* it is validated on the way out of the cache (triage.py:67-76).
NeverMalformed ==
    \A p \in Procs :
        reply[p].kind = "decision" =>
            BuildOf(p).fields \subseteq reply[p].payload.fields

\* Ready rests on a decision: if an instance is ready, then a model of its
\* version and floors has decided the warm-up message at some time, its own or
\* that of an instance which left the decision in the cache (warm_up,
\* main.py:192-202).
ReadyRestsOnADecision ==
    \A i \in Instances :
        ready[i] => \E b \in decided : CacheKey(b, WarmupText) = CacheKey(build[i], WarmupText)

\* The model of a ready instance can decide the warm-up message: "/ready
\* returns 503 until a throwaway warm-up prediction has actually returned"
\* (README.md:304-305).
\* Refuted by MCTriageBroken.cfg: the decision of a sound instance, found in
\* the cache, makes an instance ready whose artifact of the same version is
\* broken.
ReadyInstanceDecides ==
    \A i \in Instances : ready[i] => WarmupText \notin build[i].fails

\* Ready means that the instance has paid its initialisation cost: "stays
\* False until the warm-up decision has actually returned [...] while the
\* first request still has to pay initialisation cost" (main.py:99-101).
\* Refuted by MCTriageReady.cfg.
ReadyMeansWarm == \A i \in Instances : ready[i] => warm[i]

\* Whatever Redis does, a message taken is answered (or its process ends):
\* a hung cache never stalls a request (redis_cache.py:40-43).
EveryRequestEnds ==
    \A p \in Procs : pc[p] # "idle" ~> pc[p] = "idle"

\* No decision made under superseded rules is served: "a retrain or a policy
\* change invalidates every entry automatically" (triage.py:50-53).
\* Refuted by MCTriageStale.cfg.
DecisionsAreOwn ==
    \A p \in Procs :
        reply[p].kind = "decision" =>
            reply[p].payload.decision = Decide(BuildOf(p), text[p])

\* Once every instance runs one build for good, the decisions that other
\* builds left under its keys stop being served: an entry lives TTL after it
\* was computed, and serving it does not renew it (redis_cache.py:64-68).
SupersededDecisionsDieOut ==
    \A b \in Builds :
        <>[](\A i \in Instances : build[i] = b) => <>[]DecisionsAreOwn

\* The builds that make the same keys as b.
Siblings(b) == {c \in Builds : c.version = b.version /\ c.floors = b.floors}

\* Builds that make the same keys rule alike, though one may raise where the
\* other does not: what the comment of cache_key takes for granted ("a retrain
\* or a policy change invalidates every entry automatically",
\* triage.py:50-53).
HonestVersions == \A b \in Builds : \A c \in Siblings(b) : b.logic = c.logic

Request(b, x) == [kind |-> "request", build |-> b, text |-> x]

Requests == {Request(b, x) : b \in Builds, x \in Texts}

Ruled(decision) == [kind |-> "ruled", decision |-> decision]

\* What a build rules on a text: an error if its model raises, and what it
\* would decide if a build that makes the same keys can.
Rulings(b, x) ==
    (IF x \in b.fails THEN {[kind |-> "error"]} ELSE {})
        \cup {Ruled(Decide(b, x)) : c \in {d \in Siblings(b) : x \notin d.fails}}

Ruling == [r \in Requests |-> Rulings(r.build, r.text)]

RequestOf(p) ==
    IF pc[p] = "idle" THEN [kind |-> "idle"] ELSE Request(BuildOf(p), text[p])

AnswerOf(p) ==
    IF reply[p].kind = "decision" THEN Ruled(reply[p].payload.decision)
    ELSE reply[p]

Pure == INSTANCE PureTriage
            WITH Idle <- [kind |-> "idle"], Pending <- NoReply,
                 request <- [p \in Procs |-> RequestOf(p)],
                 answer <- [p \in Procs |-> AnswerOf(p)]

\* The cache is transparent: every answer is the one the instance's own
\* model and policy give, except that it may spare a model that raises, and
\* this through hits on what other instances and other
\* builds stored, expiry, eviction, outages of Redis, SETEX commands applied
\* twice or late, and crashes (triage.py:61-94).
CacheIsTransparent == Pure!Spec
=============================================================================
