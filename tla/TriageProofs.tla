---------------------------- MODULE TriageProofs ----------------------------
(***************************************************************************)
(* Proofs about Triage: its type invariant, the shape of every answer,     *)
(* what a ready instance rests on, and that the cache is transparent when  *)
(* builds that make the same keys rule alike.                              *)
(*                                                                         *)
(* The actions of a thread inside triage change its place and its reply    *)
(* and little else, and the ends of a request or of a process clear the    *)
(* threads of a set.  The invariants are proved once for each of these two *)
(* kinds of step (lemmas Works... and Ends...), and the actions cite them. *)
(***************************************************************************)
EXTENDS Triage, TLAPS

Steps == {"idle", "get", "predict", "set", "reply"}

\* A step of thread p inside triage, from a place where it has no reply yet.
Works(p, where, r) ==
    /\ pc[p] \notin {"idle", "reply"}
    /\ where \in Steps \ {"idle"}
    /\ pc' = [pc EXCEPT ![p] = where]
    /\ reply' = [reply EXCEPT ![p] = r]
    /\ text' = text
    /\ UNCHANGED lifeVars
-----------------------------------------------------------------------------
(* Types *)

LEMMA ReplyTypes ==
    /\ NoReply \in Replies
    /\ [kind |-> "error"] \in Replies
    /\ \A payload \in Payloads, cached \in BOOLEAN :
          Decision(payload, cached) \in Replies
BY DEF Replies

LEMMA KeyTypes ==
    ASSUME TypeOK, NEW p \in Procs
    PROVE  /\ Inst(p) \in Instances
           /\ BuildOf(p) \in Builds
           /\ text[p] \in Texts
           /\ Payload(BuildOf(p), text[p]) \in Payloads
           /\ [key |-> Key(p), payload |-> Payload(BuildOf(p), text[p])] \in Commands
<1>1. Inst(p) \in Instances
  BY DEF Procs, Inst
<1>2. BuildOf(p) \in Builds /\ text[p] \in Texts
  BY <1>1 DEF TypeOK, BuildOf
<1>3. /\ Payload(BuildOf(p), text[p]) \in Payloads
      /\ Key(p) \in {CacheKey(b, x) : b \in Builds, x \in Texts}
  BY <1>2 DEF Payloads, Key
<1> QED  BY <1>1, <1>2, <1>3 DEF Commands, Payloads

\* The part of the type invariant that is about the threads.
ProcTypes ==
    /\ pc \in [Procs -> Steps]
    /\ text \in [Procs -> Texts]
    /\ reply \in [Procs -> Replies]

LifeTypes ==
    /\ phase \in [Instances -> {"down", "warming", "serving", "draining"}]
    /\ build \in [Instances -> Builds]
    /\ ready \in [Instances -> BOOLEAN]

RedisTypes ==
    /\ redisUp \in BOOLEAN
    /\ \A k \in DOMAIN entries :
          entries[k].payload \in Payloads /\ entries[k].life \in 1..TTL
    /\ late \subseteq Commands

HistoryTypes == warm \in [Instances -> BOOLEAN] /\ decided \subseteq Builds

LEMMA TypeParts ==
    /\ TypeOK <=> LifeTypes /\ HistoryTypes /\ ProcTypes /\ RedisTypes
    /\ TypeOK' <=> LifeTypes' /\ HistoryTypes' /\ ProcTypes' /\ RedisTypes'
BY DEF TypeOK, LifeTypes, HistoryTypes, ProcTypes, RedisTypes, Steps

LEMMA WorksTypes ==
    ASSUME ProcTypes, NEW p \in Procs, NEW where, NEW r \in Replies,
           Works(p, where, r)
    PROVE  ProcTypes'
BY DEF ProcTypes, Works

LEMMA EndsTypes ==
    ASSUME ProcTypes, NEW S, EndProcs(S)
    PROVE  ProcTypes'
<1>1. WarmupText \in Texts /\ NoReply \in Replies
  BY TriageAssumption, ReplyTypes
<1> QED  BY <1>1 DEF ProcTypes, EndProcs, Steps

LEMMA GotoWorks ==
    ASSUME ProcTypes, NEW p \in Procs, NEW where \in Steps \ {"idle"},
           reply[p] = NoReply, pc[p] \notin {"idle", "reply"},
           Goto(p, where), UNCHANGED lifeVars
    PROVE  Works(p, where, NoReply)
BY DEF Goto, Works, ProcTypes

LEMMA ReturnWorks ==
    ASSUME NEW p \in Procs, NEW r, pc[p] \notin {"idle", "reply"},
           Return(p, r), UNCHANGED lifeVars
    PROVE  Works(p, "reply", r)
BY DEF Return, Works, Steps
-----------------------------------------------------------------------------
(* The shape of the state *)

\* Threads of an instance that is down are idle, and only a thread that is
\* about to answer has a reply.
DownIsIdle == \A p \in Procs : phase[Inst(p)] = "down" => pc[p] = "idle"

ReplyAtEnd == \A p \in Procs : pc[p] # "reply" => reply[p] = NoReply

Shape == TypeOK /\ DownIsIdle /\ ReplyAtEnd /\ NeverMalformed

LEMMA WorksShape ==
    ASSUME Shape, NEW p \in Procs, NEW where, NEW r \in Replies,
           Works(p, where, r),
           where # "reply" => r = NoReply,
           r.kind = "decision" => BuildOf(p).fields \subseteq r.payload.fields
    PROVE  ProcTypes' /\ LifeTypes' /\ DownIsIdle' /\ ReplyAtEnd' /\ NeverMalformed'
<1>1. ProcTypes /\ LifeTypes
  BY TypeParts DEF Shape
<1>2. ProcTypes'
  BY <1>1, WorksTypes
<1>3. LifeTypes'
  BY <1>1 DEF LifeTypes, Works, lifeVars
<1>4. DownIsIdle'
  BY <1>1 DEF Shape, DownIsIdle, Works, lifeVars, ProcTypes
<1>5. ReplyAtEnd'
  BY <1>1 DEF Shape, ReplyAtEnd, Works, ProcTypes
<1>6. NeverMalformed'
  BY <1>1 DEF Shape, NeverMalformed, Works, lifeVars, ProcTypes, BuildOf
<1> QED  BY <1>2, <1>3, <1>4, <1>5, <1>6

LEMMA EndsShape ==
    ASSUME Shape, NEW S \in SUBSET Procs, EndProcs(S), build' = build,
           \A p \in Procs \ S :
              phase'[Inst(p)] = "down" => phase[Inst(p)] = "down"
    PROVE  ProcTypes' /\ DownIsIdle' /\ ReplyAtEnd' /\ NeverMalformed'
<1>1. ProcTypes
  BY TypeParts DEF Shape
<1>2. ProcTypes'
  BY <1>1, EndsTypes
<1>3. DownIsIdle' /\ ReplyAtEnd'
  BY DEF Shape, DownIsIdle, ReplyAtEnd, EndProcs
<1>4. NeverMalformed'
  BY DEF Shape, NeverMalformed, EndProcs, BuildOf, NoReply
<1> QED  BY <1>2, <1>3, <1>4

\* What a step that leaves the threads and the lifespans alone preserves.
LEMMA QuietShape ==
    ASSUME Shape, UNCHANGED <<lifeVars, procVars>>
    PROVE  ProcTypes' /\ LifeTypes' /\ DownIsIdle' /\ ReplyAtEnd' /\ NeverMalformed'
<1>1. ProcTypes /\ LifeTypes
  BY TypeParts DEF Shape
<1> QED  BY <1>1 DEF Shape, ProcTypes, LifeTypes, DownIsIdle, ReplyAtEnd,
         NeverMalformed, BuildOf, lifeVars, procVars

LEMMA SetexTypes ==
    ASSUME RedisTypes, NEW k, NEW payload \in Payloads,
           entries' = Setex(entries, k, payload)
    PROVE  \A j \in DOMAIN entries' :
              entries'[j].payload \in Payloads /\ entries'[j].life \in 1..TTL
BY TriageAssumption DEF RedisTypes, Setex

LEMMA HitShape ==
    ASSUME Shape, NEW p \in Procs, Hit(p) PROVE Shape'
<1> DEFINE payload == entries[Key(p)].payload
           r == Decision(payload, TRUE)
<1>1. RedisTypes /\ HistoryTypes
  BY TypeParts DEF Shape
<1>2. r \in Replies
  BY <1>1, ReplyTypes DEF Hit, RedisTypes
<1>3. BuildOf(p).fields \subseteq r.payload.fields
  BY DEF Hit, Parses, Decision
<1>4. Works(p, "reply", r)
  BY ReturnWorks DEF Hit
<1> HIDE DEF r
<1>5. ProcTypes' /\ LifeTypes' /\ DownIsIdle' /\ ReplyAtEnd' /\ NeverMalformed'
  BY <1>2, <1>3, <1>4, WorksShape
<1>6. RedisTypes' /\ HistoryTypes'
  BY <1>1 DEF Hit, redisVars, history, RedisTypes, HistoryTypes
<1> QED  BY <1>5, <1>6, TypeParts DEF Shape

LEMMA MissShape ==
    ASSUME Shape, NEW p \in Procs, Miss(p) PROVE Shape'
<1>1. RedisTypes /\ ProcTypes /\ HistoryTypes
  BY TypeParts DEF Shape
<1>2. reply[p] = NoReply
  BY DEF Shape, ReplyAtEnd, Miss
<1>3. Works(p, "predict", NoReply)
  BY <1>1, <1>2, GotoWorks DEF Miss, Steps
<1>4. ProcTypes' /\ LifeTypes' /\ DownIsIdle' /\ ReplyAtEnd' /\ NeverMalformed'
  BY <1>3, WorksShape, ReplyTypes DEF NoReply
<1>5. RedisTypes' /\ HistoryTypes'
  BY <1>1 DEF Miss, redisVars, history, RedisTypes, HistoryTypes
<1> QED  BY <1>4, <1>5, TypeParts DEF Shape

LEMMA PredictShape ==
    ASSUME Shape, NEW p \in Procs, Predict(p) PROVE Shape'
<1>1. RedisTypes /\ ProcTypes /\ HistoryTypes
  BY TypeParts DEF Shape
<1>2. reply[p] = NoReply
  BY DEF Shape, ReplyAtEnd, Predict
<1>3. \/ Works(p, "reply", [kind |-> "error"])
      \/ Works(p, "set", NoReply)
  BY <1>1, <1>2, GotoWorks, ReturnWorks DEF Predict, Steps
<1>4. ProcTypes' /\ LifeTypes' /\ DownIsIdle' /\ ReplyAtEnd' /\ NeverMalformed'
  BY <1>3, WorksShape, ReplyTypes DEF NoReply
<1>5. RedisTypes' /\ HistoryTypes'
  <2>1. BuildOf(p) \in Builds
    BY KeyTypes DEF Shape
  <2> QED  BY <1>1, <2>1 DEF Predict, redisVars, RedisTypes, HistoryTypes
<1> QED  BY <1>4, <1>5, TypeParts DEF Shape

LEMMA SetShape ==
    ASSUME Shape, NEW p \in Procs, Set(p) PROVE Shape'
<1> DEFINE payload == Payload(BuildOf(p), text[p])
           r == Decision(payload, FALSE)
           command == [key |-> Key(p), payload |-> payload]
<1>1. RedisTypes /\ HistoryTypes
  BY TypeParts DEF Shape
<1>2. payload \in Payloads /\ r \in Replies /\ command \in Commands
  BY KeyTypes, ReplyTypes DEF Shape
<1>3. BuildOf(p).fields \subseteq r.payload.fields
  BY DEF Payload, Decision
<1>4. Works(p, "reply", r)
  BY ReturnWorks DEF Set
<1>5. /\ \/ entries' = Setex(entries, Key(p), payload)
         \/ entries' = entries
      /\ late' = late \cup {command} \/ late' = late
      /\ redisUp' = redisUp /\ UNCHANGED history
  BY DEF Set
<1> HIDE DEF r, payload, command
<1>6. ProcTypes' /\ LifeTypes' /\ DownIsIdle' /\ ReplyAtEnd' /\ NeverMalformed'
  BY <1>2, <1>3, <1>4, WorksShape
<1>7. RedisTypes'
  <2>1. \A j \in DOMAIN entries' :
           entries'[j].payload \in Payloads /\ entries'[j].life \in 1..TTL
    BY <1>1, <1>2, <1>5, SetexTypes DEF RedisTypes
  <2>2. late' \subseteq Commands /\ redisUp' \in BOOLEAN
    BY <1>1, <1>2, <1>5 DEF RedisTypes
  <2> QED  BY <2>1, <2>2 DEF RedisTypes
<1> QED  BY <1>1, <1>5, <1>6, <1>7, TypeParts DEF Shape, HistoryTypes, history

LEMMA AskShape ==
    ASSUME Shape, NEW p \in Procs, NEW x \in Texts, Ask(p, x) PROVE Shape'
<1>1. RedisTypes /\ ProcTypes /\ LifeTypes /\ HistoryTypes
  BY TypeParts DEF Shape
<1>2. RedisTypes' /\ LifeTypes' /\ HistoryTypes'
  BY <1>1 DEF Ask, redisVars, lifeVars, history, RedisTypes, LifeTypes, HistoryTypes
<1>3. ProcTypes'
  BY <1>1 DEF Ask, ProcTypes, Steps
<1>4. DownIsIdle'
  BY <1>1 DEF Ask, Shape, DownIsIdle, lifeVars, ProcTypes
<1>5. ReplyAtEnd' /\ NeverMalformed'
  BY <1>1 DEF Ask, Shape, ReplyAtEnd, NeverMalformed, lifeVars, ProcTypes, BuildOf
<1> QED  BY <1>2, <1>3, <1>4, <1>5, TypeParts DEF Shape

LEMMA EndShape ==
    ASSUME Shape, NEW i \in Instances, End(i) PROVE Shape'
<1>1. RedisTypes /\ LifeTypes /\ HistoryTypes
  BY TypeParts DEF Shape
<1>2. RedisTypes' /\ LifeTypes' /\ HistoryTypes'
  BY <1>1 DEF End, redisVars, history, RedisTypes, LifeTypes, HistoryTypes
<1>3. ASSUME NEW p \in Procs \ ProcsOf(i), phase'[Inst(p)] = "down"
      PROVE  phase[Inst(p)] = "down"
  BY <1>1, <1>3 DEF End, ProcsOf, LifeTypes, Procs, Inst
<1>4. EndProcs(ProcsOf(i)) /\ build' = build /\ ProcsOf(i) \in SUBSET Procs
  BY DEF End, ProcsOf
<1>5. ProcTypes' /\ DownIsIdle' /\ ReplyAtEnd' /\ NeverMalformed'
  BY <1>3, <1>4, EndsShape
<1> QED  BY <1>2, <1>5, TypeParts DEF Shape

LEMMA ReplyShape ==
    ASSUME Shape, NEW p \in Procs, Reply(p) PROVE Shape'
<1>1. RedisTypes /\ LifeTypes /\ HistoryTypes
  BY TypeParts DEF Shape
<1>2. RedisTypes' /\ LifeTypes' /\ HistoryTypes'
  BY <1>1 DEF Reply, redisVars, lifeVars, history, RedisTypes, LifeTypes, HistoryTypes
<1>3. ProcTypes' /\ DownIsIdle' /\ ReplyAtEnd' /\ NeverMalformed'
  BY EndsShape DEF Reply, lifeVars
<1> QED  BY <1>2, <1>3, TypeParts DEF Shape

LEMMA WarmedUpShape ==
    ASSUME Shape, NEW p \in Procs, WarmedUp(p) PROVE Shape'
<1>1. RedisTypes /\ LifeTypes /\ HistoryTypes
  BY TypeParts DEF Shape
<1>2. RedisTypes' /\ LifeTypes' /\ HistoryTypes'
  BY <1>1 DEF WarmedUp, redisVars, history, RedisTypes, LifeTypes, HistoryTypes
<1>3. \A q \in Procs \ {p} : phase'[Inst(q)] = "down" => phase[Inst(q)] = "down"
  BY <1>1 DEF WarmedUp, LifeTypes, Procs, Inst
<1>4. ProcTypes' /\ DownIsIdle' /\ ReplyAtEnd' /\ NeverMalformed'
  BY <1>3, EndsShape DEF WarmedUp
<1> QED  BY <1>2, <1>4, TypeParts DEF Shape

LEMMA StartShape ==
    ASSUME Shape, NEW i \in Instances, NEW b \in Builds, Start(i, b) PROVE Shape'
<1>1. RedisTypes /\ ProcTypes /\ LifeTypes /\ HistoryTypes
  BY TypeParts DEF Shape
<1>2. RedisTypes' /\ LifeTypes' /\ HistoryTypes'
  BY <1>1 DEF Start, redisVars, history, RedisTypes, LifeTypes, HistoryTypes
<1>3. PICK p \in ProcsOf(i) : pc' = [pc EXCEPT ![p] = "get"]
  BY DEF Start
<1>4. ProcTypes'
  BY <1>1, <1>3 DEF Start, ProcTypes, Steps, ProcsOf
<1>5. DownIsIdle'
  BY <1>1, <1>3 DEF Start, Shape, DownIsIdle, ProcTypes, LifeTypes, ProcsOf, Procs, Inst
<1>6. ReplyAtEnd'
  BY <1>1, <1>3 DEF Start, Shape, ReplyAtEnd, DownIsIdle, ProcTypes, ProcsOf
<1>7. NeverMalformed'
  <2>1. \A q \in ProcsOf(i) : reply[q] = NoReply
    BY DEF Start, Shape, DownIsIdle, ReplyAtEnd, ProcsOf
  <2>2. \A q \in Procs \ ProcsOf(i) : build'[Inst(q)] = build[Inst(q)]
    BY <1>1 DEF Start, ProcsOf, LifeTypes, Procs, Inst
  <2> QED  BY <2>1, <2>2 DEF Start, Shape, NeverMalformed, BuildOf, NoReply
<1> QED  BY <1>2, <1>4, <1>5, <1>6, <1>7, TypeParts DEF Shape

LEMMA StopShape ==
    ASSUME Shape, NEW i \in Instances, Stop(i) PROVE Shape'
<1>1. RedisTypes /\ ProcTypes /\ LifeTypes /\ HistoryTypes
  BY TypeParts DEF Shape
<1>2. /\ RedisTypes' /\ ProcTypes' /\ LifeTypes'
      /\ HistoryTypes'
  BY <1>1 DEF Stop, redisVars, procVars, history, RedisTypes, ProcTypes, LifeTypes, HistoryTypes
<1>3. DownIsIdle'
  BY <1>1 DEF Stop, Shape, DownIsIdle, procVars, LifeTypes, Procs, Inst
<1>4. ReplyAtEnd' /\ NeverMalformed'
  BY DEF Stop, Shape, ReplyAtEnd, NeverMalformed, BuildOf, procVars
<1> QED  BY <1>2, <1>3, <1>4, TypeParts DEF Shape

LEMMA LifespanShape ==
    ASSUME Shape, Lifespan PROVE Shape'
BY StartShape, StopShape, EndShape DEF Lifespan, ShutDown, Crash

LEMMA RedisShape ==
    ASSUME Shape, Redis PROVE Shape'
<1>1. RedisTypes /\ HistoryTypes
  BY TypeParts DEF Shape
<1>2. UNCHANGED <<lifeVars, procVars, history>>
  BY DEF Redis, Apply, Lose, EvictKey, Tick, Hang, Recover, RestartRedis
<1>3. ProcTypes' /\ LifeTypes' /\ DownIsIdle' /\ ReplyAtEnd' /\ NeverMalformed'
  BY <1>2, QuietShape
<1>4. RedisTypes'
  <2>1. ASSUME NEW c \in late, Apply(c) PROVE RedisTypes'
    <3>1. c.payload \in Payloads
      BY <1>1 DEF RedisTypes, Commands, Payloads
    <3>2. entries' = Setex(entries, c.key, c.payload)
          /\ late' \subseteq late /\ redisUp' = redisUp
      BY <2>1 DEF Apply
    <3>3. \A j \in DOMAIN entries' :
             entries'[j].payload \in Payloads /\ entries'[j].life \in 1..TTL
      BY <1>1, <3>1, <3>2, SetexTypes
    <3> QED  BY <1>1, <3>2, <3>3 DEF RedisTypes
  <2>2. ASSUME NEW c \in late, Lose(c) PROVE RedisTypes'
    BY <1>1, <2>2 DEF RedisTypes, Lose
  <2>3. ASSUME NEW k \in DOMAIN entries, EvictKey(k) PROVE RedisTypes'
    BY <1>1, <2>3 DEF RedisTypes, EvictKey, Keep
  <2>4. ASSUME Tick PROVE RedisTypes'
    <3> SUFFICES ASSUME NEW k \in DOMAIN entries'
                 PROVE  entries'[k].payload \in Payloads /\ entries'[k].life \in 1..TTL
      BY <1>1, <2>4 DEF RedisTypes, Tick
    <3>1. k \in DOMAIN entries /\ entries[k].life > 1
          /\ entries'[k] = [entries[k] EXCEPT !.life = @ - 1]
      BY <2>4 DEF Tick
    <3>2. entries[k].payload \in Payloads /\ entries[k].life \in 1..TTL
      BY <1>1, <3>1 DEF RedisTypes
    <3> QED  BY <3>1, <3>2, TriageAssumption
  <2>5. ASSUME Hang \/ Recover PROVE RedisTypes'
    BY <1>1, <2>5 DEF RedisTypes, Hang, Recover
  <2>6. ASSUME RestartRedis PROVE RedisTypes'
    BY <1>1, <2>6 DEF RedisTypes, RestartRedis, Keep
  <2> QED  BY <2>1, <2>2, <2>3, <2>4, <2>5, <2>6 DEF Redis
<1> QED  BY <1>1, <1>2, <1>3, <1>4, TypeParts DEF Shape, HistoryTypes, history

LEMMA InitShape == ASSUME Init PROVE Shape
<1>1. TypeOK
  BY TriageAssumption, ReplyTypes DEF Init, TypeOK
<1>2. DownIsIdle /\ ReplyAtEnd /\ NeverMalformed
  BY DEF Init, DownIsIdle, ReplyAtEnd, NeverMalformed, NoReply
<1> QED  BY <1>1, <1>2 DEF Shape

LEMMA ShapeStep ==
    ASSUME Shape, [Next]_vars PROVE Shape'
<1>1. ASSUME NEW p \in Procs, Work(p) PROVE Shape'
  <2>1. CASE WarmupRaised(p)
    <3>1. Inst(p) \in Instances
      BY DEF Procs, Inst
    <3> QED  BY <2>1, <3>1, EndShape DEF WarmupRaised
  <2> QED  BY <1>1, <2>1, HitShape, MissShape, PredictShape, SetShape, ReplyShape,
           WarmedUpShape DEF Work
<1>2. ASSUME NEW p \in Procs, NEW x \in Texts, Ask(p, x) PROVE Shape'
  BY <1>2, AskShape
<1>3. CASE UNCHANGED vars
  <2>1. UNCHANGED <<lifeVars, procVars>> /\ UNCHANGED redisVars /\ UNCHANGED history
    BY <1>3 DEF vars
  <2>2. RedisTypes /\ HistoryTypes
    BY TypeParts DEF Shape
  <2>3. RedisTypes' /\ HistoryTypes'
    BY <2>1, <2>2 DEF RedisTypes, redisVars, history, HistoryTypes
  <2> QED  BY <2>1, <2>3, QuietShape, TypeParts DEF Shape
<1> QED  BY <1>1, <1>2, <1>3, LifespanShape, RedisShape DEF Next

LEMMA SpecShape == Spec => []Shape
BY InitShape, ShapeStep, PTL DEF Spec

\* The state of every instance, thread and Redis keeps its type, whatever
\* builds, texts, TTL and number of instances there are.
THEOREM TypeCorrect == Spec => []TypeOK
<1>1. Shape => TypeOK
  BY DEF Shape
<1> QED  BY <1>1, SpecShape, PTL

\* No answer lacks a field that the build of its own instance requires,
\* whatever builds filled the cache (triage.py:67-76).
THEOREM AnswersAreWellFormed == Spec => []NeverMalformed
<1>1. Shape => NeverMalformed
  BY DEF Shape
<1> QED  BY <1>1, SpecShape, PTL
-----------------------------------------------------------------------------
(* Where the answers come from *)

\* The payload was ruled by some build that makes that key and can decide the
\* text; if the text is the warm-up message, that build has decided it.
Honest(deciders, k, payload) ==
    \E b \in Builds, x \in Texts :
        /\ k = CacheKey(b, x) /\ payload.decision = Decide(b, x)
        /\ x \notin b.fails
        /\ x = WarmupText => b \in deciders

\* Whatever is in Redis, or on its way there, is honest.
StoredHonestly ==
    /\ \A k \in DOMAIN entries : Honest(decided, k, entries[k].payload)
    /\ \A c \in late : Honest(decided, c.key, c.payload)

RuledFor(deciders, b, x, r) ==
    /\ r.kind = "error" => x \in b.fails
    /\ r.kind = "decision" => Honest(deciders, CacheKey(b, x), r.payload)

\* On the way from predict to cache.set, a thread's own build can decide.
SetByOwn(deciders, b, x, where) ==
    where = "set" => x \notin b.fails /\ (x = WarmupText => b \in deciders)

RepliesRuled ==
    \A p \in Procs :
        /\ RuledFor(decided, BuildOf(p), text[p], reply[p])
        /\ SetByOwn(decided, BuildOf(p), text[p], pc[p])

\* An idle thread, and one that warms its instance up, has the warm-up text.
WarmupTexts ==
    \A p \in Procs :
        pc[p] = "idle" \/ phase[Inst(p)] = "warming" => text[p] = WarmupText

ReadyServes == \A i \in Instances : ready[i] => phase[i] \in {"serving", "draining"}

Lives == WarmupTexts /\ ReadyServes /\ ReadyRestsOnADecision

Honesty == Shape /\ StoredHonestly /\ RepliesRuled /\ Lives

\* What has been decided once stays decided.
LEMMA HonestStays ==
    ASSUME NEW D, NEW E, D \subseteq E
    PROVE  /\ \A k, payload : Honest(D, k, payload) => Honest(E, k, payload)
           /\ \A b, x, r : RuledFor(D, b, x, r) => RuledFor(E, b, x, r)
           /\ \A b, x, where : SetByOwn(D, b, x, where) => SetByOwn(E, b, x, where)
<1>1. \A k, payload : Honest(D, k, payload) => Honest(E, k, payload)
  BY DEF Honest
<1> QED  BY <1>1 DEF RuledFor, SetByOwn

LEMMA StoredStays ==
    ASSUME StoredHonestly, decided \subseteq decided', UNCHANGED redisVars
    PROVE  StoredHonestly'
BY HonestStays DEF StoredHonestly, redisVars

LEMMA WorksHonesty ==
    ASSUME Honesty, NEW p \in Procs, NEW where, NEW r, Works(p, where, r),
           decided \subseteq decided',
           RuledFor(decided', BuildOf(p), text[p], r),
           SetByOwn(decided', BuildOf(p), text[p], where)
    PROVE  RepliesRuled' /\ Lives'
<1>1. ProcTypes
  BY TypeParts DEF Honesty, Shape
<1>2. RepliesRuled'
  <2>1. \A q \in Procs : BuildOf(q)' = BuildOf(q) /\ text'[q] = text[q]
    BY DEF Works, BuildOf, lifeVars
  <2>2. reply'[p] = r /\ pc'[p] = where
    BY <1>1 DEF Works, ProcTypes
  <2>3. ASSUME NEW q \in Procs \ {p}
        PROVE  /\ RuledFor(decided', BuildOf(q), text[q], reply'[q])
               /\ SetByOwn(decided', BuildOf(q), text[q], pc'[q])
    <3>1. reply'[q] = reply[q] /\ pc'[q] = pc[q]
      BY <1>1 DEF Works, ProcTypes
    <3>2. /\ RuledFor(decided, BuildOf(q), text[q], reply[q])
          /\ SetByOwn(decided, BuildOf(q), text[q], pc[q])
      BY DEF Honesty, RepliesRuled
    <3> QED  BY <3>1, <3>2, HonestStays
  <2> QED  BY <2>1, <2>2, <2>3 DEF RepliesRuled
<1>3. Lives'
  BY <1>1 DEF Honesty, Lives, WarmupTexts, ReadyServes, ReadyRestsOnADecision, Works,
     ProcTypes, lifeVars
<1> QED  BY <1>2, <1>3

LEMMA EndsHonesty ==
    ASSUME Honesty, NEW S \in SUBSET Procs, EndProcs(S), UNCHANGED <<build, decided>>,
           \A p \in Procs \ S :
              phase'[Inst(p)] = "warming" => phase[Inst(p)] = "warming"
    PROVE  RepliesRuled' /\ WarmupTexts'
<1>1. RepliesRuled'
  BY DEF Honesty, RepliesRuled, RuledFor, SetByOwn, EndProcs, BuildOf, NoReply
<1>2. WarmupTexts'
  BY DEF Honesty, Lives, WarmupTexts, EndProcs
<1> QED  BY <1>1, <1>2

LEMMA SetexHonesty ==
    ASSUME StoredHonestly, NEW k, NEW payload, Honest(decided, k, payload),
           entries' = Setex(entries, k, payload)
    PROVE  \A j \in DOMAIN entries' : Honest(decided, j, entries'[j].payload)
<1> SUFFICES ASSUME NEW j \in DOMAIN entries'
             PROVE  Honest(decided, j, entries'[j].payload)
  OBVIOUS
<1>1. CASE j = k
  <2>1. entries'[j].payload = payload
    BY <1>1 DEF Setex
  <2> QED  BY <1>1, <2>1
<1>2. CASE j # k
  <2>1. j \in DOMAIN entries /\ entries'[j] = entries[j]
    BY <1>2 DEF Setex
  <2> QED  BY <2>1 DEF StoredHonestly
<1> QED  BY <1>1, <1>2

LEMMA HitHonesty ==
    ASSUME Honesty, NEW p \in Procs, Hit(p) PROVE Honesty'
<1> DEFINE r == Decision(entries[Key(p)].payload, TRUE)
<1>1. decided' = decided /\ UNCHANGED redisVars
  BY DEF Hit, history
<1>2. RuledFor(decided', BuildOf(p), text[p], r)
  <2>1. Honest(decided, CacheKey(BuildOf(p), text[p]), entries[Key(p)].payload)
    BY DEF Honesty, StoredHonestly, Hit, Key
  <2>2. r.kind = "decision" /\ r.payload = entries[Key(p)].payload
    BY DEF Decision
  <2> QED  BY <1>1, <2>1, <2>2 DEF RuledFor
<1>3. Works(p, "reply", r)
  BY ReturnWorks DEF Hit
<1>4. SetByOwn(decided', BuildOf(p), text[p], "reply")
  BY DEF SetByOwn
<1> HIDE DEF r
<1>5. RepliesRuled' /\ Lives'
  BY <1>1, <1>2, <1>3, <1>4, WorksHonesty
<1>6. StoredHonestly'
  BY <1>1, StoredStays DEF Honesty
<1> QED  BY <1>5, <1>6, HitShape DEF Honesty

LEMMA MissHonesty ==
    ASSUME Honesty, NEW p \in Procs, Miss(p) PROVE Honesty'
<1>1. ProcTypes /\ reply[p] = NoReply
  BY TypeParts DEF Honesty, Shape, ReplyAtEnd, Miss
<1>2. decided' = decided /\ UNCHANGED redisVars
  BY DEF Miss, history
<1>3. Works(p, "predict", NoReply)
  BY <1>1, GotoWorks DEF Miss, Steps
<1>4. RepliesRuled' /\ Lives'
  BY <1>2, <1>3, WorksHonesty DEF RuledFor, SetByOwn, NoReply
<1>5. StoredHonestly'
  BY <1>2, StoredStays DEF Honesty
<1> QED  BY <1>4, <1>5, MissShape DEF Honesty

LEMMA PredictHonesty ==
    ASSUME Honesty, NEW p \in Procs, Predict(p) PROVE Honesty'
<1>1. ProcTypes /\ reply[p] = NoReply
  BY TypeParts DEF Honesty, Shape, ReplyAtEnd, Predict
<1>2. decided \subseteq decided' /\ UNCHANGED redisVars
  BY DEF Predict
<1>3. ASSUME text[p] \in BuildOf(p).fails PROVE RepliesRuled' /\ Lives'
  <2>1. Works(p, "reply", [kind |-> "error"])
    BY <1>1, <1>3, ReturnWorks DEF Predict
  <2> QED  BY <1>2, <1>3, <2>1, WorksHonesty DEF RuledFor, SetByOwn
<1>4. ASSUME text[p] \notin BuildOf(p).fails PROVE RepliesRuled' /\ Lives'
  <2>1. Works(p, "set", NoReply)
    BY <1>1, <1>4, GotoWorks DEF Predict, Steps
  <2>2. SetByOwn(decided', BuildOf(p), text[p], "set")
    BY <1>4 DEF Predict, SetByOwn
  <2> QED  BY <1>2, <2>1, <2>2, WorksHonesty DEF RuledFor, NoReply
<1>5. StoredHonestly'
  BY <1>2, StoredStays DEF Honesty
<1> QED  BY <1>3, <1>4, <1>5, PredictShape DEF Honesty

LEMMA SetHonesty ==
    ASSUME Honesty, NEW p \in Procs, Set(p) PROVE Honesty'
<1> DEFINE payload == Payload(BuildOf(p), text[p])
           r == Decision(payload, FALSE)
           command == [key |-> Key(p), payload |-> payload]
<1>1. decided' = decided
  BY DEF Set, history
<1>2. Honest(decided, Key(p), payload)
  <2>1. BuildOf(p) \in Builds /\ text[p] \in Texts
    BY KeyTypes DEF Honesty, Shape
  <2>2. /\ text[p] \notin BuildOf(p).fails
        /\ text[p] = WarmupText => BuildOf(p) \in decided
    BY DEF Honesty, RepliesRuled, SetByOwn, Set
  <2>3. payload.decision = Decide(BuildOf(p), text[p])
    BY DEF Payload
  <2> QED  BY <2>1, <2>2, <2>3 DEF Honest, Key
<1>3. r.kind = "decision" /\ r.payload = payload
      /\ command.key = Key(p) /\ command.payload = payload
  BY DEF Decision
<1>4. Works(p, "reply", r)
  BY ReturnWorks DEF Set
<1>5. /\ \/ entries' = Setex(entries, Key(p), payload)
         \/ entries' = entries
      /\ late' = late \cup {command} \/ late' = late
  BY DEF Set
<1> HIDE DEF r, payload, command
<1>6. RepliesRuled' /\ Lives'
  BY <1>1, <1>2, <1>3, <1>4, WorksHonesty DEF RuledFor, SetByOwn, Key
<1>7. StoredHonestly'
  <2>1. \A j \in DOMAIN entries' : Honest(decided, j, entries'[j].payload)
    BY <1>2, <1>5, SetexHonesty DEF Honesty, StoredHonestly
  <2>2. \A c \in late' : Honest(decided, c.key, c.payload)
    BY <1>2, <1>3, <1>5 DEF Honesty, StoredHonestly
  <2> QED  BY <1>1, <2>1, <2>2 DEF StoredHonestly
<1> QED  BY <1>6, <1>7, SetShape DEF Honesty

LEMMA AskHonesty ==
    ASSUME Honesty, NEW p \in Procs, NEW x \in Texts, Ask(p, x) PROVE Honesty'
<1>1. ProcTypes /\ reply[p] = NoReply
  BY TypeParts DEF Honesty, Shape, ReplyAtEnd, Ask
<1>2. decided' = decided /\ UNCHANGED redisVars
  BY DEF Ask, history
<1>3. RepliesRuled'
  BY <1>1, <1>2 DEF Honesty, RepliesRuled, RuledFor, SetByOwn, Ask, BuildOf, ProcTypes,
     lifeVars, NoReply
<1>4. Lives'
  BY <1>1, <1>2 DEF Honesty, Lives, WarmupTexts, ReadyServes, ReadyRestsOnADecision, Ask,
     ProcTypes, lifeVars
<1>5. StoredHonestly'
  BY <1>2, StoredStays DEF Honesty
<1> QED  BY <1>3, <1>4, <1>5, AskShape DEF Honesty

LEMMA EndHonesty ==
    ASSUME Honesty, NEW i \in Instances, End(i) PROVE Honesty'
<1>1. LifeTypes
  BY TypeParts DEF Honesty, Shape
<1>2. /\ EndProcs(ProcsOf(i)) /\ UNCHANGED <<build, decided>> /\ UNCHANGED redisVars
      /\ ProcsOf(i) \in SUBSET Procs
  BY DEF End, ProcsOf
<1>3. ASSUME NEW p \in Procs \ ProcsOf(i), phase'[Inst(p)] = "warming"
      PROVE  phase[Inst(p)] = "warming"
  BY <1>1, <1>3 DEF End, LifeTypes, ProcsOf, Procs, Inst
<1>4. RepliesRuled' /\ WarmupTexts'
  BY <1>2, <1>3, EndsHonesty
<1>5. ReadyServes' /\ ReadyRestsOnADecision'
  BY <1>1 DEF End, Honesty, Lives, ReadyServes, ReadyRestsOnADecision, LifeTypes
<1>6. StoredHonestly'
  BY <1>2, StoredStays DEF Honesty
<1> QED  BY <1>4, <1>5, <1>6, EndShape DEF Honesty, Lives

LEMMA ReplyHonesty ==
    ASSUME Honesty, NEW p \in Procs, Reply(p) PROVE Honesty'
<1>1. RepliesRuled' /\ WarmupTexts'
  BY EndsHonesty DEF Reply, lifeVars, history
<1>2. ReadyServes' /\ ReadyRestsOnADecision'
  BY DEF Reply, Honesty, Lives, ReadyServes, ReadyRestsOnADecision, lifeVars, history
<1>3. StoredHonestly'
  BY StoredStays DEF Reply, Honesty, history
<1> QED  BY <1>1, <1>2, <1>3, ReplyShape DEF Honesty, Lives

\* The decision a warm-up returned was made by a build with the same key.
LEMMA WarmedUpHonesty ==
    ASSUME Honesty, NEW p \in Procs, WarmedUp(p) PROVE Honesty'
<1>1. LifeTypes /\ Inst(p) \in Instances
  BY TypeParts DEF Honesty, Shape, Procs, Inst
<1>2. \A q \in Procs \ {p} :
         phase'[Inst(q)] = "warming" => phase[Inst(q)] = "warming"
  BY <1>1 DEF WarmedUp, LifeTypes, Procs, Inst
<1>3. UNCHANGED <<build, decided>> /\ UNCHANGED redisVars
  BY DEF WarmedUp, history
<1>4. RepliesRuled' /\ WarmupTexts'
  BY <1>2, <1>3, EndsHonesty DEF WarmedUp
<1>5. \E b \in decided :
         CacheKey(b, WarmupText) = CacheKey(build[Inst(p)], WarmupText)
  <2>1. text[p] = WarmupText /\ Honest(decided, CacheKey(BuildOf(p), text[p]), reply[p].payload)
    BY DEF WarmedUp, Honesty, Lives, WarmupTexts, RepliesRuled, RuledFor
  <2>2. PICK b \in Builds, x \in Texts :
          /\ CacheKey(BuildOf(p), WarmupText) = CacheKey(b, x)
          /\ x = WarmupText => b \in decided
    BY <2>1 DEF Honest
  <2>3. x = WarmupText
    BY <2>2 DEF CacheKey
  <2> QED  BY <2>2, <2>3 DEF BuildOf
<1>6. ReadyServes' /\ ReadyRestsOnADecision'
  BY <1>1, <1>3, <1>5 DEF WarmedUp, Honesty, Lives, ReadyServes, ReadyRestsOnADecision,
     LifeTypes
<1>7. StoredHonestly'
  BY <1>3, StoredStays DEF Honesty
<1> QED  BY <1>4, <1>6, <1>7, WarmedUpShape DEF Honesty, Lives

LEMMA StartHonesty ==
    ASSUME Honesty, NEW i \in Instances, NEW b \in Builds, Start(i, b)
    PROVE  Honesty'
<1>1. ProcTypes /\ LifeTypes
  BY TypeParts DEF Honesty, Shape
<1>2. PICK p \in ProcsOf(i) : pc' = [pc EXCEPT ![p] = "get"]
  BY DEF Start
<1>3. \A q \in ProcsOf(i) :
         pc[q] = "idle" /\ reply[q] = NoReply /\ text[q] = WarmupText
  BY DEF Start, Honesty, Shape, DownIsIdle, ReplyAtEnd, Lives, WarmupTexts, ProcsOf
<1>4. \A q \in Procs \ ProcsOf(i) :
         /\ build'[Inst(q)] = build[Inst(q)] /\ phase'[Inst(q)] = phase[Inst(q)]
         /\ pc'[q] = pc[q]
  BY <1>1, <1>2 DEF Start, ProcsOf, Procs, Inst, LifeTypes, ProcTypes
<1>5. \A q \in ProcsOf(i) : pc'[q] # "set"
  BY <1>1, <1>2, <1>3 DEF ProcsOf, ProcTypes
<1>6. RepliesRuled'
  <2>1. /\ decided' = decided /\ text' = text /\ reply' = reply
        /\ ProcsOf(i) \subseteq Procs
    BY DEF Start, ProcsOf
  <2>2. ASSUME NEW q \in ProcsOf(i)
        PROVE  /\ RuledFor(decided', BuildOf(q)', text'[q], reply'[q])
               /\ SetByOwn(decided', BuildOf(q)', text'[q], pc'[q])
    BY <1>3, <1>5, <2>1 DEF RuledFor, SetByOwn, NoReply
  <2>3. ASSUME NEW q \in Procs \ ProcsOf(i)
        PROVE  /\ RuledFor(decided', BuildOf(q)', text'[q], reply'[q])
               /\ SetByOwn(decided', BuildOf(q)', text'[q], pc'[q])
    <3>1. BuildOf(q)' = BuildOf(q)
      BY <1>4 DEF BuildOf
    <3> QED  BY <1>4, <2>1, <3>1 DEF Honesty, RepliesRuled
  <2> QED  BY <2>2, <2>3 DEF RepliesRuled
<1>7. WarmupTexts'
  BY <1>3, <1>4 DEF Start, Honesty, Lives, WarmupTexts
<1>8. ReadyServes' /\ ReadyRestsOnADecision'
  BY <1>1 DEF Start, Honesty, Lives, ReadyServes, ReadyRestsOnADecision, LifeTypes
<1>9. StoredHonestly'
  BY StoredStays DEF Honesty, Start
<1> QED  BY <1>6, <1>7, <1>8, <1>9, StartShape DEF Honesty, Lives

LEMMA StopHonesty ==
    ASSUME Honesty, NEW i \in Instances, Stop(i) PROVE Honesty'
<1>1. LifeTypes
  BY TypeParts DEF Honesty, Shape
<1>2. RepliesRuled'
  BY DEF Stop, Honesty, RepliesRuled, BuildOf, procVars, history
<1>3. Lives'
  BY <1>1 DEF Stop, Honesty, Lives, WarmupTexts, ReadyServes, ReadyRestsOnADecision,
     procVars, history, LifeTypes, Procs, Inst
<1>4. StoredHonestly'
  BY StoredStays DEF Stop, Honesty, history
<1> QED  BY <1>2, <1>3, <1>4, StopShape DEF Honesty

LEMMA RedisHonesty ==
    ASSUME Honesty, Redis PROVE Honesty'
<1>1. UNCHANGED <<lifeVars, procVars, history>>
  BY DEF Redis, Apply, Lose, EvictKey, Tick, Hang, Recover, RestartRedis
<1>2. RepliesRuled' /\ Lives'
  BY <1>1 DEF Honesty, RepliesRuled, BuildOf, Lives, WarmupTexts, ReadyServes,
     ReadyRestsOnADecision, lifeVars, procVars, history
<1>3. decided' = decided
  BY <1>1 DEF history
<1>4. StoredHonestly'
  <2>1. ASSUME NEW c \in late, Apply(c) PROVE StoredHonestly'
    <3>1. Honest(decided, c.key, c.payload)
      BY DEF Honesty, StoredHonestly
    <3>2. \A j \in DOMAIN entries' : Honest(decided, j, entries'[j].payload)
      BY <2>1, <3>1, SetexHonesty DEF Apply, Honesty
    <3>3. \A d \in late' : Honest(decided, d.key, d.payload)
      BY <2>1 DEF Apply, Honesty, StoredHonestly
    <3> QED  BY <1>3, <3>2, <3>3 DEF StoredHonestly
  <2>2. ASSUME NEW c \in late, Lose(c) PROVE StoredHonestly'
    BY <1>3, <2>2 DEF Honesty, StoredHonestly, Lose
  <2>3. ASSUME \A k \in DOMAIN entries' :
                  k \in DOMAIN entries /\ entries'[k].payload = entries[k].payload,
               late' \subseteq late
        PROVE  StoredHonestly'
    BY <1>3, <2>3 DEF Honesty, StoredHonestly
  <2>4. ASSUME NEW k \in DOMAIN entries, EvictKey(k) PROVE StoredHonestly'
    BY <2>3, <2>4 DEF EvictKey, Keep
  <2>5. ASSUME Tick PROVE StoredHonestly'
    BY <2>3, <2>5 DEF Tick
  <2>6. ASSUME Hang \/ Recover PROVE StoredHonestly'
    BY <2>3, <2>6 DEF Hang, Recover
  <2>7. ASSUME RestartRedis PROVE StoredHonestly'
    BY <2>3, <2>7 DEF RestartRedis, Keep
  <2> QED  BY <2>1, <2>2, <2>4, <2>5, <2>6, <2>7 DEF Redis
<1> QED  BY <1>2, <1>4, RedisShape DEF Honesty

LEMMA SpecHonesty == Spec => []Honesty
<1>1. Init => Honesty
  <2> SUFFICES ASSUME Init PROVE Honesty
    OBVIOUS
  <2>1. Shape
    BY InitShape
  <2>2. StoredHonestly /\ RepliesRuled /\ Lives
    BY DEF Init, StoredHonestly, RepliesRuled, RuledFor, SetByOwn, NoReply, Lives,
       WarmupTexts, ReadyServes, ReadyRestsOnADecision, Procs, Inst
  <2> QED  BY <2>1, <2>2 DEF Honesty
<1>2. Honesty /\ [Next]_vars => Honesty'
  <2> SUFFICES ASSUME Honesty, [Next]_vars PROVE Honesty'
    OBVIOUS
  <2>1. ASSUME NEW p \in Procs, Work(p) PROVE Honesty'
    <3>1. CASE WarmupRaised(p)
      <4>1. Inst(p) \in Instances
        BY DEF Procs, Inst
      <4> QED  BY <3>1, <4>1, EndHonesty DEF WarmupRaised
    <3> QED  BY <2>1, <3>1, HitHonesty, MissHonesty, PredictHonesty, SetHonesty,
             ReplyHonesty, WarmedUpHonesty DEF Work
  <2>2. ASSUME NEW p \in Procs, NEW x \in Texts, Ask(p, x) PROVE Honesty'
    BY <2>2, AskHonesty
  <2>3. CASE Lifespan
    BY <2>3, StartHonesty, StopHonesty, EndHonesty DEF Lifespan, ShutDown, Crash
  <2>4. CASE UNCHANGED vars
    <3>1. Shape'
      BY <2>4, ShapeStep DEF Honesty
    <3>2. RepliesRuled' /\ Lives'
      BY <2>4 DEF vars, lifeVars, procVars, history, Honesty,
         RepliesRuled, BuildOf, Lives, WarmupTexts, ReadyServes, ReadyRestsOnADecision
    <3>3. StoredHonestly'
      BY <2>4, StoredStays DEF vars, history, Honesty
    <3> QED  BY <3>1, <3>2, <3>3 DEF Honesty
  <2> QED  BY <2>1, <2>2, <2>3, <2>4, RedisHonesty DEF Next
<1> QED  BY <1>1, <1>2, PTL DEF Spec

\* An instance is ready only if a model of its version and floors has decided
\* the warm-up message, whatever builds are deployed, healthy or broken, and
\* whatever they left in the cache (warm_up, main.py:192-202).
THEOREM ReadyIsGrounded == Spec => []ReadyRestsOnADecision
<1>1. Honesty => ReadyRestsOnADecision
  BY DEF Honesty, Lives
<1> QED  BY <1>1, SpecHonesty, PTL
-----------------------------------------------------------------------------
(* The cache is transparent *)

LEMMA RequestTypes ==
    ASSUME NEW b \in Builds, NEW x \in Texts PROVE Request(b, x) \in Requests
BY DEF Requests

LEMMA RulingIs ==
    ASSUME Honesty, NEW p \in Procs
    PROVE  /\ Request(BuildOf(p), text[p]) \in Requests
           /\ Ruling[Request(BuildOf(p), text[p])] = Rulings(BuildOf(p), text[p])
<1>1. BuildOf(p) \in Builds /\ text[p] \in Texts
  BY KeyTypes DEF Honesty, Shape
<1> QED  BY <1>1 DEF Request, Requests, Ruling

\* An honest decision is what the thread's own build rules, if builds that
\* make the same keys rule alike.
LEMMA HonestRules ==
    ASSUME HonestVersions, Honesty, NEW p \in Procs, NEW payload,
           Honest(decided, CacheKey(BuildOf(p), text[p]), payload)
    PROVE  Ruled(payload.decision) \in Rulings(BuildOf(p), text[p])
<1>1. BuildOf(p) \in Builds
  BY KeyTypes DEF Honesty, Shape
<1>2. PICK b \in Builds, x \in Texts :
        /\ CacheKey(BuildOf(p), text[p]) = CacheKey(b, x)
        /\ payload.decision = Decide(b, x)
        /\ x \notin b.fails
  BY DEF Honest
<1>3. x = text[p] /\ b.version = BuildOf(p).version /\ b.floors = BuildOf(p).floors
  BY <1>2 DEF CacheKey
<1>4. b \in Siblings(BuildOf(p)) /\ b.logic = BuildOf(p).logic
  BY <1>1, <1>3 DEF HonestVersions, Siblings
<1>5. payload.decision = Decide(BuildOf(p), text[p])
  BY <1>2, <1>3, <1>4 DEF Decide
<1> QED  BY <1>2, <1>3, <1>4, <1>5 DEF Rulings

\* A step that takes a thread to its reply answers its request.
LEMMA WorksAnswers ==
    ASSUME HonestVersions, Honesty, NEW p \in Procs, NEW r, Works(p, "reply", r),
           \/ r = [kind |-> "error"] /\ text[p] \in BuildOf(p).fails
           \/ /\ r.kind = "decision"
              /\ Honest(decided, CacheKey(BuildOf(p), text[p]), r.payload)
    PROVE  Pure!Answer(p)
<1>1. ProcTypes /\ reply[p] = NoReply
  BY TypeParts DEF Honesty, Shape, ReplyAtEnd, Works
<1>2. RequestOf(p) = Request(BuildOf(p), text[p]) /\ AnswerOf(p) = NoReply
  BY <1>1 DEF Works, RequestOf, AnswerOf, NoReply
<1>3. \A q \in Procs : RequestOf(q)' = RequestOf(q)
  BY <1>1 DEF Works, RequestOf, Request, BuildOf, ProcTypes, lifeVars
<1>4. AnswerOf(p)' \in Ruling[Request(BuildOf(p), text[p])]
  <2>1. reply'[p] = r
    BY <1>1 DEF Works, ProcTypes
  <2>2. CASE r = [kind |-> "error"] /\ text[p] \in BuildOf(p).fails
    <3>1. AnswerOf(p)' = [kind |-> "error"]
      BY <2>1, <2>2 DEF AnswerOf
    <3> QED  BY <2>2, <3>1, RulingIs DEF Rulings
  <2>3. CASE r.kind = "decision"
             /\ Honest(decided, CacheKey(BuildOf(p), text[p]), r.payload)
    <3>1. AnswerOf(p)' = Ruled(r.payload.decision)
      BY <2>1, <2>3 DEF AnswerOf
    <3> QED  BY <2>3, <3>1, RulingIs, HonestRules
  <2> QED  BY <2>2, <2>3
<1>5. \A q \in Procs \ {p} : AnswerOf(q)' = AnswerOf(q)
  BY <1>1 DEF Works, AnswerOf, ProcTypes
<1>6. Request(BuildOf(p), text[p]) # [kind |-> "idle"]
  BY DEF Request
<1> DEFINE requests == [q \in Procs |-> RequestOf(q)]
           answers == [q \in Procs |-> AnswerOf(q)]
           a == AnswerOf(p)'
<1>7. requests' = requests
  BY <1>3
<1>8. answers' = [answers EXCEPT ![p] = a]
  BY <1>5
<1>9. requests[p] # [kind |-> "idle"] /\ answers[p] = NoReply /\ a \in Ruling[requests[p]]
  BY <1>2, <1>4, <1>6
<1> HIDE DEF a
<1> QED  BY <1>7, <1>8, <1>9 DEF Pure!Answer

\* A step between two places of triage is not seen.
LEMMA WorksUnseen ==
    ASSUME Honesty, NEW p \in Procs, NEW where, Works(p, where, NoReply)
    PROVE  UNCHANGED Pure!vars
<1>1. ProcTypes /\ reply[p] = NoReply
  BY TypeParts DEF Honesty, Shape, ReplyAtEnd, Works
<1>2. \A q \in Procs : RequestOf(q)' = RequestOf(q) /\ AnswerOf(q)' = AnswerOf(q)
  BY <1>1 DEF Works, RequestOf, Request, AnswerOf, BuildOf, ProcTypes, lifeVars
<1> QED  BY <1>2 DEF Pure!vars

LEMMA EndsClears ==
    ASSUME NEW S \in SUBSET Procs, EndProcs(S), build' = build
    PROVE  Pure!Clear(S)
<1>1. \A q \in Procs :
         /\ RequestOf(q)' = IF q \in S THEN [kind |-> "idle"] ELSE RequestOf(q)
         /\ AnswerOf(q)' = IF q \in S THEN NoReply ELSE AnswerOf(q)
  BY DEF EndProcs, RequestOf, Request, AnswerOf, BuildOf, NoReply
<1> QED  BY <1>1 DEF Pure!Clear

LEMMA AskAsks ==
    ASSUME Honesty, NEW p \in Procs, NEW x \in Texts, Ask(p, x)
    PROVE  \E r \in Requests : Pure!Ask(p, r)
<1> DEFINE r == Request(BuildOf(p), x)
           requests == [q \in Procs |-> RequestOf(q)]
<1>1. ProcTypes /\ r \in Requests
  <2>1. BuildOf(p) \in Builds
    BY KeyTypes DEF Honesty, Shape
  <2> QED  BY <2>1, RequestTypes, TypeParts DEF Honesty, Shape
<1>2. /\ RequestOf(p) = [kind |-> "idle"] /\ RequestOf(p)' = r
      /\ \A q \in Procs \ {p} : RequestOf(q)' = RequestOf(q)
      /\ \A q \in Procs : AnswerOf(q)' = AnswerOf(q)
  BY <1>1 DEF Ask, RequestOf, Request, AnswerOf, BuildOf, ProcTypes, lifeVars
<1> HIDE DEF r
<1>3. requests[p] = [kind |-> "idle"] /\ requests' = [requests EXCEPT ![p] = r]
  BY <1>2
<1> QED  BY <1>1, <1>2, <1>3 DEF Pure!Ask

LEMMA StartAsks ==
    ASSUME Honesty, NEW i \in Instances, NEW b \in Builds, Start(i, b)
    PROVE  \E p \in Procs, r \in Requests : Pure!Ask(p, r)
<1>1. ProcTypes /\ LifeTypes
  BY TypeParts DEF Honesty, Shape
<1>2. PICK p \in ProcsOf(i) : pc' = [pc EXCEPT ![p] = "get"]
  BY DEF Start
<1> DEFINE r == Request(b, text[p])
           requests == [q \in Procs |-> RequestOf(q)]
<1>3. p \in Procs /\ r \in Requests
  <2>1. p \in Procs /\ text[p] \in Texts
    BY <1>1 DEF ProcsOf, ProcTypes
  <2> QED  BY <2>1, RequestTypes
<1>4. \A q \in ProcsOf(i) : pc[q] = "idle"
  BY DEF Start, Honesty, Shape, DownIsIdle, ProcsOf
<1>5. \A q \in Procs \ ProcsOf(i) : build'[Inst(q)] = build[Inst(q)] /\ pc'[q] = pc[q]
  BY <1>1, <1>2 DEF Start, ProcsOf, Procs, Inst, LifeTypes, ProcTypes
<1>6. RequestOf(p) = [kind |-> "idle"] /\ RequestOf(p)' = r
  BY <1>1, <1>2, <1>3, <1>4 DEF Start, RequestOf, Request, BuildOf, ProcsOf, ProcTypes,
     LifeTypes, Procs, Inst
<1>7. \A q \in Procs \ {p} : RequestOf(q)' = RequestOf(q)
  BY <1>1, <1>2, <1>4, <1>5 DEF Start, RequestOf, Request, BuildOf, ProcTypes
<1>8. \A q \in Procs : AnswerOf(q)' = AnswerOf(q)
  BY DEF Start, AnswerOf
<1> HIDE DEF r
<1>9. requests[p] = [kind |-> "idle"] /\ requests' = [requests EXCEPT ![p] = r]
  BY <1>3, <1>6, <1>7
<1> QED  BY <1>3, <1>8, <1>9 DEF Pure!Ask

LEMMA WorkIsPure ==
    ASSUME HonestVersions, Honesty, NEW p \in Procs, Work(p)
    PROVE  [Pure!Next]_(Pure!vars)
<1>1. reply[p] = NoReply \/ pc[p] = "reply"
  BY DEF Honesty, Shape, ReplyAtEnd
<1>2. CASE Hit(p)
  <2>1. Works(p, "reply", Decision(entries[Key(p)].payload, TRUE))
    BY <1>2, ReturnWorks DEF Hit
  <2>2. Honest(decided, CacheKey(BuildOf(p), text[p]), entries[Key(p)].payload)
    BY <1>2 DEF Honesty, StoredHonestly, Hit, Key
  <2> QED  BY <2>1, <2>2, WorksAnswers DEF Decision, Pure!Next
<1>3. CASE Miss(p)
  <2>1. Works(p, "predict", NoReply)
    BY <1>1, <1>3, GotoWorks, TypeParts DEF Miss, Steps, Honesty, Shape
  <2> QED  BY <2>1, WorksUnseen
<1>4. CASE Predict(p)
  <2>1. \/ Works(p, "reply", [kind |-> "error"]) /\ text[p] \in BuildOf(p).fails
        \/ Works(p, "set", NoReply)
    BY <1>1, <1>4, GotoWorks, ReturnWorks, TypeParts DEF Predict, Steps, Honesty, Shape
  <2> QED  BY <2>1, WorksUnseen, WorksAnswers DEF Pure!Next
<1>5. CASE Set(p)
  <2>1. Works(p, "reply", Decision(Payload(BuildOf(p), text[p]), FALSE))
    BY <1>5, ReturnWorks DEF Set
  <2>2. Honest(decided, CacheKey(BuildOf(p), text[p]), Payload(BuildOf(p), text[p]))
    <3>1. /\ BuildOf(p) \in Builds /\ text[p] \in Texts
          /\ text[p] \notin BuildOf(p).fails
          /\ text[p] = WarmupText => BuildOf(p) \in decided
      BY <1>5, KeyTypes DEF Honesty, Shape, RepliesRuled, SetByOwn, Set
    <3> QED  BY <3>1 DEF Honest, Payload
  <2> QED  BY <2>1, <2>2, WorksAnswers DEF Decision, Pure!Next
<1>6. CASE Reply(p) \/ WarmedUp(p)
  <2>1. Pure!Clear({p})
    BY <1>6, EndsClears DEF Reply, WarmedUp, lifeVars
  <2> QED  BY <2>1 DEF Pure!Next
<1>7. CASE WarmupRaised(p)
  <2>1. Pure!Clear(ProcsOf(Inst(p))) /\ ProcsOf(Inst(p)) \in SUBSET Procs
    BY <1>7, EndsClears DEF WarmupRaised, End, ProcsOf
  <2> QED  BY <2>1 DEF Pure!Next
<1> QED  BY <1>2, <1>3, <1>4, <1>5, <1>6, <1>7 DEF Work

LEMMA LifespanIsPure ==
    ASSUME Honesty, Lifespan PROVE [Pure!Next]_(Pure!vars)
<1>1. ASSUME NEW i \in Instances, NEW b \in Builds, Start(i, b)
      PROVE  [Pure!Next]_(Pure!vars)
  BY <1>1, StartAsks DEF Pure!Next
<1>2. ASSUME NEW i \in Instances, Stop(i) PROVE UNCHANGED Pure!vars
  BY <1>2 DEF Stop, procVars, Pure!vars, RequestOf, AnswerOf, BuildOf
<1>3. ASSUME NEW i \in Instances, End(i) PROVE [Pure!Next]_(Pure!vars)
  <2>1. Pure!Clear(ProcsOf(i)) /\ ProcsOf(i) \in SUBSET Procs
    BY <1>3, EndsClears DEF End, ProcsOf
  <2> QED  BY <2>1 DEF Pure!Next
<1> QED  BY <1>1, <1>2, <1>3 DEF Lifespan, ShutDown, Crash

\* The cache cannot be told from no cache: with any number of instances,
\* threads, texts and builds, if builds that make the same keys rule alike
\* then every answer is what the instance's own model and policy say, or spares
\* a model that raises (triage.py:44-94).
THEOREM TriageIsPure == HonestVersions => (Spec => CacheIsTransparent)
<1> SUFFICES ASSUME HonestVersions PROVE Spec => CacheIsTransparent
  OBVIOUS
<1>1. Init => Pure!Init
  BY DEF Init, Pure!Init, RequestOf, AnswerOf, NoReply
<1>2. Honesty /\ [Next]_vars => [Pure!Next]_(Pure!vars)
  <2> SUFFICES ASSUME Honesty, [Next]_vars PROVE [Pure!Next]_(Pure!vars)
    OBVIOUS
  <2>1. ASSUME NEW p \in Procs, NEW x \in Texts, Ask(p, x)
        PROVE  [Pure!Next]_(Pure!vars)
    BY <2>1, AskAsks DEF Pure!Next
  <2>2. ASSUME UNCHANGED <<lifeVars, procVars>> PROVE UNCHANGED Pure!vars
    BY <2>2 DEF lifeVars, procVars, Pure!vars, RequestOf, AnswerOf, BuildOf
  <2>3. CASE Redis
    <3>1. UNCHANGED <<lifeVars, procVars>>
      BY <2>3 DEF Redis, Apply, Lose, EvictKey, Tick, Hang, Recover, RestartRedis
    <3> QED  BY <2>2, <3>1
  <2>4. CASE UNCHANGED vars
    BY <2>2, <2>4 DEF vars
  <2> QED  BY <2>1, <2>3, <2>4, WorkIsPure, LifespanIsPure DEF Next
<1> QED  BY <1>1, <1>2, SpecHonesty, PTL DEF Spec, Pure!Spec, CacheIsTransparent
=============================================================================
