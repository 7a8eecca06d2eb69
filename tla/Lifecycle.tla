------------------------------ MODULE Lifecycle ------------------------------
(***************************************************************************)
(* One container of the service from start to stop: the settings it        *)
(* refuses (config.py), the artifact it loads, does without or dies of     *)
(* (adapters/sklearn_model.py, api/main.py), the warm-up, the readiness    *)
(* probe in a worker thread, and the shutdown that uvicorn runs once the   *)
(* requests in flight have ended or 15 seconds have passed.                *)
(*                                                                         *)
(* An artifact is what joblib finds at model_path: the classes of the      *)
(* pipeline and the labels stored beside it; Absent; or Corrupt, on which  *)
(* joblib or a lookup raises something other than FileNotFoundError.       *)
(* uvicorn and docker are modelled from how the Dockerfile and             *)
(* docker-compose.yml use them.                                            *)
(***************************************************************************)
EXTENDS Integers, FiniteSets

CONSTANTS Domain,             \* the Intent literals
          Artifacts,          \* what may lie at model_path
          Configs,            \* what the environment may say
          MaxInFlight,        \* bound on the predictions in flight
          MaxKills            \* bound on the kills

ASSUME LifecycleAssumption == MaxInFlight \in Nat

VARIABLES
    artifact,                 \* what is at model_path
    config,                   \* the environment of the container
    wanted,                   \* docker restarts it unless it was stopped
    phase,                    \* where the process is
    failure,                  \* what made the last start fail, or "none"
    service,                  \* the artifact the service runs on, or None
    ready, cacheUp,           \* AppState.ready; cache.healthy()
    inFlight,                 \* predictions in flight
    probe,                    \* a request to /v1/ready: its place and reads
    delivered,                \* history: the statuses this process delivered
    kills

outside == <<artifact, config, cacheUp>>
state == <<service, ready>>
load == <<inFlight, probe, delivered>>
vars == <<outside, wanted, phase, failure, state, load, kills>>

Absent == [is |-> "absent"]
Corrupt == [is |-> "corrupt"]
None == [is |-> "none"]
NoProbe == [at |-> "none", status |-> 0, body |-> FALSE]
-----------------------------------------------------------------------------
(* Settings *)

\* api_key_list drops what is blank between two commas.
ApiKeyList(c) == c.keys \ {"blank"}

\* The validators of Settings; the floors are in hundredths.
Accepts(c) ==
    /\ c.autoRouteFloor \in 0..100 /\ c.rejectFloor \in 0..100
    /\ c.rejectFloor <= c.autoRouteFloor
    /\ c.requireKey => ApiKeyList(c) # {}

\* PolicyThresholds validates them again.
PolicyAccepts(c) == c.rejectFloor <= c.autoRouteFloor

\* SklearnIntentModel.load compares the artifact with itself.
Loads(a) == a # Corrupt /\ a.classes = a.labels
-----------------------------------------------------------------------------
(* The process *)

Init ==
    /\ artifact \in Artifacts
    /\ config \in Configs
    /\ cacheUp = TRUE
    /\ wanted = TRUE
    /\ phase = "down"
    /\ failure = "none"
    /\ service = None
    /\ ready = FALSE
    /\ inFlight = 0
    /\ probe = NoProbe
    /\ delivered = {}
    /\ kills = 0

\* The process ends, and its memory with it.
Exit(why) ==
    /\ phase' = "down"
    /\ failure' = why
    /\ service' = None
    /\ ready' = FALSE
    /\ inFlight' = 0
    /\ probe' = NoProbe
    /\ delivered' = {}

\* create_app.
Launch ==
    /\ phase = "down"
    /\ wanted
    /\ IF Accepts(config)
       THEN phase' = "load" /\ UNCHANGED <<failure, state, load>>
       ELSE Exit("settings")
    /\ UNCHANGED <<outside, wanted, kills>>

\* Mutant: nobody catches FileNotFoundError.
LoadOrExit ==
    /\ phase = "load"
    /\ IF ~PolicyAccepts(config) THEN Exit("policy")
       ELSE IF artifact = Absent \/ ~Loads(artifact) THEN Exit("artifact")
       ELSE service' = artifact /\ phase' = "warm"
            /\ UNCHANGED <<failure, ready, load>>
    /\ UNCHANGED <<outside, wanted, kills>>

\* load_app_state.
Load ==
    /\ phase = "load"
    /\ IF ~PolicyAccepts(config) THEN Exit("policy")
       ELSE IF artifact # Absent /\ ~Loads(artifact) THEN Exit("artifact")
       ELSE /\ service' = IF artifact = Absent THEN None ELSE artifact
            /\ phase' = "warm"
            /\ UNCHANGED <<failure, ready, load>>
    /\ UNCHANGED <<outside, wanted, kills>>

\* warm_up, after which uvicorn listens.  What the model says is one of its
\* classes; decide raises unless it is an intent.  A cache that is up may
\* answer for the model.
WarmUp ==
    /\ phase = "warm"
    /\ ready' = (service # None)
    /\ phase' = "serve"
    /\ service # None => cacheUp \/ service.classes \cap Domain # {}
    /\ UNCHANGED <<outside, wanted, failure, service, load, kills>>

WarmUpRaises ==
    /\ phase = "warm"
    /\ service # None
    /\ service.classes \ Domain # {}
    /\ Exit("warm_up")
    /\ UNCHANGED <<outside, wanted, kills>>

Serving == phase = "serve"

\* A prediction arrives; it ends, with a decision or an error.
Accept ==
    /\ Serving
    /\ inFlight < MaxInFlight
    /\ inFlight' = inFlight + 1
    /\ UNCHANGED <<outside, wanted, phase, failure, state, probe, delivered, kills>>

\* Mutant: a request is finished twice.
FinishTwice ==
    /\ inFlight > 0
    /\ inFlight' = inFlight - 2
    /\ UNCHANGED <<outside, wanted, phase, failure, state, probe, delivered, kills>>

Finish ==
    /\ inFlight > 0
    /\ inFlight' = inFlight - 1
    /\ UNCHANGED <<outside, wanted, phase, failure, state, probe, delivered, kills>>

\* The endpoint of /v1/ready reads state.ready twice, in a worker thread.
ProbeArrives ==
    /\ Serving
    /\ probe = NoProbe
    /\ probe' = [probe EXCEPT !.at = "status"]
    /\ UNCHANGED <<outside, wanted, phase, failure, state, inFlight, delivered,
                   kills>>

\* Mutant: a cache that is down fails the probe.
ProbeReadsCache ==
    /\ probe.at = "status"
    /\ probe' = [probe EXCEPT !.at = "body",
                              !.status = IF ready /\ cacheUp THEN 200 ELSE 503]
    /\ UNCHANGED <<outside, wanted, phase, failure, state, inFlight, delivered,
                   kills>>

ProbeReadsStatus ==
    /\ probe.at = "status"
    /\ probe' = [probe EXCEPT !.at = "body",
                              !.status = IF ready THEN 200 ELSE 503]
    /\ UNCHANGED <<outside, wanted, phase, failure, state, inFlight, delivered,
                   kills>>

ProbeReadsBody ==
    /\ probe.at = "body"
    /\ probe' = [probe EXCEPT !.at = "answered", !.body = ready]
    /\ delivered' = delivered \cup {probe.status}
    /\ UNCHANGED <<outside, wanted, phase, failure, state, inFlight, kills>>

ProbeAnswered ==
    /\ probe.at = "answered"
    /\ probe' = NoProbe
    /\ UNCHANGED <<outside, wanted, phase, failure, state, inFlight, delivered,
                   kills>>

\* Mutant: the instance stops being ready when it is told to stop.
SigTermUnready ==
    /\ Serving
    /\ wanted' = FALSE
    /\ phase' = "drain"
    /\ ready' = FALSE
    /\ UNCHANGED <<outside, failure, service, load, kills>>

\* docker stop: uvicorn stops listening and waits for what is in flight.
SigTerm ==
    /\ Serving
    /\ wanted' = FALSE
    /\ phase' = "drain"
    /\ UNCHANGED <<outside, failure, state, load, kills>>

Drained == inFlight = 0 /\ probe = NoProbe

\* After 15 seconds uvicorn cancels the tasks: nobody gets their answers.
DrainTimesOut ==
    /\ phase = "drain"
    /\ ~Drained
    /\ inFlight' = 0
    /\ probe' = NoProbe
    /\ UNCHANGED <<outside, wanted, phase, failure, state, delivered, kills>>

\* shut_down: ready becomes false, the cache is closed, the process ends.
ShutDown ==
    /\ phase = "drain"
    /\ Drained
    /\ Exit("none")
    /\ UNCHANGED <<outside, wanted, kills>>

\* A crash, or SIGKILL.
Kill ==
    /\ phase # "down"
    /\ kills < MaxKills
    /\ kills' = kills + 1
    /\ Exit("killed")
    /\ UNCHANGED <<outside, wanted>>

\* docker start, or up with another environment.
Want ==
    /\ phase = "down"
    /\ wanted' = TRUE
    /\ config' \in Configs
    /\ UNCHANGED <<artifact, cacheUp, phase, failure, state, load, kills>>

\* The volume and the cache go their own ways.
Outside ==
    /\ \/ artifact' \in Artifacts /\ UNCHANGED cacheUp
       \/ cacheUp' = ~cacheUp /\ UNCHANGED artifact
    /\ UNCHANGED <<config, wanted, phase, failure, state, load, kills>>

Starting == Launch \/ Load \/ WarmUp \/ WarmUpRaises
Working == Finish \/ ProbeReadsStatus \/ ProbeReadsBody \/ ProbeAnswered

Next ==
    \/ Starting \/ Working \/ Accept \/ ProbeArrives
    \/ SigTerm \/ DrainTimesOut \/ ShutDown \/ Kill \/ Want \/ Outside

Spec == Init /\ [][Next]_vars

\* restart: unless-stopped (docker-compose.yml:61); start-up and shutdown go
\* on by themselves.
FairSpec == Spec /\ WF_vars(Starting) /\ WF_vars(DrainTimesOut) /\ WF_vars(ShutDown)
-----------------------------------------------------------------------------
(* Properties *)

TypeOK ==
    /\ artifact \in Artifacts /\ config \in Configs
    /\ cacheUp \in BOOLEAN /\ wanted \in BOOLEAN /\ ready \in BOOLEAN
    /\ phase \in {"down", "load", "warm", "serve", "drain"}
    /\ service \in Artifacts \cup {None}
    /\ inFlight \in 0..MaxInFlight
    /\ probe \in [at : {"none", "status", "body", "answered"},
                  status : {0, 200, 503}, body : BOOLEAN]
    /\ delivered \in SUBSET {200, 503}

\* The two reads of state.ready (main.py:393, 397) agree in every answer
\* that is delivered, also in one that is given while the instance drains:
\* shut_down must not run before the requests in flight are over.
ProbeAgreesWithItself ==
    probe.at = "answered" => (probe.status = 200 <=> probe.body)

\* A process delivers one verdict for life: a cache outage or a drain never
\* takes a ready instance out of rotation (schemas.py:111-113), nor does a
\* load balancer see one flap.
ReadinessNeverFlaps == Cardinality(delivered) <= 1

\* Impossible floors are caught by the settings (config.py:78-81), never
\* later, by the domain, inside the lifespan.
SettingsCatchFloors == failure # "policy"

\* A missing artifact is recoverable (main.py:172-178): an instance that is
\* wanted, whose settings are legal and whose artifact is absent or sound
\* ends up serving, and is not caught in a loop of crashes.
Sound(a) == a = Absent \/ (Loads(a) /\ a.classes \subseteq Domain)

NoCrashLoop ==
    <>[](wanted /\ Accepts(config) /\ Sound(artifact)) => []<>Serving

\* What is loaded speaks the domain's language (service/triage.py:79-82).
\* Refuted by MCLifecycleLabels.cfg.
LoadedSpeaksDomain == service # None => service.classes \subseteq Domain

\* /v1/health answers while the model is loading (main.py:379-382,
\* README.md:302-304): the process listens when it loads. Refuted by
\* MCLifecycleHealth.cfg.
HealthAnswersWhileLoading == phase \in {"load", "warm"} => Serving
=============================================================================
