---------------------------- MODULE HttpContract ----------------------------
(***************************************************************************)
(* What a client of the HTTP interface is promised: one answer to each     *)
(* request, the one that the first reason on the list calls for, and       *)
(* counters that move with the answers and with nothing else.  There are   *)
(* no threads here, no stages and no windows: a request that is not a      *)
(* probe may be refused with 429.                                          *)
(***************************************************************************)
EXTENDS Integers

CONSTANTS Slots, Requests,
          RequireKey, ApiKeys,
          Nobody, Unanswered

VARIABLES loaded,             \* the model was there at start-up
          request,            \* slot -> the request it holds, or Nobody
          answer,             \* slot -> its answer, or Unanswered
          decisions, errors   \* what /v1/metrics reports

vars == <<loaded, request, answer, decisions, errors>>

Answer(n, c) == [status |-> n, code |-> c]

Served == {<<"POST", "predict">>, <<"GET", "policy">>, <<"GET", "metrics">>,
           <<"GET", "health">>, <<"GET", "ready">>}
Probes == {"health", "ready"}

\* The answer to a request that is neither refused for its length nor for
\* its caller's budget.
Verdict(r) ==
    IF r.path = "unknown" THEN Answer(404, "not_found")
    ELSE IF r.path = "slashed" THEN Answer(307, "bare")
    ELSE IF <<r.method, r.path>> \notin Served THEN Answer(405, "error")
    ELSE IF r.path = "predict" /\ r.body = "garbled"
         THEN Answer(422, "validation_error")
    ELSE IF RequireKey /\ r.path \notin Probes /\ r.key \notin ApiKeys
         THEN Answer(401, "unauthorized")
    ELSE IF r.path = "predict" /\ r.body = "invalid"
         THEN Answer(422, "validation_error")
    ELSE IF ~loaded /\ r.path \in {"predict", "policy"}
         THEN Answer(503, "service_unavailable")
    ELSE IF ~loaded /\ r.path = "ready" THEN Answer(503, "data")
    ELSE IF r.path = "predict" /\ r.body = "fails"
         THEN Answer(500, "internal_error")
    ELSE Answer(200, "data")

Permitted(r) ==
    IF r.method = "POST" /\ r.length = "missing"
    THEN {Answer(411, "length_required")}
    ELSE IF r.method = "POST" /\ r.length = "large"
    THEN {Answer(413, "payload_too_large")}
    ELSE {Verdict(r)} \cup
         (IF r.path \in Probes THEN {} ELSE {Answer(429, "rate_limited")})

IsDecision(r, a) == r.path = "predict" /\ a.status = 200
IsError(r, a) ==
    a.status \in {429, 500} \/ (r.path = "predict" /\ a.status = 503)

Plus(n, really) == IF really THEN n + 1 ELSE n

Init ==
    /\ loaded \in BOOLEAN
    /\ request = [s \in Slots |-> Nobody]
    /\ answer = [s \in Slots |-> Unanswered]
    /\ decisions = 0
    /\ errors = 0

Receive(s, r) ==
    /\ request[s] = Nobody
    /\ request' = [request EXCEPT ![s] = r]
    /\ UNCHANGED <<loaded, answer, decisions, errors>>

\* r is the request that s holds, or one that is answered on arrival.
Reply(s, r) == \E a \in Permitted(r) :
    /\ request[s] \in {r, Nobody}
    /\ answer[s] = Unanswered
    /\ request' = [request EXCEPT ![s] = r]
    /\ answer' = [answer EXCEPT ![s] = a]
    /\ decisions' = Plus(decisions, IsDecision(r, a))
    /\ errors' = Plus(errors, IsError(r, a))
    /\ UNCHANGED loaded

Deliver(s) ==
    /\ answer[s] # Unanswered
    /\ request' = [request EXCEPT ![s] = Nobody]
    /\ answer' = [answer EXCEPT ![s] = Unanswered]
    /\ UNCHANGED <<loaded, decisions, errors>>

Next == \E s \in Slots :
    Deliver(s) \/ \E r \in Requests : Receive(s, r) \/ Reply(s, r)

Spec == Init /\ [][Next]_vars
=============================================================================
