----------------------------- MODULE PureTriage -----------------------------
(***************************************************************************)
(* What a caller of TriageService.triage is promised: the answer to a      *)
(* message is what the model and the policy of the instance that took it   *)
(* say about it.  Where that model raises there may be two answers, since  *)
(* another of the same version may have been able to decide.  There is no  *)
(* cache here, no Redis and no other instance.                             *)
(***************************************************************************)
CONSTANTS Procs,        \* the threads that run triage
          Requests,     \* a build together with a text
          Ruling,       \* request -> the answers its build may give
          Idle, Pending

VARIABLES request,      \* proc -> the request it works on, or Idle
          answer        \* proc -> the answer it has for it, or Pending

vars == <<request, answer>>

Init ==
    /\ request = [p \in Procs |-> Idle]
    /\ answer = [p \in Procs |-> Pending]

Ask(p, r) ==
    /\ request[p] = Idle
    /\ request' = [request EXCEPT ![p] = r]
    /\ UNCHANGED answer

Answer(p) ==
    /\ request[p] # Idle
    /\ answer[p] = Pending
    /\ \E a \in Ruling[request[p]] : answer' = [answer EXCEPT ![p] = a]
    /\ UNCHANGED request

\* The answer is taken, or the process is gone.
Clear(S) ==
    /\ request' = [p \in Procs |-> IF p \in S THEN Idle ELSE request[p]]
    /\ answer' = [p \in Procs |-> IF p \in S THEN Pending ELSE answer[p]]

Next ==
    \/ \E p \in Procs : Answer(p) \/ \E r \in Requests : Ask(p, r)
    \/ \E S \in SUBSET Procs : Clear(S)

Spec == Init /\ [][Next]_vars
=============================================================================
