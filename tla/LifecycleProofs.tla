--------------------------- MODULE LifecycleProofs ---------------------------
(***************************************************************************)
(* The safety of Lifecycle, for any artifacts, settings and load.  What    *)
(* makes it inductive: AppState.ready is written once before the process   *)
(* listens and once after its last request, so that every read of it in    *)
(* between, by whatever probe, gives one value.                            *)
(***************************************************************************)
EXTENDS Lifecycle, FiniteSetTheorems, TLAPS

Verdict == IF ready THEN 200 ELSE 503

Flags ==
    /\ artifact \in Artifacts /\ config \in Configs
    /\ cacheUp \in BOOLEAN /\ wanted \in BOOLEAN /\ ready \in BOOLEAN

Places ==
    /\ phase \in {"down", "load", "warm", "serve", "drain"}
    /\ service \in Artifacts \cup {None}
    /\ inFlight \in 0..MaxInFlight

Probing ==
    probe \in [at : {"none", "status", "body", "answered"},
               status : {0, 200, 503}, body : BOOLEAN]

Status == probe.at \in {"body", "answered"} => probe.status = Verdict
Body == probe.at = "answered" => probe.body = ready
Delivered == delivered \subseteq {Verdict}

\* Nobody is served before the warm-up, and the settings were accepted.
NobodyIsServedYet ==
    phase \notin {"serve", "drain"} => probe = NoProbe /\ delivered = {}

SettingsWereAccepted ==
    /\ phase = "load" => Accepts(config)
    /\ failure # "policy"

IInv ==
    /\ Flags /\ Places /\ Probing
    /\ Status /\ Body /\ Delivered
    /\ NobodyIsServedYet /\ SettingsWereAccepted

LEMMA AtMostOne ==
    ASSUME NEW x, NEW S, S \subseteq {x} PROVE Cardinality(S) <= 1
<1>1. IsFiniteSet({x}) /\ Cardinality({x}) = 1
  BY FS_Singleton
<1> QED
  BY <1>1, FS_Subset

LEMMA InitEstablishes == Init => IInv
<1> SUFFICES ASSUME Init PROVE IInv
  OBVIOUS
<1> USE DEF Init, NoProbe
<1>1. Flags
  BY DEF Flags
<1>2. Places
  BY LifecycleAssumption DEF Places
<1>3. Probing /\ Status /\ Body
  BY DEF Probing, Status, Body
<1>4. Delivered /\ NobodyIsServedYet /\ SettingsWereAccepted
  BY DEF Delivered, NobodyIsServedYet, SettingsWereAccepted
<1> QED
  BY <1>1, <1>2, <1>3, <1>4 DEF IInv

\* The end of a process, for whatever reason but the policy's.
LEMMA ExitPreserves ==
    ASSUME IInv, NEW why, Exit(why), why # "policy", Flags'
    PROVE  IInv'
<1> USE DEF Exit, NoProbe
<1>1. Places'
  BY LifecycleAssumption DEF Places
<1>2. Probing' /\ Status' /\ Body'
  BY DEF Probing, Status, Body
<1>3. Delivered' /\ NobodyIsServedYet' /\ SettingsWereAccepted'
  BY DEF Delivered, NobodyIsServedYet, SettingsWereAccepted
<1> QED
  BY <1>1, <1>2, <1>3 DEF IInv

LEMMA StepPreserves == IInv /\ [Next]_vars => IInv'
<1> SUFFICES ASSUME IInv, [Next]_vars PROVE IInv'
  OBVIOUS
<1> USE DEF outside, state, load
<1>1. CASE Launch
  <2>1. CASE Accepts(config)
    <3>1. Flags'
      BY <1>1, <2>1 DEF IInv, Launch, Flags
    <3>2. Places'
      BY <1>1, <2>1 DEF IInv, Launch, Places
    <3>3. SettingsWereAccepted'
      BY <1>1, <2>1 DEF IInv, Launch, SettingsWereAccepted
    <3>4. Probing'
      BY <1>1, <2>1 DEF IInv, Launch, Probing, Flags, NoProbe
    <3>5. Status'
      BY <1>1, <2>1
      DEF IInv, Launch, Status, Verdict, Probing, NobodyIsServedYet, NoProbe
    <3>6. Delivered' /\ NobodyIsServedYet'
      <4>1. probe = NoProbe /\ delivered = {}
        BY <1>1 DEF IInv, Launch, NobodyIsServedYet
      <4>2. probe' = probe /\ delivered' = delivered
        BY <1>1, <2>1 DEF Launch
      <4> QED
        BY <4>1, <4>2 DEF Delivered, NobodyIsServedYet
    <3>7. Body'
      BY <1>1, <2>1
      DEF IInv, Launch, Body, Probing, NobodyIsServedYet, NoProbe
    <3> QED
      BY <3>1, <3>2, <3>3, <3>4, <3>5, <3>6, <3>7 DEF IInv
  <2>2. CASE ~Accepts(config)
    <3>1. Exit("settings")
      BY <1>1, <2>2 DEF Launch
    <3>2. Flags'
      BY <1>1, <2>2 DEF IInv, Launch, Exit, Flags
    <3> QED
      BY <3>1, <3>2, ExitPreserves
  <2> QED
    BY <2>1, <2>2
<1>2. CASE Load
  <2>1. PolicyAccepts(config)
    BY <1>2 DEF IInv, Load, SettingsWereAccepted, Accepts, PolicyAccepts
  <2>2. CASE artifact # Absent /\ ~Loads(artifact)
    <3>1. Exit("artifact")
      BY <1>2, <2>1, <2>2 DEF Load
    <3>2. Flags'
      BY <1>2, <2>1, <2>2 DEF IInv, Load, Exit, Flags
    <3> QED
      BY <3>1, <3>2, ExitPreserves
  <2>3. CASE ~(artifact # Absent /\ ~Loads(artifact))
    <3>1. /\ phase = "load" /\ phase' = "warm"
          /\ UNCHANGED <<artifact, config, cacheUp, wanted, failure, ready>>
          /\ UNCHANGED <<inFlight, probe, delivered>>
      BY <1>2, <2>1, <2>3 DEF Load
    <3>2. service' \in Artifacts \cup {None}
      BY <1>2, <2>1, <2>3 DEF Load, IInv, Flags
    <3>3. Flags'
      BY <3>1 DEF IInv, Flags
    <3>4. Places'
      BY <3>1, <3>2 DEF IInv, Places
    <3>5. Probing'
      BY <3>1 DEF IInv, Probing
    <3>6. Status' /\ Body'
      BY <3>1 DEF IInv, NobodyIsServedYet, NoProbe, Status, Body
    <3>7. Delivered' /\ NobodyIsServedYet'
      BY <3>1 DEF IInv, NobodyIsServedYet, Delivered
    <3>8. SettingsWereAccepted'
      BY <3>1 DEF IInv, SettingsWereAccepted
    <3> QED
      BY <3>3, <3>4, <3>5, <3>6, <3>7, <3>8 DEF IInv
  <2> QED
    BY <2>2, <2>3
<1>3. CASE WarmUp
  <2>1. Flags'
    BY <1>3 DEF IInv, WarmUp, Flags
  <2>2. Places'
    BY <1>3 DEF IInv, WarmUp, Places
  <2>3. SettingsWereAccepted'
    BY <1>3 DEF IInv, WarmUp, SettingsWereAccepted
  <2>4. Probing'
    BY <1>3 DEF IInv, WarmUp, Probing, Flags, NoProbe
  <2>5. Status' /\ Delivered' /\ NobodyIsServedYet'
    BY <1>3
    DEF IInv, WarmUp, Status, Verdict,
        Probing, NobodyIsServedYet, NoProbe, Delivered
  <2>6. Body'
    BY <1>3 DEF IInv, WarmUp, Body, Probing, NobodyIsServedYet, NoProbe
  <2> QED
    BY <2>1, <2>2, <2>3, <2>4, <2>5, <2>6 DEF IInv
<1>4. CASE WarmUpRaises
  <2>1. Exit("warm_up")
    BY <1>4 DEF WarmUpRaises
  <2>2. Flags'
    BY <1>4 DEF IInv, WarmUpRaises, Exit, Flags
  <2> QED
    BY <2>1, <2>2, ExitPreserves
<1>5. CASE Finish
  <2>1. Flags'
    BY <1>5 DEF IInv, Finish, Flags
  <2>2. Places'
    BY <1>5, LifecycleAssumption DEF IInv, Finish, Places
  <2>3. SettingsWereAccepted'
    BY <1>5 DEF IInv, Finish, SettingsWereAccepted
  <2>4. Probing'
    BY <1>5 DEF IInv, Finish, Probing, Flags, NoProbe
  <2>5. Status' /\ Delivered' /\ NobodyIsServedYet'
    BY <1>5
    DEF IInv, Finish, Status, Verdict,
        Probing, NobodyIsServedYet, NoProbe, Delivered
  <2>6. Body'
    BY <1>5 DEF IInv, Finish, Body, Probing, NobodyIsServedYet, NoProbe
  <2> QED
    BY <2>1, <2>2, <2>3, <2>4, <2>5, <2>6 DEF IInv
<1>6. CASE Accept
  <2>1. Flags'
    BY <1>6 DEF IInv, Accept, Serving, Flags
  <2>2. Places'
    BY <1>6, LifecycleAssumption DEF IInv, Accept, Serving, Places
  <2>3. SettingsWereAccepted'
    BY <1>6 DEF IInv, Accept, Serving, SettingsWereAccepted
  <2>4. Probing'
    BY <1>6 DEF IInv, Accept, Serving, Probing, Flags, NoProbe
  <2>5. Status' /\ Delivered' /\ NobodyIsServedYet'
    BY <1>6
    DEF IInv, Accept, Serving, Status, Verdict,
        Probing, NobodyIsServedYet, NoProbe, Delivered
  <2>6. Body'
    BY <1>6
    DEF IInv, Accept, Serving, Body, Probing, NobodyIsServedYet, NoProbe
  <2> QED
    BY <2>1, <2>2, <2>3, <2>4, <2>5, <2>6 DEF IInv
<1>7. CASE ProbeArrives
  <2>1. Flags'
    BY <1>7 DEF IInv, ProbeArrives, Serving, Flags
  <2>2. Places'
    BY <1>7 DEF IInv, ProbeArrives, Serving, Places
  <2>3. SettingsWereAccepted'
    BY <1>7 DEF IInv, ProbeArrives, Serving, SettingsWereAccepted
  <2>4. Probing'
    <3>1. Probing /\ probe' = [probe EXCEPT !.at = "status"]
      BY <1>7 DEF IInv, ProbeArrives
    <3> QED
      BY <3>1 DEF Probing
  <2>5. Status' /\ Delivered' /\ NobodyIsServedYet'
    BY <1>7
    DEF IInv, ProbeArrives, Serving, Status, Verdict,
        Probing, NobodyIsServedYet, NoProbe, Delivered
  <2>6. Body'
    BY <1>7
    DEF IInv, ProbeArrives, Serving, Body, Probing, NobodyIsServedYet, NoProbe
  <2> QED
    BY <2>1, <2>2, <2>3, <2>4, <2>5, <2>6 DEF IInv
<1>8. CASE ProbeReadsStatus
  <2>1. Flags'
    BY <1>8 DEF IInv, ProbeReadsStatus, Flags
  <2>2. Places'
    BY <1>8 DEF IInv, ProbeReadsStatus, Places
  <2>3. SettingsWereAccepted'
    BY <1>8 DEF IInv, ProbeReadsStatus, SettingsWereAccepted
  <2>4. Probing'
    <3> DEFINE status == IF ready THEN 200 ELSE 503
    <3>1. status \in {0, 200, 503}
      OBVIOUS
    <3>2. probe' = [probe EXCEPT !.at = "body", !.status = status]
      BY <1>8 DEF ProbeReadsStatus
    <3> HIDE DEF status
    <3>3. Probing
      BY DEF IInv
    <3> QED
      BY <3>1, <3>2, <3>3 DEF Probing
  <2>5. Status' /\ Delivered' /\ NobodyIsServedYet'
    BY <1>8
    DEF IInv, ProbeReadsStatus, Status, Verdict,
        Probing, NobodyIsServedYet, NoProbe, Delivered
  <2>6. Body'
    BY <1>8
    DEF IInv, ProbeReadsStatus, Body, Probing, NobodyIsServedYet, NoProbe
  <2> QED
    BY <2>1, <2>2, <2>3, <2>4, <2>5, <2>6 DEF IInv
<1>9. CASE ProbeReadsBody
  <2>1. Flags'
    BY <1>9 DEF IInv, ProbeReadsBody, Flags
  <2>2. Places'
    BY <1>9 DEF IInv, ProbeReadsBody, Places
  <2>3. SettingsWereAccepted'
    BY <1>9 DEF IInv, ProbeReadsBody, SettingsWereAccepted
  <2>4. Probing'
    BY <1>9 DEF IInv, ProbeReadsBody, Probing, Flags, NoProbe
  <2>5. Status' /\ Delivered' /\ NobodyIsServedYet'
    BY <1>9
    DEF IInv, ProbeReadsBody, Status, Verdict,
        Probing, NobodyIsServedYet, NoProbe, Delivered
  <2>6. Body'
    BY <1>9
    DEF IInv, ProbeReadsBody, Body, Probing, NobodyIsServedYet, NoProbe
  <2> QED
    BY <2>1, <2>2, <2>3, <2>4, <2>5, <2>6 DEF IInv
<1>10. CASE ProbeAnswered
  <2>1. Flags'
    BY <1>10 DEF IInv, ProbeAnswered, Flags
  <2>2. Places'
    BY <1>10 DEF IInv, ProbeAnswered, Places
  <2>3. SettingsWereAccepted'
    BY <1>10 DEF IInv, ProbeAnswered, SettingsWereAccepted
  <2>4. Probing'
    BY <1>10 DEF IInv, ProbeAnswered, Probing, Flags, NoProbe
  <2>5. Status' /\ Delivered' /\ NobodyIsServedYet'
    BY <1>10
    DEF IInv, ProbeAnswered, Status, Verdict,
        Probing, NobodyIsServedYet, NoProbe, Delivered
  <2>6. Body'
    BY <1>10
    DEF IInv, ProbeAnswered, Body, Probing, NobodyIsServedYet, NoProbe
  <2> QED
    BY <2>1, <2>2, <2>3, <2>4, <2>5, <2>6 DEF IInv
<1>11. CASE DrainTimesOut
  <2>1. Flags'
    BY <1>11 DEF IInv, DrainTimesOut, Flags
  <2>2. Places'
    BY <1>11, LifecycleAssumption DEF IInv, DrainTimesOut, Places
  <2>3. SettingsWereAccepted'
    BY <1>11 DEF IInv, DrainTimesOut, SettingsWereAccepted
  <2>4. Probing'
    BY <1>11 DEF IInv, DrainTimesOut, Probing, Flags, NoProbe
  <2>5. Status' /\ Delivered' /\ NobodyIsServedYet'
    BY <1>11
    DEF IInv, DrainTimesOut, Status, Verdict,
        Probing, NobodyIsServedYet, NoProbe, Delivered
  <2>6. Body'
    BY <1>11
    DEF IInv, DrainTimesOut, Body, Probing, NobodyIsServedYet, NoProbe
  <2> QED
    BY <2>1, <2>2, <2>3, <2>4, <2>5, <2>6 DEF IInv
<1>12. CASE SigTerm
  <2>1. Flags'
    BY <1>12 DEF IInv, SigTerm, Serving, Flags
  <2>2. Places'
    BY <1>12 DEF IInv, SigTerm, Serving, Places
  <2>3. SettingsWereAccepted'
    BY <1>12 DEF IInv, SigTerm, Serving, SettingsWereAccepted
  <2>4. Probing'
    BY <1>12 DEF IInv, SigTerm, Serving, Probing, Flags, NoProbe
  <2>5. Status' /\ Delivered' /\ NobodyIsServedYet'
    BY <1>12
    DEF IInv, SigTerm, Serving, Status, Verdict,
        Probing, NobodyIsServedYet, NoProbe, Delivered
  <2>6. Body'
    BY <1>12
    DEF IInv, SigTerm, Serving, Body, Probing, NobodyIsServedYet, NoProbe
  <2> QED
    BY <2>1, <2>2, <2>3, <2>4, <2>5, <2>6 DEF IInv
<1>13. CASE ShutDown
  <2>1. Exit("none")
    BY <1>13 DEF ShutDown
  <2>2. Flags'
    BY <1>13 DEF IInv, ShutDown, Exit, Flags
  <2> QED
    BY <2>1, <2>2, ExitPreserves
<1>14. CASE Kill
  <2>1. Exit("killed")
    BY <1>14 DEF Kill
  <2>2. Flags'
    BY <1>14 DEF IInv, Kill, Exit, Flags
  <2> QED
    BY <2>1, <2>2, ExitPreserves
<1>15. CASE Want
  <2>1. Flags'
    BY <1>15 DEF IInv, Want, Flags
  <2>2. Places'
    BY <1>15 DEF IInv, Want, Places
  <2>3. SettingsWereAccepted'
    BY <1>15 DEF IInv, Want, SettingsWereAccepted
  <2>4. Probing'
    BY <1>15 DEF IInv, Want, Probing, Flags, NoProbe
  <2>5. Status' /\ Delivered' /\ NobodyIsServedYet'
    BY <1>15
    DEF IInv, Want, Status, Verdict,
        Probing, NobodyIsServedYet, NoProbe, Delivered
  <2>6. Body'
    BY <1>15 DEF IInv, Want, Body, Probing, NobodyIsServedYet, NoProbe
  <2> QED
    BY <2>1, <2>2, <2>3, <2>4, <2>5, <2>6 DEF IInv
<1>16. CASE Outside
  <2>1. Flags'
    BY <1>16 DEF IInv, Outside, Flags
  <2>2. Places'
    BY <1>16 DEF IInv, Outside, Places
  <2>3. SettingsWereAccepted'
    BY <1>16 DEF IInv, Outside, SettingsWereAccepted
  <2>4. Probing'
    BY <1>16 DEF IInv, Outside, Probing, Flags, NoProbe
  <2>5. Status' /\ Delivered' /\ NobodyIsServedYet'
    BY <1>16
    DEF IInv, Outside, Status, Verdict,
        Probing, NobodyIsServedYet, NoProbe, Delivered
  <2>6. Body'
    BY <1>16 DEF IInv, Outside, Body, Probing, NobodyIsServedYet, NoProbe
  <2> QED
    BY <2>1, <2>2, <2>3, <2>4, <2>5, <2>6 DEF IInv
<1>17. CASE UNCHANGED vars
  <2>1. Flags'
    BY <1>17 DEF IInv, vars, Flags
  <2>2. Places'
    BY <1>17 DEF IInv, vars, Places
  <2>3. SettingsWereAccepted'
    BY <1>17 DEF IInv, vars, SettingsWereAccepted
  <2>4. Probing'
    BY <1>17 DEF IInv, vars, Probing, Flags, NoProbe
  <2>5. Status' /\ Delivered' /\ NobodyIsServedYet'
    BY <1>17
    DEF IInv, vars, Status, Verdict,
        Probing, NobodyIsServedYet, NoProbe, Delivered
  <2>6. Body'
    BY <1>17 DEF IInv, vars, Body, Probing, NobodyIsServedYet, NoProbe
  <2> QED
    BY <2>1, <2>2, <2>3, <2>4, <2>5, <2>6 DEF IInv
<1> QED
  BY <1>1, <1>2, <1>3, <1>4, <1>5, <1>6, <1>7, <1>8,
     <1>9, <1>10, <1>11, <1>12, <1>13, <1>14, <1>15, <1>16, <1>17
  DEF Next, Starting, Working

LEMMA Invariance == Spec => []IInv
  BY InitEstablishes, StepPreserves, PTL DEF Spec

-----------------------------------------------------------------------------

\* Every variable keeps its type; the requests in flight never become fewer
\* than none, in whatever order they end, are cancelled or die.
THEOREM TypeCorrect == Spec => []TypeOK
<1>1. ASSUME IInv PROVE TypeOK
  <2>1. delivered \in SUBSET {200, 503}
    BY <1>1 DEF IInv, Delivered, Verdict
  <2> QED
    BY <1>1, <2>1 DEF IInv, TypeOK, Flags, Places, Probing
<1> QED
  BY <1>1, Invariance, PTL

\* The two reads of state.ready in the readiness endpoint agree in every
\* answer that is delivered.
THEOREM ProbesAgree == Spec => []ProbeAgreesWithItself
<1>1. IInv => ProbeAgreesWithItself
  BY DEF IInv, Status, Body, Verdict, ProbeAgreesWithItself
<1> QED
  BY <1>1, Invariance, PTL

\* A process delivers one readiness verdict for life, whatever the cache does
\* and however it is stopped.
THEOREM ReadinessIsSteady == Spec => []ReadinessNeverFlaps
<1>1. IInv => ReadinessNeverFlaps
  BY AtMostOne DEF IInv, Delivered, ReadinessNeverFlaps
<1> QED
  BY <1>1, Invariance, PTL

\* Floors in the wrong order never reach the domain's own validation inside
\* the lifespan.
THEOREM FloorsAreCaughtEarly == Spec => []SettingsCatchFloors
<1>1. IInv => SettingsCatchFloors
  BY DEF IInv, SettingsWereAccepted, SettingsCatchFloors
<1> QED
  BY <1>1, Invariance, PTL
=============================================================================
