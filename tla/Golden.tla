------------------------------- MODULE Golden -------------------------------
(***************************************************************************)
(* The golden file (tests/behavioural/golden_decisions.json): what         *)
(* scripts/regenerate_golden.py writes into it and what the behavioural    *)
(* suite reads from it, while the model is retrained, the corpus and the   *)
(* script's THRESHOLDS are edited, and the file is checked out again.      *)
(*                                                                         *)
(* The script computes and then waits for an answer, so anything may       *)
(* happen in between; and write_text truncates the file before it fills    *)
(* it, so a crash may leave it unreadable.                                 *)
(***************************************************************************)
EXTENDS Integers

CONSTANTS Texts, Models, Thresholds, Decisions,
          NoModel,            \* there is no artifact
          Ruling,             \* [model, thresholds, text] -> the decision
          Headers             \* what may follow --reviewed-by and --reason

ASSUME GoldenAssumption ==
    /\ Ruling \in [Models \X Thresholds \X Texts -> Decisions]
    /\ NoModel \notin Models

VARIABLES model,              \* models/intent_model.joblib, or NoModel
          cases,              \* golden_cases.json
          pinned,             \* THRESHOLDS in the script
          golden,             \* the golden file, or Missing, or Broken
          script,             \* a run of the script, or NotRunning
          committed,          \* the golden file as committed
          shown               \* history: (text, decision) pairs of the diffs
                              \* that were printed and then to be written

sources == <<model, cases, pinned>>
vars == <<sources, golden, script, committed, shown>>

Missing == [is |-> "missing"]
Broken == [is |-> "broken"]
NotRunning == [at |-> "none"]
Nothing == [x \in {} |-> ""]  \* no decisions at all

Readable(g) == g \notin {Missing, Broken}
Decide(t, x) == Ruling[<<model, t, x>>]
-----------------------------------------------------------------------------
(* The script *)

\* compute().
Compute == [x \in cases |-> Decide(pinned, x)]

Previous == IF golden = Missing THEN Nothing ELSE golden.decisions

Changes(fresh, previous) ==
    {x \in DOMAIN fresh : x \in DOMAIN previous => previous[x] # fresh[x]}

Removed(fresh, previous) == DOMAIN previous \ DOMAIN fresh

Init ==
    /\ model \in Models
    /\ cases \in SUBSET Texts
    /\ pinned \in Thresholds
    /\ golden = Missing
    /\ script = NotRunning
    /\ committed = Missing
    /\ shown = {}

\* Up to the prompt, which --yes skips.  Without an artifact the script stops,
\* as it does on a golden file that is not JSON and on arguments that are
\* missing; when nothing changed it leaves the file alone.
Start(header, yes) ==
    /\ script = NotRunning
    /\ model # NoModel
    /\ golden # Broken
    /\ Changes(Compute, Previous) \cup Removed(Compute, Previous) # {}
    /\ script' = [at |-> "prompt", header |-> header, yes |-> yes, fresh |-> Compute,
                  thresholds |-> pinned, diff |-> Changes(Compute, Previous)]
    /\ UNCHANGED <<sources, golden, committed, shown>>

\* write_text begins by truncating the file.
Truncate ==
    /\ shown' = shown \cup {<<x, script.fresh[x]>> : x \in script.diff}
    /\ golden' = Broken
    /\ script' = [script EXCEPT !.at = "write"]
    /\ UNCHANGED <<sources, committed>>

\* The reviewer types yes.
Accept == script.at = "prompt" /\ ~script.yes /\ Truncate

\* --yes was given, and nobody is asked.
Proceed == script.at = "prompt" /\ script.yes /\ Truncate

\* Mutant: the decisions are computed again for the file.
WriteFresh ==
    /\ script.at = "write"
    /\ model # NoModel
    /\ golden' = [decisions |-> Compute, header |-> script.header,
                  thresholds |-> pinned]
    /\ script' = NotRunning
    /\ UNCHANGED <<sources, committed, shown>>

\* The decisions are written together with who vouches for them and why.
Write ==
    /\ script.at = "write"
    /\ golden' = [decisions |-> script.fresh, header |-> script.header,
                  thresholds |-> script.thresholds]
    /\ script' = NotRunning
    /\ UNCHANGED <<sources, committed, shown>>

\* Another answer, Ctrl-C, or a crash, at the prompt or in the write.
Abort ==
    /\ script # NotRunning
    /\ script' = NotRunning
    /\ UNCHANGED <<sources, golden, committed, shown>>
-----------------------------------------------------------------------------
(* Everybody else *)

Edit ==
    /\ \/ model' \in Models \cup {NoModel} /\ UNCHANGED <<cases, pinned>>
       \/ cases' \in SUBSET Texts /\ UNCHANGED <<model, pinned>>
       \/ pinned' \in Thresholds /\ UNCHANGED <<model, cases>>
    /\ UNCHANGED <<golden, script, committed, shown>>

Discard ==
    /\ golden' = Missing
    /\ UNCHANGED <<sources, script, committed, shown>>

\* Mutant: nobody looks at what is committed.
CommitUnread ==
    /\ committed' = golden
    /\ UNCHANGED <<sources, golden, script, shown>>

Commit ==
    /\ golden # Broken
    /\ committed' = golden
    /\ UNCHANGED <<sources, golden, script, shown>>

Checkout ==
    /\ golden' = committed
    /\ UNCHANGED <<sources, script, committed, shown>>

Next ==
    \/ \E header \in Headers, yes \in BOOLEAN : Start(header, yes)
    \/ Accept \/ Proceed \/ Write \/ Abort
    \/ Edit \/ Discard \/ Commit \/ Checkout

Spec == Init /\ [][Next]_vars
-----------------------------------------------------------------------------
(* The suite (test_golden.py) *)

\* Without a golden file every test is skipped, without an artifact the
\* comparison is.
Skipped == golden = Missing \/ model = NoModel

CoversCases == DOMAIN golden.decisions = cases

RecordsApproval == golden.header.by # "" /\ golden.header.reason # ""

MatchesReference ==
    \A x \in cases : Decide(golden.thresholds, x) = golden.decisions[x]

\* No test fails: a skipped one does not, and a golden file that is no JSON
\* fails them all.  The comparison is under the file's own thresholds.
Green ==
    \/ golden = Missing
    \/ /\ Readable(golden)
       /\ CoversCases /\ RecordsApproval
       /\ model = NoModel \/ MatchesReference
-----------------------------------------------------------------------------
(* Properties *)

Files == [decisions : UNION {[S -> Decisions] : S \in SUBSET Texts},
          header : Headers, thresholds : Thresholds]

TypeOK ==
    /\ model \in Models \cup {NoModel}
    /\ cases \in SUBSET Texts /\ pinned \in Thresholds
    /\ golden \in Files \cup {Missing, Broken}
    /\ committed \in Files \cup {Missing}
    /\ script.at \in {"none", "prompt", "write"}
    /\ shown \in SUBSET (Texts \X Decisions)

\* If the suite is green and skipped nothing, then every decision of the
\* service on the corpus was printed in the diff of a run that somebody
\* answered, or that was started with --yes, before it got into the file
\* (regenerate_golden.py:10, 76-89), however runs, crashes, edits and
\* checkouts followed each other.
GreenMeansShown == Green /\ ~Skipped =>
    \A x \in cases : <<x, Decide(golden.thresholds, x)>> \in shown

\* No run writes the file unless somebody has answered its prompt: the script
\* "requires interactive confirmation" (regenerate_golden.py:10-11).
\* Refuted by MCGoldenYes.cfg.
WritesAreConfirmed == [][golden' = Broken => Accept]_golden

\* A green suite has compared every declared case: nothing makes it "pass by
\* testing less" (test_golden.py:62-64). Refuted by MCGoldenSkips.cfg: without
\* the file, or without an artifact, it is green and compares nothing.
GreenMeansCompared == Green => cases = {} \/ ~Skipped

\* The thresholds are pinned in the script and asserted by the suite
\* (regenerate_golden.py:32-34, test_golden.py:54-56). Refuted by
\* MCGoldenThresholds.cfg.
GreenPinsThresholds == Green /\ ~Skipped => golden.thresholds = pinned
=============================================================================
