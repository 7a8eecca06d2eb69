------------------------------ MODULE MCTriage ------------------------------
(***************************************************************************)
(* Triage on small instances.                                              *)
(*                                                                         *)
(* Builds: B is A without a field of the decision and with an artifact     *)
(* that cannot answer the warm-up message, C has such an artifact under    *)
(* floors of its own, and R is A after a change of the urgency terms that  *)
(* kept the version.                                                       *)
(***************************************************************************)
EXTENDS Triage, TLC

A == [version |-> "v1", floors |-> "f1", logic |-> "first",
      fields |-> {"action", "reason"}, fails |-> {}]
B == [A EXCEPT !.fields = {"action"}, !.fails = {WarmupText}]
C == [A EXCEPT !.floors = "f2", !.fails = {WarmupText}]
R == [A EXCEPT !.logic = "revised"]

OneBuild == {A}
BrokenBuilds == {A, B}
RolledBuilds == {A, B, C}
RevisedBuilds == {A, R}

Symmetry == Permutations(Instances)
=============================================================================
