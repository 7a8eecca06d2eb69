----------------------------- MODULE MCLifecycle -----------------------------
(* Lifecycle on small instances. *)
EXTENDS Lifecycle

Intents == {"complaint", "praise"}
Of(classes, labels) == [classes |-> classes, labels |-> labels]
Trained == Of(Intents, Intents)
Mismatched == Of(Intents, {"praise"})
Renamed == Of({"complaint", "spam"}, {"complaint", "spam"})
Foreign == Of({"spam"}, {"spam"})

AnyArtifact == {Absent, Corrupt, Trained, Mismatched, Renamed, Foreign}
Loadable == {Absent, Trained, Renamed}

Legal == [autoRouteFloor |-> 60, rejectFloor |-> 25, requireKey |-> TRUE,
          keys |-> {"secret", "blank"}]
LegalAndNot == {Legal, [Legal EXCEPT !.rejectFloor = 61],
                [Legal EXCEPT !.rejectFloor = 60, !.keys = {"blank"}]}
OnlyLegal == {Legal}
=============================================================================
