------------------------------ MODULE MCGolden ------------------------------
(***************************************************************************)
(* Golden on small instances.  The second text is ruled alike by all; the  *)
(* first one goes to a human under one model, or under the stricter        *)
(* thresholds.                                                             *)
(***************************************************************************)
EXTENDS Golden

MCHeaders == {[by |-> "Sara", reason |-> "retrained"], [by |-> "Sara", reason |-> ""]}

MCRuling == [mtx \in Models \X Thresholds \X Texts |->
    IF mtx[3] = "refund" /\ (mtx[1] = "m1" \/ mtx[2] = "strict") THEN "human_review"
    ELSE "auto_route"]
=============================================================================
