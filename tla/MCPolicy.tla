------------------------------ MODULE MCPolicy ------------------------------
(***************************************************************************)
(* Small texts, with urgency terms of one and of two letters, so that      *)
(* there is room in a text for what can be put before, inside and after a  *)
(* term.  The composed letters are two of the three an alef has, with a    *)
(* hamza above and with a hamza below; the sign above is of the class of   *)
(* the first (230), the fatha is of neither's.                             *)
(***************************************************************************)
EXTENDS PolicyEdits, TLC

MCTerms == {<<"ah">>, <<"a", "ah">>}
MCCompat == [AH |-> "ah"]
MCClass == [fatha |-> 30, hamza_below |-> 220, hamza_above |-> 230, sign |-> 230]
MCComposition ==
    <<"a", "hamza_above">> :> "ah" @@ <<"a", "hamza_below">> :> "ai"
MCDepartmentByIntent == [praise |-> "customer_relations"]
=============================================================================
