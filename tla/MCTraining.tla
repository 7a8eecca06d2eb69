----------------------------- MODULE MCTraining -----------------------------
(* Training on small instances. *)
EXTENDS Training

TwoLabels == <<1, 2>>
Pools == <<3, 2>>
=============================================================================
