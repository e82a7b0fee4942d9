---------------------------- MODULE MCSupervision ----------------------------
(* Instances of Supervision for TLC.                                       *)
EXTENDS Supervision, TLC

(* Subscriptions are interchangeable: nothing in the code depends on which   *)
(* identifier a slot has.                                                  *)
Symmetry == Permutations(Slots)
=============================================================================
