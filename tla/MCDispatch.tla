----------------------------- MODULE MCDispatch -----------------------------
(* Instances of Dispatch for TLC.                                          *)
EXTENDS Dispatch, TLC

(* Subscriptions are interchangeable: nothing in the code depends on which   *)
(* identifier a slot has.                                                  *)
Symmetry == Permutations(Slots)
=============================================================================
