--------------------------- MODULE MCChildrenWait ---------------------------
(* ChildrenWait for TLC. *)
EXTENDS ChildrenWait

\* a run in which no signal arrived before the wait started
FreshFairSpec == FairSpec /\ signal = 0
=============================================================================
