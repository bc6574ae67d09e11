-------------------------- MODULE MCHealthTracker --------------------------
(* The health tracker for TLC: clients report timestamps that lie before,  *)
(* at and after the clock, and the clock outlives all of them.             *)
EXTENDS HealthTracker

MCTimes == {-1, 1}
=============================================================================
