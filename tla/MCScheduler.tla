---------------------------- MODULE MCScheduler ----------------------------
(***************************************************************************)
(* Instances of Scheduler for TLC: a package, an independent one, and one  *)
(* that depends on the first.                                              *)
(***************************************************************************)
EXTENDS Scheduler

MCDependsOn == [w \in WP |-> IF w = 3 THEN {1} ELSE {}]

=============================================================================
