----------------------------- MODULE MCJobLearn -----------------------------
(***************************************************************************)
(* Traces of a success and of a costly failure by other workers, and one   *)
(* without a work package; a demanding policy of the gate and a lax one.   *)
(***************************************************************************)
EXTENDS JobLearn

Trace(steps, truncated, package, worker, cost) ==
    [steps |-> steps, truncated |-> truncated, package |-> package, worker |-> worker, cost |-> cost]
MCTraceChoices ==
    {Trace({"succeeded"}, FALSE, 1, 1, 0), Trace({"failed", "succeeded"}, FALSE, 2, 2, 800),
     Trace({"succeeded"}, TRUE, 0, 2, 0)}

Demands(outcomes, improvement, all) ==
    [minOutcomes |-> outcomes, minImprovement |-> improvement, requireBaseline |-> all,
     requireFallback |-> all, requireNoGateBypass |-> all]
MCGatePolicies == {Demands(2, 50, TRUE), Demands(3, 0, FALSE)}
=============================================================================
