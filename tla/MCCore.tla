------------------------------- MODULE MCCore -------------------------------
(***************************************************************************)
(* The core: the scheduler that drains a project, and the memory that      *)
(* records are kept in.  They share no state here, so a behaviour is one   *)
(* of the two, chosen at the start, while the other rests: the state       *)
(* spaces add up instead of multiplying.                                   *)
(***************************************************************************)
EXTENDS MCScheduler, MCMemoryStore

VARIABLE plane

coreVars == <<plane, vars, msVars>>

CoreInit == plane \in {"scheduler", "memory"} /\ Init /\ MSInit

OnPlane(p) == plane = p /\ UNCHANGED plane

CoreNext ==
    \/ OnPlane("scheduler") /\ Next /\ UNCHANGED msVars
    \/ OnPlane("memory") /\ MSNext /\ UNCHANGED vars

\* Fairness of the scheduler, on its plane.
CoreFairness ==
    /\ WF_vars(plane = "scheduler" /\ (RunBatch \/ RunReturn))
    /\ \A g \in Goroutine :
          /\ WF_vars(plane = "scheduler" /\ RunReceive(g))
          /\ WF_vars(plane = "scheduler" /\ Step(g))

CoreSpec == CoreInit /\ [][CoreNext]_coreVars /\ CoreFairness
=============================================================================
