------------------------------ MODULE MCPlanes ------------------------------
(***************************************************************************)
(* The worker lifecycle, the tool service and workflows for TLC.  They run *)
(* side by side in the application and share no state, so a behaviour here *)
(* is one of a single plane, chosen at the start, while the others rest:   *)
(* the state spaces add up instead of multiplying.                         *)
(***************************************************************************)
EXTENDS WorkerLifecycle, ToolRpc, MCWorkflow

VARIABLE plane

planeVars == <<plane, vars, toolVars, flowVars>>

\* One run of Manager.Run, one Begin / End pair; the log in the cfg keeps
\* three of the eight events that the two make.
MCRuns == {1, 2}
MCHooked == {2}

\* Requests of one key with other inputs and callers, by rpc and directly; one
\* without a key; one of another major; and one of a second key, which evicts the
\* first.
Ask(k, i, who, rpc) == [tool |-> "t", key |-> k, input |-> i, caller |-> who, rpc |-> rpc, major |-> 1]
ByRpc == Ask("k1", "a", "x", TRUE)
Direct == Ask("k1", "a", "x", FALSE)

MCAsks ==
    <<{ByRpc, Direct, Ask("none", "a", "x", TRUE)},
      {ByRpc, Direct, Ask("k1", "b", "y", TRUE), Ask("k2", "a", "x", FALSE)},
      {ByRpc, Direct, [ByRpc EXCEPT !.major = 2]}>>

PlanesInit ==
    /\ plane \in {"worker", "tool", "workflow"}
    /\ WLInit /\ ToolInit /\ FlowInit
    /\ plane # "workflow" => dependsOn = [s \in Steps |-> {}] /\ profile = CHOOSE p \in Profiles : TRUE

OnPlane(p) == plane = p /\ UNCHANGED plane

PlanesNext ==
    \/ OnPlane("worker") /\ WLNext /\ UNCHANGED <<toolVars, flowVars>>
    \/ OnPlane("tool") /\ ToolNext /\ UNCHANGED <<vars, flowVars>>
    \/ OnPlane("workflow") /\ FlowNext /\ UNCHANGED <<vars, toolVars>>

\* WLFairness and the fairness of ToolRpc, of the plane that runs.
PlanesFairness ==
    /\ \A r \in Runs :
          /\ WF_vars(plane = "worker" /\ ManagerStep(r))
          /\ WF_vars(plane = "worker" /\ ctx[r] = "done" /\ AdapterReturn(r))
          /\ \A q \in Requests : WF_vars(plane = "worker" /\ Cancel(r, q))
    /\ \A c \in Calls : WF_toolVars(plane = "tool" /\ HandleStep(c)) /\ WF_toolVars(plane = "tool" /\ DeadlinePasses(c))

PlanesSpec == PlanesInit /\ [][PlanesNext]_planeVars /\ PlanesFairness
============================================================================
