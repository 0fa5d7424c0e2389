----------------------------- MODULE MCServices -----------------------------
(***************************************************************************)
(* The services around the kernel: the forge, learning, the control        *)
(* plane's writes, and the scheduler under callers that overlap.           *)
(* They share no state here, so a behaviour is one of a single service,    *)
(* chosen at the start, while the others rest: the state spaces add up     *)
(* instead of multiplying.                                                 *)
(***************************************************************************)
EXTENDS Forge, MCJobLearn, MCScheduler, ControlPlane

VARIABLE plane

serviceVars == <<plane, fvars, lvars, vars, cpvars>>

\* Requests of every method under one key, one without a key, one of another
\* major and one of an unknown method.
MCRpcPosts ==
    [method : {"createIssue", "openPullRequest", "checkpoint", "release", "reboot"}, key : {"k"}, name : {"bug"}, major : {1}]
        \cup {[method |-> "createIssue", key |-> "", name |-> "bug", major |-> 1],
              [method |-> "createIssue", key |-> "k", name |-> "bug", major |-> 3]}

\* The rpc service works beside a single manager, which meets it only in the
\* forge: StartPhase and one more call, or StartPhase repeated.
OneManager == CHOOSE m \in Managers : TRUE
CallsBesideRpc == 2

ServicesInit ==
    /\ plane \in {"forge", "rpc", "learn", "overlap", "control"}
    /\ ForgeInit /\ LearnInit /\ Init /\ ControlPlaneInit
    /\ plane # "learn" => gatePolicy = CHOOSE p \in GatePolicies : TRUE

OnPlane(p) == plane = p /\ UNCHANGED plane

ServicesNext ==
    \/ OnPlane("forge") /\ ((\E m \in Managers : ManagerNext(m)) \/ CloseIssue) /\ UNCHANGED <<lvars, vars, cpvars>>
    \/ OnPlane("rpc") /\ (ManagerNext(OneManager) \/ \E r \in Requests : RpcNext(r)) /\ fcalls' <= CallsBesideRpc /\ UNCHANGED <<lvars, vars, cpvars>>
    \/ OnPlane("learn") /\ LearnNext /\ UNCHANGED <<fvars, vars, cpvars>>
    \/ OnPlane("overlap") /\ Next /\ UNCHANGED <<fvars, lvars, cpvars>>
    \/ OnPlane("control") /\ ControlPlaneNext /\ UNCHANGED <<fvars, lvars, vars>>

ServicesSpec == ServicesInit /\ [][ServicesNext]_serviceVars
=============================================================================
