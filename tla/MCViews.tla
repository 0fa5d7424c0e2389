------------------------------ MODULE MCViews ------------------------------
(***************************************************************************)
(* What a node knows and shows: the durable project state with its         *)
(* approvals, the replicas of three nodes, the observation plane, its      *)
(* buffer, and the visualizer over live and over recorded events.  The     *)
(* parts share no state, so a behaviour here is one of a single part,      *)
(* chosen at the start, while the others rest: the state spaces add up     *)
(* instead of multiplying.                                                 *)
(***************************************************************************)
EXTENDS MCProjectState, Replica, Observation, Visualizer

VARIABLE plane

viewVars == <<plane, psVars, replicaVars, obsVars, visVars>>

\* One observation with a key that must not be journaled and one that does not
\* validate; a Codex output of two lines and one that does not decode.
Offer(valid, keys, type, wp) ==
    [valid |-> valid, keys |-> keys, type |-> type, wp |-> wp, actor |-> "", seq |-> 0]
MCOffers == {Offer(TRUE, {"path", "prompt"}, "tool", "w"), Offer(FALSE, {}, "file", "")}
MCCodexFiles ==
    {[lines |-> <<Offer(TRUE, {}, "file", ""), Offer(TRUE, {"tool"}, "tool", "")>>, broken |-> FALSE],
     [lines |-> <<Offer(TRUE, {}, "file", "")>>, broken |-> TRUE]}

\* Two observations of one work package, and one whose timestamp does not parse.
Watched(wp, actor, type, paths, stamp) ==
    [wp |-> wp, attempt |-> "", type |-> type, source |-> "", actor |-> actor, paths |-> paths,
     access |-> "", stamp |-> stamp]
MCObserved ==
    {Watched("w", "x", "tool", "p", "rfc3339"), Watched("w", "", "tool", "q", "none"), Watched("", "x", "file", "", "other")}

\* Four events of three sessions, with causes and correlations among them.
Canonical(n, agg, cause, corr, wp, project, session) ==
    [id |-> <<"e", n>>, seq |-> n, agg |-> agg, actor |-> "", cause |-> cause, corr |-> corr, wp |-> wp,
     artifact |-> "", paths |-> "", access |-> "", project |-> project, session |-> session]
MCHistory ==
    {Canonical(1, <<"project", "a">>, <<>>, "r", "w", "a", ""),
     Canonical(2, <<"work_package", "w">>, <<"e", 1>>, "r", "", "a", ""),
     Canonical(3, <<"attempt", "t">>, <<"e", 2>>, "r", "w", "a", "live"),
     Canonical(4, <<"issue", "i">>, <<"e", 1>>, "", "", "", "")}

ViewsInit ==
    /\ plane \in {"project", "replica", "observation", "buffer", "live", "browse"}
    /\ PSInit /\ RInit /\ ObsInit /\ VisInit

OnPlane(p) == plane = p /\ UNCHANGED plane

ViewsNext ==
    \/ OnPlane("project") /\ PSNext /\ UNCHANGED <<replicaVars, obsVars, visVars>>
    \/ OnPlane("replica") /\ RNext /\ UNCHANGED <<psVars, obsVars, visVars>>
    \/ OnPlane("observation") /\ PlaneStep /\ UNCHANGED <<psVars, replicaVars, visVars>>
    \/ OnPlane("buffer") /\ BufferStep /\ UNCHANGED <<psVars, replicaVars, visVars>>
    \/ OnPlane("live") /\ LiveStep /\ UNCHANGED <<psVars, replicaVars, obsVars>>
    \/ OnPlane("browse") /\ BrowseStep /\ UNCHANGED <<psVars, replicaVars, obsVars>>

ViewsSpec == ViewsInit /\ [][ViewsNext]_viewVars
============================================================================
