---------------------------- MODULE MCTransport ----------------------------
(***************************************************************************)
(* What carries events and payloads: the journal, and the sessions of two  *)
(* nodes.  They share no state, so a behaviour here is one of the two,     *)
(* chosen at the start, while the other rests: the state spaces add up     *)
(* instead of multiplying.                                                 *)
(***************************************************************************)
EXTENDS MCJournal, MCDistribution

VARIABLE plane

transportVars == <<plane, jvars, vars>>

TransportInit ==
    /\ plane \in {"journal", "distribution"}
    /\ JInit /\ DInit
    /\ plane # "journal" => kind = "memory"

OnPlane(p) == plane = p /\ UNCHANGED plane

TransportNext ==
    \/ OnPlane("journal") /\ JNext /\ UNCHANGED vars
    \/ OnPlane("distribution") /\ DNext /\ UNCHANGED jvars

\* JFairness and DFairness, of the plane that runs.
TransportFairness ==
    /\ \A p \in Producer :
          /\ \A s \in Sub : WF_jvars(plane = "journal" /\ Deliver(p, s))
          /\ WF_jvars(plane = "journal" /\ Finish(p))
    /\ \A c \in Callers : WF_vars(plane = "distribution" /\ CallerStep(c))
    /\ \A s \in Servers : WF_vars(plane = "distribution" /\ ServerStep(s))

TransportSpec == TransportInit /\ [][TransportNext]_transportVars /\ TransportFairness
============================================================================
