-------------------------- MODULE MCDistribution --------------------------
(***************************************************************************)
(* Two callers and a peer with one session at a time.                      *)
(***************************************************************************)
EXTENDS Distribution

MCCallers == {1, 2}
MCServers == {1}
============================================================================
