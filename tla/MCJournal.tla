------------------------------ MODULE MCJournal ------------------------------
(***************************************************************************)
(* Instances of Journal: two producers and one subscription are enough     *)
(* for every race between Append, Subscribe and Close; three events give a *)
(* backlog, a live event behind it and a failed write between two good     *)
(* ones.                                                                   *)
(***************************************************************************)
EXTENDS Journal

=============================================================================
