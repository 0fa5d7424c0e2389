--------------------------- MODULE MCProjectState ---------------------------
(***************************************************************************)
(* Instances of ProjectState for TLC: two work packages, the second of     *)
(* which depends on the first, and one whose contract cannot be built.     *)
(***************************************************************************)
EXTENDS ProjectState

MCDependsOn == [w \in WP |-> IF w = 2 THEN {1} ELSE {}]

=============================================================================
