------------------------------- MODULE Tables -------------------------------
(***************************************************************************)
(* Go maps and directories of records, as functions over the keys that are *)
(* present.                                                                *)
(***************************************************************************)

\* table[key] = value, whether or not the key is present.
Put(table, key, value) == [k \in DOMAIN table \cup {key} |-> IF k = key THEN value ELSE table[k]]
=============================================================================
