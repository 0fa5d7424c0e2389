--------------------------- MODULE MCMemoryStore ---------------------------
(***************************************************************************)
(* Two memory records of an earlier session, one active and one validated; *)
(* a third one, a strategy, an issue and a trace that are not there yet.   *)
(***************************************************************************)
EXTENDS MemoryStore

MCExisting ==
    [r \in Ids |-> IF r \in {1, 2}
                   THEN [rev |-> 1, state |-> IF r = 1 THEN "ACTIVE" ELSE "VALIDATED", supersedes |-> None, body |-> 1]
                   ELSE None]

\* What is ingested: the active record once more, at a revision that its
\* supersession may have reached or not; an ephemeral and an active record at
\* revision 0, the latter with a pointer; a strategy whose lifecycle nobody
\* knows; an issue without status; a trace.
Came(rev, state, supersedes) == [rev |-> rev, state |-> state, supersedes |-> supersedes, body |-> 1]
MCIncoming ==
    [r \in Ids |-> CASE r = 1 -> {Came(2, "ACTIVE", None), Came(3, "ACTIVE", 2)}
                     [] r = 2 -> {}
                     [] r = 6 -> {Came(0, "ACTIVE", 2), Came(0, "EPHEMERAL", None)}
                     [] r \in TraceIds -> {Came(2, None, None)}
                     [] OTHER -> {Came(1, None, None)}]
============================================================================
