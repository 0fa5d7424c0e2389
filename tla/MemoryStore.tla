---------------------------- MODULE MemoryStore ----------------------------
(***************************************************************************)
(* aa-memory: the canonical record store (src/memory/store), the typed     *)
(* repositories over it with the lifecycle state machine (src/memory/repo) *)
(* and the derived projection (src/memory/projection), opened by           *)
(* memory.Open.                                                            *)
(*                                                                         *)
(* A record's file holds its data, revision included (also when it is      *)
(* ingested), so the content hash of two records is equal exactly when the *)
(* records are.  What is ingested is looked at by nobody: a record may     *)
(* come in any lifecycle, or in none the contracts know (state None).      *)
(*                                                                         *)
(* Calls are made by several goroutines.  The store takes no lock around a *)
(* record: its callers write one record one at a time (projectstate holds  *)
(* a mutex), which is what Free says; so the reads of a call, up to the    *)
(* check in PutRecord, are one step, and the rename and the projection,    *)
(* which a crash can separate, one each.  The event log has its mutex:     *)
(* AppendEvent is one step, with what a failing write may leave in the     *)
(* file.                                                                   *)
(***************************************************************************)
EXTENDS Integers, Sequences, FiniteSets

CONSTANTS
    Clients,     \* goroutines that call the repositories
    MemoryIds,   \* ids of memory records
    StrategyIds, \* ids of strategies
    IssueIds,    \* ids of issues
    TraceIds,    \* ids of traces
    Bodies,      \* what one proposal of a record may differ in
    Pointers,    \* what a proposal may say that it supersedes
    Incoming,    \* per id: the records that may be ingested under it
    Events,      \* ids of events
    Existing,    \* the records on disk when the store is first opened
    None,        \* no record
    MaxRevision, \* bound on revisions
    MaxCalls,    \* bound on calls
    MaxFaults    \* bound on failed writes and crashes

Ids == MemoryIds \cup StrategyIds \cup IssueIds \cup TraceIds
Lifecycled == MemoryIds \cup StrategyIds

ASSUME NoneAssumption == None \notin Ids
ASSUME BoundsAssumption == MaxRevision \in Nat /\ MaxCalls \in Nat /\ MaxFaults \in Nat

VARIABLES
    disk,    \* the record files
    proj,    \* MemProjection.entries
    raw,     \* records whose last write went to the store only
    ingested, \* history: records ever written to the store only
    op,      \* the calls under way
    log,     \* events.jsonl
    known,    \* Store.seen
    acked,   \* events whose append returned true
    up,      \* the process runs
    calls,   \* calls made so far
    faults   \* failed writes and crashes so far

msVars == <<disk, proj, raw, ingested, op, log, known, acked, up, calls, faults>>

Lifecycles == {"EPHEMERAL", "CANDIDATE", "VALIDATED", "ACTIVE", "SUPERSEDED", "ARCHIVED"}
IssueStates == {"open", "closed"}

Record == [rev : 0 .. MaxRevision, state : Lifecycles \cup IssueStates \cup {None},
           supersedes : Ids \cup {None}, body : Bodies]

ASSUME ExistingAssumption == Existing \in [Ids -> Record \cup {None}] /\ None \notin Record

\* The kinds keep their records in directories of their own.
ASSUME KindsAssumption == Lifecycled \cap (IssueIds \cup TraceIds) = {}

\* The repositories validate what a proposal supersedes as an identifier only.
ASSUME PointersAssumption == Pointers \subseteq Ids \cup {None}

ASSUME IncomingAssumption == Incoming \in [Ids -> SUBSET Record]

\* A call: where it is, the record it is about to write or to project, the
\* record Supersede goes on with, and whether the projection is refreshed.
Call(pc, id, new, next, typed) == [pc |-> pc, id |-> id, new |-> new, next |-> next, typed |-> typed]
Idle == Call("idle", None, None, None, TRUE)

NoEntries == [r \in Ids |-> None]

\* The store before memory.Open.  The repositories start at revision 1: a record at
\* revision 0 was ingested.
MSInit ==
    /\ disk = Existing /\ proj = NoEntries /\ raw = {}
    /\ ingested = {r \in Ids : Existing[r] # None /\ Existing[r].rev = 0}
    /\ op = [c \in Clients |-> Idle]
    /\ log = [lines |-> <<>>, open |-> FALSE, corrupt |-> FALSE]
    /\ known = {} /\ acked = {}
    /\ up = FALSE /\ calls = 0 /\ faults = 0

----------------------------------------------------------------------------
(* The store and the projection.                                           *)

Stored(r) == disk[r] # None

\* PutRecord as a plain overwrite of whatever is there.
WillWrite_Always(r, new) == TRUE

\* PutRecord: the same content changes nothing and an older revision is
\* refused; otherwise the file is written.
WillWrite(r, new) == Stored(r) => new # disk[r] /\ new.rev > disk[r].rev

\* MemProjection.Put: the same content or an older revision changes nothing
\* (putTyped drops the error).
Projected(r, new) ==
    IF proj[r] # None /\ (proj[r] = new \/ new.rev < proj[r].rev) THEN proj ELSE [proj EXCEPT ![r] = new]

\* Nobody else writes the record.
Free(r) == \A c \in Clients : r \notin {op[c].id, op[c].next}

\* A call that has read what it needs: it goes on to write new, or returns
\* because PutRecord has nothing to write or refuses.
Put(c, r, new, next, typed) ==
    /\ new.rev <= MaxRevision
    /\ op' = [op EXCEPT ![c] = IF WillWrite(r, new)
                               THEN Call("rename", r, new, next, typed)
                               ELSE Idle]

Enter(c, r) ==
    /\ up /\ op[c].pc = "idle" /\ Free(r)
    /\ calls < MaxCalls /\ calls' = calls + 1
    /\ UNCHANGED <<disk, proj, raw, ingested, log, known, acked, up, faults>>

\* writeFileAtomic: the temporary file replaces the record's.
Rename(c) ==
    /\ op[c].pc = "rename"
    /\ disk' = [disk EXCEPT ![op[c].id] = op[c].new]
    /\ raw' = IF op[c].typed THEN raw \ {op[c].id} ELSE raw \cup {op[c].id}
    /\ ingested' = IF op[c].typed THEN ingested ELSE ingested \cup {op[c].id}
    /\ op' = [op EXCEPT ![c] = IF op[c].typed THEN Call("project", op[c].id, op[c].new, op[c].next, TRUE) ELSE Idle]
    /\ UNCHANGED <<proj, log, known, acked, up, calls, faults>>

Fault == faults < MaxFaults /\ faults' = faults + 1

\* What is left of a call after its record is projected: Supersede's second
\* half, or nothing.
Rest(x) == IF x.next = None THEN Idle ELSE Call("second", x.id, None, x.next, TRUE)

\* A failed write that Supersede does not notice.
RenameFails_Ignored(c) ==
    /\ op[c].pc = "rename"
    /\ Fault
    /\ op' = [op EXCEPT ![c] = Rest(op[c])]
    /\ UNCHANGED <<disk, proj, raw, ingested, log, known, acked, up, calls>>

\* A write that fails: the record's file is untouched and the call returns.
RenameFails(c) ==
    /\ op[c].pc = "rename"
    /\ Fault
    /\ op' = [op EXCEPT ![c] = Idle]
    /\ UNCHANGED <<disk, proj, raw, ingested, log, known, acked, up, calls>>

\* putTyped without the refresh of the projection.
Project_Skipped(c) ==
    /\ op[c].pc = "project"
    /\ op' = [op EXCEPT ![c] = Rest(op[c])]
    /\ UNCHANGED <<disk, proj, raw, ingested, log, known, acked, up, calls, faults>>

\* putTyped refreshes the projection with the record it wrote.
Project(c) ==
    /\ op[c].pc = "project"
    /\ proj' = Projected(op[c].id, op[c].new)
    /\ op' = [op EXCEPT ![c] = Rest(op[c])]
    /\ UNCHANGED <<disk, raw, ingested, log, known, acked, up, calls, faults>>

----------------------------------------------------------------------------
(* The repositories.                                                       *)

\* A new record, and the next revision of one that is stored.
New(rev, state, supersedes, body) == [rev |-> rev, state |-> state, supersedes |-> supersedes, body |-> body]
NextRevision(r, state, supersedes) ==
    [rev |-> disk[r].rev + 1, state |-> state, supersedes |-> supersedes, body |-> disk[r].body]

\* The lifecycle state machine.
CanTransition(from, to) ==
    \/ from = to
    \/ from = "EPHEMERAL" /\ to = "CANDIDATE"
    \/ from = "CANDIDATE" /\ to = "VALIDATED"
    \/ from = "VALIDATED" /\ to = "ACTIVE"
    \/ from = "ACTIVE" /\ to = "SUPERSEDED"
    \/ from \in Lifecycles \ {"ARCHIVED"} /\ to = "ARCHIVED"

\* Propose always writes revision 1 as a candidate, with what the caller says it
\* supersedes: a stored record is left as it is, the call returning an error unless
\* the content is the same.
Propose(c, r, supersedes, body) ==
    /\ Enter(c, r)
    /\ Put(c, r, New(1, "CANDIDATE", supersedes, body), None, TRUE)

\* Transition; a missing record or an illegal transition is an error, and the
\* state it is in already is no change.
Transition(c, r, to) ==
    /\ Stored(r) /\ disk[r].state # to /\ CanTransition(disk[r].state, to)
    /\ Enter(c, r)
    /\ Put(c, r, NextRevision(r, to, disk[r].supersedes), None, TRUE)

\* Supersede's first half: old becomes superseded.
Supersede(c, old, new) ==
    /\ old # new /\ Free(new)
    /\ Stored(old) /\ CanTransition(disk[old].state, "SUPERSEDED")
    /\ Enter(c, old)
    /\ IF disk[old].state = "SUPERSEDED"
       THEN op' = [op EXCEPT ![c] = Call("second", old, None, new, TRUE)]
       ELSE Put(c, old, NextRevision(old, "SUPERSEDED", disk[old].supersedes), new, TRUE)

\* Its second half: new, if there is such a record and it validates, points at old.
SecondHalf(c) ==
    LET old == op[c].id
        r == op[c].next
    IN  /\ op[c].pc = "second"
        /\ IF Stored(r) /\ disk[r].state \in Lifecycles
           THEN Put(c, r, NextRevision(r, disk[r].state, old), None, TRUE)
           ELSE op' = [op EXCEPT ![c] = Idle]
        /\ UNCHANGED <<disk, proj, raw, ingested, log, known, acked, up, calls, faults>>

MemoryRecordRepository(c) ==
    \E r \in MemoryIds :
        \/ \E supersedes \in Pointers, body \in Bodies : Propose(c, r, supersedes, body)
        \/ \E to \in Lifecycles : Transition(c, r, to)
        \/ \E next \in MemoryIds : Supersede(c, r, next)

StrategyRepository(c) ==
    \E r \in StrategyIds :
        \/ \E supersedes \in Pointers, body \in Bodies : Propose(c, r, supersedes, body)
        \/ \E to \in Lifecycles : Transition(c, r, to)
        \/ \E next \in StrategyIds : Supersede(c, r, next)

\* Create and SetStatus; the status of an issue may change freely.
IssueRepository(c) ==
    \E r \in IssueIds, status \in IssueStates :
        \/ Enter(c, r) /\ \E body \in Bodies : Put(c, r, New(1, status, None, body), None, TRUE)
        \/ /\ Stored(r) /\ disk[r].state # status
           /\ Enter(c, r)
           /\ Put(c, r, NextRevision(r, status, disk[r].supersedes), None, TRUE)

\* Ingest takes the revision the trace carries.
TraceRepository(c) ==
    \E r \in TraceIds, rev \in 0 .. MaxRevision, body \in Bodies :
        /\ Enter(c, r)
        /\ Put(c, r, New(rev, None, None, body), None, TRUE)

\* Memory.PutRecord, and IngestRecords for each record of its batch in turn, take a
\* record of any kind as it comes, write it to the store and leave the projection to
\* the next Rebuild.
IngestRecords(c) ==
    \E r \in Ids : \E new \in Incoming[r] :
        /\ Enter(c, r)
        /\ Put(c, r, new, None, FALSE)

----------------------------------------------------------------------------
(* The event log.                                                          *)

Lines == {log.lines[i] : i \in DOMAIN log.lines}

\* loadSeen that never reads the file.
LoadSeen_MemoryOnly == known

\* loadSeen: the file is read when the table is empty.
LoadSeen == IF known = {} THEN Lines ELSE known

\* One write to the file: an event behind a line that lacks its end spoils
\* both, and a write cut short spoils its line, or only lacks the line's end.
Written(e, how) ==
    [lines   |-> IF how = "none" THEN log.lines ELSE Append(log.lines, e),
     open    |-> IF how = "none" THEN log.open ELSE how # "all",
     corrupt |-> log.corrupt \/ (how # "none" /\ log.open) \/ how = "half"]

\* AppendEvent: a corrupt file is an error when it has to be read, and an event
\* known before changes nothing.
AppendEvent(e) ==
    /\ up /\ calls < MaxCalls /\ calls' = calls + 1
    /\ ~(known = {} /\ log.corrupt)
    /\ IF e \in LoadSeen
       THEN known' = LoadSeen /\ UNCHANGED <<log, acked, faults>>
       ELSE \/ /\ log' = Written(e, "all")
               /\ known' = LoadSeen \cup {e} /\ acked' = acked \cup {e}
               /\ UNCHANGED faults
            \/ /\ Fault
               /\ \E how \in {"none", "half", "line"} : log' = Written(e, how)
               /\ known' = LoadSeen
               /\ UNCHANGED acked
    /\ UNCHANGED <<disk, proj, raw, ingested, op, up>>

----------------------------------------------------------------------------
(* The process.                                                            *)

\* memory.Open: the projection is rebuilt from every record on disk.
Open ==
    /\ ~up /\ up' = TRUE
    /\ proj' = disk /\ raw' = {}
    /\ UNCHANGED <<disk, ingested, op, log, known, acked, calls, faults>>

\* Rebuild, when nobody writes.
Rebuild ==
    /\ up /\ \A c \in Clients : op[c].pc = "idle"
    /\ proj' = disk /\ raw' = {}
    /\ UNCHANGED <<disk, ingested, op, log, known, acked, up, calls, faults>>

\* The process stops: the files stay.
Crash ==
    /\ up /\ Fault
    /\ up' = FALSE
    /\ op' = [c \in Clients |-> Idle] /\ proj' = NoEntries /\ known' = {}
    /\ UNCHANGED <<disk, raw, ingested, log, acked, calls>>

MSNext ==
    \/ \E c \in Clients :
          \/ MemoryRecordRepository(c) \/ StrategyRepository(c) \/ IssueRepository(c)
          \/ TraceRepository(c) \/ IngestRecords(c)
          \/ Rename(c) \/ RenameFails(c) \/ Project(c) \/ SecondHalf(c)
    \/ \E e \in Events : AppendEvent(e)
    \/ Open \/ Rebuild \/ Crash

MSSpec == MSInit /\ [][MSNext]_msVars

----------------------------------------------------------------------------
\* Where a proposal can still write: nothing is stored, or a record ingested at
\* revision 0.
Begins(r) == Stored(r) => disk[r].rev = 0

\* No record file ever goes back to an older revision, whoever writes it; and what
\* the repositories write of a lifecycled record is its candidate or a move along
\* the state machine from what is on disk, through failed writes, crashes, repeated
\* proposals and records replaced behind their back (Propose, Transition, Supersede,
\* PutRecord).
LifecycleKept ==
    [][\A r \in Ids : disk'[r] # disk[r] =>
          /\ Stored(r) => disk'[r].rev > disk[r].rev
          /\ r \in Lifecycled /\ r \notin raw' =>
                \/ Begins(r) /\ disk'[r].state = "CANDIDATE"
                \/ /\ Stored(r)
                   /\ <<disk[r].state, disk'[r].state>> \in
                        {<<"EPHEMERAL", "CANDIDATE">>, <<"CANDIDATE", "VALIDATED">>,
                         <<"VALIDATED", "ACTIVE">>, <<"ACTIVE", "SUPERSEDED">>}
                        \cup {<<s, s>> : s \in Lifecycles} \cup {<<s, "ARCHIVED">> : s \in Lifecycles}]_msVars

\* Superseded, or archived since.
Retired(r) == Stored(r) /\ disk[r].state \in {"SUPERSEDED", "ARCHIVED"}

\* Supersede points a stored record at another one only when that one is superseded,
\* or archived since, on disk, unless it was ever replaced behind the repositories'
\* back: a stop or a failed write between Supersede's two writes leaves a superseded
\* record without successor, never a successor beside a record in force.  What a
\* proposal says that it supersedes is the caller's word, and excluded.
RetiredFirst ==
    [][\A r \in Lifecycled :
          /\ ~Begins(r) /\ r \notin raw'
          /\ disk'[r].supersedes # disk[r].supersedes
          => disk'[r].supersedes \in ingested \/ Retired(disk'[r].supersedes)]_msVars

\* The projection is never ahead of the records, and shows each one that no
\* call is writing as it is on disk, except one last written to the store only
\* (putTyped, MemProjection.Put, Rebuild).
ProjectionCurrent ==
    \A r \in Ids :
        /\ proj[r] # None => disk[r] # None /\ proj[r].rev <= disk[r].rev
        /\ up /\ r \notin raw /\ (\A c \in Clients : op[c].id # r) => proj[r] = disk[r]

\* A log that can be read holds every event whose append succeeded, and each
\* event once, through failed appends that are tried again and restarts
\* (AppendEvent, loadSeen).
EventsKept ==
    ~log.corrupt => /\ acked \subseteq Lines
                    /\ Len(log.lines) = Cardinality(Lines)
============================================================================
