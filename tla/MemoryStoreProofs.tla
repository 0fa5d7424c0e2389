------------------------- MODULE MemoryStoreProofs -------------------------
(***************************************************************************)
(* Proofs about MemoryStore for any set of records, callers and events and *)
(* any bound on revisions, calls and faults.                               *)
(*                                                                         *)
(* What the store promises speaks of the files and the projection between  *)
(* calls, so none of it is inductive: a call reads a record in one step    *)
(* and replaces it in a later one, and refreshes the projection in a third.*)
(* The invariant says what is known of a record while a call is between    *)
(* them: nobody else has it, what is about to be written follows what is   *)
(* on disk, and what is about to be projected is what is on disk.          *)
(***************************************************************************)
EXTENDS MemoryStore, TLAPS, FiniteSetTheorems

Calls == [pc : {"idle", "rename", "project", "second"}, id : Ids \cup {None}, new : Record \cup {None},
          next : Ids \cup {None}, typed : BOOLEAN]

StoreType ==
    /\ disk \in [Ids -> Record \cup {None}]
    /\ proj \in [Ids -> Record \cup {None}]
    /\ op \in [Clients -> Calls]

\* Retired by the repositories' hands, which cannot be undone by them, or ever
\* replaced behind their back.
Settled(r) == r \in ingested \/ Retired(r)

\* The moves of a lifecycled record that the repositories make.
Moves(from, to) ==
    /\ from \in Lifecycles
    /\ \/ from = to
       \/ from = "EPHEMERAL" /\ to = "CANDIDATE"
       \/ from = "CANDIDATE" /\ to = "VALIDATED"
       \/ from = "VALIDATED" /\ to = "ACTIVE"
       \/ from = "ACTIVE" /\ to = "SUPERSEDED"
       \/ to = "ARCHIVED"

\* new may take the place of what is stored under r.
Follows(r, new) == Stored(r) => new.rev > disk[r].rev

\* What a repository may make of a lifecycled record.
ByRepository(r, new) == r \in Lifecycled =>
    /\ new.rev # 0
    /\ \/ Begins(r) /\ new.state = "CANDIDATE"
       \/ Stored(r) /\ Moves(disk[r].state, new.state)
    /\ ~Begins(r) /\ new.supersedes # disk[r].supersedes =>
          new.supersedes \in Lifecycled /\ Settled(new.supersedes)

\* Two calls never hold the same record.
HeldOnce ==
    \A c, d \in Clients : c # d =>
        \A r \in Ids : r \in {op[c].id, op[c].next} => r \notin {op[d].id, op[d].next}

\* What is known of a call that is about to write, to project, or to go on
\* with Supersede.
AtRename(x) == x.pc = "rename" =>
    /\ x.new # None
    /\ Follows(x.id, x.new) /\ (x.typed => ByRepository(x.id, x.new))
    /\ x.next # None => x.new.state = "SUPERSEDED" /\ x.typed

AtProject(x) == x.pc = "project" =>
    /\ x.new = disk[x.id] /\ x.new # None
    /\ x.id \notin raw
    /\ x.next # None => x.new.state = "SUPERSEDED"

AtSecond(x) == x.pc = "second" => Settled(x.id) /\ x.next # None

CallOk(x) ==
    /\ x.pc = "idle" => x.id = None /\ x.next = None
    /\ x.pc # "idle" => up /\ x.id \in Ids
    /\ x.next # None => x.id \in Lifecycled /\ x.next \in Lifecycled
    /\ AtRename(x) /\ AtProject(x) /\ AtSecond(x)

CallsInv == \A c \in Clients : CallOk(op[c])

\* A lifecycled record at revision 0 was ingested.
FilesInv == \A r \in Lifecycled : Stored(r) /\ disk[r].rev = 0 => r \in ingested

\* The projection lags only behind a call that is about to refresh it.
ProjectionInv ==
    \A r \in Ids :
        /\ proj[r] # None => disk[r] # None /\ proj[r].rev <= disk[r].rev
        /\ up /\ r \notin raw /\ (\A c \in Clients : op[c].pc = "project" => op[c].id # r) => proj[r] = disk[r]

StoreInv == StoreType /\ HeldOnce /\ CallsInv /\ FilesInv /\ ProjectionInv

----------------------------------------------------------------------------
(* The calls.                                                              *)

\* A record that a repository replaces stays retired if it was.
LEMMA RetiredStays ==
    ASSUME NEW r \in Lifecycled, NEW new, Retired(r), ~Begins(r), ByRepository(r, new)
    PROVE  new.state \in {"SUPERSEDED", "ARCHIVED"}
BY DEF Retired, ByRepository, Moves

\* A step that changes where one call is, and neither the files nor the
\* projection.
LEMMA CallMoves ==
    ASSUME StoreInv, NEW c \in Clients, NEW x \in Calls,
           op' = [op EXCEPT ![c] = x], UNCHANGED <<disk, proj, raw, ingested, up>>,
           op[c].pc # "project", CallOk(x),
           \A r \in Ids : r \in {x.id, x.next} =>
               \A d \in Clients : d # c => r \notin {op[d].id, op[d].next}
    PROVE  StoreInv'
<1>1. StoreType'
    BY DEF StoreInv, StoreType
<1>2. HeldOnce'
    BY DEF StoreInv, StoreType, HeldOnce
<1>3. CallsInv'
  <2> SUFFICES ASSUME NEW d \in Clients PROVE CallOk(op[d])'
    BY DEF CallsInv
  <2>1. CallOk(op[d]) /\ op'[d] = (IF d = c THEN x ELSE op[d])
    BY DEF StoreInv, StoreType, CallsInv
  <2> QED
    BY <2>1 DEF CallOk, AtRename, AtProject, AtSecond, Follows, ByRepository, Begins, Stored, Settled, Retired
<1>4. FilesInv'
    BY DEF StoreInv, FilesInv, Stored
<1>5. ProjectionInv'
    BY DEF StoreInv, StoreType, ProjectionInv
<1> QED
    BY <1>1, <1>2, <1>3, <1>4, <1>5 DEF StoreInv

\* A call that reaches PutRecord with a record that may follow the stored one.
LEMMA PutKeeps ==
    ASSUME StoreInv, NEW c \in Clients, NEW r \in Ids, NEW new, NEW next \in Ids \cup {None},
           NEW typed \in BOOLEAN,
           Put(c, r, new, next, typed), UNCHANGED <<disk, proj, raw, ingested, up>>, up,
           op[c].pc # "project",
           \A d \in Clients : d # c => r \notin {op[d].id, op[d].next} /\ next \notin {op[d].id, op[d].next} \ {None},
           new.rev <= MaxRevision => new \in Record,
           typed /\ WillWrite(r, new) => ByRepository(r, new),
           next # None => typed /\ new.state = "SUPERSEDED" /\ r \in Lifecycled /\ next \in Lifecycled
    PROVE  StoreInv'
<1>1. new \in Record /\ new # None
    BY ExistingAssumption DEF Put
<1>2. CASE WillWrite(r, new)
  <2> DEFINE x == Call("rename", r, new, next, typed)
  <2>1. x \in Calls /\ op' = [op EXCEPT ![c] = x]
    BY <1>1, <1>2 DEF Put, Calls, Call
  <2>2. CallOk(x)
    BY <1>1, <1>2, NoneAssumption DEF CallOk, AtRename, AtProject, AtSecond, Follows, WillWrite, Stored, Call
  <2>3. x.id = r /\ x.next = next
    BY DEF Call
  <2> HIDE DEF x
  <2>4. \A q \in Ids : q \in {x.id, x.next} => \A d \in Clients : d # c => q \notin {op[d].id, op[d].next}
    BY <2>3, NoneAssumption
  <2> QED
    BY <2>1, <2>2, <2>4, CallMoves
<1>3. CASE ~WillWrite(r, new)
  <2>1. Idle \in Calls /\ CallOk(Idle) /\ op' = [op EXCEPT ![c] = Idle]
    BY <1>3 DEF Put, Calls, Call, Idle, CallOk, AtRename, AtProject, AtSecond
  <2>2. \A q \in Ids : q \notin {Idle.id, Idle.next}
    BY NoneAssumption DEF Idle, Call
  <2> QED
    BY <2>1, <2>2, CallMoves
<1> QED
    BY <1>2, <1>3

\* What a call may assume of the record it enters with.
LEMMA EnterFacts ==
    ASSUME StoreInv, NEW c \in Clients, NEW r \in Ids, Enter(c, r)
    PROVE  /\ UNCHANGED <<disk, proj, raw, ingested, up>> /\ up /\ op[c].pc = "idle"
           /\ \A d \in Clients : r \notin {op[d].id, op[d].next}
BY DEF Enter, Free

\* The next revision of a stored record is a record at a positive revision.
LEMMA NextRevisionFacts ==
    ASSUME StoreInv, NEW r \in Ids, disk[r] # None,
           NEW state \in Lifecycles \cup IssueStates \cup {None}, NEW target \in Ids \cup {None}
    PROVE  LET new == NextRevision(r, state, target)
           IN  /\ new.rev <= MaxRevision => new \in Record
               /\ new.rev # 0 /\ new.state = state /\ new.supersedes = target
               /\ disk[r] \in Record
<1>1. disk[r] \in Record
    BY DEF StoreInv, StoreType
<1> QED
    BY <1>1, BoundsAssumption DEF NextRevision, Record

LEMMA ProposeKeeps ==
    ASSUME StoreInv, NEW c \in Clients, NEW r \in Lifecycled, NEW supersedes \in Pointers, NEW body \in Bodies,
           Propose(c, r, supersedes, body)
    PROVE  StoreInv'
<1> DEFINE new == New(1, "CANDIDATE", supersedes, body)
<1>1. new.rev = 1 /\ new.state = "CANDIDATE"
    BY DEF New
<1>2. new.rev <= MaxRevision => new \in Record
    BY BoundsAssumption, PointersAssumption DEF New, Record, Lifecycles
<1>3. r \in Ids
    BY DEF Lifecycled, Ids
<1>4. WillWrite(r, new) => Begins(r)
    BY <1>1, <1>3 DEF StoreInv, StoreType, WillWrite, Begins, Stored, Record
<1>5. Put(c, r, new, None, TRUE) /\ Enter(c, r)
    BY DEF Propose
<1> HIDE DEF new
<1>6. /\ UNCHANGED <<disk, proj, raw, ingested, up>> /\ up /\ op[c].pc # "project"
      /\ \A d \in Clients : d # c => r \notin {op[d].id, op[d].next} /\ None \notin {op[d].id, op[d].next} \ {None}
    BY <1>3, <1>5, EnterFacts
<1>7. WillWrite(r, new) => ByRepository(r, new)
    BY <1>1, <1>4 DEF ByRepository
<1> QED
    BY <1>2, <1>3, <1>5, <1>6, <1>7, PutKeeps

LEMMA TransitionKeeps ==
    ASSUME StoreInv, NEW c \in Clients, NEW r \in Lifecycled, NEW to \in Lifecycles, Transition(c, r, to)
    PROVE  StoreInv'
<1> DEFINE new == NextRevision(r, to, disk[r].supersedes)
<1>1. r \in Ids /\ disk[r] # None
    BY DEF Lifecycled, Ids, Transition, Stored
<1>2. disk[r].supersedes \in Ids \cup {None}
    BY <1>1 DEF StoreInv, StoreType, Record
<1>3. /\ new.rev <= MaxRevision => new \in Record
      /\ new.rev # 0 /\ new.state = to /\ new.supersedes = disk[r].supersedes
    BY <1>1, <1>2, NextRevisionFacts
<1>4. Moves(disk[r].state, new.state)
    BY <1>3 DEF Moves, Transition, CanTransition, Lifecycles
<1>5. ByRepository(r, new)
    BY <1>1, <1>3, <1>4 DEF ByRepository, Stored
<1>6. Put(c, r, new, None, TRUE) /\ Enter(c, r)
    BY DEF Transition
<1> HIDE DEF new
<1> QED
    BY <1>1, <1>3, <1>5, <1>6, EnterFacts, PutKeeps

LEMMA SupersedeKeeps ==
    ASSUME StoreInv, NEW c \in Clients, NEW old \in Lifecycled, NEW next \in Lifecycled, Supersede(c, old, next)
    PROVE  StoreInv'
<1>1. /\ old \in Ids /\ next \in Ids /\ old # None /\ next # None /\ disk[old] # None
      /\ Enter(c, old) /\ \A d \in Clients : next \notin {op[d].id, op[d].next}
    BY NoneAssumption DEF Lifecycled, Ids, Supersede, Stored, Free
<1>2. CASE disk[old].state = "SUPERSEDED"
  <2> DEFINE x == Call("second", old, None, next, TRUE)
  <2>1. x \in Calls /\ op' = [op EXCEPT ![c] = x]
    BY <1>1, <1>2 DEF Supersede, Calls, Call
  <2>2. CallOk(x) /\ x.id = old /\ x.next = next
    BY <1>1, <1>2, EnterFacts DEF CallOk, AtRename, AtProject, AtSecond, Settled, Retired, Stored, Call
  <2> HIDE DEF x
  <2>3. \A q \in Ids : q \in {x.id, x.next} => \A d \in Clients : d # c => q \notin {op[d].id, op[d].next}
    BY <1>1, <2>2, EnterFacts
  <2> QED
    BY <1>1, <2>1, <2>2, <2>3, EnterFacts, CallMoves
<1>3. CASE disk[old].state # "SUPERSEDED"
  <2> DEFINE new == NextRevision(old, "SUPERSEDED", disk[old].supersedes)
  <2>1. disk[old].supersedes \in Ids \cup {None}
    BY <1>1 DEF StoreInv, StoreType, Record
  <2>2. /\ new.rev <= MaxRevision => new \in Record
        /\ new.rev # 0 /\ new.state = "SUPERSEDED" /\ new.supersedes = disk[old].supersedes
    BY <1>1, <2>1, NextRevisionFacts, SMTT(40) DEF Lifecycles
  <2>3. Moves(disk[old].state, new.state)
    BY <1>3, <2>2 DEF Moves, Supersede, CanTransition, Lifecycles
  <2>4. ByRepository(old, new)
    BY <1>1, <2>2, <2>3 DEF ByRepository, Stored
  <2>5. Put(c, old, new, next, TRUE)
    BY <1>3 DEF Supersede
  <2> HIDE DEF new
  <2>6. /\ UNCHANGED <<disk, proj, raw, ingested, up>> /\ up /\ op[c].pc # "project"
        /\ \A d \in Clients : d # c =>
               old \notin {op[d].id, op[d].next} /\ next \notin {op[d].id, op[d].next} \ {None}
    BY <1>1, EnterFacts
  <2> QED
    BY <1>1, <2>2, <2>4, <2>5, <2>6, PutKeeps
<1> QED
    BY <1>2, <1>3

LEMMA SecondHalfKeeps ==
    ASSUME StoreInv, NEW c \in Clients, SecondHalf(c)
    PROVE  StoreInv'
<1> DEFINE old == op[c].id
           r == op[c].next
<1>1. /\ op[c].pc = "second" /\ UNCHANGED <<disk, proj, raw, ingested, up>> /\ up
      /\ old \in Lifecycled /\ Settled(old) /\ r \in Lifecycled
    BY DEF SecondHalf, StoreInv, CallsInv, CallOk, AtSecond
<1>2. r \in Ids /\ old \in Ids
    BY <1>1 DEF Lifecycled, Ids
<1>3. \A d \in Clients : d # c => r \notin {op[d].id, op[d].next}
    BY <1>2 DEF StoreInv, HeldOnce
<1>4. CASE Stored(r) /\ disk[r].state \in Lifecycles
  <2> DEFINE new == NextRevision(r, disk[r].state, old)
  <2>1. disk[r].state \in Lifecycles \cup IssueStates \cup {None}
    BY <1>4
  <2>2. /\ new.rev <= MaxRevision => new \in Record
        /\ new.rev # 0 /\ new.state = disk[r].state /\ new.supersedes = old
    BY <1>2, <1>4, <2>1, NextRevisionFacts DEF Stored
  <2>3. ByRepository(r, new)
    BY <1>1, <1>4, <2>2 DEF ByRepository, Moves
  <2>4. Put(c, r, new, None, TRUE)
    BY <1>4 DEF SecondHalf
  <2> HIDE DEF new, old, r
  <2> QED
    BY <1>1, <1>2, <1>3, <2>2, <2>3, <2>4, PutKeeps
<1>5. CASE ~(Stored(r) /\ disk[r].state \in Lifecycles)
  <2>1. Idle \in Calls /\ CallOk(Idle) /\ op' = [op EXCEPT ![c] = Idle]
    BY <1>5 DEF SecondHalf, Calls, Call, Idle, CallOk, AtRename, AtProject, AtSecond
  <2>2. \A q \in Ids : q \notin {Idle.id, Idle.next}
    BY NoneAssumption DEF Idle, Call
  <2> QED
    BY <1>1, <2>1, <2>2, CallMoves
<1> QED
    BY <1>4, <1>5

\* A repository has nothing to keep of an issue or a trace, and nobody looks at
\* what is ingested.
LEMMA OtherCallsKeep ==
    ASSUME StoreInv, NEW c \in Clients, NEW r \in Ids, NEW new, NEW typed \in BOOLEAN,
           typed => r \notin Lifecycled,
           Enter(c, r), Put(c, r, new, None, typed),
           new.rev <= MaxRevision => new \in Record
    PROVE  StoreInv'
<1>1. /\ UNCHANGED <<disk, proj, raw, ingested, up>> /\ up /\ op[c].pc # "project"
      /\ \A d \in Clients : d # c => r \notin {op[d].id, op[d].next} /\ None \notin {op[d].id, op[d].next} \ {None}
    BY EnterFacts
<1>2. typed => ByRepository(r, new)
    BY DEF ByRepository
<1> QED
    BY <1>1, <1>2, PutKeeps

\* A revision of a trace or of a new issue.
LEMMA NewFacts ==
    ASSUME NEW rev \in Nat, NEW state \in Lifecycles \cup IssueStates \cup {None}, NEW body \in Bodies
    PROVE  LET new == New(rev, state, None, body)
           IN  new.rev <= MaxRevision => new \in Record
BY BoundsAssumption DEF New, Record

LEMMA IssueKeeps ==
    ASSUME StoreInv, NEW c \in Clients, IssueRepository(c)
    PROVE  StoreInv'
<1> PICK r \in IssueIds, status \in IssueStates :
        \/ Enter(c, r) /\ \E body \in Bodies : Put(c, r, New(1, status, None, body), None, TRUE)
        \/ /\ Stored(r) /\ disk[r].state # status
           /\ Enter(c, r)
           /\ Put(c, r, NextRevision(r, status, disk[r].supersedes), None, TRUE)
    BY DEF IssueRepository
<1>0. r \in Ids /\ r \notin Lifecycled
    BY KindsAssumption DEF Ids
<1>1. ASSUME Enter(c, r), NEW body \in Bodies, Put(c, r, New(1, status, None, body), None, TRUE)
      PROVE  StoreInv'
  <2> DEFINE new == New(1, status, None, body)
  <2>1. new.rev <= MaxRevision => new \in Record
    BY NewFacts
  <2>2. Put(c, r, new, None, TRUE)
    BY <1>1
  <2> HIDE DEF new
  <2> QED
    BY <1>0, <1>1, <2>1, <2>2, OtherCallsKeep
<1>2. ASSUME Stored(r), Enter(c, r), Put(c, r, NextRevision(r, status, disk[r].supersedes), None, TRUE)
      PROVE  StoreInv'
  <2> DEFINE new == NextRevision(r, status, disk[r].supersedes)
  <2>1. disk[r].supersedes \in Ids \cup {None}
    BY <1>0, <1>2 DEF StoreInv, StoreType, Record, Stored
  <2>2. new.rev <= MaxRevision => new \in Record
    BY <1>0, <1>2, <2>1, NextRevisionFacts DEF Stored
  <2>3. Put(c, r, new, None, TRUE)
    BY <1>2
  <2> HIDE DEF new
  <2> QED
    BY <1>0, <1>2, <2>2, <2>3, OtherCallsKeep
<1> QED
    BY <1>1, <1>2

LEMMA TraceKeeps ==
    ASSUME StoreInv, NEW c \in Clients, TraceRepository(c)
    PROVE  StoreInv'
<1> PICK r \in TraceIds, rev \in 0 .. MaxRevision, body \in Bodies :
        Enter(c, r) /\ Put(c, r, New(rev, None, None, body), None, TRUE)
    BY DEF TraceRepository
<1> DEFINE new == New(rev, None, None, body)
<1>1. new.rev <= MaxRevision => new \in Record
    BY BoundsAssumption, NewFacts
<1>2. r \in Ids /\ r \notin Lifecycled
    BY KindsAssumption DEF Ids
<1> HIDE DEF new
<1> QED
    BY <1>1, <1>2, OtherCallsKeep DEF new

LEMMA IngestKeeps ==
    ASSUME StoreInv, NEW c \in Clients, IngestRecords(c)
    PROVE  StoreInv'
<1> PICK r \in Ids : \E new \in Incoming[r] : Enter(c, r) /\ Put(c, r, new, None, FALSE)
    BY DEF IngestRecords
<1> PICK new \in Incoming[r] : Enter(c, r) /\ Put(c, r, new, None, FALSE)
    OBVIOUS
<1>1. new \in Record
    BY IncomingAssumption
<1> QED
    BY <1>1, OtherCallsKeep

----------------------------------------------------------------------------
(* The writes.                                                             *)

LEMMA RenameKeeps ==
    ASSUME StoreInv, NEW c \in Clients, Rename(c)
    PROVE  StoreInv'
<1> DEFINE id == op[c].id
           new == op[c].new
<1>1. /\ op[c].pc = "rename" /\ id \in Ids /\ up /\ CallOk(op[c]) /\ op[c] \in Calls
      /\ new \in Record /\ new # None /\ Follows(id, new)
      /\ op[c].typed => ByRepository(id, new)
    BY DEF Rename, StoreInv, StoreType, CallsInv, CallOk, AtRename, Calls
<1>2. /\ disk' = [disk EXCEPT ![id] = new] /\ UNCHANGED <<proj, up>>
      /\ disk \in [Ids -> Record \cup {None}] /\ proj \in [Ids -> Record \cup {None}]
      /\ raw' = IF op[c].typed THEN raw \ {id} ELSE raw \cup {id}
      /\ ingested' = IF op[c].typed THEN ingested ELSE ingested \cup {id}
    BY DEF Rename, StoreInv, StoreType
<1> DEFINE x == IF op[c].typed THEN Call("project", id, new, op[c].next, TRUE) ELSE Idle
<1>3. /\ x \in Calls /\ op' = [op EXCEPT ![c] = x]
      /\ op[c].typed => x.pc = "project" /\ x.id = id /\ x.new = new /\ x.next = op[c].next
      /\ ~op[c].typed => x = Idle
  <2>1. op' = [op EXCEPT ![c] = x]
    BY DEF Rename
  <2>2. CASE op[c].typed
    BY <1>1, <2>1, <2>2 DEF Calls, Call
  <2>3. CASE ~op[c].typed
    BY <1>1, <2>1, <2>3 DEF Calls, Call, Idle
  <2> QED
    BY <2>2, <2>3
<1> HIDE DEF x
<1>4. StoreType'
    BY <1>1, <1>2, <1>3 DEF StoreInv, StoreType
<1>5. op[c].next # None => op[c].typed
    BY <1>1 DEF CallOk, AtRename
<1>6. \A r \in Ids : r \in {x.id, x.next} => r \in {id, op[c].next}
    BY <1>3, NoneAssumption DEF Idle, Call
<1>7. HeldOnce'
    BY <1>3, <1>6 DEF StoreInv, StoreType, HeldOnce
<1>8. ASSUME NEW r \in Lifecycled, Settled(r) PROVE Settled(r)'
  <2>1. r \in Ids
    BY DEF Lifecycled, Ids
  <2>2. CASE r \in ingested
    BY <1>2, <2>2 DEF Settled
  <2>3. CASE r \notin ingested /\ Retired(r)
    <3>1. ~Begins(r)
      BY <2>3 DEF StoreInv, FilesInv, Begins, Retired
    <3>2. r = id /\ op[c].typed => new.state \in {"SUPERSEDED", "ARCHIVED"}
      BY <1>1, <2>3, <3>1, RetiredStays
    <3>3. r = id => disk'[r] = new /\ new # None
      BY <1>1, <1>2
    <3>4. r # id => disk'[r] = disk[r]
      BY <1>2, <2>1
    <3>5. CASE r = id /\ ~op[c].typed
      BY <1>2, <3>5 DEF Settled
    <3>6. CASE ~(r = id /\ ~op[c].typed)
      BY <2>3, <3>2, <3>3, <3>4, <3>6 DEF Settled, Retired, Stored
    <3> QED
      BY <3>5, <3>6
  <2> QED
    BY <1>8, <2>2, <2>3 DEF Settled
<1>10. CallsInv'
  <2> SUFFICES ASSUME NEW d \in Clients PROVE CallOk(op[d])'
    BY DEF CallsInv
  <2>1. CASE d = c
    <3>1. op'[d] = x
      BY <1>3, <2>1 DEF StoreInv, StoreType
    <3>2. CASE op[c].typed
      BY <1>1, <1>2, <1>3, <3>1, <3>2 DEF CallOk, AtRename, AtProject, AtSecond
    <3>3. CASE ~op[c].typed
      BY <1>3, <3>1, <3>3 DEF CallOk, AtRename, AtProject, AtSecond, Idle, Call
    <3> QED
      BY <3>2, <3>3
  <2>2. CASE d # c
    <3>1. op'[d] = op[d] /\ CallOk(op[d]) /\ op[d] \in Calls
      BY <1>3, <2>2 DEF StoreInv, StoreType, CallsInv
    <3>2. op[d].pc # "idle" => op[d].id # id
      BY <1>1, <2>2, <3>1 DEF StoreInv, HeldOnce, CallOk
    <3>3. op[d].pc # "idle" => disk'[op[d].id] = disk[op[d].id] /\ (op[d].id \in raw' <=> op[d].id \in raw)
      BY <1>2, <3>1, <3>2 DEF CallOk
    <3>4. AtRename(op[d])'
      <4> SUFFICES ASSUME op[d].pc = "rename" PROVE AtRename(op[d])'
        BY <3>1 DEF AtRename
      <4>1. ASSUME op[d].typed PROVE ByRepository(op[d].id, op[d].new)'
        <5>1. ByRepository(op[d].id, op[d].new)
          BY <3>1, <4>1 DEF CallOk, AtRename
        <5>2. disk'[op[d].id] = disk[op[d].id] /\ op'[d] = op[d]
          BY <3>1, <3>3
        <5> QED
          BY <1>8, <5>1, <5>2 DEF ByRepository, Begins, Stored
      <4> QED
        BY <3>1, <3>3, <4>1 DEF CallOk, AtRename, Follows, Stored
    <3>5. AtProject(op[d])'
      BY <3>1, <3>3 DEF CallOk, AtProject
    <3>6. AtSecond(op[d])'
      <4> SUFFICES ASSUME op[d].pc = "second" PROVE AtSecond(op[d])'
        BY <3>1 DEF AtSecond
      <4>1. Settled(op[d].id) /\ op[d].next # None /\ op[d].id \in Lifecycled
        BY <3>1 DEF CallOk, AtSecond
      <4> QED
        BY <1>8, <3>1, <4>1 DEF AtSecond
    <3> QED
      BY <1>2, <3>1, <3>4, <3>5, <3>6 DEF CallOk
  <2> QED
    BY <2>1, <2>2
<1>11. FilesInv'
  <2> SUFFICES ASSUME NEW r \in Lifecycled, disk'[r] # None, disk'[r].rev = 0 PROVE r \in ingested'
    BY DEF FilesInv, Stored
  <2>1. r \in Ids
    BY DEF Lifecycled, Ids
  <2>2. CASE r = id
    <3>1. disk'[r] = new
      BY <1>1, <1>2, <2>2
    <3>2. ~op[c].typed
      BY <1>1, <2>2, <3>1 DEF ByRepository
    <3> QED
      BY <1>2, <2>2, <3>2
  <2>3. CASE r # id
    BY <1>2, <2>1, <2>3 DEF StoreInv, FilesInv, Stored
  <2> QED
    BY <2>2, <2>3
<1>12. ProjectionInv'
  <2> SUFFICES ASSUME NEW r \in Ids
               PROVE  /\ proj[r] # None => disk'[r] # None /\ proj[r].rev <= disk'[r].rev
                      /\ up /\ r \notin raw' /\ (\A d \in Clients : op'[d].pc = "project" => op'[d].id # r)
                            => proj[r] = disk'[r]
    BY <1>2 DEF ProjectionInv
  <2>1. /\ proj[r] # None => disk[r] # None /\ proj[r].rev <= disk[r].rev
        /\ up /\ r \notin raw /\ (\A d \in Clients : op[d].pc = "project" => op[d].id # r) => proj[r] = disk[r]
    BY DEF StoreInv, ProjectionInv
  <2>2. \A d \in Clients : op'[d] = IF d = c THEN x ELSE op[d]
    BY <1>3 DEF StoreInv, StoreType
  <2>3. CASE r = id
    BY <1>1, <1>2, <1>3, <2>1, <2>2, <2>3 DEF Follows, Stored, Record
  <2>4. CASE r # id
    BY <1>1, <1>2, <2>1, <2>2, <2>4
  <2> QED
    BY <2>3, <2>4
<1> QED
    BY <1>4, <1>7, <1>10, <1>11, <1>12 DEF StoreInv

LEMMA RenameFailsKeeps ==
    ASSUME StoreInv, NEW c \in Clients, RenameFails(c)
    PROVE  StoreInv'
<1>1. Idle \in Calls /\ CallOk(Idle) /\ op' = [op EXCEPT ![c] = Idle]
    BY DEF RenameFails, Calls, Call, Idle, CallOk, AtRename, AtProject, AtSecond
<1>2. \A q \in Ids : q \notin {Idle.id, Idle.next}
    BY NoneAssumption DEF Idle, Call
<1>3. UNCHANGED <<disk, proj, raw, ingested, up>> /\ op[c].pc # "project"
    BY DEF RenameFails
<1> QED
    BY <1>1, <1>2, <1>3, CallMoves

LEMMA ProjectKeeps ==
    ASSUME StoreInv, NEW c \in Clients, Project(c)
    PROVE  StoreInv'
<1> DEFINE id == op[c].id
           new == op[c].new
           x == Rest(op[c])
<1>1. /\ op[c].pc = "project" /\ id \in Ids /\ up /\ CallOk(op[c]) /\ op[c] \in Calls
      /\ new \in Record /\ new # None /\ new = disk[id] /\ id \notin raw
    BY DEF Project, StoreInv, StoreType, CallsInv, CallOk, AtProject, Calls
<1>2. /\ UNCHANGED <<disk, raw, ingested, up>> /\ proj' = Projected(id, new)
      /\ disk \in [Ids -> Record \cup {None}] /\ proj \in [Ids -> Record \cup {None}]
    BY DEF Project, StoreInv, StoreType
<1>3. /\ x \in Calls /\ op' = [op EXCEPT ![c] = x] /\ x.pc # "project" /\ CallOk(x)
      /\ \A r \in Ids : r \in {x.id, x.next} => r \in {id, op[c].next}
  <2>1. op' = [op EXCEPT ![c] = x]
    BY DEF Project
  <2>2. CASE op[c].next = None
    <3>1. x = Idle
      BY <2>2 DEF Rest
    <3> QED
      BY <2>1, <3>1, NoneAssumption DEF Idle, Call, Calls, CallOk, AtRename, AtProject, AtSecond
  <2>3. CASE op[c].next # None
    <3>1. x = Call("second", id, None, op[c].next, TRUE)
      BY <2>3 DEF Rest
    <3>2. Settled(id) /\ id \in Lifecycled /\ op[c].next \in Lifecycled
      BY <1>1, <2>3 DEF CallOk, AtProject, Settled, Retired, Stored
    <3> QED
      BY <1>1, <2>1, <2>3, <3>1, <3>2 DEF Call, Calls, CallOk, AtRename, AtProject, AtSecond
  <2> QED
    BY <2>2, <2>3
<1> HIDE DEF x
<1>4. proj' = [proj EXCEPT ![id] = new]
  <2>1. proj[id] # None => proj[id].rev <= new.rev
    BY <1>1 DEF StoreInv, ProjectionInv
  <2>2. CASE proj[id] # None /\ (proj[id] = new \/ new.rev < proj[id].rev)
    <3>1. proj[id] = new
      BY <1>1, <1>2, <2>1, <2>2 DEF Record
    <3>2. proj' = proj
      BY <1>2, <2>2 DEF Projected
    <3> QED
      BY <1>1, <1>2, <3>1, <3>2
  <2>3. CASE ~(proj[id] # None /\ (proj[id] = new \/ new.rev < proj[id].rev))
    BY <1>2, <2>3 DEF Projected
  <2> QED
    BY <2>2, <2>3
<1>5. StoreType'
    BY <1>1, <1>2, <1>3, <1>4 DEF StoreInv, StoreType
<1>6. HeldOnce'
    BY <1>3 DEF StoreInv, StoreType, HeldOnce
<1>7. CallsInv'
  <2> SUFFICES ASSUME NEW d \in Clients PROVE CallOk(op[d])'
    BY DEF CallsInv
  <2>1. CallOk(op[d]) /\ op'[d] = (IF d = c THEN x ELSE op[d])
    BY <1>3 DEF StoreInv, StoreType, CallsInv
  <2> QED
    BY <1>2, <1>3, <2>1 DEF CallOk, AtRename, AtProject, AtSecond, Follows, ByRepository, Begins, Stored, Settled, Retired
<1>8. FilesInv'
    BY <1>2 DEF StoreInv, FilesInv, Stored
<1>9. ProjectionInv'
    BY <1>1, <1>2, <1>3, <1>4 DEF StoreInv, StoreType, ProjectionInv, Record
<1> QED
    BY <1>5, <1>6, <1>7, <1>8, <1>9 DEF StoreInv

\* The process starts and stops, and the projection is rebuilt.
LEMMA ProcessKeeps ==
    ASSUME StoreInv, Open \/ Rebuild \/ Crash
    PROVE  StoreInv'
<1>1. CASE Open \/ Rebuild
  <2>1. UNCHANGED <<disk, ingested, op>> /\ up' /\ proj' = disk /\ raw' = {} /\ \A c \in Clients : op[c].pc = "idle"
    BY <1>1 DEF Open, Rebuild, StoreInv, CallsInv, CallOk
  <2>2. StoreType' /\ HeldOnce' /\ FilesInv'
    BY <2>1 DEF StoreInv, StoreType, HeldOnce, FilesInv, Stored
  <2>3. CallsInv'
    BY <2>1 DEF StoreInv, CallsInv, CallOk, AtRename, AtProject, AtSecond
  <2>4. ProjectionInv'
    BY <2>1 DEF StoreInv, StoreType, ProjectionInv, Record
  <2> QED
    BY <2>2, <2>3, <2>4 DEF StoreInv
<1>2. CASE Crash
  <2>1. UNCHANGED <<disk, raw, ingested>> /\ ~up' /\ proj' = NoEntries /\ op' = [c \in Clients |-> Idle]
    BY <1>2 DEF Crash
  <2>2. StoreType'
    BY <2>1 DEF StoreInv, StoreType, Idle, Call, Calls, NoEntries
  <2>3. HeldOnce' /\ CallsInv'
    BY <2>1, NoneAssumption DEF HeldOnce, CallsInv, CallOk, AtRename, AtProject, AtSecond, Idle, Call
  <2>4. FilesInv'
    BY <2>1 DEF StoreInv, FilesInv, Stored
  <2>5. ProjectionInv'
    BY <2>1 DEF ProjectionInv, NoEntries
  <2> QED
    BY <2>2, <2>3, <2>4, <2>5 DEF StoreInv
<1> QED
    BY <1>1, <1>2

LEMMA InitStore == MSInit => StoreInv
<1> SUFFICES ASSUME MSInit PROVE StoreInv
    OBVIOUS
<1>1. StoreType /\ HeldOnce /\ CallsInv
    BY ExistingAssumption, NoneAssumption
       DEF MSInit, StoreType, HeldOnce, CallsInv, CallOk, AtRename, AtProject, AtSecond, Idle, Call, Calls, NoEntries
<1>2. FilesInv
    BY DEF MSInit, FilesInv, Stored, Lifecycled, Ids
<1>3. ProjectionInv
    BY DEF MSInit, ProjectionInv, NoEntries
<1> QED
    BY <1>1, <1>2, <1>3 DEF StoreInv

LEMMA StepKeepsStore == StoreInv /\ [MSNext]_msVars => StoreInv'
<1> SUFFICES ASSUME StoreInv, [MSNext]_msVars PROVE StoreInv'
    OBVIOUS
<1>1. ASSUME NEW c \in Clients, MemoryRecordRepository(c) \/ StrategyRepository(c) PROVE StoreInv'
    BY <1>1, ProposeKeeps, TransitionKeeps, SupersedeKeeps DEF MemoryRecordRepository, StrategyRepository, Lifecycled
<1>2. ASSUME NEW c \in Clients, IssueRepository(c) PROVE StoreInv'
    BY <1>2, IssueKeeps
<1>3. ASSUME NEW c \in Clients, TraceRepository(c) \/ IngestRecords(c) PROVE StoreInv'
    BY <1>3, TraceKeeps, IngestKeeps
<1>4. ASSUME NEW c \in Clients, Rename(c) \/ RenameFails(c) \/ Project(c) \/ SecondHalf(c) PROVE StoreInv'
    BY <1>4, RenameKeeps, RenameFailsKeeps, ProjectKeeps, SecondHalfKeeps
<1>5. CASE (\E e \in Events : AppendEvent(e)) \/ UNCHANGED msVars
  <2>1. UNCHANGED <<disk, proj, raw, ingested, op, up>>
    BY <1>5 DEF AppendEvent, msVars
  <2> QED
    BY <2>1 DEF StoreInv, StoreType, HeldOnce, CallsInv, CallOk, AtRename, AtProject, AtSecond, Follows, ByRepository,
       Begins, Stored, Settled, Retired, FilesInv, ProjectionInv
<1>6. CASE Open \/ Rebuild \/ Crash
    BY <1>6, ProcessKeeps
<1> QED
    BY <1>1, <1>2, <1>3, <1>4, <1>5, <1>6 DEF MSNext

LEMMA StoreInvHolds == MSSpec => []StoreInv
BY InitStore, StepKeepsStore, PTL DEF MSSpec

\* The projection is never ahead of the files and agrees with every record
\* that no call is writing and that was not last ingested behind its back
\* (putTyped, MemProjection.Put, Rebuild).
THEOREM ProjectionCurrentHolds == MSSpec => []ProjectionCurrent
<1>1. StoreInv => ProjectionCurrent
    BY DEF StoreInv, ProjectionInv, ProjectionCurrent
<1> QED
    BY <1>1, StoreInvHolds, PTL

\* The first step of a call reads; it changes no file.
LEMMA EnteringReads ==
    ASSUME NEW c \in Clients,
           \/ MemoryRecordRepository(c) \/ StrategyRepository(c) \/ IssueRepository(c)
           \/ TraceRepository(c) \/ IngestRecords(c)
    PROVE  UNCHANGED <<disk, log, known, acked>>
<1>1. ASSUME NEW r, Enter(c, r) PROVE UNCHANGED <<disk, log, known, acked>>
    BY <1>1 DEF Enter
<1>2. ASSUME NEW r, NEW supersedes, NEW body, Propose(c, r, supersedes, body) PROVE UNCHANGED <<disk, log, known, acked>>
    BY <1>1, <1>2 DEF Propose
<1>3. ASSUME NEW r, NEW to, Transition(c, r, to) PROVE UNCHANGED <<disk, log, known, acked>>
    BY <1>1, <1>3 DEF Transition
<1>4. ASSUME NEW r, NEW next, Supersede(c, r, next) PROVE UNCHANGED <<disk, log, known, acked>>
    BY <1>1, <1>4 DEF Supersede
<1>5. CASE MemoryRecordRepository(c) \/ StrategyRepository(c)
    BY <1>2, <1>3, <1>4, <1>5 DEF MemoryRecordRepository, StrategyRepository
<1>6. CASE IssueRepository(c) \/ TraceRepository(c) \/ IngestRecords(c)
    BY <1>1, <1>6 DEF IssueRepository, TraceRepository, IngestRecords
<1> QED
    BY <1>5, <1>6

\* A step that changes a record file is the rename of a record that follows
\* it, and one that a repository may make of it unless it was ingested.
LEMMA OnlyRenameWrites ==
    ASSUME StoreInv, MSNext, NEW r \in Ids, disk'[r] # disk[r]
    PROVE  Follows(r, disk'[r]) /\ (r \notin raw' => ByRepository(r, disk'[r]))
<1>a. \A c \in Clients : MemoryRecordRepository(c) \/ StrategyRepository(c) => UNCHANGED disk
    BY EnteringReads
<1>b. \A c \in Clients : IssueRepository(c) \/ TraceRepository(c) \/ IngestRecords(c) => UNCHANGED disk
    BY EnteringReads
<1>c. \A c \in Clients : RenameFails(c) \/ Project(c) \/ SecondHalf(c) => UNCHANGED disk
    BY DEF RenameFails, Project, SecondHalf
<1>d. (\E e \in Events : AppendEvent(e)) \/ Open \/ Rebuild \/ Crash => UNCHANGED disk
    BY DEF AppendEvent, Open, Rebuild, Crash
<1>1. PICK c \in Clients : Rename(c)
    BY <1>a, <1>b, <1>c, <1>d DEF MSNext
<1>2. /\ disk' = [disk EXCEPT ![op[c].id] = op[c].new] /\ op[c].pc = "rename" /\ CallOk(op[c])
      /\ disk \in [Ids -> Record \cup {None}] /\ (~op[c].typed => op[c].id \in raw')
    BY <1>1 DEF Rename, StoreInv, CallsInv, StoreType
<1>3. r = op[c].id /\ disk'[r] = op[c].new
    BY <1>2
<1> QED
    BY <1>2, <1>3 DEF CallOk, AtRename

\* A record file never goes back to an older revision, and what a repository writes
\* of a lifecycled record is its candidate or a move along the state machine from
\* what is on disk, also where that was ingested (Propose, Transition, Supersede,
\* PutRecord).
THEOREM LifecycleIsKept == MSSpec => LifecycleKept
<1> DEFINE Lawful(r) ==
        /\ Stored(r) => disk'[r].rev > disk[r].rev
        /\ r \in Lifecycled /\ r \notin raw' =>
              \/ Begins(r) /\ disk'[r].state = "CANDIDATE"
              \/ /\ Stored(r)
                 /\ <<disk[r].state, disk'[r].state>> \in
                      {<<"EPHEMERAL", "CANDIDATE">>, <<"CANDIDATE", "VALIDATED">>,
                       <<"VALIDATED", "ACTIVE">>, <<"ACTIVE", "SUPERSEDED">>}
                      \cup {<<s, s>> : s \in Lifecycles} \cup {<<s, "ARCHIVED">> : s \in Lifecycles}
<1>1. ASSUME StoreInv, [MSNext]_msVars, NEW r \in Ids, disk'[r] # disk[r] PROVE Lawful(r)
  <2>1. Follows(r, disk'[r]) /\ (r \notin raw' => ByRepository(r, disk'[r]))
    BY <1>1, OnlyRenameWrites DEF msVars
  <2> QED
    BY <2>1 DEF Follows, ByRepository, Moves
<1>2. StoreInv /\ [MSNext]_msVars => [\A r \in Ids : disk'[r] # disk[r] => Lawful(r)]_msVars
    BY <1>1
<1> QED
    BY <1>2, StoreInvHolds, PTL DEF MSSpec, LifecycleKept

\* Supersede points a record only at one that is retired on disk by then, or that
\* was ever replaced behind the repositories' back, at every step of every
\* interleaving of calls, failed writes and crashes (Supersede writes the old
\* record first).
THEOREM RetiredComesFirst == MSSpec => RetiredFirst
<1> DEFINE Succession(r) ==
        /\ ~Begins(r) /\ r \notin raw'
        /\ disk'[r].supersedes # disk[r].supersedes
        => disk'[r].supersedes \in ingested \/ Retired(disk'[r].supersedes)
<1>1. ASSUME StoreInv, [MSNext]_msVars, NEW r \in Lifecycled PROVE Succession(r)
  <2> SUFFICES ASSUME ~Begins(r), r \notin raw', disk'[r].supersedes # disk[r].supersedes
               PROVE  disk'[r].supersedes \in ingested \/ Retired(disk'[r].supersedes)
    OBVIOUS
  <2>1. ByRepository(r, disk'[r])
    BY <1>1, OnlyRenameWrites DEF msVars, Lifecycled, Ids
  <2> QED
    BY <2>1 DEF ByRepository, Settled
<1>2. StoreInv /\ [MSNext]_msVars => [\A r \in Lifecycled : Succession(r)]_msVars
    BY <1>1
<1> QED
    BY <1>2, StoreInvHolds, PTL DEF MSSpec, RetiredFirst

----------------------------------------------------------------------------
\* The event log: no event is in a readable file twice, and a table of known
\* events that is in use lacks none of the file's, unless the last line lacks
\* its end: then nothing more is written that leaves the file readable.
EventsInv ==
    /\ log.lines \in Seq(Events) /\ log.open \in BOOLEAN /\ log.corrupt \in BOOLEAN
    /\ ~log.corrupt =>
          /\ acked \subseteq Lines
          /\ \A i, j \in DOMAIN log.lines : log.lines[i] = log.lines[j] => i = j
          /\ ~log.open /\ known # {} => Lines \subseteq known

\* One more line.
LEMMA AppendedLines ==
    ASSUME NEW s \in Seq(Events), NEW e \in Events
    PROVE  LET t == Append(s, e)
           IN  /\ t \in Seq(Events)
               /\ {t[i] : i \in DOMAIN t} = {s[i] : i \in DOMAIN s} \cup {e}
               /\ (\A i, j \in DOMAIN s : s[i] = s[j] => i = j) /\ e \notin {s[i] : i \in DOMAIN s}
                     => \A i, j \in DOMAIN t : t[i] = t[j] => i = j
<1> DEFINE t == Append(s, e)
<1>1. t \in Seq(Events) /\ Len(t) = Len(s) + 1 /\ DOMAIN t = 1 .. Len(s) + 1 /\ DOMAIN s = 1 .. Len(s) /\ Len(s) \in Nat
    OBVIOUS
<1>2. t[Len(s) + 1] = e /\ \A i \in DOMAIN s : t[i] = s[i]
    OBVIOUS
<1> HIDE DEF t
<1>3. {t[i] : i \in DOMAIN t} = {s[i] : i \in DOMAIN s} \cup {e}
    BY <1>1, <1>2
<1>4. (\A i, j \in DOMAIN s : s[i] = s[j] => i = j) /\ e \notin {s[i] : i \in DOMAIN s}
        => \A i, j \in DOMAIN t : t[i] = t[j] => i = j
    BY <1>1, <1>2
<1> QED
    BY <1>1, <1>3, <1>4 DEF t

LEMMA InitEvents == MSInit => EventsInv
BY DEF MSInit, EventsInv, Lines

LEMMA AppendKeepsEvents ==
    ASSUME EventsInv, NEW e \in Events, AppendEvent(e)
    PROVE  EventsInv'
<1>1. CASE e \in LoadSeen
  <2>1. UNCHANGED <<log, acked>> /\ known' = LoadSeen
    BY <1>1 DEF AppendEvent
  <2> QED
    BY <2>1 DEF EventsInv, Lines, LoadSeen
<1>2. ASSUME e \notin LoadSeen, NEW how \in {"all", "half", "line"}, log' = Written(e, how),
             how = "all" => known' = LoadSeen \cup {e} /\ acked' = acked \cup {e},
             how # "all" => known' = LoadSeen /\ UNCHANGED acked
      PROVE  EventsInv'
  <2>1. /\ log'.lines = Append(log.lines, e) /\ log'.open = (how # "all")
        /\ log'.corrupt = (log.corrupt \/ log.open \/ how = "half")
    BY <1>2 DEF Written
  <2>2. log'.lines \in Seq(Events) /\ Lines' = Lines \cup {e}
    BY <2>1, AppendedLines DEF EventsInv, Lines
  <2>3. ASSUME ~log'.corrupt
        PROVE  /\ acked' \subseteq Lines'
               /\ \A i, j \in DOMAIN log'.lines : log'.lines[i] = log'.lines[j] => i = j
               /\ ~log'.open /\ known' # {} => Lines' \subseteq known'
    <3>1. ~log.corrupt /\ ~log.open
      BY <2>1, <2>3 DEF EventsInv
    <3>2. Lines \subseteq LoadSeen /\ e \notin Lines
      BY <1>2, <3>1 DEF EventsInv, LoadSeen
    <3>3. \A i, j \in DOMAIN log'.lines : log'.lines[i] = log'.lines[j] => i = j
      BY <2>1, <3>1, <3>2, AppendedLines DEF EventsInv, Lines
    <3>4. acked' \subseteq Lines' /\ (~log'.open /\ known' # {} => Lines' \subseteq known')
      BY <1>2, <2>1, <2>2, <3>1, <3>2 DEF EventsInv
    <3> QED
      BY <3>3, <3>4
  <2> QED
    BY <2>1, <2>2, <2>3 DEF EventsInv
<1>3. CASE e \notin LoadSeen /\ log' = Written(e, "none") /\ known' = LoadSeen /\ UNCHANGED acked
  <2>1. log'.lines = log.lines /\ log'.open = log.open /\ log'.corrupt = log.corrupt
    BY <1>3 DEF Written, EventsInv
  <2> QED
    BY <1>3, <2>1 DEF EventsInv, Lines, LoadSeen
<1> QED
    BY <1>1, <1>2, <1>3 DEF AppendEvent

LEMMA StepKeepsEvents == EventsInv /\ [MSNext]_msVars => EventsInv'
<1> SUFFICES ASSUME EventsInv, [MSNext]_msVars PROVE EventsInv'
    OBVIOUS
<1>1. ASSUME NEW e \in Events, AppendEvent(e) PROVE EventsInv'
    BY <1>1, AppendKeepsEvents
<1>2. CASE Crash
    BY <1>2 DEF Crash, EventsInv, Lines
<1>3. CASE UNCHANGED <<log, known, acked>>
    BY <1>3 DEF EventsInv, Lines
<1>4. \A c \in Clients : MemoryRecordRepository(c) \/ StrategyRepository(c) => UNCHANGED <<log, known, acked>>
    BY EnteringReads
<1>5. \A c \in Clients : IssueRepository(c) \/ TraceRepository(c) \/ IngestRecords(c) => UNCHANGED <<log, known, acked>>
    BY EnteringReads
<1>6. \A c \in Clients : Rename(c) \/ RenameFails(c) \/ Project(c) \/ SecondHalf(c) => UNCHANGED <<log, known, acked>>
    BY DEF Rename, RenameFails, Project, SecondHalf
<1>7. Open \/ Rebuild \/ UNCHANGED msVars => UNCHANGED <<log, known, acked>>
    BY DEF Open, Rebuild, msVars
<1> QED
    BY <1>1, <1>2, <1>3, <1>4, <1>5, <1>6, <1>7 DEF MSNext

\* A readable event log holds every event whose append succeeded and none
\* twice, through appends that fail halfway, are tried again, and restarts
\* (AppendEvent, loadSeen).
THEOREM EventsKeptHolds == MSSpec => []EventsKept
<1>1. ASSUME EventsInv, ~log.corrupt PROVE Len(log.lines) = Cardinality(Lines)
  <2> DEFINE s == log.lines
             n == Len(s)
  <2>1. s \in [1 .. n -> Lines] /\ n \in Nat
    BY <1>1 DEF EventsInv, Lines
  <2>2. s \in Bijection(1 .. n, Lines)
    <3>1. s \in Injection(1 .. n, Lines)
      BY <1>1, <2>1 DEF EventsInv, Injection, IsInjective
    <3>2. s \in Surjection(1 .. n, Lines)
      BY <1>1, <2>1 DEF EventsInv, Surjection, Lines
    <3> QED
      BY <3>1, <3>2 DEF Bijection
  <2> HIDE DEF n
  <2>3. IsFiniteSet(1 .. n) /\ Cardinality(1 .. n) = n
    <3>1. IsFiniteSet(1 .. n) /\ Cardinality(1 .. n) = IF 1 > n THEN 0 ELSE n - 1 + 1
      BY <2>1, FS_Interval
    <3> QED
      BY <2>1, <3>1
  <2>4. ExistsBijection(1 .. n, Lines)
    BY <2>2 DEF ExistsBijection
  <2> QED
    BY <2>3, <2>4, FS_Bijection DEF n
<1>2. EventsInv => EventsKept
    BY <1>1 DEF EventsInv, EventsKept
<1> QED
    BY <1>2, InitEvents, StepKeepsEvents, PTL DEF MSSpec
============================================================================
