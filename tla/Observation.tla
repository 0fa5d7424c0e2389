---------------------------- MODULE Observation ----------------------------
(***************************************************************************)
(* The observation plane of the daemon: app/internal/obsplane over the     *)
(* runtime manager, the local transport, the emitter and its bounded       *)
(* buffer, with the Codex translator and the work report (obsv/runtime,    *)
(* transport, emit, codex, report, protocol).                              *)
(*                                                                         *)
(* An action is one critical section of Manager.mu, Local.mu, Plane.mu,    *)
(* Emitter.mu or of the journal's lock; module Journal has the inside of   *)
(* a journal.  An observation is what reports and validation look at: its  *)
(* source type, work package, actor, metadata keys and whether it is well  *)
(* formed.                                                                 *)
(***************************************************************************)
EXTENDS Naturals, Sequences, FiniteSets, SequencesExt

CONSTANTS
    Goroutines,     \* goroutines of the daemon that emit and read
    ObsSessions,    \* session ids
    Offers,         \* observations a caller may bring
    CodexFiles,     \* Codex outputs: their typed lines, and whether one is broken
    BufferCap,      \* capacity of an emit.Buffer
    ReportFloor,    \* Policy.MinSequence of the reports, 0 for no floor
    ReportEvents,   \* Policy.MaxEvents of the reports, 0 for no limit
    MaxObsCalls,    \* model bound: calls
    MaxObsFaults    \* model bound: files that do not open, writes that fail

\* What an observation is here; the journal gives it its sequence.
ObservedEvent == [valid : BOOLEAN, keys : SUBSET STRING, type : STRING, wp : STRING, actor : STRING, seq : Nat]

ASSUME ObservationAssumption ==
    /\ {BufferCap, ReportFloor, ReportEvents, MaxObsCalls, MaxObsFaults} \subseteq Nat
    /\ IsFiniteSet(Goroutines)
    /\ Offers \subseteq ObservedEvent /\ \A f \in CodexFiles : f.lines \in Seq(ObservedEvent)

VARIABLES
    manager,    \* Manager: closed and the sessions with a runtime
    host,       \* transport.Local: closed and the sessions it owns
    sealing,    \* the journals that Local.Close has still to close
    stopping,   \* how far Manager.Close is
    journals,   \* per session: state, events, events on disk, times opened
    marked,     \* Plane.sessions
    stats,      \* per session: Emitter.stats
    task,       \* per goroutine: the call it is in
    reports,    \* what Report has returned, with what it was entitled to
    buffer,     \* an emit.Buffer: its events, those it took, those it drained
    obsCalls, obsFaults

obsVars == <<manager, host, sealing, stopping, journals, marked, stats, task, reports, buffer, obsCalls, obsFaults>>

\* The keys of protocol.allowlist that the model tells apart.
Allowlist == {"path", "tool"}

\* protocol.Sanitize: the metadata keys that may be journaled.
Sanitize(o) == [o EXCEPT !.keys = @ \cap Allowlist]

\* codex.Translate: the events of the typed lines in order; one line that does
\* not decode, or whose event does not validate, refuses the whole output.
Refused(f) == f.broken \/ \E i \in DOMAIN f.lines : ~f.lines[i].valid
Translate(f) == [i \in DOMAIN f.lines |-> Sanitize(f.lines[i])]

\* obsplane.applyPolicy: the places of the events from the floor on, the most recent of
\* them.
ApplyPolicy(log) ==
    LET kept == {i \in DOMAIN log : log[i].seq >= ReportFloor}
    IN  {i \in kept : ReportEvents = 0 \/ Cardinality({j \in kept : j > i}) < ReportEvents}

\* report.Build of the events at these places.  Events carry the sequence that the
\* journal gave them.
BuildReport(log, places) ==
    LET count(P(_)) == Cardinality({i \in places : P(log[i])})
    IN  [events |-> Cardinality(places),
         first |-> IF places = {} THEN 0 ELSE log[Min(places)].seq,
         last |-> IF places = {} THEN 0 ELSE log[Max(places)].seq,
         byType |-> [t \in {log[i].type : i \in places} |-> count(LAMBDA o : o.type = t)],
         packages |-> {log[i].wp : i \in places} \ {""},
         actors |-> {log[i].actor : i \in places} \ {""}]

Resting == [pc |-> "idle", op |-> "none", session |-> "none", todo |-> <<>>, outcome |-> "none",
         accepted |-> 0, dropped |-> 0, batch |-> 0, entitled |-> 0]

ObsInit ==
    /\ manager = [closed |-> FALSE, runtimes |-> {}]
    /\ host = [closed |-> FALSE, sessions |-> {}]
    /\ sealing = {} /\ stopping = "no"
    /\ journals = [s \in ObsSessions |-> [state |-> "none", log |-> <<>>, lines |-> 0, opened |-> 0]]
    /\ marked = {} /\ reports = {}
    /\ stats = [s \in ObsSessions |-> [accepted |-> 0, dropped |-> 0, failed |-> 0]]
    /\ task = [g \in Goroutines |-> Resting]
    /\ buffer = [events |-> <<>>, took |-> <<>>, drained |-> <<>>]
    /\ obsCalls = 0 /\ obsFaults = 0

Goto(g, pc) == task' = [task EXCEPT ![g].pc = pc]
At(g, pc) == task[g].pc = pc

BeginCall(g, op, s, todo) ==
    /\ At(g, "idle") /\ obsCalls < MaxObsCalls
    /\ obsCalls' = obsCalls + 1
    /\ task' = [task EXCEPT ![g] =
                  [pc |-> "ensure", op |-> op, session |-> s, todo |-> todo, outcome |-> "none",
                   accepted |-> 0, dropped |-> 0, batch |-> Len(todo), entitled |-> stats[s].accepted]]
    /\ UNCHANGED <<manager, host, sealing, stopping, journals, marked, stats, reports, buffer, obsFaults>>

\* Plane.Emit of one observation; Plane.IngestCodex of a translated output; and
\* Plane.Report, which replays the session.
Emit(g, s, o) == BeginCall(g, "emit", s, <<o>>)
IngestCodex(g, s, f) == ~Refused(f) /\ f.lines # <<>> /\ BeginCall(g, "ingest", s, Translate(f))
AskReport(g, s) == BeginCall(g, "report", s, <<>>)

\* Hello that does not look whether the host is closed.
Hello_AfterClose(s, opens) ==
    \/ s \in host.sessions /\ opens /\ UNCHANGED <<host, journals>>
    \/ /\ s \notin host.sessions /\ opens
       /\ host' = [host EXCEPT !.sessions = @ \cup {s}]
       /\ journals' = [journals EXCEPT ![s].state = "open", ![s].opened = @ + 1]
    \/ s \notin host.sessions /\ ~opens /\ obsFaults < MaxObsFaults /\ UNCHANGED <<host, journals>>

\* Local.Hello: attach to the session or own a new one, whose newJournal opens
\* the file or fails.
Hello(s, opens) ==
    /\ ~host.closed
    /\ \/ s \in host.sessions /\ opens /\ UNCHANGED <<host, journals>>
       \/ /\ s \notin host.sessions /\ opens
          /\ host' = [host EXCEPT !.sessions = @ \cup {s}]
          /\ journals' = [journals EXCEPT ![s].state = "open", ![s].opened = @ + 1]
       \/ s \notin host.sessions /\ ~opens /\ obsFaults < MaxObsFaults /\ UNCHANGED <<host, journals>>

\* Emit returned false before it reached the emitter, or Replay an error.
GiveUp(g) ==
    LET t == task[g] IN
    task' = [task EXCEPT ![g] = IF t.todo = <<>> THEN Resting
                                ELSE [t EXCEPT !.todo = Tail(@), !.dropped = @ + 1]]

\* Manager.Ensure for the next observation of the call (or for its report).
EnsureKnown(g) ==
    /\ At(g, "ensure") /\ (task[g].op = "report" \/ task[g].todo # <<>>)
    /\ ~manager.closed /\ task[g].session \in manager.runtimes
    /\ Goto(g, "mark")
    /\ UNCHANGED <<manager, host, sealing, stopping, journals, marked, stats, reports, buffer, obsCalls, obsFaults>>

EnsureNew(g) ==
    LET s == task[g].session IN
    /\ At(g, "ensure") /\ (task[g].op = "report" \/ task[g].todo # <<>>)
    /\ ~manager.closed /\ s \notin manager.runtimes
    /\ \/ /\ Hello(s, TRUE)
          /\ manager' = [manager EXCEPT !.runtimes = @ \cup {s}]
          /\ Goto(g, "mark") /\ UNCHANGED obsFaults
       \/ /\ Hello(s, FALSE)
          /\ obsFaults' = obsFaults + 1
          /\ GiveUp(g) /\ UNCHANGED manager
    /\ UNCHANGED <<sealing, stopping, marked, stats, reports, buffer, obsCalls>>

EnsureRefused(g) ==
    /\ At(g, "ensure") /\ (task[g].op = "report" \/ task[g].todo # <<>>)
    /\ manager.closed
    /\ GiveUp(g)
    /\ UNCHANGED <<manager, host, sealing, stopping, journals, marked, stats, reports, buffer, obsCalls, obsFaults>>

\* Plane.mark, then Emitter.Emit, which drops what does not validate.
Mark(g) ==
    /\ At(g, "mark")
    /\ marked' = marked \cup {task[g].session}
    /\ IF task[g].op = "report" \/ Head(task[g].todo).valid THEN Goto(g, "lookup")
       ELSE task' = [task EXCEPT ![g].pc = "count", ![g].outcome = "dropped"]
    /\ UNCHANGED <<manager, host, sealing, stopping, journals, stats, reports, buffer, obsCalls, obsFaults>>

\* Local.journal: the handle outlives the lock under which it was found.
Lookup(g) ==
    /\ At(g, "lookup")
    /\ IF task[g].session \in host.sessions THEN Goto(g, IF task[g].op = "report" THEN "replay" ELSE "append")
       ELSE IF task[g].op = "report" THEN GiveUp(g)
       ELSE task' = [task EXCEPT ![g].pc = "count", ![g].outcome = "failed"]
    /\ UNCHANGED <<manager, host, sealing, stopping, journals, marked, stats, reports, buffer, obsCalls, obsFaults>>

\* An emitter that takes a failed write for a success.
WriteResult_Open(written) == "accepted"

\* What the emitter makes of the journal's answer.
WriteResult(written) == IF written THEN "accepted" ELSE "failed"

\* Journal.Append: refused once closed; an event whose line cannot be written
\* stays in memory and the call fails.
AppendObservation(g) ==
    LET s == task[g].session
        j == journals[s]
        o == [Sanitize(Head(task[g].todo)) EXCEPT !.seq = Len(j.log)]
        Outcome(x) == task' = [task EXCEPT ![g].pc = "count", ![g].outcome = x]
    IN
    /\ At(g, "append")
    /\ \/ j.state = "closed" /\ Outcome("failed") /\ UNCHANGED <<journals, obsFaults>>
       \/ \E written \in BOOLEAN :
            /\ j.state = "open"
            /\ written \/ obsFaults < MaxObsFaults
            /\ journals' = [journals EXCEPT ![s] = [j EXCEPT !.log = Append(@, o), !.lines = IF written THEN @ + 1 ELSE @]]
            /\ obsFaults' = IF written THEN obsFaults ELSE obsFaults + 1
            /\ Outcome(WriteResult(written))
    /\ UNCHANGED <<manager, host, sealing, stopping, marked, stats, reports, buffer, obsCalls>>

\* Emitter.Emit counts the outcome and answers; IngestCodex counts the answer.
Count(g) ==
    LET t == task[g] IN
    /\ At(g, "count")
    /\ stats' = [stats EXCEPT ![t.session][t.outcome] = @ + 1]
    /\ task' = [task EXCEPT ![g] =
                  [t EXCEPT !.pc = "ensure", !.todo = Tail(@), !.outcome = "none",
                            !.accepted = IF t.outcome = "accepted" THEN @ + 1 ELSE @,
                            !.dropped = IF t.outcome = "accepted" THEN @ ELSE @ + 1]]
    /\ UNCHANGED <<manager, host, sealing, stopping, journals, marked, reports, buffer, obsCalls, obsFaults>>

\* Journal.Replay, which a closed journal still answers, and report.Build.
ReplayReport(g) ==
    LET log == journals[task[g].session].log IN
    /\ At(g, "replay")
    /\ reports' = reports \cup
          {[session |-> task[g].session, entitled |-> task[g].entitled,
            report |-> BuildReport(log, ApplyPolicy(log))]}
    /\ task' = [task EXCEPT ![g] = Resting]
    /\ UNCHANGED <<manager, host, sealing, stopping, journals, marked, stats, buffer, obsCalls, obsFaults>>

\* Emit and IngestCodex return.
CallReturns(g) ==
    /\ At(g, "ensure") /\ task[g].op # "report" /\ task[g].todo = <<>>
    /\ task' = [task EXCEPT ![g] = Resting]
    /\ UNCHANGED <<manager, host, sealing, stopping, journals, marked, stats, reports, buffer, obsCalls, obsFaults>>

\* The visualizer greets a session on the same transport, without the manager.
Dial(s) ==
    /\ obsCalls < MaxObsCalls
    /\ obsCalls' = obsCalls + 1
    /\ Hello(s, TRUE)
    /\ UNCHANGED <<manager, sealing, stopping, marked, stats, task, reports, buffer, obsFaults>>

\* Manager.Close, then Local.Close, then every journal the host owned.
CloseManager ==
    /\ stopping = "no"
    /\ manager' = [closed |-> TRUE, runtimes |-> {}]
    /\ stopping' = "host"
    /\ UNCHANGED <<host, sealing, journals, marked, stats, task, reports, buffer, obsCalls, obsFaults>>

CloseHost ==
    /\ stopping = "host"
    /\ host' = [closed |-> TRUE, sessions |-> {}]
    /\ sealing' = host.sessions
    /\ stopping' = "journals"
    /\ UNCHANGED <<manager, journals, marked, stats, task, reports, buffer, obsCalls, obsFaults>>

CloseJournal(s) ==
    /\ s \in sealing
    /\ journals' = [journals EXCEPT ![s].state = "closed"]
    /\ sealing' = sealing \ {s}
    /\ UNCHANGED <<manager, host, stopping, marked, stats, task, reports, buffer, obsCalls, obsFaults>>

\* Buffer.Append through an emitter: a full buffer refuses the newest event.
BufferAppend(o) ==
    /\ obsCalls < MaxObsCalls
    /\ obsCalls' = obsCalls + 1
    /\ o.valid /\ (BufferCap = 0 \/ Len(buffer.events) < BufferCap)
    /\ buffer' = [buffer EXCEPT !.events = Append(@, Sanitize(o)), !.took = Append(@, Sanitize(o))]
    /\ UNCHANGED <<manager, host, sealing, stopping, journals, marked, stats, task, reports, obsFaults>>

\* What Drain keeps when the destination took the first n events.
Remaining(events, n) == SubSeq(events, n + 1, Len(events))

\* Buffer.Drain: in order, up to the first error of the destination.
Drain ==
    \E n \in 0..Len(buffer.events) :
        /\ buffer.events # <<>>
        /\ n < Len(buffer.events) => obsFaults < MaxObsFaults
        /\ obsFaults' = IF n < Len(buffer.events) THEN obsFaults + 1 ELSE obsFaults
        /\ buffer' = [buffer EXCEPT !.drained = @ \o SubSeq(buffer.events, 1, n), !.events = Remaining(@, n)]
        /\ UNCHANGED <<manager, host, sealing, stopping, journals, marked, stats, task, reports, obsCalls>>

PlaneStep ==
    \/ \E g \in Goroutines :
          \/ \E s \in ObsSessions :
                \/ \E o \in Offers : Emit(g, s, o)
                \/ \E f \in CodexFiles : IngestCodex(g, s, f)
                \/ AskReport(g, s)
          \/ EnsureKnown(g) \/ EnsureNew(g) \/ EnsureRefused(g) \/ Mark(g) \/ Lookup(g)
          \/ AppendObservation(g) \/ Count(g) \/ ReplayReport(g) \/ CallReturns(g)
    \/ \E s \in ObsSessions : Dial(s) \/ CloseJournal(s)
    \/ CloseManager \/ CloseHost

BufferStep == (\E o \in Offers : BufferAppend(o)) \/ Drain

ObsNext == PlaneStep \/ BufferStep

ObsSpec == ObsInit /\ [][ObsNext]_obsVars
----------------------------------------------------------------------------
(* Properties *)

\* "There is exactly one observation record per session": however the daemon's
\* goroutines, the visualizer's Dial and Close interleave, a session's journal is
\* opened once, and none is left open, or opened again, once Close is through.
OneRecordPerSession ==
    \A s \in ObsSessions :
        /\ journals[s].opened <= 1
        /\ stopping = "journals" /\ sealing = {} => journals[s].state # "open"

\* The counters of an emitter tell the truth: accepted is the number of events on
\* disk, and what was only kept in memory is counted as failed.
CountersTrue ==
    \A s \in ObsSessions :
        LET counting(x) == Cardinality({g \in Goroutines : /\ At(g, "count") /\ task[g].session = s
                                                           /\ task[g].outcome = x})
        IN  /\ stats[s].accepted + counting("accepted") = journals[s].lines
            /\ Len(journals[s].log) - journals[s].lines <= stats[s].failed + counting("failed")

\* How many of the first n events of a journal the retention policy leaves in a report.
Retained(n) ==
    LET above == IF n > ReportFloor THEN n - ReportFloor ELSE 0
    IN  IF ReportEvents > 0 /\ above > ReportEvents THEN ReportEvents ELSE above

\* A report is as recent as its caller is entitled to.  Retention may leave out events
\* that were acknowledged (below the floor, or more than MaxEvents back), but it leaves
\* the latest ones without a gap: at least as many as it keeps of the events that were
\* acknowledged before the report was asked for, up to the last of those or beyond.
ReportsCurrent ==
    \A r \in reports :
        /\ r.report.events >= Retained(r.entitled)
        /\ r.report.events > 0 =>
              /\ r.report.first >= ReportFloor
              /\ r.report.last >= r.entitled - 1
              /\ r.report.last - r.report.first = r.report.events - 1

\* No observation is lost or counted twice on its way, whatever is interleaved with
\* it and whatever fails half way: the emitters' counters agree with the journals,
\* every event of a Codex batch is answered once, reports are current, and a
\* drain keeps what the destination did not take, in order.
EmissionsAccounted ==
    /\ CountersTrue
    /\ \A g \in Goroutines : task[g].accepted + task[g].dropped + Len(task[g].todo) = task[g].batch
    /\ ReportsCurrent
    /\ buffer.took = buffer.drained \o buffer.events
============================================================================
