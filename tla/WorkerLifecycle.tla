-------------------------- MODULE WorkerLifecycle --------------------------
(***************************************************************************)
(* The worker lifecycle manager, src/runtime/lifecycle/lifecycle.go: the   *)
(* runs of the adapter that go through Manager.Run, the Begin / End hooks  *)
(* of a scheduler that runs its own adapter, the Stop and Terminate        *)
(* requests of other goroutines, and the bounded event log.                *)
(*                                                                         *)
(* A run is one call of Run or one Begin / End pair.  A worker instance is *)
(* named after its assignment ("wrk_" + assignmentID); the scheduler makes *)
(* a new assignment id for every attempt (ResultIdsFresh of Scheduler), so *)
(* a run and its worker are identified here.  One step is one critical     *)
(* section of Manager.mu or one call outside it.  Timestamps, summaries    *)
(* and the observation sink (failure-open, no state of the manager) are    *)
(* left out.                                                               *)
(***************************************************************************)
EXTENDS Integers, Sequences

CONSTANTS
    Runs,       \* the runs
    Hooked,     \* those that use Begin and End instead of Run
    Retain      \* Config.Retain, the bound of the event log

ASSUME RunsAssumption == Hooked \subseteq Runs
ASSUME RetainAssumption == Retain \in Nat \ {0}

VARIABLES
    pc,         \* where the goroutine of each run is
    state,      \* Manager.workers: the state of each instance, or "none"
    active,     \* the keys of Manager.active
    stopped,    \* control.stopped
    terminated, \* control.terminated
    ctx,        \* the run's context: "live" or "done"
    verdict,    \* the terminal state the run has decided on
    outcome,    \* what the adapter returned: "ok", "error" or "canceled"
    signals,    \* signal calls that released the lock and have yet to cancel
    accepted,   \* the requests that returned true to their caller
    events      \* Manager.events

vars == <<pc, state, active, stopped, terminated, ctx, verdict, outcome,
          signals, accepted, events>>

Terminal == {"stopped", "terminated", "failed"}
States == Terminal \cup {"created", "starting", "running", "stopping"}
Requests == {"stop", "terminate"}

WLInit ==
    /\ pc = [r \in Runs |-> "idle"]
    /\ state = [r \in Runs |-> "none"]
    /\ active = {} /\ stopped = {} /\ terminated = {}
    /\ ctx = [r \in Runs |-> "live"]
    /\ verdict = [r \in Runs |-> "stopped"]
    /\ outcome = [r \in Runs |-> "ok"]
    /\ signals = {}
    /\ accepted = [r \in Runs |-> {}]
    /\ events = <<>>

\* The newest Retain events; the oldest are dropped.
Trim(log) == SubSeq(log, Len(log) - (IF Len(log) > Retain THEN Retain ELSE Len(log)) + 1, Len(log))

\* Records the state of an instance and appends the transition to the log.
Transition(r, s) ==
    /\ state' = [state EXCEPT ![r] = s]
    /\ events' = Trim(Append(events, [run |-> r, state |-> s]))

Goto(r, from, to) ==
    /\ pc[r] = from
    /\ pc' = [pc EXCEPT ![r] = to]

\* Run with a context that is already done: it returns without a worker.
RunRefused(r) ==
    /\ r \notin Hooked
    /\ ctx[r] = "done"
    /\ Goto(r, "idle", "done")
    /\ UNCHANGED <<state, active, stopped, terminated, ctx, verdict, outcome, signals, accepted, events>>

\* Run registers the new instance with its control.
Instantiate(r) ==
    /\ r \notin Hooked
    /\ ctx[r] = "live"
    /\ Goto(r, "idle", "created")
    /\ state' = [state EXCEPT ![r] = "created"]
    /\ active' = active \cup {r}
    /\ UNCHANGED <<stopped, terminated, ctx, verdict, outcome, signals, accepted, events>>

\* Begin registers the instance only: it cannot be stopped.
Begin(r) ==
    /\ r \in Hooked
    /\ Goto(r, "idle", "created")
    /\ state' = [state EXCEPT ![r] = "created"]
    /\ UNCHANGED <<active, stopped, terminated, ctx, verdict, outcome, signals, accepted, events>>

Starting(r) ==
    /\ Goto(r, "created", "starting")
    /\ Transition(r, "starting")
    /\ UNCHANGED <<active, stopped, terminated, ctx, verdict, outcome, signals, accepted>>

Running(r) ==
    /\ Goto(r, "starting", "adapter")
    /\ Transition(r, "running")
    /\ UNCHANGED <<active, stopped, terminated, ctx, verdict, outcome, signals, accepted>>

\* The adapter returns.  It reports a cancellation only of a context that is
\* done, and may miss one that comes late.
AdapterReturn(r) ==
    /\ Goto(r, "adapter", "detach")
    /\ \E o \in {"ok", "error", "canceled"} :
          /\ o = "canceled" => ctx[r] = "done"
          /\ outcome' = [outcome EXCEPT ![r] = o]
    /\ UNCHANGED <<state, active, stopped, terminated, ctx, verdict, signals, accepted, events>>

\* A stop that was asked for first wins over a terminate.
TerminalState_StopFirst(r) ==
    IF r \in stopped THEN "stopped"
    ELSE IF r \in terminated THEN "terminated"
    ELSE IF outcome[r] = "error" THEN "failed"
    ELSE "stopped"

\* The terminal state of a run: requests first, terminate over stop, then
\* what the adapter returned.  A hooked run has no requests.
TerminalState(r) ==
    IF r \in terminated THEN "terminated"
    ELSE IF r \in stopped THEN "stopped"
    ELSE IF outcome[r] = "error" THEN "failed"
    ELSE "stopped"

\* The control leaves the table and its flags are read, in one critical
\* section; then finish fills in the record.
Detach(r) ==
    /\ Goto(r, "detach", "stopping")
    /\ active' = active \ {r}
    /\ verdict' = [verdict EXCEPT ![r] = TerminalState(r)]
    /\ UNCHANGED <<state, stopped, terminated, ctx, outcome, signals, accepted, events>>

Stopping(r) ==
    /\ Goto(r, "stopping", "last")
    /\ Transition(r, "stopping")
    /\ UNCHANGED <<active, stopped, terminated, ctx, verdict, outcome, signals, accepted>>

\* The terminal transition; Run then returns and its deferred cancel runs.
LastTransition(r) ==
    /\ Goto(r, "last", "done")
    /\ Transition(r, verdict[r])
    /\ ctx' = [ctx EXCEPT ![r] = IF r \in Hooked THEN @ ELSE "done"]
    /\ UNCHANGED <<active, stopped, terminated, verdict, outcome, signals, accepted>>

\* The critical section of Stop and Terminate.  A worker that is not active
\* makes the call return false: nothing changes.
Signal(r, q) ==
    /\ r \in active
    /\ stopped' = IF q = "stop" THEN stopped \cup {r} ELSE stopped
    /\ terminated' = IF q = "terminate" THEN terminated \cup {r} ELSE terminated
    /\ signals' = signals \cup {<<r, q>>}
    /\ UNCHANGED <<pc, state, active, ctx, verdict, outcome, accepted, events>>

\* The request returns without cancelling the run.
Cancel_FlagOnly(r, q) ==
    /\ <<r, q>> \in signals
    /\ signals' = signals \ {<<r, q>>}
    /\ accepted' = [accepted EXCEPT ![r] = @ \cup {q}]
    /\ UNCHANGED <<pc, state, active, stopped, terminated, ctx, verdict, outcome, events>>

\* The lock is released and the context is cancelled after it; the call
\* returns true.
Cancel(r, q) ==
    /\ <<r, q>> \in signals
    /\ signals' = signals \ {<<r, q>>}
    /\ ctx' = [ctx EXCEPT ![r] = "done"]
    /\ accepted' = [accepted EXCEPT ![r] = @ \cup {q}]
    /\ UNCHANGED <<pc, state, active, stopped, terminated, verdict, outcome, events>>

\* The caller of Run, or of the scheduler, cancels.
ParentCancel(r) ==
    /\ ctx[r] = "live"
    /\ ctx' = [ctx EXCEPT ![r] = "done"]
    /\ UNCHANGED <<pc, state, active, stopped, terminated, verdict, outcome, signals, accepted, events>>

\* The steps the manager takes by itself.
ManagerStep(r) ==
    \/ RunRefused(r) \/ Instantiate(r) \/ Begin(r)
    \/ Starting(r) \/ Running(r) \/ Detach(r) \/ Stopping(r) \/ LastTransition(r)

WLNext ==
    \E r \in Runs :
        \/ ManagerStep(r)
        \/ AdapterReturn(r)
        \/ \E q \in Requests : Signal(r, q) \/ Cancel(r, q)
        \/ ParentCancel(r)

WLSpec == WLInit /\ [][WLNext]_vars

\* A goroutine is scheduled, and an adapter returns once its context is done
\* (the contract of worker.Adapter); nothing makes it return before that.
WLFairness ==
    \A r \in Runs :
        /\ WF_vars(ManagerStep(r))
        /\ WF_vars(ctx[r] = "done" /\ AdapterReturn(r))
        /\ \A q \in Requests : WF_vars(Cancel(r, q))

WLFairSpec == WLSpec /\ WLFairness

----------------------------------------------------------------------------
\* A Stop or Terminate that returned true decides how the run ends, however it
\* raced with the adapter: terminate over stop, and over the adapter's own
\* error; and no run is recorded as terminated that nobody terminated (signal
\* and the critical section after the adapter in Run).
SignalHonoured ==
    \A r \in Runs : state[r] \in Terminal =>
        /\ "terminate" \in accepted[r] => state[r] = "terminated"
        /\ accepted[r] = {"stop"} /\ r \notin terminated => state[r] = "stopped"
        /\ state[r] = "terminated" => r \in terminated
        /\ r \notin active

\* A request that returned true ends the run: its context is cancelled and a
\* terminal state follows, even with an adapter that would run for ever
\* (package comment: "always reaches a terminal state").
StopTakesEffect ==
    \A r \in Runs : accepted[r] # {} ~> state[r] \in Terminal
============================================================================
