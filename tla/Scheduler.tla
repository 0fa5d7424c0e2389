------------------------------ MODULE Scheduler ------------------------------
(***************************************************************************)
(* kernel/scheduler: the supervised control cycle over one project graph,  *)
(* with the planner graph, the gates, the intake service and the durable   *)
(* sink it drives.                                                         *)
(*                                                                         *)
(* A goroutine inside dispatchOne moves through "picked" (its caller has   *)
(* chosen a work package, the scheduler lock is free), "running" (the      *)
(* adapter executes outside the lock) and "returned" (its outcome waits in *)
(* the channel of the Run call that started it).  Every action is one      *)
(* critical section of the scheduler mutex.                                *)
(*                                                                         *)
(* Structured events, telemetry records and report wording are left out;   *)
(* `seen' stands for the intake ledger and for the telemetry list, which   *)
(* gets one record for each accepted result.                               *)
(***************************************************************************)
EXTENDS Naturals, Sequences, FiniteSets

CONSTANTS
  WP,              (* work packages, numbered in the sorted order of their ids *)
  DependsOn,       (* DependsOn[w]: the work packages w depends on             *)
  NoWorker,        (* work packages for which no registered worker is eligible *)
  BadContract,     (* work packages that request an unknown capability         *)
  Gates,           (* the configured gates                                     *)
  Goroutine,       (* goroutines that execute dispatchOne                      *)
  MaxConcurrency,  (* Config.MaxConcurrency, at least 1                        *)
  MaxAttempts,     (* Config.MaxAttempts, at least 1                           *)
  AttemptBound,    (* model bound: attempts of one work package                *)
  Overlap,         (* whether callers start Run or Dispatch while goroutines   *)
                   (* of an earlier call are still in flight                   *)
  Unreliable,      (* work packages whose durable records may fail to write    *)
  MayCancel        (* whether the callers' contexts may be cancelled           *)

ASSUME ConstantsAssumption ==
  /\ WP \subseteq Nat \ {0}
  /\ DependsOn \in [WP -> SUBSET WP]
  /\ NoWorker \subseteq WP
  /\ BadContract \subseteq WP
  /\ Gates \subseteq {"tests", "human_review"}
  /\ MaxConcurrency \in Nat \ {0}
  /\ MaxAttempts \in Nat \ {0}
  /\ AttemptBound \in Nat \ {0}
  /\ {Overlap, MayCancel} \subseteq BOOLEAN
  /\ Unreliable \subseteq WP

VARIABLES
  graph,      (* planner state of every work package                        *)
  attempts,   (* o.attempts                                                 *)
  asg,        (* asg[w][n]: state of the assignment of attempt n, or "none"  *)
  current,    (* o.assignments: the attempt it points to, 0 when unset       *)
  results,    (* o.results, with the attempt that produced the result        *)
  seen,       (* result ids the intake service has recorded                  *)
  approved,   (* HumanGate.approved                                          *)
  rejected,   (* HumanGate.rejected                                          *)
  durWP,      (* durable work-package states                                 *)
  durAsg,     (* durable assignment records                                  *)
  pc, job, try, out, (* per goroutine: position, work package, attempt, outcome *)
  runPc,      (* position of Run: "done" and "failed" are its two returns     *)
  batch,      (* goroutines whose outcome Run still awaits                    *)
  report      (* the RunReport                                                *)

memVars == <<graph, attempts, asg, current, results, seen>>
gateVars == <<approved, rejected>>
durVars == <<durWP, durAsg>>
threadVars == <<pc, job, try, out>>
runVars == <<runPc, batch, report>>
vars == <<memVars, gateVars, durVars, threadVars, runVars>>

(***************************************************************************)
(* Data.                                                                   *)
(***************************************************************************)
\* "ABSENT" is a work package that has not been added to the graph.
WPState == {"ABSENT", "PROPOSED", "READY", "RUNNING", "COMPLETED", "DEFICIENT"}

Attempt == 1..AttemptBound

\* The states an assignment is seen in between critical sections; planned, leased
\* and preparing are passed through inside one.
AsgState == {"none", "running", "collecting", "awaiting_gates", "accepted",
             "failed", "canceled"}

Result == [attempt : 0..AttemptBound, tests : BOOLEAN]
NoResult == [attempt |-> 0, tests |-> FALSE]

Report == [attempts : [WP -> Nat], accepted : Nat, failed : Nat, pending : Nat]
EmptyReport ==
  [attempts |-> [w \in WP |-> 0], accepted |-> 0, failed |-> 0, pending |-> 0]

Writes(w) == IF w \in Unreliable THEN BOOLEAN ELSE {TRUE}

(***************************************************************************)
(* The planner graph.                                                      *)
(***************************************************************************)
\* Mutant: a dependency counts once it has been dispatched.
Ready_DispatchedDeps ==
  {w \in WP : /\ graph[w] \in {"PROPOSED", "READY"}
              /\ \A d \in DependsOn[w] : graph[d] \in {"RUNNING", "COMPLETED"}}

Ready ==
  {w \in WP : /\ graph[w] \in {"PROPOSED", "READY"}
              /\ \A d \in DependsOn[w] : graph[d] = "COMPLETED"}

\* The first k ready work packages in id order.
FirstReady(k) == {w \in Ready : Cardinality({v \in Ready : v < w}) < k}

(***************************************************************************)
(* The gates.                                                              *)
(***************************************************************************)
TestsGate(tests) == IF tests THEN "passed" ELSE "failed"

\* Mutant: any recorded decision passes.
HumanGate_AnyDecision(w) ==
  IF w \in rejected \union approved THEN "passed" ELSE "pending"

HumanGate(w) ==
  IF w \in rejected THEN "failed" ELSE IF w \in approved THEN "passed" ELSE "pending"

Decisions(w, tests) ==
  {IF g = "tests" THEN TestsGate(tests) ELSE HumanGate(w) : g \in Gates}

\* Mutant: only a pending gate clears Passed.
Evaluate_FailurePasses(w, tests) ==
  IF "pending" \in Decisions(w, tests) THEN "pending" ELSE "passed"

\* Mutant: one passing gate is enough.
Evaluate_AnyPasses(w, tests) ==
  IF "passed" \in Decisions(w, tests) THEN "passed"
  ELSE IF "pending" \in Decisions(w, tests) THEN "pending" ELSE "failed"

\* One pending gate makes the whole report pending, whatever the others say.
Evaluate(w, tests) ==
  IF "pending" \in Decisions(w, tests) THEN "pending"
  ELSE IF "failed" \in Decisions(w, tests) THEN "failed" ELSE "passed"

-----------------------------------------------------------------------------
InitWith(s) ==
  /\ graph = [w \in WP |-> s]
  /\ attempts = [w \in WP |-> 0]
  /\ asg = [w \in WP |-> [n \in Attempt |-> "none"]]
  /\ current = [w \in WP |-> 0]
  /\ results = [w \in WP |-> NoResult]
  /\ seen = {}
  /\ approved = {}
  /\ rejected = {}
  /\ durWP = [w \in WP |-> s]
  /\ durAsg = [w \in WP |-> [n \in Attempt |-> "none"]]
  /\ pc = [g \in Goroutine |-> "idle"]
  /\ job = [g \in Goroutine |-> 0]
  /\ try = [g \in Goroutine |-> 0]
  /\ out = [g \in Goroutine |-> "none"]
  /\ runPc = "idle"
  /\ batch = {}
  /\ report = EmptyReport

\* New over a validated graph of proposed work packages.
Init == InitWith("PROPOSED")

(***************************************************************************)
(* Durable writes.  A failed work-package write only emits an event; a     *)
(* failed assignment write makes the handler return an error.              *)
(***************************************************************************)
SetWorkPackageState(w, s) ==
  /\ graph' = [graph EXCEPT ![w] = s]
  /\ \E ok \in Writes(w) : durWP' = IF ok THEN [durWP EXCEPT ![w] = s] ELSE durWP

\* Mutant: cancellation puts the work package back in the queue.
Conclude_CancelRequeues(w, n, to) ==
  /\ asg' = [asg EXCEPT ![w][n] = to]
  /\ IF to = "failed" THEN SetWorkPackageState(w, "DEFICIENT")
     ELSE IF to = "accepted" THEN SetWorkPackageState(w, "COMPLETED")
     ELSE IF to = "canceled" THEN SetWorkPackageState(w, "READY")
     ELSE UNCHANGED <<graph, durWP>>

\* The assignment reaches `to'; failing or accepting it also moves its work package.
Conclude(w, n, to) ==
  /\ asg' = [asg EXCEPT ![w][n] = to]
  /\ IF to = "failed" THEN SetWorkPackageState(w, "DEFICIENT")
     ELSE IF to = "accepted" THEN SetWorkPackageState(w, "COMPLETED")
     ELSE UNCHANGED <<graph, durWP>>

RecordAssignment(w, n, to) == durAsg' = [durAsg EXCEPT ![w][n] = to]

\* Mutant: an error is not sent to the outcomes channel.
Return_LosesErrors(g, outcome) ==
  IF g \in batch /\ outcome # "error"
  THEN /\ pc' = [pc EXCEPT ![g] = "returned"]
       /\ out' = [out EXCEPT ![g] = outcome]
       /\ UNCHANGED <<job, try>>
  ELSE /\ pc' = [pc EXCEPT ![g] = "idle"]
       /\ out' = [out EXCEPT ![g] = "none"]
       /\ job' = [job EXCEPT ![g] = 0]
       /\ try' = [try EXCEPT ![g] = 0]

\* dispatchOne returns: to the Run call that awaits it, or to a Dispatch caller
\* (or to nobody, when its Run has already returned).
Return(g, outcome) ==
  IF g \in batch
  THEN /\ pc' = [pc EXCEPT ![g] = "returned"]
       /\ out' = [out EXCEPT ![g] = outcome]
       /\ UNCHANGED <<job, try>>
  ELSE /\ pc' = [pc EXCEPT ![g] = "idle"]
       /\ out' = [out EXCEPT ![g] = "none"]
       /\ job' = [job EXCEPT ![g] = 0]
       /\ try' = [try EXCEPT ![g] = 0]

(***************************************************************************)
(* Callers.                                                                *)
(***************************************************************************)
RunActive == runPc \in {"loop", "collect"}

\* Nothing in the code makes a caller wait for goroutines that an earlier call
\* left behind; callers do so unless Overlap.
MayCall(more) ==
  /\ Overlap \/ (~RunActive /\ \A g \in Goroutine : pc[g] = "idle")
  /\ \A w \in WP : attempts[w] + more <= AttemptBound

\* Dispatch picks the first ready work package and releases the lock.
Dispatch(g) ==
  /\ MayCall(1)
  /\ pc[g] = "idle"
  /\ \E w \in FirstReady(1) : job' = [job EXCEPT ![g] = w]
  /\ pc' = [pc EXCEPT ![g] = "picked"]
  /\ UNCHANGED <<memVars, gateVars, durVars, try, out, runVars>>

RunStart ==
  /\ ~RunActive
  /\ MayCall(MaxAttempts)
  /\ runPc' = "loop"
  /\ report' = EmptyReport
  /\ UNCHANGED <<memVars, gateVars, durVars, threadVars, batch>>

\* Run takes the next batch of at most MaxConcurrency ready work packages and
\* starts one goroutine for each.
RunBatch ==
  /\ runPc = "loop"
  /\ Ready # {}
  /\ \E start \in [FirstReady(MaxConcurrency) -> {g \in Goroutine : pc[g] = "idle"}] :
       LET started == {start[w] : w \in DOMAIN start}
           workOf(g) == CHOOSE w \in DOMAIN start : start[w] = g
       IN  /\ \A v, w \in DOMAIN start : start[v] = start[w] => v = w
           /\ batch' = started
           /\ pc' = [g \in Goroutine |-> IF g \in started THEN "picked" ELSE pc[g]]
           /\ job' = [g \in Goroutine |-> IF g \in started THEN workOf(g) ELSE job[g]]
  /\ runPc' = "collect"
  /\ UNCHANGED <<memVars, gateVars, durVars, try, out, report>>

\* Mutant: the last attempt is never made.
Retryable_OneShort(w, outcome) ==
  outcome = "failed" /\ report.attempts[w] + 2 < MaxAttempts /\ current[w] # 0

\* A failure is retried while attempts are left; report.attempts does not count
\* the attempt that has just failed yet.
Retryable(w, outcome) ==
  outcome = "failed" /\ report.attempts[w] + 1 < MaxAttempts /\ current[w] # 0

\* Run receives one outcome.  An error makes it return at once, while the other
\* goroutines of the batch go on.
RunReceive(g) ==
  LET w == job[g]
      retry == Retryable(w, out[g])
      free == IF out[g] = "error"
              THEN {h \in batch : pc[h] = "returned"} ELSE {g}
  IN
  /\ runPc = "collect"
  /\ g \in batch
  /\ pc[g] = "returned"
  /\ pc' = [h \in Goroutine |-> IF h \in free THEN "idle" ELSE pc[h]]
  /\ job' = [h \in Goroutine |-> IF h \in free THEN 0 ELSE job[h]]
  /\ try' = [h \in Goroutine |-> IF h \in free THEN 0 ELSE try[h]]
  /\ out' = [h \in Goroutine |-> IF h \in free THEN "none" ELSE out[h]]
  /\ IF out[g] = "error"
     THEN /\ runPc' = "failed"
          /\ batch' = {}
          /\ UNCHANGED <<report, graph>>
     ELSE /\ batch' = batch \ {g}
          /\ runPc' = IF batch' = {} THEN "loop" ELSE "collect"
          /\ report' =
               [attempts |-> [report.attempts EXCEPT ![w] = @ + 1],
                accepted |-> report.accepted + (IF out[g] = "succeeded" THEN 1 ELSE 0),
                failed |-> report.failed + (IF out[g] = "failed" /\ ~retry THEN 1 ELSE 0),
                pending |-> report.pending + (IF out[g] = "pending" THEN 1 ELSE 0)]
          /\ graph' = IF retry THEN [graph EXCEPT ![w] = "READY"] ELSE graph
  /\ UNCHANGED <<attempts, asg, current, results, seen, gateVars, durVars>>

RunReturn ==
  /\ runPc = "loop"
  /\ \/ /\ Ready = {}
        /\ runPc' = "done"
     \/ /\ MayCancel
        /\ runPc' = "failed"
  /\ UNCHANGED <<memVars, gateVars, durVars, threadVars, batch, report>>

(***************************************************************************)
(* dispatchOne.                                                            *)
(***************************************************************************)
\* Selection and contract failures leave the work package ready; the second one
\* has already used up an attempt number.
Refuse(g) ==
  LET w == job[g] IN
  /\ pc[g] = "picked"
  /\ w \in NoWorker \union BadContract
  /\ w \notin NoWorker => attempts[w] < AttemptBound
  /\ attempts' = IF w \in NoWorker THEN attempts
                 ELSE [attempts EXCEPT ![w] = @ + 1]
  /\ Return(g, "error")
  /\ UNCHANGED <<graph, asg, current, results, seen, gateVars, durVars, runVars>>

NextAttempt(w) == attempts[w] + 1

\* Lease, mark running, record.  When the record cannot be written the
\* assignment fails and never reaches o.assignments.
Start(g) ==
  LET w == job[g]
      n == NextAttempt(w)
  IN
  /\ pc[g] = "picked"
  /\ w \notin NoWorker \union BadContract
  /\ n \in Attempt
  /\ attempts' = [attempts EXCEPT ![w] = n]
  /\ \/ /\ asg' = [asg EXCEPT ![w][n] = "running"]
        /\ SetWorkPackageState(w, "RUNNING")
        /\ RecordAssignment(w, n, "running")
        /\ pc' = [pc EXCEPT ![g] = "running"]
        /\ try' = [try EXCEPT ![g] = n]
        /\ UNCHANGED <<job, out>>
     \/ /\ w \in Unreliable
        /\ asg' = [asg EXCEPT ![w][n] = "failed"]
        /\ graph' = [graph EXCEPT ![w] = "DEFICIENT"]
        /\ \E s \in {durWP[w], "RUNNING", "DEFICIENT"} :
             durWP' = [durWP EXCEPT ![w] = s]
        /\ Return(g, "error")
        /\ UNCHANGED durAsg
  /\ UNCHANGED <<current, results, seen, gateVars, runVars>>

\* The adapter returns an error.  Cancellation cancels the assignment and leaves
\* the work package as it is; any other error fails both.
AdapterError(g, to) ==
  LET w == job[g]
      n == try[g]
  IN
  /\ pc[g] = "running"
  /\ to = "canceled" => MayCancel
  /\ Conclude(w, n, to)
  /\ current' = [current EXCEPT ![w] = n]
  /\ \E ok \in Writes(w) :
       /\ IF ok THEN RecordAssignment(w, n, to) ELSE UNCHANGED durAsg
       /\ Return(g, IF ok /\ to = "failed" THEN "failed" ELSE "error")
  /\ UNCHANGED <<attempts, results, seen, gateVars, runVars>>

\* Mutant: acceptance is recorded before the gates are awaited.
RecordedPath_AcceptFirst(verdict) ==
  IF verdict = "failed" THEN <<"collecting", "failed">>
  ELSE IF verdict = "accepted" THEN <<"collecting", "accepted", "awaiting_gates">>
  ELSE <<"collecting", "awaiting_gates">>

\* The assignment states a collected result is recorded in, in order.  A package
\* whose gates fail is not recorded again.
RecordedPath(verdict) ==
  IF verdict = "failed" THEN <<"collecting", "failed">>
  ELSE IF verdict = "accepted" THEN <<"collecting", "awaiting_gates", "accepted">>
  ELSE <<"collecting", "awaiting_gates">>

Final(verdict) ==
  IF verdict \in {"failed", "gates_failed"} THEN [state |-> "failed", out |-> "failed"]
  ELSE IF verdict = "accepted" THEN [state |-> "accepted", out |-> "succeeded"]
  ELSE [state |-> "awaiting_gates", out |-> "pending"]

Verdict(w, status, tests) ==
  IF status = "failed" THEN "failed"
  ELSE IF Evaluate(w, tests) = "passed" THEN "accepted"
  ELSE IF Evaluate(w, tests) = "pending" THEN "pending" ELSE "gates_failed"

\* The adapter returns a result that intake refuses (a status it does not know, a
\* failure without its detail, an id reused with other content): the assignment
\* stays collecting, the work package running, o.assignments is not updated.
CollectInvalid(g) ==
  /\ pc[g] = "running"
  /\ asg' = [asg EXCEPT ![job[g]][try[g]] = "collecting"]
  /\ Return(g, "error")
  /\ UNCHANGED <<graph, attempts, current, results, seen, gateVars, durVars, runVars>>

\* The adapter returns a valid result.  `written' assignment records reach the
\* sink before one fails; the handler stops at the state it could not record.
Collect(g, status, tests) ==
  LET w == job[g]
      n == try[g]
      verdict == Verdict(w, status, tests)
      path == RecordedPath(verdict)
  IN
  /\ pc[g] = "running"
  /\ seen' = seen \union {<<w, n>>}
  /\ current' = [current EXCEPT ![w] = n]
  /\ results' = [results EXCEPT ![w] = [attempt |-> n, tests |-> tests]]
  /\ \/ /\ Conclude(w, n, Final(verdict).state)
        /\ RecordAssignment(w, n, path[Len(path)])
        /\ Return(g, Final(verdict).out)
     \/ /\ w \in Unreliable
        /\ \E written \in 0..(Len(path) - 1) :
             /\ Conclude(w, n, path[written + 1])
             /\ IF written = 0 THEN UNCHANGED durAsg
                ELSE RecordAssignment(w, n, path[written])
        /\ Return(g, "error")
  /\ UNCHANGED <<attempts, gateVars, runVars>>

(***************************************************************************)
(* Gate decisions and their resolution.                                    *)
(***************************************************************************)
Approve(w) ==
  /\ "human_review" \in Gates
  /\ approved' = approved \union {w}
  /\ UNCHANGED <<memVars, rejected, durVars, threadVars, runVars>>

Reject(w) ==
  /\ "human_review" \in Gates
  /\ approved' = approved \ {w}
  /\ rejected' = rejected \union {w}
  /\ UNCHANGED <<memVars, durVars, threadVars, runVars>>

\* Re-evaluates the gates of an assignment that awaits them; a pending report
\* changes nothing.
Resolvable(w) ==
  /\ current[w] # 0
  /\ asg[w][current[w]] = "awaiting_gates"
  /\ Evaluate(w, results[w].tests) # "pending"

Resolve(w) ==
  LET n == current[w]
      to == IF Evaluate(w, results[w].tests) = "passed" THEN "accepted" ELSE "failed"
  IN
  /\ Resolvable(w)
  /\ Conclude(w, n, to)
  /\ \E ok \in Writes(w) : IF ok THEN RecordAssignment(w, n, to) ELSE UNCHANGED durAsg
  /\ UNCHANGED <<attempts, current, results, seen, gateVars, threadVars, runVars>>

-----------------------------------------------------------------------------
Step(g) ==
  \/ Refuse(g)
  \/ Start(g)
  \/ \E to \in {"failed", "canceled"} : AdapterError(g, to)
  \/ CollectInvalid(g)
  \/ \E status \in {"succeeded", "failed"}, tests \in BOOLEAN : Collect(g, status, tests)

Next ==
  \/ RunStart
  \/ RunBatch
  \/ RunReturn
  \/ \E g \in Goroutine : Dispatch(g) \/ RunReceive(g) \/ Step(g)
  \/ \E w \in WP : Approve(w) \/ Reject(w) \/ Resolve(w)

Spec == Init /\ [][Next]_vars

\* Goroutines and adapter calls end (adapters observe their context and return),
\* and Run keeps going; nobody has to call, approve or resolve.
Fairness ==
  /\ WF_vars(RunBatch \/ RunReturn)
  /\ \A g \in Goroutine : WF_vars(RunReceive(g)) /\ WF_vars(Step(g))

FairSpec == Spec /\ Fairness

-----------------------------------------------------------------------------
TypeOK ==
  /\ graph \in [WP -> WPState]
  /\ attempts \in [WP -> 0..AttemptBound]
  /\ asg \in [WP -> [Attempt -> AsgState]]
  /\ current \in [WP -> 0..AttemptBound]
  /\ results \in [WP -> Result]
  /\ seen \subseteq WP \X Attempt
  /\ approved \subseteq WP
  /\ rejected \subseteq WP
  /\ durWP \in [WP -> WPState]
  /\ durAsg \in [WP -> [Attempt -> AsgState]]
  /\ pc \in [Goroutine -> {"idle", "picked", "running", "returned"}]
  /\ job \in [Goroutine -> WP \union {0}]
  /\ try \in [Goroutine -> 0..AttemptBound]
  /\ out \in [Goroutine -> {"none", "succeeded", "failed", "pending", "error"}]
  /\ runPc \in {"idle", "loop", "collect", "done", "failed"}
  /\ batch \subseteq Goroutine
  /\ report \in Report

\* A work package is attempted only when everything it depends on is complete,
\* and what it was built on stays complete (Graph.Ready, checked before the lock
\* is released and not again by dispatchOne).
DependencyOrder ==
  \A w \in WP : attempts[w] > 0 => \A d \in DependsOn[w] : graph[d] = "COMPLETED"

\* An accepted assignment is the last attempt of its work package, its package is
\* complete, and the result the gates judged is that attempt's own, with passing
\* tests where a tests gate is configured (dispatchOne and Resolve both accept).
AcceptedOnOwnEvidence ==
  \A w \in WP, n \in Attempt : asg[w][n] = "accepted" =>
    /\ n = attempts[w]
    /\ graph[w] = "COMPLETED"
    /\ results[w].attempt = n
    /\ "tests" \in Gates => results[w].tests

\* The attempts of a package are accounted for.  A new one starts only after every
\* earlier one has failed: cancelled, abandoned and gate-pending attempts are never
\* overtaken (Run's retry).  And a package shown as running has a goroutine
\* executing it, or its last assignment awaits gates, was cancelled, or was left
\* collecting: the exits of dispatchOne that do not move the work package.
AttemptsAccountedFor ==
  \A w \in WP :
    /\ \A n \in Attempt : n < attempts[w] => asg[w][n] \in {"none", "failed"}
    /\ graph[w] = "RUNNING" =>
         \/ \E g \in Goroutine : pc[g] = "running" /\ job[g] = w /\ try[g] = attempts[w]
         \/ /\ attempts[w] \in Attempt
            /\ asg[w][attempts[w]] \in {"awaiting_gates", "canceled", "collecting"}

\* What the durable records say is complete or accepted is so in memory, whichever
\* of the writes fail and in whatever order handlers interleave.
DurableNotAhead ==
  \A w \in WP :
    /\ durWP[w] = "COMPLETED" => graph[w] = "COMPLETED"
    /\ \A n \in Attempt : durAsg[w][n] = "accepted" => asg[w][n] = "accepted"

\* Overlapping callers can run one package twice, but intake never sees a reused
\* result id (docs/modules/kernel/scheduler.md:26), and a package completes, on
\* collection or on a later Resolve, only with an approval that no rejection
\* overrides and with passing tests, whatever order decisions, attempts and calls
\* come in (Scheduler.Approve, Reject, Resolve).
OverlapIsSafe ==
  [][/\ \A g \in Goroutine : pc'[g] = "running" => <<job'[g], try'[g]>> \notin seen'
     /\ \A w \in WP : graph[w] # "COMPLETED" /\ graph'[w] = "COMPLETED" =>
          /\ "human_review" \in Gates => w \in approved \ rejected
          /\ "tests" \in Gates => results'[w].tests]_vars

\* When Run returns without error its report agrees with the graph: it counts every
\* package it tried once, as complete, deficient or waiting for gates, and whatever
\* is left was blocked by a dependency.  A reviewer may resolve a waiting package
\* before Run returns; where no human gate is configured the numbers are exact, and
\* deficient packages have used all their attempts.
Tried == {w \in WP : report.attempts[w] > 0}
TriedIn(s) == {w \in Tried : graph[w] = s}

RunReportFaithful ==
  [][runPc = "loop" /\ runPc' = "done" =>
       /\ report.accepted + report.failed + report.pending = Cardinality(Tried)
       /\ report.accepted <= Cardinality(TriedIn("COMPLETED"))
       /\ report.failed <= Cardinality(TriedIn("DEFICIENT"))
       /\ "human_review" \notin Gates =>
            /\ report.accepted = Cardinality(TriedIn("COMPLETED"))
            /\ report.failed = Cardinality(TriedIn("DEFICIENT"))
            /\ report.pending = Cardinality(TriedIn("RUNNING"))
            /\ \A w \in TriedIn("DEFICIENT") : report.attempts[w] = MaxAttempts
       /\ \A w \in WP : graph[w] \in {"PROPOSED", "READY"} =>
            \E d \in DependsOn[w] : graph[d] # "COMPLETED"]_vars

\* "A failing work package does not abort independent work (partial failure)"
\* (kernel/scheduler/run.go:25): when nothing is cancelled and every package can be
\* served and recorded, Run does not return while independent work is ready.
PartialFailureContinues ==
  runPc \in {"done", "failed"} => Ready = {}

\* Every Run call returns: retries are bounded and no outcome is waited for twice.
RunReturns == RunActive ~> ~RunActive

=============================================================================
