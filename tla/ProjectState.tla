---------------------------- MODULE ProjectState ----------------------------
(***************************************************************************)
(* app/internal/projectstate: one project's scheduler composed with the    *)
(* durable work-package, assignment and approval records, the approval     *)
(* service that decides the human gate, and restarts.                      *)
(*                                                                         *)
(* RecordApproval holds the state mutex from its checks to its last call,  *)
(* but what it does reaches disk, gate and scheduler in three steps, and   *)
(* the process may stop between any two of them.  A stop in the middle of  *)
(* a scheduler handler is a stop after that handler with its later writes  *)
(* failed, so the work packages in Unreliable cover it.                    *)
(***************************************************************************)
EXTENDS Scheduler

CONSTANT CrashBound   (* model bound: process restarts *)

ASSUME CrashBoundAssumption == CrashBound \in Nat

VARIABLES
  approvals,  (* durable approval records                                     *)
  reviewed,   (* history: the attempt that awaited its gate when it was decided *)
  deciding,   (* the work package RecordApproval is working on, or 0          *)
  stage,      (* what RecordApproval does next                                *)
  crashes     (* restarts so far                                              *)

approvalVars == <<approvals, reviewed, deciding, stage>>
psVars == <<vars, approvalVars, crashes>>

\* The decisions the approval handler lets through.
Decision == {"approve", "reject"}

\* A fresh project: no work package has been submitted.
PSInit ==
  /\ InitWith("ABSENT")
  /\ approvals = [w \in WP |-> "none"]
  /\ reviewed = [w \in WP |-> 0]
  /\ deciding = 0
  /\ stage = "none"
  /\ crashes = 0

\* The newest durable assignment of a work package, 0 when there is none.
Latest(w) ==
  LET recorded == {n \in Attempt : durAsg[w][n] # "none"}
  IN  IF recorded = {} THEN 0 ELSE CHOOSE n \in recorded : \A m \in recorded : m <= n

\* Persists a work package whose dependencies are known and adds it to the graph.
SubmitWork(w) ==
  /\ deciding = 0
  /\ graph[w] = "ABSENT"
  /\ \A d \in DependsOn[w] : graph[d] # "ABSENT"
  /\ graph' = [graph EXCEPT ![w] = "PROPOSED"]
  /\ durWP' = [durWP EXCEPT ![w] = "PROPOSED"]
  /\ UNCHANGED <<attempts, asg, current, results, seen, gateVars, durAsg,
                 threadVars, runVars, approvalVars, crashes>>

\* The request names a work package of some project (404 otherwise).
KnownGate(w) == graph[w] # "ABSENT"

\* ApprovalRepository.Save, under the id of the work package.
SaveApproval(w, d) == approvals' = [approvals EXCEPT ![w] = d]

\* RecordApproval, up to and including the durable save: refused when there is a
\* decision already or when the newest durable assignment does not await its gates.
SaveDecision(w, d) ==
  /\ deciding = 0
  /\ KnownGate(w)
  /\ approvals[w] = "none"
  /\ Latest(w) # 0
  /\ durAsg[w][Latest(w)] = "awaiting_gates"
  /\ SaveApproval(w, d)
  /\ reviewed' = [reviewed EXCEPT ![w] = Latest(w)]
  /\ deciding' = w
  /\ stage' = "gate"
  /\ UNCHANGED <<vars, crashes>>

\* API.Approve or API.Reject.
ApplyDecision ==
  /\ stage = "gate"
  /\ IF approvals[deciding] = "approve" THEN Approve(deciding) ELSE Reject(deciding)
  /\ stage' = "resolve"
  /\ UNCHANGED <<approvals, reviewed, deciding, crashes>>

\* API.Resolve, whose error is ignored.
ResolveDecision ==
  /\ stage = "resolve"
  /\ IF Resolvable(deciding) THEN Resolve(deciding) ELSE UNCHANGED vars
  /\ deciding' = 0
  /\ stage' = "none"
  /\ UNCHANGED <<approvals, reviewed, crashes>>

\* Mutant: work that was running is queued again.
RestoredGraph_Requeued ==
  [w \in WP |-> IF durWP[w] = "RUNNING" THEN "READY" ELSE durWP[w]]

\* Mutant: complete work is recorded as verifying, which restores as running.
RestoredGraph_Verifying ==
  [w \in WP |-> IF durWP[w] = "COMPLETED" THEN "RUNNING" ELSE durWP[w]]

\* The planner states New loads: the contract states the sink writes map back to
\* the planner states they came from.
RestoredGraph == durWP

\* Scheduler.Restore: the newest assignment of each package with its attempt
\* number.  Only leased and preparing assignments expire, and the scheduler never
\* records those states.
Restore ==
  /\ attempts' = [w \in WP |-> Latest(w)]
  /\ asg' = durAsg
  /\ current' = [w \in WP |-> Latest(w)]

\* The process stops and New rebuilds it from the records: work-package states,
\* assignments and the gate's decisions.  Results, the intake ledger and
\* goroutines are gone.
Restart ==
  /\ crashes < CrashBound
  /\ crashes' = crashes + 1
  /\ graph' = RestoredGraph
  /\ Restore
  /\ results' = [w \in WP |-> NoResult]
  /\ seen' = {}
  /\ approved' = {w \in WP : approvals[w] = "approve"}
  /\ rejected' = {w \in WP : approvals[w] = "reject"}
  /\ pc' = [g \in Goroutine |-> "idle"]
  /\ job' = [g \in Goroutine |-> 0]
  /\ try' = [g \in Goroutine |-> 0]
  /\ out' = [g \in Goroutine |-> "none"]
  /\ runPc' = "idle"
  /\ batch' = {}
  /\ report' = EmptyReport
  /\ deciding' = 0
  /\ stage' = "none"
  /\ UNCHANGED <<durVars, approvals, reviewed>>

\* The scheduler's own steps.  Inside the application only RecordApproval reaches
\* the gate and Resolve.
SchedulerStep ==
  /\ \/ RunStart
     \/ RunBatch
     \/ RunReturn
     \/ \E g \in Goroutine : Dispatch(g) \/ RunReceive(g) \/ Step(g)
  /\ UNCHANGED <<approvalVars, crashes>>

PSNext ==
  \/ SchedulerStep
  \/ \E w \in WP : SubmitWork(w) \/ (\E d \in Decision : SaveDecision(w, d))
  \/ ApplyDecision
  \/ ResolveDecision
  \/ Restart

PSSpec == PSInit /\ [][PSNext]_psVars

\* A live process finishes the RecordApproval call it is in.  Fairness of the
\* scheduler's steps, which makes its callers call, is more than the code promises:
\* it gives a recorded decision every chance to take effect.
PSFairSpec ==
  /\ PSSpec
  /\ WF_psVars(ApplyDecision)
  /\ WF_psVars(ResolveDecision)
  /\ WF_psVars(SchedulerStep)

-----------------------------------------------------------------------------
\* Work is accepted, in memory and on disk, only under a recorded approval: a
\* rejection holds through retries and restarts, and no restart loses or invents a
\* decision (RecordApproval, restoreApprovals, HumanGate.Evaluate).
AcceptedOnlyIfApproved ==
  \A w \in WP :
    \/ graph[w] = "COMPLETED"
    \/ durWP[w] = "COMPLETED"
    \/ \E n \in Attempt : asg[w][n] = "accepted" \/ durAsg[w][n] = "accepted"
    => approvals[w] = "approve"

\* The attempt that is accepted is the attempt the reviewer saw waiting, for
\* packages whose records reach the disk.
AcceptedIsReviewed ==
  \A w \in WP \ Unreliable, n \in Attempt : asg[w][n] = "accepted" => reviewed[w] = n

\* A restart keeps what work stands on: a package that waits for its gate can
\* still be decided (nothing was decided before, and the record RecordApproval
\* consults shows the same assignment waiting), and a package is attempted only on
\* complete dependencies, which stay complete.  Both for packages whose records
\* reach the disk.
RestartKeepsWork ==
  /\ \A w \in WP \ Unreliable :
       current[w] # 0 /\ asg[w][current[w]] = "awaiting_gates" /\ approvals[w] = "none"
         => Latest(w) = current[w] /\ durAsg[w][Latest(w)] = "awaiting_gates"
  /\ \A w \in WP : attempts[w] > 0 =>
       \A d \in DependsOn[w] \ Unreliable : graph[d] = "COMPLETED"

\* "RecordApproval persists a decision and applies it to the project scheduler"
\* (app/internal/projectstate/projectstate.go:378): a package whose decision is
\* recorded does not wait for its gate for ever.
DecisionTakesEffect ==
  \A w \in WP :
    approvals[w] # "none" ~> (current[w] # 0 => asg[w][current[w]] # "awaiting_gates")

=============================================================================
