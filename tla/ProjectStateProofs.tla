------------------------- MODULE ProjectStateProofs -------------------------
(***************************************************************************)
(* Proofs about ProjectState for every graph of work packages, every       *)
(* pattern of failing writes and any number of restarts.                   *)
(*                                                                         *)
(* A restart rebuilds memory from records that were written one by one, so *)
(* what a running scheduler knows of its packages (SchedulerProofs) is     *)
(* lost for the packages whose writes may fail.  RestartInv says what      *)
(* remains of it: for a package whose records reach the disk, memory and   *)
(* records tell the same story, and once a decision is recorded its        *)
(* attempt is the last.  The human gate makes that true: until there is a  *)
(* decision it is pending, so no result is accepted or refused by the      *)
(* gates on collection.                                                    *)
(***************************************************************************)
EXTENDS ProjectState, SchedulerProofs, WellFoundedInduction

Reliable == WP \ Unreliable

PSType ==
  /\ TypeInv
  /\ approvals \in [WP -> {"none", "approve", "reject"}]
  /\ reviewed \in [WP -> 0..AttemptBound]
  /\ deciding \in WP \union {0}
  /\ stage \in {"none", "gate", "resolve"}
  /\ stage # "none" => deciding \in WP
  /\ crashes \in Nat

\* The gate knows only decisions that are on disk.
GateInv ==
  /\ \A w \in WP : /\ w \in approved => approvals[w] = "approve"
                   /\ w \in rejected => approvals[w] = "reject"
  /\ stage # "none" => approvals[deciding] \in {"approve", "reject"}

-----------------------------------------------------------------------------
\* An attempt number is drawn before anything is recorded under it.
NumbersDrawn(w) ==
  /\ current[w] <= attempts[w]
  /\ \A n \in Attempt : durAsg[w][n] # "none" => n <= attempts[w]

OnComplete(w) == \A d \in DependsOn[w] \ Unreliable : graph[d] = "COMPLETED"

\* The records of a reliable package.  Only a retry and a result that intake refuses
\* are not written.
Recorded(w) ==
  /\ durWP[w] = graph[w] \/ (durWP[w] = "DEFICIENT" /\ graph[w] = "READY")
  /\ \A n \in Attempt :
       durAsg[w][n] = asg[w][n] \/ (durAsg[w][n] = "running" /\ asg[w][n] = "collecting")

\* Only its last attempt can be other than failed, and the package shows it.
Standing(w) ==
  \A n \in Attempt : asg[w][n] \notin {"none", "failed"} =>
    /\ n = attempts[w]
    /\ graph[w] = IF asg[w][n] = "accepted" THEN "COMPLETED" ELSE "RUNNING"

\* Once decided, the attempt under review is the last one.
Decided(w) ==
  approvals[w] # "none" =>
    /\ reviewed[w] = attempts[w] /\ attempts[w] \in Attempt
    /\ asg[w][attempts[w]] \in {"awaiting_gates", "accepted", "failed"}
    /\ asg[w][attempts[w]] = "failed" => graph[w] = "DEFICIENT"
    /\ \A g \in Goroutine : Busy(g) /\ job[g] = w => pc[g] = "returned" /\ out[g] # "failed"

\* What a goroutine knows of the package it works on.
Held(g) ==
  /\ pc[g] = "picked" => OnComplete(job[g])
  /\ pc[g] = "running" => try[g] <= attempts[job[g]]
  /\ Busy(g) /\ job[g] \in Reliable =>
       /\ pc[g] = "picked" => graph[job[g]] \in {"PROPOSED", "READY"}
       /\ pc[g] = "running" => try[g] = attempts[job[g]] /\ asg[job[g]][try[g]] = "running"
       /\ pc[g] = "returned" /\ out[g] = "failed" => graph[job[g]] = "DEFICIENT"

RestartInv ==
  /\ QuietRun /\ OneJobEach
  /\ \A w \in WP : NumbersDrawn(w) /\ (attempts[w] > 0 => OnComplete(w))
  /\ \A w \in Reliable : Recorded(w) /\ Standing(w) /\ Decided(w)
  /\ \A g \in Goroutine : Held(g)

-----------------------------------------------------------------------------
(* Types, and what the gate knows.                                         *)

LEMMA HighestExists ==
  ASSUME NEW b \in Nat, NEW S \in SUBSET (0..b), S # {}
  PROVE  \E n \in S : \A m \in S : m <= n
<1> DEFINE T == {b - n : n \in S}
<1>1. T \subseteq Nat /\ T # {}
  <2>1. PICK n : n \in S
    OBVIOUS
  <2>2. b - n \in T
    BY <2>1
  <2>3. \A t \in T : t \in Nat
    OBVIOUS
  <2>4. QED
    BY <2>2, <2>3
<1>2. PICK x \in T : \A y \in T : ~(<<y, x>> \in OpToRel(<, Nat))
  BY <1>1, NatLessThanWellFounded, WFMin
<1>3. \A y \in T : ~(y < x)
  BY <1>1, <1>2 DEF OpToRel
<1>4. PICK n \in S : x = b - n
  OBVIOUS
<1>5. \A m \in S : ~(b - m < b - n)
  BY <1>3, <1>4
<1>6. QED
  BY <1>5

\* Latest is the highest attempt number with a record, or zero.
LEMMA LatestFacts ==
  ASSUME TypeInv, NEW w \in WP
  PROVE  /\ Latest(w) \in 0..AttemptBound
         /\ \A n \in Attempt : durAsg[w][n] # "none" => n <= Latest(w)
         /\ Latest(w) # 0 => Latest(w) \in Attempt /\ durAsg[w][Latest(w)] # "none"
<1> DEFINE recorded == {n \in Attempt : durAsg[w][n] # "none"}
<1>1. recorded \in SUBSET (0..AttemptBound) /\ AttemptBound \in Nat
  BY ConstantsAssumption DEF Attempt
<1>2. CASE recorded = {}
  BY <1>1, <1>2 DEF Latest
<1>3. CASE recorded # {}
  <2>1. \E n \in recorded : \A m \in recorded : m <= n
    BY <1>1, <1>3, HighestExists
  <2>2. Latest(w) = CHOOSE n \in recorded : \A m \in recorded : m <= n
    BY <1>3 DEF Latest
  <2>3. Latest(w) \in recorded /\ \A m \in recorded : m <= Latest(w)
    BY <2>1, <2>2
  <2>4. QED
    BY <1>1, <2>3
<1>4. QED
  BY <1>2, <1>3

LEMMA PSTypeInit == PSInit => PSType /\ GateInv
<1> SUFFICES ASSUME PSInit PROVE PSType /\ GateInv
  OBVIOUS
<1> USE ConstantsAssumption DEF PSInit, InitWith
<1>1. TypeOK
  BY DEF TypeOK, WPState, AsgState, Result, NoResult, Report, EmptyReport
<1>2. TypeInv
  BY <1>1 DEF TypeInv, Busy
<1>3. QED
  BY <1>2 DEF PSType, GateInv

\* The steps of the application that are steps of its scheduler.
LEMMA DrivenSteps ==
  ASSUME PSType, SchedulerStep \/ ApplyDecision \/ ResolveDecision \/ \E w \in WP, d \in Decision : SaveDecision(w, d)
  PROVE  [Next]_vars
<1>1. CASE SchedulerStep
  BY <1>1 DEF SchedulerStep, Next
<1>2. CASE ApplyDecision
  BY <1>2 DEF ApplyDecision, PSType, Next
<1>3. CASE ResolveDecision
  BY <1>3 DEF ResolveDecision, PSType, Next
<1>4. CASE \E w \in WP, d \in Decision : SaveDecision(w, d)
  BY <1>4 DEF SaveDecision
<1>5. QED
  BY <1>1, <1>2, <1>3, <1>4

LEMMA RestartTypes ==
  ASSUME PSType, Restart
  PROVE  PSType'
<1>1. /\ graph' = durWP /\ UNCHANGED <<durWP, durAsg, approvals, reviewed>> /\ crashes' = crashes + 1
      /\ attempts' = [w \in WP |-> Latest(w)] /\ asg' = durAsg /\ current' = [w \in WP |-> Latest(w)]
      /\ results' = [w \in WP |-> NoResult] /\ seen' = {}
      /\ approved' = {w \in WP : approvals[w] = "approve"} /\ rejected' = {w \in WP : approvals[w] = "reject"}
  BY DEF Restart, Restore, RestoredGraph, durVars
<1>2. /\ pc' = [g \in Goroutine |-> "idle"] /\ job' = [g \in Goroutine |-> 0]
      /\ try' = [g \in Goroutine |-> 0] /\ out' = [g \in Goroutine |-> "none"]
      /\ runPc' = "idle" /\ batch' = {} /\ report' = EmptyReport /\ deciding' = 0 /\ stage' = "none"
  BY DEF Restart
<1>3. \A w \in WP : Latest(w) \in 0..AttemptBound
  BY LatestFacts DEF PSType
<1>4. /\ graph' \in [WP -> WPState] /\ durWP' \in [WP -> WPState]
      /\ asg' \in [WP -> [Attempt -> AsgState]] /\ durAsg' \in [WP -> [Attempt -> AsgState]]
      /\ attempts' \in [WP -> 0..AttemptBound] /\ current' \in [WP -> 0..AttemptBound]
      /\ seen' \subseteq WP \X Attempt /\ approved' \subseteq WP /\ rejected' \subseteq WP
  BY <1>1, <1>3 DEF PSType, TypeInv, TypeOK
<1>5. results' \in [WP -> Result] /\ report' \in Report
  BY <1>1, <1>2, ConstantsAssumption DEF Result, NoResult, Report, EmptyReport
<1>6. /\ pc' \in [Goroutine -> {"idle", "picked", "running", "returned"}]
      /\ job' \in [Goroutine -> WP \union {0}] /\ try' \in [Goroutine -> 0..AttemptBound]
      /\ out' \in [Goroutine -> {"none", "succeeded", "failed", "pending", "error"}]
      /\ runPc' \in {"idle", "loop", "collect", "done", "failed"} /\ batch' \subseteq Goroutine
  BY <1>2, ConstantsAssumption
<1>7. TypeOK'
  BY <1>4, <1>5, <1>6 DEF TypeOK
<1>8. TypeInv'
  BY <1>2, <1>7 DEF TypeInv, Busy
<1>9. QED
  BY <1>1, <1>2, <1>8 DEF PSType

LEMMA PSTypeNext == PSType /\ [PSNext]_psVars => PSType'
<1> SUFFICES ASSUME PSType, [PSNext]_psVars PROVE PSType'
  OBVIOUS
<1>1. ASSUME [Next]_vars PROVE TypeInv'
  BY <1>1, TypeNext DEF PSType
<1>2. CASE SchedulerStep
  BY <1>1, <1>2, DrivenSteps DEF SchedulerStep, approvalVars, PSType
<1>3. ASSUME NEW w \in WP, SubmitWork(w) PROVE PSType'
  <2>1. /\ graph' = [graph EXCEPT ![w] = "PROPOSED"] /\ durWP' = [durWP EXCEPT ![w] = "PROPOSED"]
        /\ UNCHANGED <<attempts, asg, current, results, seen, gateVars, durAsg, threadVars, runVars>>
        /\ UNCHANGED <<approvalVars, crashes>>
    BY <1>3 DEF SubmitWork
  <2>2. TypeInv'
    BY <2>1 DEF PSType, TypeInv, TypeOK, WPState, Busy, gateVars, threadVars, runVars
  <2>3. QED
    BY <2>1, <2>2 DEF PSType, approvalVars
<1>4. ASSUME NEW w \in WP, NEW d \in Decision, SaveDecision(w, d) PROVE PSType'
  <2>1. TypeInv'
    BY <1>1, <1>4, DrivenSteps
  <2>2. Latest(w) \in 0..AttemptBound
    BY LatestFacts DEF PSType
  <2>3. QED
    BY <1>4, <2>1, <2>2 DEF SaveDecision, SaveApproval, Decision, PSType
<1>5. CASE ApplyDecision
  <2>1. TypeInv'
    BY <1>1, <1>5, DrivenSteps
  <2>2. QED
    BY <1>5, <2>1 DEF ApplyDecision, PSType
<1>6. CASE ResolveDecision
  <2>1. TypeInv'
    BY <1>1, <1>6, DrivenSteps
  <2>2. QED
    BY <1>6, <2>1 DEF ResolveDecision, PSType
<1>7. CASE Restart
  BY <1>7, RestartTypes
<1>8. CASE UNCHANGED psVars
  BY <1>1, <1>8 DEF psVars, approvalVars, PSType
<1>9. QED
  BY <1>2, <1>3, <1>4, <1>5, <1>6, <1>7, <1>8 DEF PSNext

\* Decisions are on disk before the gate hears of them, and are never replaced.
LEMMA GateNext == PSType /\ GateInv /\ [PSNext]_psVars => GateInv'
<1> SUFFICES ASSUME PSType, GateInv, [PSNext]_psVars PROVE GateInv'
  OBVIOUS
<1>1. CASE SchedulerStep
  <2>1. UNCHANGED gateVars
    <3>1. CASE RunStart \/ RunBatch \/ RunReturn
      BY <3>1 DEF RunStart, RunBatch, RunReturn
    <3>2. ASSUME NEW g \in Goroutine, Dispatch(g) \/ RunReceive(g) \/ Refuse(g) \/ Start(g) \/ CollectInvalid(g)
          PROVE  UNCHANGED gateVars
      BY <3>2 DEF Dispatch, RunReceive, Refuse, Start, CollectInvalid
    <3>3. ASSUME NEW g \in Goroutine, NEW to, AdapterError(g, to) PROVE UNCHANGED gateVars
      BY <3>3 DEF AdapterError
    <3>4. ASSUME NEW g \in Goroutine, NEW status, NEW tests, Collect(g, status, tests) PROVE UNCHANGED gateVars
      BY <3>4 DEF Collect
    <3>5. QED
      BY <1>1, <3>1, <3>2, <3>3, <3>4 DEF SchedulerStep, Step
  <2>2. QED
    BY <1>1, <2>1 DEF SchedulerStep, approvalVars, gateVars, GateInv
<1>2. CASE UNCHANGED psVars \/ \E w \in WP : SubmitWork(w)
  BY <1>2 DEF psVars, vars, gateVars, approvalVars, SubmitWork, GateInv
<1>3. ASSUME NEW w \in WP, NEW d \in Decision, SaveDecision(w, d) PROVE GateInv'
  <2>1. w \notin approved /\ w \notin rejected /\ UNCHANGED <<approved, rejected>>
    BY <1>3 DEF SaveDecision, GateInv, vars, gateVars
  <2>2. /\ \A v \in WP : v # w => approvals'[v] = approvals[v]
        /\ deciding' = w /\ approvals'[w] \in {"approve", "reject"}
    BY <1>3 DEF SaveDecision, SaveApproval, PSType, Decision
  <2>3. QED
    BY <2>1, <2>2 DEF GateInv
<1>4. CASE ApplyDecision
  <2>1. deciding \in WP /\ approvals[deciding] \in {"approve", "reject"} /\ UNCHANGED <<approvals, deciding>>
    BY <1>4 DEF ApplyDecision, PSType, GateInv
  <2>2. CASE approvals[deciding] = "approve"
    BY <1>4, <2>1, <2>2 DEF ApplyDecision, Approve, GateInv
  <2>3. CASE approvals[deciding] = "reject"
    BY <1>4, <2>1, <2>3 DEF ApplyDecision, Reject, GateInv
  <2>4. QED
    BY <2>1, <2>2, <2>3
<1>5. CASE ResolveDecision
  BY <1>5 DEF ResolveDecision, Resolve, vars, gateVars, GateInv
<1>6. CASE Restart
  BY <1>6 DEF Restart, GateInv
<1>7. QED
  BY <1>1, <1>2, <1>3, <1>4, <1>5, <1>6 DEF PSNext

\* Where a human gate is configured, as the application always does, work is accepted
\* in memory and on disk only under a recorded approval, however callers overlap,
\* whichever writes fail and however often the process restarts.
THEOREM AcceptedOnlyIfApprovedHolds ==
  ASSUME "human_review" \in Gates PROVE PSSpec => []AcceptedOnlyIfApproved
<1>1. PSInit => AcceptedOnlyIfApproved
  BY DEF PSInit, InitWith, AcceptedOnlyIfApproved
<1>2. PSType /\ GateInv /\ AcceptedOnlyIfApproved /\ [PSNext]_psVars => AcceptedOnlyIfApproved'
  <2> SUFFICES ASSUME PSType, GateInv, AcceptedOnlyIfApproved, [PSNext]_psVars, NEW w \in WP,
                      \/ graph'[w] = "COMPLETED" \/ durWP'[w] = "COMPLETED"
                      \/ \E n \in Attempt : asg'[w][n] = "accepted" \/ durAsg'[w][n] = "accepted"
               PROVE  approvals'[w] = "approve"
    BY DEF AcceptedOnlyIfApproved
  <2> DEFINE Claimed == \/ graph[w] = "COMPLETED" \/ durWP[w] = "COMPLETED"
                        \/ \E n \in Attempt : asg[w][n] = "accepted" \/ durAsg[w][n] = "accepted"
  <2>1. Claimed => approvals[w] = "approve"
    BY DEF AcceptedOnlyIfApproved
  <2>2. approvals[w] = "approve" => approvals'[w] = "approve"
    BY DEF PSNext, SchedulerStep, SubmitWork, SaveDecision, SaveApproval, ApplyDecision, ResolveDecision, Restart,
       psVars, approvalVars, PSType
  <2>3. CASE [Next]_vars
    <3>1. CASE UNCHANGED vars
      BY <2>1, <2>2, <3>1 DEF vars, memVars, durVars
    <3>2. CASE Next
      <4>1. NoNewClaim(w) => Claimed
        BY DEF NoNewClaim
      <4>2. w \in approved => approvals[w] = "approve"
        BY DEF GateInv
      <4>3. NoNewClaim(w) \/ w \in approved \ rejected
        BY <3>2, ClaimsOnEvidence DEF PSType
      <4>4. QED
        BY <2>1, <2>2, <4>1, <4>2, <4>3
    <3>3. QED
      BY <2>3, <3>1, <3>2
  <2>4. CASE \E v \in WP : SubmitWork(v)
    <3>1. Claimed
      BY <2>4 DEF SubmitWork, PSType, TypeInv, TypeOK
    <3>2. QED
      BY <2>1, <2>2, <3>1
  <2>5. CASE Restart
    <3>1. Claimed
      BY <2>5 DEF Restart, Restore, RestoredGraph, durVars
    <3>2. QED
      BY <2>1, <2>2, <3>1
  <2>6. CASE UNCHANGED psVars
    BY <2>3, <2>6 DEF psVars
  <2>7. QED
    BY <2>3, <2>4, <2>5, <2>6, DrivenSteps DEF PSNext
<1>3. QED
  BY <1>1, <1>2, PSTypeInit, PSTypeNext, GateNext, PTL DEF PSSpec

-----------------------------------------------------------------------------
(* What a restart preserves, for callers that do not overlap.              *)

packageVars == <<graph, attempts, asg, current, durWP, durAsg, approvals, reviewed>>

\* A package that was decided is not waiting to be attempted.
LEMMA DecidedShown ==
  ASSUME RestartInv, NEW w \in Reliable, approvals[w] # "none"
  PROVE  graph[w] \in {"RUNNING", "COMPLETED", "DEFICIENT"}
<1>1. Decided(w) /\ Standing(w)
  BY DEF RestartInv
<1>2. QED
  BY <1>1 DEF Decided, Standing

\* A package that waits to be attempted has nothing standing.
LEMMA NothingStandsYet ==
  ASSUME RestartInv, NEW w \in Reliable, graph[w] \notin {"RUNNING", "COMPLETED"}
  PROVE  \A n \in Attempt : asg[w][n] \in {"none", "failed"}
BY DEF RestartInv, Standing

\* Fewer goroutines with the same jobs.
LEMMA FewerJobs ==
  ASSUME QuietRun, OneJobEach, UNCHANGED <<runPc, batch>>,
         \A h \in Goroutine : Busy(h)' => Busy(h) /\ job'[h] = job[h]
  PROVE  QuietRun' /\ OneJobEach'
BY DEF QuietRun, OneJobEach, Busy

\* A step that is about one package.
LEMMA PackageMoves ==
  ASSUME PSType, PSType', RestartInv, NEW w \in WP,
         \A v \in WP : v # w =>
           /\ graph'[v] = graph[v] /\ attempts'[v] = attempts[v] /\ asg'[v] = asg[v] /\ current'[v] = current[v]
           /\ durWP'[v] = durWP[v] /\ durAsg'[v] = durAsg[v]
           /\ approvals'[v] = approvals[v] /\ reviewed'[v] = reviewed[v],
         w \in Reliable /\ graph[w] = "COMPLETED" => graph'[w] = "COMPLETED",
         \A h \in Goroutine : Busy(h)' /\ job'[h] # w =>
           pc'[h] = pc[h] /\ job'[h] = job[h] /\ try'[h] = try[h] /\ out'[h] = out[h],
         QuietRun', OneJobEach',
         NumbersDrawn(w)', attempts'[w] > 0 => OnComplete(w) ,
         w \in Reliable => Recorded(w)' /\ Standing(w)' /\ Decided(w)',
         \A h \in Goroutine : Busy(h)' /\ job'[h] = w =>
           /\ pc'[h] = "picked" => OnComplete(w) /\ (w \in Reliable => graph'[w] \in {"PROPOSED", "READY"})
           /\ pc'[h] = "running" => /\ try'[h] <= attempts'[w]
                                    /\ w \in Reliable => try'[h] = attempts'[w] /\ asg'[w][try'[h]] = "running"
           /\ pc'[h] = "returned" /\ out'[h] = "failed" /\ w \in Reliable => graph'[w] = "DEFICIENT"
  PROVE  RestartInv'
<1>1. \A d \in Reliable : graph[d] = "COMPLETED" => graph'[d] = "COMPLETED"
  BY DEF Reliable
<1>2. ASSUME NEW v \in WP, OnComplete(v) PROVE OnComplete(v)'
  <2>1. DependsOn[v] \ Unreliable \subseteq Reliable
    BY ConstantsAssumption DEF Reliable
  <2>2. QED
    BY <1>1, <1>2, <2>1 DEF OnComplete
<1>3. ASSUME NEW v \in WP PROVE NumbersDrawn(v)' /\ (attempts'[v] > 0 => OnComplete(v)')
  <2>1. CASE v = w
    BY <1>2, <2>1
  <2>2. CASE v # w
    BY <1>2, <2>2 DEF RestartInv, NumbersDrawn
  <2>3. QED
    BY <2>1, <2>2
<1>4. ASSUME NEW v \in Reliable PROVE Recorded(v)' /\ Standing(v)' /\ Decided(v)'
  <2>1. CASE v # w
    <3>1. v \in WP /\ Recorded(v) /\ Standing(v) /\ Decided(v)
      BY DEF RestartInv, Reliable
    <3>2. Recorded(v)' /\ Standing(v)'
      BY <2>1, <3>1 DEF Recorded, Standing
    <3>3. \A h \in Goroutine : Busy(h)' /\ job'[h] = v => Busy(h) /\ job[h] = v /\ pc'[h] = pc[h] /\ out'[h] = out[h]
      BY <2>1 DEF Busy
    <3>4. Decided(v)'
      BY <2>1, <3>1, <3>3 DEF Decided
    <3>5. QED
      BY <3>2, <3>4
  <2>2. QED
    BY <2>1
<1>5. ASSUME NEW h \in Goroutine PROVE Held(h)'
  <2>1. CASE ~Busy(h)'
    BY <2>1 DEF Held, Busy
  <2>2. CASE Busy(h)' /\ job'[h] = w
    <3>1. pc'[h] = "picked" => OnComplete(job[h])'
      BY <1>2, <2>2 DEF OnComplete
    <3>2. QED
      BY <2>2, <3>1 DEF Held
  <2>3. CASE Busy(h)' /\ job'[h] # w
    <3>1. /\ pc'[h] = pc[h] /\ job'[h] = job[h] /\ try'[h] = try[h] /\ out'[h] = out[h]
          /\ Held(h) /\ job[h] # w /\ Busy(h)
      BY <2>3 DEF RestartInv, Busy
    <3>2. PICK v \in WP : v = job[h] /\ v = job'[h] /\ v # w
      BY <3>1 DEF PSType, TypeInv
    <3>3. pc'[h] = "picked" => OnComplete(job[h])'
      <4>1. pc'[h] = "picked" => OnComplete(v)'
        BY <1>2, <3>1, <3>2 DEF Held
      <4>2. QED
        BY <3>1, <3>2, <4>1 DEF OnComplete
    <3>4. graph'[v] = graph[v] /\ attempts'[v] = attempts[v] /\ asg'[v] = asg[v]
      BY <3>2
    <3>5. QED
      BY <3>1, <3>2, <3>3, <3>4 DEF Held
  <2>4. QED
    BY <2>1, <2>2, <2>3
<1>6. QED
  BY <1>3, <1>4, <1>5 DEF RestartInv

\* A step that is about the goroutines only.
LEMMA GoroutinesMove ==
  ASSUME PSType, RestartInv, UNCHANGED packageVars, QuietRun', OneJobEach',
         \A h \in Goroutine : Busy(h)' =>
           \/ pc'[h] = pc[h] /\ job'[h] = job[h] /\ try'[h] = try[h] /\ out'[h] = out[h]
           \/ pc'[h] = "picked" /\ job'[h] \in Ready
  PROVE  RestartInv'
<1>1. UNCHANGED <<graph, attempts, asg, current, durWP, durAsg, approvals, reviewed>>
  BY DEF packageVars
<1>2. \A w \in WP : NumbersDrawn(w)' /\ (attempts'[w] > 0 => OnComplete(w)')
  BY <1>1 DEF RestartInv, NumbersDrawn, OnComplete
<1>3. ASSUME NEW w \in Reliable PROVE Recorded(w)' /\ Standing(w)' /\ Decided(w)'
  <2>1. Recorded(w)' /\ Standing(w)'
    BY <1>1 DEF RestartInv, Recorded, Standing
  <2>2. Decided(w)'
    <3>1. Decided(w)
      BY DEF RestartInv
    <3>2. ASSUME approvals[w] # "none", NEW h \in Goroutine, Busy(h)', job'[h] = w
          PROVE  pc'[h] = "returned" /\ out'[h] # "failed"
      <4>1. w \notin Ready
        BY <3>2, DecidedShown DEF Ready
      <4>2. pc'[h] = pc[h] /\ job'[h] = job[h] /\ out'[h] = out[h]
        BY <3>2, <4>1
      <4>3. QED
        BY <3>1, <3>2, <4>2 DEF Decided, Busy
    <3>3. QED
      BY <1>1, <3>1, <3>2 DEF Decided
  <2>3. QED
    BY <2>1, <2>2
<1>4. ASSUME NEW h \in Goroutine PROVE Held(h)'
  <2>1. CASE ~Busy(h)'
    BY <2>1 DEF Held, Busy
  <2>2. CASE Busy(h)' /\ pc'[h] = pc[h] /\ job'[h] = job[h] /\ try'[h] = try[h] /\ out'[h] = out[h]
    BY <1>1, <2>2 DEF RestartInv, Held, OnComplete, Busy
  <2>3. CASE pc'[h] = "picked" /\ job'[h] \in Ready
    BY <1>1, <2>3 DEF Held, OnComplete, Ready, Busy
  <2>4. QED
    BY <2>1, <2>2, <2>3
<1>5. QED
  BY <1>2, <1>3, <1>4 DEF RestartInv

\* Moving a package whose records reach the disk moves its record.
LEMMA ConcludeRecorded ==
  ASSUME TypeInv, NEW w \in Reliable, NEW n \in Attempt, NEW to, Conclude(w, n, to), durWP[w] = graph[w]
  PROVE  durWP'[w] = graph'[w]
<1>1. w \in WP /\ Writes(w) = {TRUE}
  BY DEF Reliable, Writes
<1>2. ASSUME NEW s, SetWorkPackageState(w, s) PROVE durWP'[w] = s /\ graph'[w] = s
  BY <1>1, <1>2 DEF SetWorkPackageState, TypeInv, TypeOK
<1>3. QED
  BY <1>2 DEF Conclude

\* An attempt that is executed ends.
LEMMA AttemptMoves ==
  ASSUME PSType, PSType', RestartInv, NEW g \in Goroutine, pc[g] = "running",
         NEW w \in WP, NEW n \in Attempt, w = job[g], n = try[g],
         NEW to, NEW o, NEW rec, Conclude(w, n, to), Return(g, o),
         UNCHANGED durAsg \/ RecordAssignment(w, n, rec),
         UNCHANGED <<attempts, runPc, batch, approvals, reviewed>>,
         \A v \in WP : v # w => current'[v] = current[v],
         current'[w] \in {current[w], n},
         w \in Reliable =>
           /\ to \in {"collecting", "awaiting_gates", "failed", "canceled"}
           /\ o = "failed" => to = "failed"
           /\ RecordAssignment(w, n, to) \/ (to = "collecting" /\ UNCHANGED durAsg)
  PROVE  RestartInv'
<1>1. Busy(g) /\ n <= attempts[w]
  BY DEF RestartInv, Held, Busy
<1>2. /\ \A v \in WP : v # w => graph'[v] = graph[v] /\ asg'[v] = asg[v] /\ durWP'[v] = durWP[v]
      /\ \A m \in Attempt : asg'[w][m] = IF m = n THEN to ELSE asg[w][m]
      /\ graph'[w] = IF to = "failed" THEN "DEFICIENT" ELSE IF to = "accepted" THEN "COMPLETED" ELSE graph[w]
  BY ConcludeAll DEF PSType
<1>3. /\ \A v \in WP : v # w => durAsg'[v] = durAsg[v]
      /\ \A m \in Attempt : m # n => durAsg'[w][m] = durAsg[w][m]
  <2>1. CASE RecordAssignment(w, n, rec)
    BY <2>1, RecordAll DEF PSType
  <2>2. QED
    BY <2>1
<1>4. /\ \A h \in Goroutine : h # g => pc'[h] = pc[h] /\ job'[h] = job[h] /\ try'[h] = try[h] /\ out'[h] = out[h]
      /\ pc'[g] \in {"idle", "returned"} /\ (pc'[g] = "returned" => out'[g] = o /\ job'[g] = w)
  BY ReturnEffect, ReturnAll DEF PSType
<1>5. \A h \in Goroutine : Busy(h)' => Busy(h) /\ job'[h] = job[h]
  BY <1>1, <1>4 DEF Busy
<1>6. QuietRun' /\ OneJobEach'
  BY <1>5, FewerJobs DEF RestartInv
<1>7. NumbersDrawn(w)' /\ (attempts'[w] > 0 => OnComplete(w))
  <2>1. NumbersDrawn(w) /\ (attempts[w] > 0 => OnComplete(w))
    BY DEF RestartInv
  <2>2. current'[w] <= attempts'[w]
    BY <1>1, <2>1 DEF NumbersDrawn
  <2>3. \A m \in Attempt : durAsg'[w][m] # "none" => m <= attempts'[w]
    BY <1>1, <1>3, <2>1 DEF NumbersDrawn
  <2>4. QED
    BY <2>1, <2>2, <2>3 DEF NumbersDrawn
<1>8. \A h \in Goroutine : h # g /\ Busy(h) => job[h] # w
  BY <1>1 DEF RestartInv, OneJobEach
<1>9. ASSUME w \in Reliable PROVE Recorded(w)' /\ Standing(w)' /\ Decided(w)' /\ graph[w] = "RUNNING"
  <2>1. Recorded(w) /\ Standing(w) /\ Decided(w)
    BY <1>9 DEF RestartInv
  <2>2. n = attempts[w] /\ asg[w][n] = "running"
    BY <1>1, <1>9 DEF RestartInv, Held
  <2>3. graph[w] = "RUNNING" /\ durWP[w] = "RUNNING" /\ durAsg[w][n] = "running"
    BY <2>1, <2>2 DEF Standing, Recorded
  <2>4. durWP'[w] = graph'[w]
    BY <1>9, <2>3, ConcludeRecorded DEF PSType
  <2>5. durAsg'[w][n] = to \/ (durAsg'[w][n] = "running" /\ to = "collecting")
    <3>1. CASE RecordAssignment(w, n, to)
      BY <3>1, RecordAll DEF PSType
    <3>2. CASE to = "collecting" /\ UNCHANGED durAsg
      BY <2>3, <3>2
    <3>3. QED
      BY <1>9, <3>1, <3>2
  <2>6. Recorded(w)'
    BY <1>2, <1>3, <2>1, <2>4, <2>5 DEF Recorded
  <2>7. Standing(w)'
    BY <1>2, <1>9, <2>1, <2>2, <2>3 DEF Standing
  <2>8. Decided(w)'
    BY <1>1, <2>1 DEF Decided
  <2>9. QED
    BY <2>3, <2>6, <2>7, <2>8
<1>10. ASSUME NEW h \in Goroutine, Busy(h)', job'[h] = w
       PROVE  /\ pc'[h] = "picked" => OnComplete(w) /\ (w \in Reliable => graph'[w] \in {"PROPOSED", "READY"})
              /\ pc'[h] = "running" => /\ try'[h] <= attempts'[w]
                                       /\ w \in Reliable => try'[h] = attempts'[w] /\ asg'[w][try'[h]] = "running"
              /\ pc'[h] = "returned" /\ out'[h] = "failed" /\ w \in Reliable => graph'[w] = "DEFICIENT"
  <2>1. h = g
    BY <1>5, <1>8, <1>10
  <2>2. QED
    BY <1>2, <1>4, <2>1
<1>11. \A h \in Goroutine : Busy(h)' /\ job'[h] # w =>
         pc'[h] = pc[h] /\ job'[h] = job[h] /\ try'[h] = try[h] /\ out'[h] = out[h]
  BY <1>4 DEF Busy
<1>12. QED
  BY <1>2, <1>3, <1>6, <1>7, <1>9, <1>10, <1>11, PackageMoves

\* A package is taken up: it is refused, or its next attempt starts.
LEMMA PickedMoves ==
  ASSUME PSType, PSType', RestartInv, NEW g \in Goroutine, pc[g] = "picked", Refuse(g) \/ Start(g),
         UNCHANGED <<approvals, reviewed>>
  PROVE  RestartInv'
<1>1. PICK w \in WP : w = job[g]
  BY DEF PSType, TypeInv, Busy
<1>2. Busy(g) /\ OnComplete(w) /\ \A h \in Goroutine : h # g /\ Busy(h) => job[h] # w
  BY <1>1 DEF RestartInv, Held, OneJobEach, Busy
<1>3. w \in Reliable => graph[w] \in {"PROPOSED", "READY"} /\ approvals[w] = "none"
  BY <1>1, <1>2 DEF RestartInv, Held, Decided
<1>4. /\ UNCHANGED <<current, runPc, batch>>
      /\ \A v \in WP : v # w => attempts'[v] = attempts[v]
      /\ attempts[w] <= attempts'[w] /\ attempts[w] \in Nat /\ attempts'[w] \in Nat
  BY <1>1, ConstantsAssumption DEF Refuse, Start, NextAttempt, runVars, PSType, TypeInv, TypeOK
<1>5. NumbersDrawn(w) /\ current[w] \in Nat
  BY ConstantsAssumption DEF RestartInv, PSType, TypeInv, TypeOK
<1>6. w \in Reliable => Recorded(w) /\ \A n \in Attempt : asg[w][n] \in {"none", "failed"}
  BY <1>3, NothingStandsYet DEF RestartInv
<1>7. w \in Reliable => Decided(w)'
  BY <1>3 DEF Decided
<1>8. CASE /\ UNCHANGED <<graph, asg, durWP, durAsg>> /\ Return(g, "error")
  <2>1. /\ \A h \in Goroutine : h # g => pc'[h] = pc[h] /\ job'[h] = job[h] /\ try'[h] = try[h] /\ out'[h] = out[h]
        /\ pc'[g] \in {"idle", "returned"} /\ (pc'[g] = "returned" => out'[g] = "error" /\ job'[g] = w)
    BY <1>1, <1>8, ReturnEffect, ReturnAll DEF PSType
  <2>2. \A h \in Goroutine : Busy(h)' => Busy(h) /\ job'[h] = job[h]
    BY <1>1, <1>2, <2>1 DEF Busy
  <2>3. QuietRun' /\ OneJobEach'
    BY <1>4, <2>2, FewerJobs DEF RestartInv
  <2>4. NumbersDrawn(w)'
    BY <1>4, <1>5, <1>8 DEF NumbersDrawn, Attempt
  <2>5. w \in Reliable => Recorded(w)' /\ Standing(w)'
    BY <1>6, <1>8 DEF Recorded, Standing
  <2>6. \A h \in Goroutine : Busy(h)' /\ job'[h] = w => h = g
    BY <1>2, <2>2
  <2>7. \A h \in Goroutine : Busy(h)' /\ job'[h] # w =>
          pc'[h] = pc[h] /\ job'[h] = job[h] /\ try'[h] = try[h] /\ out'[h] = out[h]
    BY <2>1 DEF Busy
  <2>8. QED
    BY <1>2, <1>4, <1>7, <1>8, <2>1, <2>3, <2>4, <2>5, <2>6, <2>7, PackageMoves
<1>9. ASSUME Start(g) PROVE RestartInv'
  <2>1. PICK n \in Attempt : n = attempts[w] + 1 /\ attempts'[w] = n
    BY <1>1, <1>9 DEF Start, NextAttempt, PSType, TypeInv, TypeOK
  <2>2. CASE /\ asg' = [asg EXCEPT ![w][n] = "running"]
             /\ SetWorkPackageState(w, "RUNNING")
             /\ RecordAssignment(w, n, "running")
             /\ pc' = [pc EXCEPT ![g] = "running"]
             /\ try' = [try EXCEPT ![g] = n]
             /\ UNCHANGED <<job, out>>
    <3>1. /\ graph'[w] = "RUNNING" /\ (w \in Reliable => durWP'[w] = "RUNNING")
          /\ \A v \in WP : v # w => graph'[v] = graph[v] /\ durWP'[v] = durWP[v]
      <4>1. PICK ok \in Writes(w) : durWP' = IF ok THEN [durWP EXCEPT ![w] = "RUNNING"] ELSE durWP
        BY <2>2 DEF SetWorkPackageState
      <4>2. graph'[w] = "RUNNING" /\ \A v \in WP : v # w => graph'[v] = graph[v]
        BY <2>2 DEF SetWorkPackageState, PSType, TypeInv, TypeOK
      <4>3. w \in Reliable => ok = TRUE
        BY DEF Reliable, Writes
      <4>4. \A v \in WP : v # w => durWP'[v] = durWP[v]
        BY <4>1 DEF PSType, TypeInv, TypeOK
      <4>5. QED
        BY <4>1, <4>2, <4>3, <4>4 DEF PSType, TypeInv, TypeOK
    <3>2. /\ \A v \in WP : v # w => durAsg'[v] = durAsg[v]
          /\ \A m \in Attempt : durAsg'[w][m] = IF m = n THEN "running" ELSE durAsg[w][m]
      BY <2>2, RecordAll DEF PSType
    <3>3. /\ \A v \in WP : v # w => asg'[v] = asg[v]
          /\ \A m \in Attempt : asg'[w][m] = IF m = n THEN "running" ELSE asg[w][m]
      BY <2>2 DEF PSType, TypeInv, TypeOK
    <3>4. /\ \A h \in Goroutine : h # g => pc'[h] = pc[h] /\ job'[h] = job[h] /\ try'[h] = try[h] /\ out'[h] = out[h]
          /\ pc'[g] = "running" /\ job'[g] = w /\ try'[g] = n
      BY <1>1, <2>2 DEF PSType, TypeInv, TypeOK
    <3>5. QuietRun' /\ OneJobEach'
      <4>1. \A h \in Goroutine : Busy(h)' => Busy(h) /\ job'[h] = job[h]
        BY <1>1, <1>2, <3>4 DEF Busy
      <4>2. QED
        BY <1>4, <4>1, FewerJobs DEF RestartInv
    <3>6. NumbersDrawn(w)'
      <4>1. current'[w] <= attempts'[w]
        BY <1>4, <1>5 DEF NumbersDrawn
      <4>2. \A m \in Attempt : durAsg'[w][m] # "none" => m <= attempts'[w]
        BY <1>4, <1>5, <2>1, <3>2 DEF NumbersDrawn, Attempt
      <4>3. QED
        BY <4>1, <4>2 DEF NumbersDrawn
    <3>7. w \in Reliable => Recorded(w)' /\ Standing(w)'
      BY <1>6, <2>1, <3>1, <3>2, <3>3 DEF Recorded, Standing
    <3>8. \A h \in Goroutine : Busy(h)' /\ job'[h] = w => h = g
      BY <1>2, <3>4 DEF Busy
    <3>9. \A h \in Goroutine : Busy(h)' /\ job'[h] # w =>
            pc'[h] = pc[h] /\ job'[h] = job[h] /\ try'[h] = try[h] /\ out'[h] = out[h]
      BY <3>4
    <3>10. w \in Reliable => graph[w] # "COMPLETED"
      BY <1>3
    <3>11. try'[g] <= attempts'[w] /\ asg'[w][try'[g]] = "running" /\ try'[g] = attempts'[w]
      BY <1>4, <2>1, <3>3, <3>4
    <3>12. ASSUME NEW h \in Goroutine, Busy(h)', job'[h] = w
           PROVE  /\ pc'[h] = "running" /\ try'[h] <= attempts'[w]
                  /\ try'[h] = attempts'[w] /\ asg'[w][try'[h]] = "running"
      BY <3>4, <3>8, <3>11, <3>12
    <3>13. QED
      BY <1>2, <1>4, <1>7, <3>1, <3>2, <3>3, <3>5, <3>6, <3>7, <3>9, <3>10, <3>12, PackageMoves
  <2>3. CASE /\ w \in Unreliable
             /\ asg' = [asg EXCEPT ![w][n] = "failed"]
             /\ graph' = [graph EXCEPT ![w] = "DEFICIENT"]
             /\ \E s \in {durWP[w], "RUNNING", "DEFICIENT"} : durWP' = [durWP EXCEPT ![w] = s]
             /\ Return(g, "error")
             /\ UNCHANGED durAsg
    <3>1. \A v \in WP : v # w => graph'[v] = graph[v] /\ durWP'[v] = durWP[v] /\ asg'[v] = asg[v]
      BY <2>3 DEF PSType, TypeInv, TypeOK
    <3>2. /\ \A h \in Goroutine : h # g => pc'[h] = pc[h] /\ job'[h] = job[h] /\ try'[h] = try[h] /\ out'[h] = out[h]
          /\ pc'[g] \in {"idle", "returned"} /\ (pc'[g] = "returned" => out'[g] = "error" /\ job'[g] = w)
      BY <1>1, <2>3, ReturnEffect, ReturnAll DEF PSType
    <3>3. \A h \in Goroutine : Busy(h)' => Busy(h) /\ job'[h] = job[h]
      BY <1>1, <1>2, <3>2 DEF Busy
    <3>4. QuietRun' /\ OneJobEach'
      BY <1>4, <3>3, FewerJobs DEF RestartInv
    <3>5. NumbersDrawn(w)'
      BY <1>4, <1>5, <2>3 DEF NumbersDrawn, Attempt
    <3>6. w \notin Reliable
      BY <2>3 DEF Reliable
    <3>7. \A h \in Goroutine : Busy(h)' /\ job'[h] = w => h = g
      BY <1>2, <3>3
    <3>8. \A h \in Goroutine : Busy(h)' /\ job'[h] # w =>
            pc'[h] = pc[h] /\ job'[h] = job[h] /\ try'[h] = try[h] /\ out'[h] = out[h]
      BY <3>2 DEF Busy
    <3>9. QED
      BY <1>2, <1>4, <2>3, <3>1, <3>2, <3>4, <3>5, <3>6, <3>7, <3>8, PackageMoves
  <2>4. QED
    BY <1>1, <1>9, <2>1, <2>2, <2>3 DEF Start, NextAttempt
<1>10. QED
  BY <1>8, <1>9 DEF Refuse, durVars

LEMMA RestartInit == PSInit => RestartInv
<1> SUFFICES ASSUME PSInit PROVE RestartInv
  OBVIOUS
<1>1. \A g \in Goroutine : pc[g] = "idle"
  BY DEF PSInit, InitWith
<1>2. QuietRun /\ OneJobEach /\ \A g \in Goroutine : Held(g)
  BY <1>1 DEF PSInit, InitWith, QuietRun, OneJobEach, Held, Busy
<1>3. \A w \in WP : NumbersDrawn(w) /\ (attempts[w] > 0 => OnComplete(w))
  BY DEF PSInit, InitWith, NumbersDrawn
<1>4. \A w \in Reliable : Recorded(w) /\ Standing(w) /\ Decided(w)
  BY DEF PSInit, InitWith, Reliable, Recorded, Standing, Decided
<1>5. QED
  BY <1>2, <1>3, <1>4 DEF RestartInv

\* A caller starts when nothing is in flight and picks what is ready.
LEMMA CallersMove ==
  ASSUME ~Overlap, PSType, RestartInv, UNCHANGED <<approvals, reviewed>>,
         RunStart \/ RunBatch \/ RunReturn \/ \E g \in Goroutine : Dispatch(g)
  PROVE  RestartInv'
<1>1. QuietRun /\ OneJobEach
  BY DEF RestartInv
<1>2. UNCHANGED packageVars
  BY DEF RunStart, RunBatch, RunReturn, Dispatch, memVars, durVars, packageVars
<1>3. CASE RunStart \/ RunReturn
  <2>1. UNCHANGED <<pc, job, try, out>>
    BY <1>3 DEF RunStart, RunReturn, threadVars
  <2>2. QuietRun' /\ OneJobEach'
    BY <1>1, <1>3, <2>1 DEF RunStart, RunReturn, MayCall, QuietRun, OneJobEach, Busy
  <2>3. QED
    BY <1>2, <2>1, <2>2, GoroutinesMove
<1>4. CASE RunBatch
  <2>1. PICK start \in [FirstReady(MaxConcurrency) -> {g \in Goroutine : pc[g] = "idle"}] :
          LET started == {start[w] : w \in DOMAIN start}
              workOf(g) == CHOOSE w \in DOMAIN start : start[w] = g
          IN  /\ \A v, w \in DOMAIN start : start[v] = start[w] => v = w
              /\ batch' = started
              /\ pc' = [g \in Goroutine |-> IF g \in started THEN "picked" ELSE pc[g]]
              /\ job' = [g \in Goroutine |-> IF g \in started THEN workOf(g) ELSE job[g]]
    BY <1>4 DEF RunBatch
  <2>2. \A g \in Goroutine : g \in batch' =>
          /\ pc'[g] = "picked"
          /\ job'[g] \in FirstReady(MaxConcurrency)
          /\ start[job'[g]] = g
    BY <2>1
  <2>3. \A g \in Goroutine : pc[g] = "idle"
    BY <1>1, <1>4 DEF RunBatch, QuietRun, Busy
  <2>4. \A g \in Goroutine : g \notin batch' => pc'[g] = "idle"
    BY <2>1, <2>3
  <2>5. runPc' = "collect"
    BY <1>4 DEF RunBatch
  <2>6. QuietRun' /\ OneJobEach'
    BY <2>2, <2>4, <2>5 DEF QuietRun, OneJobEach, Busy
  <2>7. \A h \in Goroutine : Busy(h)' => pc'[h] = "picked" /\ job'[h] \in Ready
    BY <2>2, <2>4 DEF Busy, FirstReady
  <2>8. QED
    BY <1>2, <2>6, <2>7, GoroutinesMove
<1>5. ASSUME NEW g \in Goroutine, Dispatch(g) PROVE RestartInv'
  <2>1. /\ \A h \in Goroutine : pc[h] = "idle"
        /\ runPc \notin {"loop", "collect"} /\ UNCHANGED <<runPc, batch>>
    BY <1>5 DEF Dispatch, MayCall, RunActive, runVars
  <2>2. /\ pc'[g] = "picked" /\ job'[g] \in Ready
        /\ \A h \in Goroutine : h # g => pc'[h] = "idle"
    BY <1>5, <2>1 DEF Dispatch, FirstReady, PSType, TypeInv, TypeOK
  <2>3. QuietRun' /\ OneJobEach'
    BY <2>1, <2>2 DEF QuietRun, OneJobEach, Busy
  <2>4. \A h \in Goroutine : Busy(h)' => pc'[h] = "picked" /\ job'[h] \in Ready
    BY <2>2 DEF Busy
  <2>5. QED
    BY <1>2, <2>3, <2>4, GoroutinesMove
<1>6. QED
  BY <1>3, <1>4, <1>5

\* Run receives an outcome; only a failure, which is not decided, is retried.
LEMMA ReceiveMoves ==
  ASSUME PSType, PSType', RestartInv, NEW g \in Goroutine, RunReceive(g), UNCHANGED <<approvals, reviewed>>
  PROVE  RestartInv'
<1>1. PICK w \in WP : w = job[g]
  BY DEF RunReceive, PSType, TypeInv, Busy
<1>2. Busy(g) /\ pc[g] = "returned" /\ runPc = "collect" /\ g \in batch
  BY DEF RunReceive, Busy
<1>3. \A h \in Goroutine : Busy(h)' =>
        pc'[h] = pc[h] /\ job'[h] = job[h] /\ try'[h] = try[h] /\ out'[h] = out[h] /\ h # g
  BY DEF RunReceive, Busy, PSType, TypeInv, TypeOK
<1>4. UNCHANGED <<attempts, asg, current, durWP, durAsg>>
  BY DEF RunReceive, durVars
<1>5. /\ \A v \in WP : v # w => graph'[v] = graph[v]
      /\ graph'[w] = graph[w] \/ (out[g] = "failed" /\ graph'[w] = "READY")
  BY <1>1 DEF RunReceive, Retryable, PSType, TypeInv, TypeOK
<1>6. \A h \in Goroutine : Busy(h)' => Busy(h) /\ job[h] # w /\ job'[h] # w
  BY <1>1, <1>2, <1>3 DEF RestartInv, OneJobEach, Busy
<1>7. QuietRun'
  <2>1. CASE out[g] = "error"
    BY <2>1 DEF RunReceive, QuietRun
  <2>2. CASE out[g] # "error"
    <3>1. batch' = batch \ {g} /\ runPc' = IF batch' = {} THEN "loop" ELSE "collect"
      BY <2>2 DEF RunReceive
    <3>2. \A h \in Goroutine : Busy(h)' => h \in batch'
      BY <1>2, <1>3, <1>6, <3>1 DEF RestartInv, QuietRun
    <3>3. QED
      BY <3>1, <3>2 DEF QuietRun
  <2>3. QED
    BY <2>1, <2>2
<1>8. OneJobEach'
  BY <1>3, <1>6 DEF RestartInv, OneJobEach
<1>9. NumbersDrawn(w)' /\ (attempts'[w] > 0 => OnComplete(w))
  BY <1>4 DEF RestartInv, NumbersDrawn
<1>10. w \in Reliable /\ out[g] = "failed" => graph[w] = "DEFICIENT" /\ approvals[w] = "none"
  BY <1>1, <1>2 DEF RestartInv, Held, Decided
<1>11. w \in Reliable => Recorded(w)' /\ Standing(w)' /\ Decided(w)'
  <2> SUFFICES ASSUME w \in Reliable PROVE Recorded(w)' /\ Standing(w)' /\ Decided(w)'
    OBVIOUS
  <2>1. Recorded(w) /\ Standing(w) /\ Decided(w)
    BY DEF RestartInv
  <2>2. CASE graph'[w] = graph[w]
    BY <1>4, <1>6, <2>1, <2>2 DEF Recorded, Standing, Decided
  <2>3. CASE out[g] = "failed" /\ graph'[w] = "READY"
    BY <1>4, <1>10, <2>1, <2>3 DEF Recorded, Standing, Decided
  <2>4. QED
    BY <1>5, <2>2, <2>3
<1>12. w \in Reliable /\ graph[w] = "COMPLETED" => graph'[w] = "COMPLETED"
  BY <1>5, <1>10
<1>13. QED
  BY <1>3, <1>4, <1>5, <1>6, <1>7, <1>8, <1>9, <1>11, <1>12, PackageMoves

\* While there is no decision, the human gate keeps a collected result pending.
LEMMA UndecidedIsPending ==
  ASSUME "human_review" \in Gates, GateInv, NEW w \in WP, approvals[w] = "none", NEW status, NEW tests
  PROVE  Verdict(w, status, tests) \in {"failed", "pending"}
<1>1. HumanGate(w) = "pending"
  BY DEF GateInv, HumanGate
<1>2. "pending" \in Decisions(w, tests)
  BY <1>1 DEF Decisions
<1>3. QED
  BY <1>2 DEF Verdict, Evaluate

\* An execution ends: in an error, in a result intake refuses, or in a result.
LEMMA ExecutionMoves ==
  ASSUME "human_review" \in Gates, PSType, PSType', GateInv, RestartInv, NEW g \in Goroutine,
         UNCHANGED <<approvals, reviewed>>,
         \/ \E to \in {"failed", "canceled"} : AdapterError(g, to)
         \/ CollectInvalid(g)
         \/ \E status \in {"succeeded", "failed"}, tests \in BOOLEAN : Collect(g, status, tests)
  PROVE  RestartInv'
<1>1. pc[g] = "running" /\ Busy(g)
  BY DEF AdapterError, CollectInvalid, Collect, Busy
<1>2. PICK w \in WP, n \in Attempt : w = job[g] /\ n = try[g]
  BY <1>1 DEF PSType, TypeInv, Busy
<1>3. w \in Reliable => w \in WP /\ Writes(w) = {TRUE} /\ approvals[w] = "none" /\ w \notin Unreliable
  BY <1>1, <1>2 DEF RestartInv, Decided, Reliable, Writes
<1>4. ASSUME NEW to \in {"failed", "canceled"}, AdapterError(g, to) PROVE RestartInv'
  <2>1. PICK ok \in Writes(w) :
          /\ IF ok THEN RecordAssignment(w, n, to) ELSE UNCHANGED durAsg
          /\ Return(g, IF ok /\ to = "failed" THEN "failed" ELSE "error")
    BY <1>2, <1>4 DEF AdapterError
  <2>2. PICK o : o = IF ok /\ to = "failed" THEN "failed" ELSE "error"
    OBVIOUS
  <2>3. Conclude(w, n, to) /\ Return(g, o) /\ UNCHANGED <<attempts, runPc, batch>>
    BY <1>2, <1>4, <2>1, <2>2 DEF AdapterError, runVars
  <2>4. /\ \A v \in WP : v # w => current'[v] = current[v]
        /\ current'[w] \in {current[w], n}
    BY <1>2, <1>4 DEF AdapterError, PSType, TypeInv, TypeOK
  <2>5. UNCHANGED durAsg \/ RecordAssignment(w, n, to)
    BY <2>1
  <2>6. w \in Reliable => RecordAssignment(w, n, to)
    <3>1. w \in Reliable => ok = TRUE
      BY <1>3
    <3>2. CASE ok = TRUE
      BY <2>1, <3>2
    <3>3. QED
      BY <3>1, <3>2
  <2>7. w \in Reliable =>
          /\ to \in {"collecting", "awaiting_gates", "failed", "canceled"}
          /\ o = "failed" => to = "failed"
          /\ RecordAssignment(w, n, to) \/ (to = "collecting" /\ UNCHANGED durAsg)
    BY <2>2, <2>6
  <2>8. QED
    BY <1>1, <1>2, <2>3, <2>4, <2>5, <2>7, AttemptMoves
<1>5. CASE CollectInvalid(g)
  <2>1. PICK to \in {"collecting"}, o \in {"error"} : TRUE
    OBVIOUS
  <2>2. Conclude(w, n, to) /\ Return(g, o) /\ UNCHANGED <<attempts, current, durAsg, runPc, batch>>
    BY <1>2, <1>5, <2>1 DEF CollectInvalid, Conclude, runVars, durVars
  <2>3. w \in Reliable =>
          /\ to \in {"collecting", "awaiting_gates", "failed", "canceled"}
          /\ o = "failed" => to = "failed"
          /\ RecordAssignment(w, n, to) \/ (to = "collecting" /\ UNCHANGED durAsg)
    BY <2>1, <2>2
  <2>4. QED
    BY <1>1, <1>2, <2>2, <2>3, AttemptMoves
<1>6. ASSUME NEW status \in {"succeeded", "failed"}, NEW tests \in BOOLEAN, Collect(g, status, tests)
      PROVE  RestartInv'
  <2> DEFINE verdict == Verdict(w, status, tests)
             path == RecordedPath(verdict)
  <2>1. /\ UNCHANGED <<attempts, runPc, batch>>
        /\ \A v \in WP : v # w => current'[v] = current[v]
        /\ current'[w] \in {current[w], n}
    BY <1>2, <1>6 DEF Collect, runVars, PSType, TypeInv, TypeOK
  <2>2. \/ /\ Conclude(w, n, Final(verdict).state)
           /\ RecordAssignment(w, n, path[Len(path)])
           /\ Return(g, Final(verdict).out)
        \/ /\ w \in Unreliable
           /\ \E written \in 0..(Len(path) - 1) :
                /\ Conclude(w, n, path[written + 1])
                /\ IF written = 0 THEN UNCHANGED durAsg
                   ELSE RecordAssignment(w, n, path[written])
           /\ Return(g, "error")
    BY <1>2, <1>6 DEF Collect
  <2>3. w \in Reliable => verdict \in {"failed", "pending"}
    BY <1>3, UndecidedIsPending
  <2>4. verdict = "failed" => path[Len(path)] = "failed" /\ Final(verdict).state = "failed"
    BY DEF RecordedPath, Final
  <2>5. verdict = "pending" => /\ path[Len(path)] = "awaiting_gates"
                               /\ Final(verdict).state = "awaiting_gates" /\ Final(verdict).out = "pending"
    BY DEF RecordedPath, Final
  <2> HIDE DEF verdict, path
  <2>6. CASE /\ Conclude(w, n, Final(verdict).state)
             /\ RecordAssignment(w, n, path[Len(path)])
             /\ Return(g, Final(verdict).out)
    <3>1. PICK to, o, rec : to = Final(verdict).state /\ o = Final(verdict).out /\ rec = path[Len(path)]
      OBVIOUS
    <3>2. Conclude(w, n, to) /\ Return(g, o) /\ RecordAssignment(w, n, rec)
      BY <2>6, <3>1
    <3>3. w \in Reliable => /\ to \in {"collecting", "awaiting_gates", "failed", "canceled"}
                            /\ o = "failed" => to = "failed"
                            /\ to = rec
      BY <2>3, <2>4, <2>5, <3>1
    <3>4. w \in Reliable =>
            /\ to \in {"collecting", "awaiting_gates", "failed", "canceled"}
            /\ o = "failed" => to = "failed"
            /\ RecordAssignment(w, n, to) \/ (to = "collecting" /\ UNCHANGED durAsg)
      BY <3>2, <3>3
    <3>5. QED
      BY <1>1, <1>2, <2>1, <3>2, <3>4, AttemptMoves
  <2>7. ASSUME w \in Unreliable, NEW written \in 0..(Len(path) - 1), Conclude(w, n, path[written + 1]),
               IF written = 0 THEN UNCHANGED durAsg ELSE RecordAssignment(w, n, path[written]),
               Return(g, "error")
        PROVE  RestartInv'
    <3>1. PICK to, o, rec : to = path[written + 1] /\ o = "error" /\ rec = path[written]
      OBVIOUS
    <3>2. Conclude(w, n, to) /\ Return(g, o) /\ (UNCHANGED durAsg \/ RecordAssignment(w, n, rec))
      BY <2>7, <3>1
    <3>3. w \notin Reliable
      BY <2>7 DEF Reliable
    <3>4. QED
      BY <1>1, <1>2, <2>1, <3>2, <3>3, AttemptMoves
  <2>8. QED
    BY <2>2, <2>6, <2>7
<1>7. QED
  BY <1>4, <1>5, <1>6

\* A package is submitted; nothing is known of it yet.
LEMMA SubmitMoves ==
  ASSUME PSType, PSType', RestartInv, NEW w \in WP, SubmitWork(w)
  PROVE  RestartInv'
<1>1. /\ graph[w] = "ABSENT"
      /\ graph' = [graph EXCEPT ![w] = "PROPOSED"] /\ durWP' = [durWP EXCEPT ![w] = "PROPOSED"]
      /\ UNCHANGED <<attempts, asg, current, durAsg, approvals, reviewed, pc, job, try, out, runPc, batch>>
  BY DEF SubmitWork, threadVars, runVars, approvalVars
<1>2. /\ graph'[w] = "PROPOSED" /\ durWP'[w] = "PROPOSED"
      /\ \A v \in WP : v # w => graph'[v] = graph[v] /\ durWP'[v] = durWP[v]
  BY <1>1 DEF PSType, TypeInv, TypeOK
<1>3. \A h \in Goroutine : Busy(h)' => Busy(h) /\ job'[h] = job[h]
  BY <1>1 DEF Busy
<1>4. QuietRun' /\ OneJobEach'
  BY <1>1, <1>3, FewerJobs DEF RestartInv
<1>5. NumbersDrawn(w)' /\ (attempts'[w] > 0 => OnComplete(w))
  BY <1>1 DEF RestartInv, NumbersDrawn
<1>6. w \in Reliable => approvals[w] = "none" /\ \A n \in Attempt : asg[w][n] \in {"none", "failed"}
  BY <1>1, DecidedShown, NothingStandsYet
<1>7. w \in Reliable => Recorded(w)' /\ Standing(w)' /\ Decided(w)'
  BY <1>1, <1>2, <1>6 DEF RestartInv, Recorded, Standing, Decided
<1>8. ASSUME NEW h \in Goroutine, Busy(h)', job'[h] = w
      PROVE  /\ pc'[h] = "picked" => OnComplete(w) /\ (w \in Reliable => graph'[w] \in {"PROPOSED", "READY"})
             /\ pc'[h] = "running" => /\ try'[h] <= attempts'[w]
                                      /\ w \in Reliable => try'[h] = attempts'[w] /\ asg'[w][try'[h]] = "running"
             /\ pc'[h] = "returned" /\ out'[h] = "failed" /\ w \in Reliable => graph'[w] = "DEFICIENT"
  <2>1. Held(h) /\ Busy(h) /\ job[h] = w
    BY <1>3, <1>8 DEF RestartInv
  <2>2. QED
    BY <1>1, <1>2, <2>1 DEF Held
<1>9. QED
  BY <1>1, <1>2, <1>4, <1>5, <1>7, <1>8, PackageMoves

\* A decision is recorded for the attempt that waits, and nobody works on it.
LEMMA SaveMoves ==
  ASSUME PSType, PSType', RestartInv, NEW w \in WP, NEW d \in Decision, SaveDecision(w, d)
  PROVE  RestartInv'
<1>1. /\ UNCHANGED <<graph, attempts, asg, current, durWP, durAsg, pc, job, try, out, runPc, batch>>
      /\ approvals' = [approvals EXCEPT ![w] = d] /\ reviewed' = [reviewed EXCEPT ![w] = Latest(w)]
      /\ Latest(w) # 0 /\ durAsg[w][Latest(w)] = "awaiting_gates"
  BY DEF SaveDecision, SaveApproval, vars, memVars, durVars, threadVars, runVars
<1>2. /\ \A v \in WP : v # w => approvals'[v] = approvals[v] /\ reviewed'[v] = reviewed[v]
      /\ reviewed'[w] = Latest(w)
  BY <1>1 DEF PSType
<1>3. \A h \in Goroutine : Busy(h)' => Busy(h) /\ job'[h] = job[h]
  BY <1>1 DEF Busy
<1>4. QuietRun' /\ OneJobEach'
  BY <1>1, <1>3, FewerJobs DEF RestartInv
<1>5. NumbersDrawn(w)' /\ (attempts'[w] > 0 => OnComplete(w))
  BY <1>1 DEF RestartInv, NumbersDrawn
<1>6. ASSUME w \in Reliable PROVE Recorded(w)' /\ Standing(w)' /\ Decided(w)'
  <2>1. Recorded(w) /\ Standing(w)
    BY <1>6 DEF RestartInv
  <2>2. PICK n \in Attempt : n = Latest(w)
    BY <1>1, LatestFacts DEF PSType
  <2>3. asg[w][n] = "awaiting_gates"
    BY <1>1, <2>1, <2>2 DEF Recorded
  <2>4. n = attempts[w] /\ graph[w] = "RUNNING"
    BY <2>1, <2>3 DEF Standing
  <2>5. \A h \in Goroutine : Busy(h) /\ job[h] = w => pc[h] = "returned" /\ out[h] # "failed"
    <3>1. ASSUME NEW h \in Goroutine, Busy(h), job[h] = w PROVE pc[h] = "returned" /\ out[h] # "failed"
      <4>1. Held(h)
        BY DEF RestartInv
      <4>2. pc[h] # "picked" /\ ~(pc[h] = "returned" /\ out[h] = "failed")
        BY <1>6, <2>4, <3>1, <4>1 DEF Held
      <4>3. pc[h] # "running"
        BY <1>6, <2>3, <2>4, <3>1, <4>1 DEF Held
      <4>4. pc[h] \in {"picked", "running", "returned"}
        BY <3>1 DEF Busy, PSType, TypeInv, TypeOK
      <4>5. QED
        BY <4>2, <4>3, <4>4
    <3>2. QED
      BY <3>1
  <2>6. Recorded(w)' /\ Standing(w)'
    BY <1>1, <2>1 DEF Recorded, Standing
  <2>7. Decided(w)'
    BY <1>1, <1>2, <1>3, <2>2, <2>3, <2>4, <2>5 DEF Decided
  <2>8. QED
    BY <2>6, <2>7
<1>7. ASSUME NEW h \in Goroutine, Busy(h)', job'[h] = w
      PROVE  /\ pc'[h] = "picked" => OnComplete(w) /\ (w \in Reliable => graph'[w] \in {"PROPOSED", "READY"})
             /\ pc'[h] = "running" => /\ try'[h] <= attempts'[w]
                                      /\ w \in Reliable => try'[h] = attempts'[w] /\ asg'[w][try'[h]] = "running"
             /\ pc'[h] = "returned" /\ out'[h] = "failed" /\ w \in Reliable => graph'[w] = "DEFICIENT"
  <2>1. Held(h) /\ Busy(h) /\ job[h] = w
    BY <1>3, <1>7 DEF RestartInv
  <2>2. QED
    BY <1>1, <2>1 DEF Held
<1>8. QED
  BY <1>1, <1>2, <1>4, <1>5, <1>6, <1>7, PackageMoves

\* A decision is applied to the attempt that waits for it.
LEMMA ResolveMoves ==
  ASSUME PSType, PSType', GateInv, RestartInv, ResolveDecision
  PROVE  RestartInv'
<1>1. UNCHANGED <<approvals, reviewed>> /\ stage = "resolve"
  BY DEF ResolveDecision
<1>2. CASE UNCHANGED vars
  <2>1. UNCHANGED packageVars /\ UNCHANGED <<pc, job, try, out, runPc, batch>>
    BY <1>1, <1>2 DEF vars, memVars, durVars, threadVars, runVars, packageVars
  <2>2. QuietRun' /\ OneJobEach'
    BY <2>1 DEF RestartInv, QuietRun, OneJobEach, Busy
  <2>3. QED
    BY <2>1, <2>2, GoroutinesMove
<1>3. CASE Resolve(deciding)
  <2>1. PICK w \in WP : w = deciding
    BY <1>1 DEF PSType
  <2>2. approvals[w] # "none"
    BY <1>1, <2>1 DEF GateInv
  <2>3. PICK n \in Attempt : n = current[w] /\ asg[w][n] = "awaiting_gates"
    BY <1>3, <2>1 DEF Resolve, Resolvable, PSType, TypeInv, TypeOK, Attempt
  <2>4. PICK to \in {"accepted", "failed"} :
          /\ Conclude(w, n, to)
          /\ \E ok \in Writes(w) : IF ok THEN RecordAssignment(w, n, to) ELSE UNCHANGED durAsg
    BY <1>3, <2>1, <2>3 DEF Resolve
  <2>5. UNCHANGED <<attempts, current, pc, job, try, out, runPc, batch>>
    BY <1>3 DEF Resolve, threadVars, runVars
  <2>6. /\ \A v \in WP : v # w => graph'[v] = graph[v] /\ asg'[v] = asg[v] /\ durWP'[v] = durWP[v]
        /\ \A m \in Attempt : asg'[w][m] = IF m = n THEN to ELSE asg[w][m]
        /\ graph'[w] = IF to = "failed" THEN "DEFICIENT" ELSE IF to = "accepted" THEN "COMPLETED" ELSE graph[w]
    BY <2>4, ConcludeAll DEF PSType
  <2>7. PICK ok \in Writes(w) : IF ok THEN RecordAssignment(w, n, to) ELSE UNCHANGED durAsg
    BY <2>4
  <2>8. UNCHANGED durAsg \/ RecordAssignment(w, n, to)
    BY <2>7
  <2>9. /\ \A v \in WP : v # w => durAsg'[v] = durAsg[v]
        /\ \A m \in Attempt : m # n => durAsg'[w][m] = durAsg[w][m]
    <3>1. CASE RecordAssignment(w, n, to)
      BY <3>1, RecordAll DEF PSType
    <3>2. QED
      BY <2>8, <3>1
  <2>10. \A h \in Goroutine : Busy(h)' => Busy(h) /\ job'[h] = job[h]
    BY <2>5 DEF Busy
  <2>11. QuietRun' /\ OneJobEach'
    BY <2>5, <2>10, FewerJobs DEF RestartInv
  <2>12. NumbersDrawn(w)' /\ (attempts'[w] > 0 => OnComplete(w))
    <3>1. NumbersDrawn(w) /\ (attempts[w] > 0 => OnComplete(w))
      BY DEF RestartInv
    <3>2. n <= attempts[w]
      BY <2>3, <3>1 DEF NumbersDrawn
    <3>3. \A m \in Attempt : durAsg'[w][m] # "none" => m <= attempts'[w]
      BY <2>5, <2>9, <3>1, <3>2 DEF NumbersDrawn
    <3>4. QED
      BY <2>5, <3>1, <3>3 DEF NumbersDrawn
  <2>13. ASSUME w \in Reliable
         PROVE  /\ Recorded(w)' /\ Standing(w)' /\ Decided(w)' /\ graph[w] = "RUNNING"
                /\ \A h \in Goroutine : Busy(h) /\ job[h] = w => pc[h] = "returned" /\ out[h] # "failed"
    <3>1. Recorded(w) /\ Standing(w) /\ Decided(w)
      BY <2>13 DEF RestartInv
    <3>2. n = attempts[w] /\ graph[w] = "RUNNING"
      BY <2>3, <3>1 DEF Standing
    <3>3. durWP'[w] = graph'[w]
      BY <2>4, <2>13, <3>1, <3>2, ConcludeRecorded DEF Recorded, PSType
    <3>4. durAsg'[w][n] = to
      <4>1. Writes(w) = {TRUE}
        BY <2>13 DEF Reliable, Writes
      <4>2. ok = TRUE
        BY <2>7, <4>1
      <4>3. RecordAssignment(w, n, to)
        BY <2>7, <4>2
      <4>4. QED
        BY <4>3, RecordAll DEF PSType
    <3>5. Recorded(w)'
      BY <2>6, <2>9, <3>1, <3>3, <3>4 DEF Recorded
    <3>6. Standing(w)'
      BY <2>5, <2>6, <3>1, <3>2 DEF Standing
    <3>7. \A h \in Goroutine : Busy(h) /\ job[h] = w => pc[h] = "returned" /\ out[h] # "failed"
      BY <2>2, <3>1 DEF Decided
    <3>8. asg'[w][n] = to /\ (to = "failed" => graph'[w] = "DEFICIENT")
      BY <2>6
    <3>9. reviewed[w] = n
      BY <2>2, <3>1, <3>2 DEF Decided
    <3>10. Decided(w)'
      BY <1>1, <2>5, <2>10, <3>2, <3>7, <3>8, <3>9 DEF Decided
    <3>11. QED
      BY <3>2, <3>5, <3>6, <3>7, <3>10
  <2>14. ASSUME NEW h \in Goroutine, Busy(h)', job'[h] = w
         PROVE  /\ pc'[h] = "picked" => OnComplete(w) /\ (w \in Reliable => graph'[w] \in {"PROPOSED", "READY"})
                /\ pc'[h] = "running" => /\ try'[h] <= attempts'[w]
                                         /\ w \in Reliable => try'[h] = attempts'[w] /\ asg'[w][try'[h]] = "running"
                /\ pc'[h] = "returned" /\ out'[h] = "failed" /\ w \in Reliable => graph'[w] = "DEFICIENT"
    <3>1. Held(h) /\ Busy(h) /\ job[h] = w
      BY <2>10, <2>14 DEF RestartInv
    <3>2. QED
      BY <2>5, <2>13, <3>1 DEF Held
  <2>15. QED
    BY <1>1, <2>5, <2>6, <2>9, <2>11, <2>12, <2>13, <2>14, PackageMoves
<1>4. QED
  BY <1>2, <1>3 DEF ResolveDecision

\* A restart: what was recorded is what stands, and no goroutine is left.
LEMMA RestartMoves ==
  ASSUME PSType, RestartInv, Restart
  PROVE  RestartInv'
<1>1. /\ graph' = durWP /\ asg' = durAsg /\ UNCHANGED <<durWP, durAsg, approvals, reviewed>>
      /\ \A w \in WP : attempts'[w] = Latest(w) /\ current'[w] = Latest(w)
      /\ runPc' = "idle" /\ \A g \in Goroutine : pc'[g] = "idle"
  BY DEF Restart, Restore, RestoredGraph, durVars
<1>2. QuietRun' /\ OneJobEach' /\ \A g \in Goroutine : Held(g)'
  BY <1>1 DEF QuietRun, OneJobEach, Held, Busy
<1>3. ASSUME NEW w \in WP
      PROVE  /\ Latest(w) \in 0..AttemptBound /\ Latest(w) <= attempts[w] /\ attempts[w] \in 0..AttemptBound
             /\ \A n \in Attempt : durAsg[w][n] # "none" => n <= Latest(w) /\ n <= attempts[w]
             /\ AttemptBound \in Nat
  <2>1. NumbersDrawn(w) /\ attempts[w] \in 0..AttemptBound /\ AttemptBound \in Nat
    BY ConstantsAssumption DEF RestartInv, PSType, TypeInv, TypeOK
  <2>2. QED
    BY <2>1, LatestFacts DEF PSType, NumbersDrawn
<1>4. ASSUME NEW w \in WP PROVE NumbersDrawn(w)' /\ (attempts'[w] > 0 => OnComplete(w)')
  <2>1. NumbersDrawn(w)'
    BY <1>1, <1>3 DEF NumbersDrawn
  <2>2. ASSUME attempts'[w] > 0 PROVE OnComplete(w)'
    <3>1. OnComplete(w)
      BY <1>1, <1>3, <2>2 DEF RestartInv
    <3>2. \A d \in DependsOn[w] \ Unreliable : d \in Reliable
      BY ConstantsAssumption DEF Reliable
    <3>3. \A d \in Reliable : graph[d] = "COMPLETED" => durWP[d] = "COMPLETED"
      BY DEF RestartInv, Recorded
    <3>4. QED
      BY <1>1, <3>1, <3>2, <3>3 DEF OnComplete
  <2>3. QED
    BY <2>1, <2>2
<1>5. ASSUME NEW w \in Reliable PROVE Recorded(w)' /\ Standing(w)' /\ Decided(w)'
  <2>1. w \in WP /\ Recorded(w) /\ Standing(w) /\ Decided(w)
    BY DEF RestartInv, Reliable
  <2>2. Recorded(w)'
    BY <1>1 DEF Recorded
  <2>3. Standing(w)'
    <3> SUFFICES ASSUME NEW n \in Attempt, durAsg[w][n] \notin {"none", "failed"}
                 PROVE  /\ n = Latest(w)
                        /\ durWP[w] = IF durAsg[w][n] = "accepted" THEN "COMPLETED" ELSE "RUNNING"
      BY <1>1, <2>1 DEF Standing
    <3>1. durAsg[w][n] = asg[w][n] \/ (durAsg[w][n] = "running" /\ asg[w][n] = "collecting")
      BY <2>1 DEF Recorded
    <3>2. n = attempts[w] /\ graph[w] = IF asg[w][n] = "accepted" THEN "COMPLETED" ELSE "RUNNING"
      BY <2>1, <3>1 DEF Standing
    <3>3. n = Latest(w)
      BY <1>3, <2>1, <3>2
    <3>4. durWP[w] = graph[w]
      BY <2>1, <3>2 DEF Recorded
    <3>5. QED
      BY <3>1, <3>2, <3>3, <3>4
  <2>4. Decided(w)'
    <3> SUFFICES ASSUME approvals[w] # "none"
                 PROVE  /\ reviewed[w] = Latest(w) /\ Latest(w) \in Attempt
                        /\ durAsg[w][Latest(w)] \in {"awaiting_gates", "accepted", "failed"}
                        /\ durAsg[w][Latest(w)] = "failed" => durWP[w] = "DEFICIENT"
      BY <1>1, <2>1 DEF Decided, Busy
    <3>1. PICK n \in Attempt :
            /\ n = attempts[w] /\ reviewed[w] = n
            /\ asg[w][n] \in {"awaiting_gates", "accepted", "failed"}
            /\ asg[w][n] = "failed" => graph[w] = "DEFICIENT"
      BY <2>1 DEF Decided
    <3>2. durAsg[w][n] = asg[w][n]
      BY <2>1, <3>1 DEF Recorded
    <3>3. n = Latest(w)
      BY <1>3, <2>1, <3>1, <3>2
    <3>4. graph[w] = "DEFICIENT" => durWP[w] = "DEFICIENT"
      BY <2>1 DEF Recorded
    <3>5. QED
      BY <3>1, <3>2, <3>3, <3>4
  <2>5. QED
    BY <2>2, <2>3, <2>4
<1>6. QED
  BY <1>2, <1>4, <1>5 DEF RestartInv

LEMMA RestartNext ==
  ASSUME ~Overlap, "human_review" \in Gates
  PROVE  PSType /\ PSType' /\ GateInv /\ RestartInv /\ [PSNext]_psVars => RestartInv'
<1> SUFFICES ASSUME PSType, PSType', GateInv, RestartInv, [PSNext]_psVars PROVE RestartInv'
  OBVIOUS
<1>1. CASE SchedulerStep
  <2>1. UNCHANGED <<approvals, reviewed>>
    BY <1>1 DEF SchedulerStep, approvalVars
  <2>2. ASSUME NEW g \in Goroutine, Refuse(g) \/ Start(g) PROVE RestartInv'
    <3>1. pc[g] = "picked"
      BY <2>2 DEF Refuse, Start
    <3>2. QED
      BY <2>1, <2>2, <3>1, PickedMoves
  <2>3. QED
    BY <1>1, <2>1, <2>2, CallersMove, ReceiveMoves, ExecutionMoves DEF SchedulerStep, Step
<1>2. CASE ApplyDecision \/ UNCHANGED psVars
  <2>1. UNCHANGED <<memVars, durVars, threadVars, runVars, approvals, reviewed>>
    BY <1>2 DEF ApplyDecision, Approve, Reject, psVars, vars, approvalVars
  <2>2. UNCHANGED packageVars /\ UNCHANGED <<pc, job, try, out, runPc, batch>>
    BY <2>1 DEF memVars, durVars, threadVars, runVars, packageVars
  <2>3. QuietRun' /\ OneJobEach'
    BY <2>2 DEF RestartInv, QuietRun, OneJobEach, Busy
  <2>4. QED
    BY <2>2, <2>3, GoroutinesMove
<1>3. QED
  BY <1>1, <1>2, SubmitMoves, SaveMoves, ResolveMoves, RestartMoves DEF PSNext

LEMMA RestartAlways ==
  ASSUME ~Overlap, "human_review" \in Gates
  PROVE  PSSpec => [](PSType /\ GateInv /\ AcceptedOnlyIfApproved /\ RestartInv)
<1>1. PSType /\ PSType' /\ GateInv /\ RestartInv /\ [PSNext]_psVars => RestartInv'
  BY RestartNext
<1>2. PSSpec => []AcceptedOnlyIfApproved
  BY AcceptedOnlyIfApprovedHolds
<1>3. QED
  BY <1>1, <1>2, PSTypeInit, PSTypeNext, GateNext, RestartInit, PTL DEF PSSpec

\* Where a human gate is configured and callers do not overlap, what is accepted is the
\* attempt a reviewer saw waiting: no retry slips in between, and no restart moves the
\* decision to another attempt.
THEOREM AcceptedIsReviewedHolds ==
  ASSUME ~Overlap, "human_review" \in Gates PROVE PSSpec => []AcceptedIsReviewed
<1>1. PSType /\ AcceptedOnlyIfApproved /\ RestartInv => AcceptedIsReviewed
  <2> SUFFICES ASSUME PSType, AcceptedOnlyIfApproved, RestartInv,
                      NEW w \in Reliable, NEW n \in Attempt, asg[w][n] = "accepted"
               PROVE  reviewed[w] = n
    BY DEF AcceptedIsReviewed, Reliable
  <2>1. Standing(w) /\ Decided(w)
    BY DEF RestartInv
  <2>2. approvals[w] = "approve"
    BY DEF AcceptedOnlyIfApproved, Reliable
  <2>3. QED
    BY <2>1, <2>2 DEF Standing, Decided
<1>2. PSSpec => [](PSType /\ GateInv /\ AcceptedOnlyIfApproved /\ RestartInv)
  BY RestartAlways
<1>3. QED
  BY <1>1, <1>2, PTL

\* Where a human gate is configured and callers do not overlap, a restart loses no
\* waiting package and no complete dependency, however often the process stops and
\* whichever of the unreliable packages' records are missing.
THEOREM RestartKeepsWorkHolds ==
  ASSUME ~Overlap, "human_review" \in Gates PROVE PSSpec => []RestartKeepsWork
<1>1. PSType /\ RestartInv => RestartKeepsWork
  <2> SUFFICES ASSUME PSType, RestartInv PROVE RestartKeepsWork
    OBVIOUS
  <2>1. ASSUME NEW w \in Reliable, current[w] # 0, asg[w][current[w]] = "awaiting_gates"
        PROVE  Latest(w) = current[w] /\ durAsg[w][Latest(w)] = "awaiting_gates"
    <3>1. w \in WP /\ Recorded(w) /\ Standing(w) /\ NumbersDrawn(w)
      BY DEF RestartInv, Reliable
    <3>2. PICK n \in Attempt : n = current[w]
      BY <2>1, <3>1 DEF PSType, TypeInv, TypeOK, Attempt
    <3>3. n = attempts[w] /\ durAsg[w][n] = "awaiting_gates"
      BY <2>1, <3>1, <3>2 DEF Standing, Recorded
    <3>4. Latest(w) = n
      <4>1. n <= Latest(w) /\ Latest(w) \in Attempt /\ durAsg[w][Latest(w)] # "none"
        BY <3>1, <3>3, LatestFacts DEF PSType, Attempt
      <4>2. Latest(w) <= n
        BY <3>1, <3>3, <4>1 DEF NumbersDrawn
      <4>3. QED
        BY <4>1, <4>2 DEF Attempt
    <3>5. QED
      BY <3>2, <3>3, <3>4
  <2>2. \A w \in WP : attempts[w] > 0 => OnComplete(w)
    BY DEF RestartInv
  <2>3. QED
    BY <2>1, <2>2 DEF RestartKeepsWork, Reliable, OnComplete
<1>2. PSSpec => [](PSType /\ GateInv /\ AcceptedOnlyIfApproved /\ RestartInv)
  BY RestartAlways
<1>3. QED
  BY <1>1, <1>2, PTL

=============================================================================
