--------------------------- MODULE SchedulerProofs ---------------------------
(***************************************************************************)
(* Proofs about Scheduler for every graph, every set of goroutines and     *)
(* every bound: type correctness, and what the scheduler guarantees of its *)
(* packages and attempts.                                                  *)
(*                                                                         *)
(* Dependency order, for callers that do not overlap.                      *)
(* dispatchOne does not look at the graph again after its caller has       *)
(* picked a work package and released the lock.  What protects it is that  *)
(* no two goroutines ever hold the same work package and that whatever     *)
(* leaves COMPLETED would have to be held by one: OrderInv says so.        *)
(*                                                                         *)
(* The evidence of attempts, for callers that do not overlap: EvidenceInv  *)
(* adds what the assignments of a package, its result and its records say  *)
(* of each other.                                                          *)
(*                                                                         *)
(* The report of Run, for callers that do not overlap: ReportInv says what *)
(* Run's counts mean while outcomes are still in its channel, in terms of  *)
(* the packages it has tried and let go of.                                *)
(*                                                                         *)
(* Callers that overlap: attempt numbers are drawn once, and gates are     *)
(* evaluated in the critical section that completes a package.             *)
(***************************************************************************)
EXTENDS Scheduler, FiniteSetTheorems, TLAPS

Busy(g) == pc[g] # "idle"

\* TypeOK with what a busy goroutine knows of its job and its attempt; TypeOK
\* alone does not say that the result id <<job, try>> is well formed.
TypeInv ==
  /\ TypeOK
  /\ \A g \in Goroutine : Busy(g) => job[g] \in WP
  /\ \A g \in Goroutine : pc[g] = "running" => try[g] \in Attempt

ThreadsOK ==
  /\ pc \in [Goroutine -> {"idle", "picked", "running", "returned"}]
  /\ job \in [Goroutine -> WP \union {0}]
  /\ try \in [Goroutine -> 0..AttemptBound]
  /\ out \in [Goroutine -> {"none", "succeeded", "failed", "pending", "error"}]
  /\ \A g \in Goroutine : Busy(g) => job[g] \in WP
  /\ \A g \in Goroutine : pc[g] = "running" => try[g] \in Attempt

-----------------------------------------------------------------------------
\* Each state a collected result is recorded in is an assignment state.
LEMMA PathStates ==
  ASSUME NEW v
  PROVE  /\ Len(RecordedPath(v)) \in 2..3
         /\ \A i \in 1..Len(RecordedPath(v)) : RecordedPath(v)[i] \in AsgState
<1>1. CASE v = "failed"
  BY <1>1 DEF RecordedPath, AsgState
<1>2. CASE v = "accepted"
  BY <1>2 DEF RecordedPath, AsgState
<1>3. CASE v # "failed" /\ v # "accepted"
  BY <1>3 DEF RecordedPath, AsgState
<1>4. QED
  BY <1>1, <1>2, <1>3

\* The state and the outcome dispatchOne ends with are proper ones.
LEMMA FinalTypes ==
  ASSUME NEW v
  PROVE  /\ Final(v).state \in AsgState
         /\ Final(v).out \in {"succeeded", "failed", "pending"}
BY DEF Final, AsgState

\* Moving an assignment, and its work package with it, keeps the types.
LEMMA ConcludeTypes ==
  ASSUME TypeOK, NEW w \in WP, NEW n \in Attempt, NEW to \in AsgState,
         Conclude(w, n, to)
  PROVE  /\ asg' \in [WP -> [Attempt -> AsgState]]
         /\ graph' \in [WP -> WPState]
         /\ durWP' \in [WP -> WPState]
<1>1. asg' \in [WP -> [Attempt -> AsgState]]
  BY DEF TypeOK, Conclude
<1>2. ASSUME NEW s \in WPState, SetWorkPackageState(w, s)
      PROVE  graph' \in [WP -> WPState] /\ durWP' \in [WP -> WPState]
  BY <1>2 DEF TypeOK, SetWorkPackageState
<1>3. QED
  BY <1>1, <1>2 DEF TypeOK, Conclude, WPState

\* Writing an assignment record keeps the durable records well formed.
LEMMA RecordTypes ==
  ASSUME TypeOK, NEW w \in WP, NEW n \in Attempt, NEW to \in AsgState,
         RecordAssignment(w, n, to)
  PROVE  durAsg' \in [WP -> [Attempt -> AsgState]]
BY DEF TypeOK, RecordAssignment

\* dispatchOne returning leaves the goroutines well formed.
LEMMA ReturnTypes ==
  ASSUME ThreadsOK, NEW g \in Goroutine, Busy(g),
         NEW o \in {"succeeded", "failed", "pending", "error"}, Return(g, o)
  PROVE  ThreadsOK'
<1>1. CASE g \in batch
  BY <1>1 DEF ThreadsOK, Return, Busy
<1>2. CASE g \notin batch
  BY <1>2, ConstantsAssumption DEF ThreadsOK, Return, Busy
<1>3. QED
  BY <1>1, <1>2

-----------------------------------------------------------------------------
\* A new scheduler is well typed.
LEMMA TypeInit == Init => TypeInv
<1> SUFFICES ASSUME Init PROVE TypeInv
  OBVIOUS
<1> USE ConstantsAssumption DEF Init, InitWith
<1>1. TypeOK
  BY DEF TypeOK, WPState, AsgState, Result, NoResult, Report, EmptyReport
<1>2. QED
  BY <1>1 DEF TypeInv, Busy

\* TypeInv is TypeOK and what it says of the goroutines.
LEMMA TypeThreads == TypeInv <=> TypeOK /\ ThreadsOK
BY DEF TypeInv, TypeOK, ThreadsOK

\* Every step keeps the types, action by action.
LEMMA TypeNext == TypeInv /\ [Next]_vars => TypeInv'
<1> SUFFICES ASSUME TypeInv, [Next]_vars PROVE TypeInv'
  OBVIOUS
<1> USE ConstantsAssumption
<1>a. TypeOK /\ ThreadsOK
  BY TypeThreads
<1>b. ASSUME TypeOK', ThreadsOK' PROVE TypeInv'
  BY <1>b DEF TypeInv, TypeOK, ThreadsOK
<1>1. CASE RunStart
  BY <1>1, <1>a DEF RunStart, TypeInv, TypeOK, Busy, Report, EmptyReport,
     memVars, gateVars, durVars, threadVars
<1>2. CASE RunBatch
  <2>1. PICK start \in [FirstReady(MaxConcurrency) -> {g \in Goroutine : pc[g] = "idle"}] :
          LET started == {start[w] : w \in DOMAIN start}
              workOf(g) == CHOOSE w \in DOMAIN start : start[w] = g
          IN  /\ \A v, w \in DOMAIN start : start[v] = start[w] => v = w
              /\ batch' = started
              /\ pc' = [g \in Goroutine |-> IF g \in started THEN "picked" ELSE pc[g]]
              /\ job' = [g \in Goroutine |-> IF g \in started THEN workOf(g) ELSE job[g]]
    BY <1>2 DEF RunBatch
  <2>2. \A g \in Goroutine : g \in batch' =>
          pc'[g] = "picked" /\ job'[g] \in FirstReady(MaxConcurrency)
    BY <2>1
  <2>3. \A g \in Goroutine : g \notin batch' => pc'[g] = pc[g] /\ job'[g] = job[g]
    BY <2>1
  <2>4. FirstReady(MaxConcurrency) \subseteq WP
    BY DEF FirstReady, Ready
  <2>5. batch' \subseteq Goroutine
    BY <2>1
  <2>6. UNCHANGED <<memVars, gateVars, durVars, try, out, report>> /\ runPc' = "collect"
    BY <1>2 DEF RunBatch
  <2>7. /\ pc' \in [Goroutine -> {"idle", "picked", "running", "returned"}]
        /\ job' \in [Goroutine -> WP \union {0}]
    <3>1. /\ pc' = [g \in Goroutine |-> pc'[g]]
          /\ job' = [g \in Goroutine |-> job'[g]]
      BY <2>1
    <3>2. QED
      BY <3>1, <2>2, <2>3, <2>4, <1>a DEF ThreadsOK
  <2>8. QED
    BY <2>2, <2>3, <2>4, <2>5, <2>6, <2>7, <1>a, <1>b
       DEF TypeOK, ThreadsOK, Busy, memVars, gateVars, durVars
<1>3. CASE RunReturn
  BY <1>3, <1>a DEF RunReturn, TypeInv, TypeOK, Busy, memVars, gateVars, durVars,
     threadVars
<1>4. ASSUME NEW g \in Goroutine, Dispatch(g) PROVE TypeInv'
  <2>1. FirstReady(1) \subseteq WP
    BY DEF FirstReady, Ready
  <2>2. QED
    BY <1>4, <1>a, <1>b, <2>1 DEF Dispatch, TypeOK, ThreadsOK, Busy, memVars, gateVars,
       durVars, runVars
<1>5. ASSUME NEW g \in Goroutine, RunReceive(g) PROVE TypeInv'
  <2>1. job[g] \in WP
    BY <1>5, <1>a DEF RunReceive, ThreadsOK, Busy
  <2>2. ThreadsOK'
    BY <1>5, <1>a DEF RunReceive, ThreadsOK, Busy
  <2>3. report' \in Report
    BY <1>5, <1>a, <2>1 DEF RunReceive, TypeOK, Report
  <2>4. graph' \in [WP -> WPState]
    BY <1>5, <1>a DEF RunReceive, TypeOK, WPState
  <2>5. TypeOK'
    BY <1>5, <1>a, <2>2, <2>3, <2>4 DEF RunReceive, TypeOK, ThreadsOK, gateVars, durVars
  <2>6. QED
    BY <1>b, <2>2, <2>5
<1>6. ASSUME NEW g \in Goroutine, Refuse(g) PROVE TypeInv'
  <2>1. ThreadsOK'
    BY <1>6, <1>a, ReturnTypes DEF Refuse, Busy
  <2>2. attempts' \in [WP -> 0..AttemptBound]
    <3>1. job[g] \in WP /\ attempts \in [WP -> 0..AttemptBound]
      BY <1>6, <1>a DEF Refuse, TypeOK, ThreadsOK, Busy
    <3>2. \/ attempts' = attempts
          \/ /\ attempts[job[g]] < AttemptBound
             /\ attempts' = [attempts EXCEPT ![job[g]] = attempts[job[g]] + 1]
      BY <1>6 DEF Refuse
    <3>3. QED
      BY <3>1, <3>2
  <2>3. TypeOK'
    BY <1>6, <1>a, <2>1, <2>2 DEF Refuse, TypeOK, ThreadsOK, gateVars, durVars, runVars
  <2>4. QED
    BY <1>b, <2>1, <2>3
<1>7. ASSUME NEW g \in Goroutine, Start(g) PROVE TypeInv'
  <2> DEFINE w == job[g]
             n == NextAttempt(w)
  <2>1. w \in WP /\ n \in Attempt
    BY <1>7, <1>a DEF Start, ThreadsOK, Busy
  <2>2. attempts' \in [WP -> 0..AttemptBound]
    BY <1>7, <1>a, <2>1 DEF Start, TypeOK, Attempt
  <2>3. CASE /\ asg' = [asg EXCEPT ![w][n] = "running"]
             /\ SetWorkPackageState(w, "RUNNING")
             /\ RecordAssignment(w, n, "running")
             /\ pc' = [pc EXCEPT ![g] = "running"]
             /\ try' = [try EXCEPT ![g] = n]
             /\ UNCHANGED <<job, out>>
    <3> HIDE DEF w, n
    <3>1. asg' \in [WP -> [Attempt -> AsgState]]
      BY <2>3, <2>1, <1>a DEF TypeOK, AsgState
    <3>2. graph' \in [WP -> WPState] /\ durWP' \in [WP -> WPState]
      BY <2>3, <2>1, <1>a DEF TypeOK, SetWorkPackageState, WPState
    <3>3. durAsg' \in [WP -> [Attempt -> AsgState]]
      BY <2>3, <2>1, <1>a, RecordTypes DEF AsgState
    <3>4. ThreadsOK'
      BY <2>3, <2>1, <1>a DEF ThreadsOK, Busy, Attempt, w
    <3>5. TypeOK'
      BY <1>7, <1>a, <2>2, <3>1, <3>2, <3>3, <3>4 DEF Start, TypeOK, ThreadsOK,
         gateVars, runVars
    <3>6. QED
      BY <1>b, <3>4, <3>5
  <2>4. CASE /\ w \in Unreliable
             /\ asg' = [asg EXCEPT ![w][n] = "failed"]
             /\ graph' = [graph EXCEPT ![w] = "DEFICIENT"]
             /\ \E s \in {durWP[w], "RUNNING", "DEFICIENT"} :
                  durWP' = [durWP EXCEPT ![w] = s]
             /\ Return(g, "error")
             /\ UNCHANGED durAsg
    <3>0. Busy(g)
      BY <1>7 DEF Start, Busy
    <3> HIDE DEF w, n
    <3>1. asg' \in [WP -> [Attempt -> AsgState]]
      BY <2>4, <2>1, <1>a DEF TypeOK, AsgState
    <3>2. graph' \in [WP -> WPState] /\ durWP' \in [WP -> WPState]
      BY <2>4, <2>1, <1>a DEF TypeOK, WPState
    <3>4. ThreadsOK'
      BY <2>4, <3>0, <1>a, ReturnTypes
    <3>5. TypeOK'
      BY <1>7, <1>a, <2>2, <2>4, <3>1, <3>2, <3>4 DEF Start, TypeOK, ThreadsOK,
         gateVars, runVars
    <3>6. QED
      BY <1>b, <3>4, <3>5
  <2>5. QED
    BY <1>7, <2>3, <2>4 DEF Start
<1>8. ASSUME NEW g \in Goroutine, NEW to \in {"failed", "canceled"}, AdapterError(g, to)
      PROVE  TypeInv'
  <2>1. job[g] \in WP /\ try[g] \in Attempt /\ to \in AsgState /\ Busy(g)
    BY <1>8, <1>a DEF AdapterError, ThreadsOK, Busy, AsgState
  <2>2. /\ asg' \in [WP -> [Attempt -> AsgState]]
        /\ graph' \in [WP -> WPState]
        /\ durWP' \in [WP -> WPState]
    BY <1>8, <1>a, <2>1, ConcludeTypes DEF AdapterError
  <2>3. durAsg' \in [WP -> [Attempt -> AsgState]]
    BY <1>8, <1>a, <2>1, RecordTypes DEF AdapterError, TypeOK
  <2>4. ThreadsOK'
    BY <1>8, <1>a, <2>1, ReturnTypes DEF AdapterError
  <2>5. current' \in [WP -> 0..AttemptBound]
    BY <1>8, <1>a, <2>1 DEF AdapterError, TypeOK, Attempt
  <2>6. TypeOK'
    BY <1>8, <1>a, <2>2, <2>3, <2>4, <2>5 DEF AdapterError, TypeOK, ThreadsOK, gateVars, runVars
  <2>7. QED
    BY <1>b, <2>4, <2>6
<1>9. ASSUME NEW g \in Goroutine, CollectInvalid(g) PROVE TypeInv'
  <2>1. job[g] \in WP /\ try[g] \in Attempt /\ Busy(g)
    BY <1>9, <1>a DEF CollectInvalid, ThreadsOK, Busy
  <2>2. asg' \in [WP -> [Attempt -> AsgState]]
    BY <1>9, <1>a, <2>1 DEF CollectInvalid, TypeOK, AsgState
  <2>3. ThreadsOK'
    BY <1>9, <1>a, <2>1, ReturnTypes DEF CollectInvalid
  <2>4. TypeOK'
    BY <1>9, <1>a, <2>2, <2>3 DEF CollectInvalid, TypeOK, ThreadsOK, gateVars, durVars, runVars
  <2>5. QED
    BY <1>b, <2>3, <2>4
<1>10. ASSUME NEW g \in Goroutine, NEW status \in {"succeeded", "failed"},
              NEW tests \in BOOLEAN, Collect(g, status, tests)
       PROVE  TypeInv'
  <2> DEFINE w == job[g]
             n == try[g]
             verdict == Verdict(w, status, tests)
             path == RecordedPath(verdict)
  <2>1. w \in WP /\ n \in Attempt /\ Busy(g)
    BY <1>10, <1>a DEF Collect, ThreadsOK, Busy
  <2>2. /\ seen' = seen \union {<<w, n>>}
        /\ current' = [current EXCEPT ![w] = n]
        /\ results' = [results EXCEPT ![w] = [attempt |-> n, tests |-> tests]]
        /\ UNCHANGED <<attempts, gateVars, runVars>>
    BY <1>10 DEF Collect
  <2>3. \/ /\ Conclude(w, n, Final(verdict).state)
           /\ RecordAssignment(w, n, path[Len(path)])
           /\ Return(g, Final(verdict).out)
        \/ /\ \E written \in 0..(Len(path) - 1) :
                /\ Conclude(w, n, path[written + 1])
                /\ IF written = 0 THEN UNCHANGED durAsg
                   ELSE RecordAssignment(w, n, path[written])
           /\ Return(g, "error")
    BY <1>10 DEF Collect
  <2>4. Len(path) \in 2..3 /\ \A i \in 1..Len(path) : path[i] \in AsgState
    BY PathStates
  <2>5. Final(verdict).state \in AsgState /\ Final(verdict).out \in {"succeeded", "failed", "pending"}
    BY FinalTypes
  <2> HIDE DEF w, n, verdict, path
  <2>6. \E to \in AsgState : Conclude(w, n, to)
    <3>1. \A i \in 0..(Len(path) - 1) : i + 1 \in 1..Len(path)
      BY <2>4
    <3>2. QED
      BY <2>3, <2>4, <2>5, <3>1
  <2>7. UNCHANGED durAsg \/ \E to \in AsgState : RecordAssignment(w, n, to)
    <3>1. Len(path) \in 1..Len(path)
      BY <2>4
    <3>2. \A i \in 0..(Len(path) - 1) : i = 0 \/ i \in 1..Len(path)
      BY <2>4
    <3>3. QED
      BY <2>3, <2>4, <3>1, <3>2
  <2>8. ThreadsOK'
    BY <2>1, <2>3, <2>5, <1>a, ReturnTypes
  <2>9. /\ asg' \in [WP -> [Attempt -> AsgState]]
        /\ graph' \in [WP -> WPState]
        /\ durWP' \in [WP -> WPState]
    BY <2>1, <2>6, <1>a, ConcludeTypes
  <2>10. durAsg' \in [WP -> [Attempt -> AsgState]]
    BY <2>1, <2>7, <1>a, RecordTypes DEF TypeOK
  <2>11. /\ seen' \subseteq WP \X Attempt
         /\ current' \in [WP -> 0..AttemptBound]
         /\ results' \in [WP -> Result]
    BY <2>1, <2>2, <1>a DEF TypeOK, Attempt, Result
  <2>12. TypeOK'
    BY <1>a, <2>2, <2>8, <2>9, <2>10, <2>11 DEF TypeOK, ThreadsOK, gateVars, runVars
  <2>13. QED
    BY <1>b, <2>8, <2>12
<1>11. ASSUME NEW w \in WP, Approve(w) \/ Reject(w) PROVE TypeInv'
  BY <1>11, <1>a DEF Approve, Reject, TypeInv, TypeOK, Busy, memVars, durVars,
     threadVars, runVars
<1>12. ASSUME NEW w \in WP, Resolve(w) PROVE TypeInv'
  <2>1. current[w] \in Attempt
    BY <1>12, <1>a DEF Resolve, Resolvable, TypeOK, Attempt
  <2>2. \E to \in AsgState :
          /\ Conclude(w, current[w], to)
          /\ RecordAssignment(w, current[w], to) \/ UNCHANGED durAsg
    BY <1>12 DEF Resolve, AsgState
  <2>3. /\ asg' \in [WP -> [Attempt -> AsgState]]
        /\ graph' \in [WP -> WPState]
        /\ durWP' \in [WP -> WPState]
    BY <2>1, <2>2, <1>a, ConcludeTypes
  <2>4. durAsg' \in [WP -> [Attempt -> AsgState]]
    BY <2>1, <2>2, <1>a, RecordTypes DEF TypeOK
  <2>5. QED
    BY <1>12, <1>a, <2>3, <2>4 DEF Resolve, TypeInv, TypeOK, Busy, gateVars, threadVars, runVars
<1>13. CASE UNCHANGED vars
  BY <1>13 DEF vars, TypeInv, TypeOK, Busy, memVars, gateVars, durVars, threadVars, runVars
<1>14. QED
  BY <1>1, <1>2, <1>3, <1>4, <1>5, <1>6, <1>7, <1>8, <1>9, <1>10, <1>11, <1>12, <1>13
     DEF Next, Step

\* Every variable keeps its type in every reachable state, and a goroutine that
\* executes has a work package and an attempt number.
THEOREM TypeCorrect == Spec => []TypeOK
<1>1. TypeInv => TypeOK
  BY DEF TypeInv
<1>2. QED
  BY <1>1, TypeInit, TypeNext, PTL DEF Spec


(***************************************************************************)
(* Packages and attempts.                                                  *)
(***************************************************************************)
\* Run's loop head is reached with no goroutine left; while it collects, every
\* busy goroutine belongs to its batch.
QuietRun ==
  /\ runPc = "loop" => \A g \in Goroutine : ~Busy(g)
  /\ runPc = "collect" => \A g \in Goroutine : Busy(g) => g \in batch

OneJobEach ==
  \A g, h \in Goroutine : Busy(g) /\ Busy(h) /\ job[g] = job[h] => g = h

PickedIsReady ==
  \A g \in Goroutine : pc[g] = "picked" => job[g] \in Ready

Awaiting(w) == current[w] # 0 /\ asg[w][current[w]] = "awaiting_gates"

RunningIsHeld ==
  \A g \in Goroutine : pc[g] = "running" => graph[job[g]] = "RUNNING" /\ ~Awaiting(job[g])

FailureIsShown ==
  \A g \in Goroutine : pc[g] = "returned" /\ out[g] = "failed" => graph[job[g]] = "DEFICIENT"

AwaitingIsRunning == \A w \in WP : Awaiting(w) => graph[w] = "RUNNING"

OrderInv ==
  /\ QuietRun
  /\ OneJobEach
  /\ PickedIsReady
  /\ RunningIsHeld
  /\ FailureIsShown
  /\ AwaitingIsRunning
  /\ DependencyOrder

-----------------------------------------------------------------------------
\* What Return does to the goroutines.
LEMMA ReturnEffect ==
  ASSUME TypeInv, NEW g \in Goroutine, NEW o, Return(g, o)
  PROVE  /\ \A h \in Goroutine : h # g =>
              pc'[h] = pc[h] /\ job'[h] = job[h] /\ out'[h] = out[h]
         /\ pc'[g] \in {"idle", "returned"}
         /\ pc'[g] = "returned" => out'[g] = o /\ job'[g] = job[g]
BY DEF TypeInv, TypeOK, Return

\* What Conclude does to the assignments and the graph.
LEMMA ConcludeEffect ==
  ASSUME TypeInv, NEW w \in WP, NEW n \in Attempt, NEW to, Conclude(w, n, to)
  PROVE  /\ \A v \in WP : v # w => graph'[v] = graph[v] /\ asg'[v] = asg[v]
         /\ asg'[w][n] = to
         /\ to = "failed" => graph'[w] = "DEFICIENT"
         /\ to \notin {"failed", "accepted"} => graph'[w] = graph[w]
<1>1. /\ \A v \in WP : v # w => asg'[v] = asg[v]
      /\ asg'[w][n] = to
  BY DEF TypeInv, TypeOK, Conclude
<1>2. ASSUME NEW s, SetWorkPackageState(w, s)
      PROVE  graph'[w] = s /\ \A v \in WP : v # w => graph'[v] = graph[v]
  BY <1>2 DEF TypeInv, TypeOK, SetWorkPackageState
<1>3. QED
  BY <1>1, <1>2 DEF Conclude

\* A goroutine that changes nothing but itself and the work package it holds, and
\* leaves both as OrderInv wants them, preserves OrderInv.
LEMMA StepKeepsOrder ==
  ASSUME TypeInv, OrderInv, NEW g \in Goroutine, Busy(g), NEW w \in WP, job[g] = w,
         graph[w] # "COMPLETED",
         \A v \in WP : v # w =>
           /\ graph'[v] = graph[v]
           /\ asg'[v] = asg[v]
           /\ current'[v] = current[v]
           /\ attempts'[v] = attempts[v],
         attempts'[w] = attempts[w] \/ pc[g] = "picked",
         \A h \in Goroutine : h # g =>
           pc'[h] = pc[h] /\ job'[h] = job[h] /\ out'[h] = out[h],
         UNCHANGED <<runPc, batch>>,
         pc'[g] \in {"idle", "running", "returned"},
         pc'[g] # "idle" => job'[g] = w,
         pc'[g] = "running" => graph'[w] = "RUNNING" /\ ~Awaiting(w)',
         pc'[g] = "returned" /\ out'[g] = "failed" => graph'[w] = "DEFICIENT",
         Awaiting(w)' => graph'[w] = "RUNNING"
  PROVE  OrderInv'
<1>1. \A v \in WP : graph[v] = "COMPLETED" => graph'[v] = "COMPLETED"
  OBVIOUS
<1>2. \A v \in WP : v # w => (Awaiting(v)' <=> Awaiting(v))
  BY DEF Awaiting
<1>3. \A h \in Goroutine : h # g /\ Busy(h) => job[h] # w /\ job[h] \in WP
  BY DEF OrderInv, OneJobEach, TypeInv
<1>4. QuietRun'
  BY DEF OrderInv, QuietRun, Busy
<1>5. OneJobEach'
  BY <1>3 DEF OrderInv, OneJobEach, Busy
<1>6. PickedIsReady'
  <2> SUFFICES ASSUME NEW h \in Goroutine, pc'[h] = "picked" PROVE job'[h] \in Ready'
    BY DEF PickedIsReady
  <2>1. h # g /\ job[h] \in Ready /\ job'[h] = job[h] /\ job[h] \in WP /\ job[h] # w
    BY <1>3 DEF OrderInv, PickedIsReady, Busy
  <2>2. \A d \in DependsOn[job[h]] : d \in WP
    BY <2>1, ConstantsAssumption
  <2>3. QED
    BY <1>1, <2>1, <2>2 DEF Ready
<1>7. RunningIsHeld'
  <2> SUFFICES ASSUME NEW h \in Goroutine, pc'[h] = "running"
               PROVE  graph'[job'[h]] = "RUNNING" /\ ~Awaiting(job[h])'
    BY DEF RunningIsHeld
  <2>1. PICK v \in WP : v = job[h] /\ v = job'[h]
    BY DEF TypeInv, Busy
  <2>2. graph'[v] = "RUNNING" /\ ~Awaiting(v)'
    BY <1>2, <1>3, <2>1 DEF OrderInv, RunningIsHeld, Busy
  <2>3. QED
    BY <2>1, <2>2 DEF Awaiting
<1>8. FailureIsShown'
  BY <1>3 DEF OrderInv, FailureIsShown, Busy
<1>9. AwaitingIsRunning'
  BY <1>2 DEF OrderInv, AwaitingIsRunning
<1>10. DependencyOrder'
  <2> SUFFICES ASSUME NEW v \in WP, attempts'[v] > 0, NEW d \in DependsOn[v]
               PROVE  graph'[d] = "COMPLETED"
    BY DEF DependencyOrder
  <2>1. d \in WP
    BY ConstantsAssumption
  <2>2. graph[d] = "COMPLETED"
    BY DEF OrderInv, DependencyOrder, PickedIsReady, Ready
  <2>3. QED
    BY <1>1, <2>1, <2>2
<1>11. QED
  BY <1>4, <1>5, <1>6, <1>7, <1>8, <1>9, <1>10 DEF OrderInv

\* A new scheduler has no goroutines, attempts or assignments.
LEMMA OrderInit == Init => OrderInv
<1> SUFFICES ASSUME Init PROVE OrderInv
  OBVIOUS
<1>1. QuietRun /\ OneJobEach /\ PickedIsReady /\ RunningIsHeld /\ FailureIsShown
  BY DEF Init, InitWith, QuietRun, OneJobEach, PickedIsReady, RunningIsHeld,
     FailureIsShown, Busy
<1>2. AwaitingIsRunning /\ DependencyOrder
  BY DEF Init, InitWith, AwaitingIsRunning, Awaiting, DependencyOrder
<1>3. QED
  BY <1>1, <1>2 DEF OrderInv

\* Every step keeps OrderInv when callers wait for earlier goroutines.
LEMMA OrderNext ==
  ASSUME ~Overlap PROVE TypeInv /\ OrderInv /\ [Next]_vars => OrderInv'
<1> SUFFICES ASSUME TypeInv, OrderInv, [Next]_vars PROVE OrderInv'
  OBVIOUS
<1>1. CASE RunStart
  BY <1>1 DEF RunStart, MayCall, OrderInv, QuietRun, OneJobEach, PickedIsReady, Ready,
     RunningIsHeld, FailureIsShown, AwaitingIsRunning, Awaiting, DependencyOrder, Busy,
     memVars, threadVars
<1>2. CASE RunBatch
  <2>1. PICK start \in [FirstReady(MaxConcurrency) -> {g \in Goroutine : pc[g] = "idle"}] :
          LET started == {start[w] : w \in DOMAIN start}
              workOf(g) == CHOOSE w \in DOMAIN start : start[w] = g
          IN  /\ \A v, w \in DOMAIN start : start[v] = start[w] => v = w
              /\ batch' = started
              /\ pc' = [g \in Goroutine |-> IF g \in started THEN "picked" ELSE pc[g]]
              /\ job' = [g \in Goroutine |-> IF g \in started THEN workOf(g) ELSE job[g]]
    BY <1>2 DEF RunBatch
  <2>2. \A g \in Goroutine : g \in batch' =>
          /\ pc'[g] = "picked"
          /\ job'[g] \in FirstReady(MaxConcurrency)
          /\ start[job'[g]] = g
    BY <2>1
  <2>3. \A g \in Goroutine : g \notin batch' => pc'[g] = "idle"
    <3>1. \A g \in Goroutine : pc[g] = "idle"
      BY <1>2 DEF RunBatch, OrderInv, QuietRun, Busy
    <3>2. QED
      BY <2>1, <3>1
  <2>4. UNCHANGED memVars /\ runPc' = "collect"
    BY <1>2 DEF RunBatch
  <2>5. Ready' = Ready
    BY <2>4 DEF Ready, memVars
  <2>6. QuietRun' /\ OneJobEach'
    BY <2>2, <2>3, <2>4 DEF QuietRun, OneJobEach, Busy
  <2>7. PickedIsReady'
    BY <2>2, <2>3, <2>5 DEF PickedIsReady, FirstReady
  <2>8. RunningIsHeld' /\ FailureIsShown'
    BY <2>2, <2>3 DEF RunningIsHeld, FailureIsShown
  <2>9. AwaitingIsRunning' /\ DependencyOrder'
    BY <2>4 DEF OrderInv, AwaitingIsRunning, Awaiting, DependencyOrder, memVars
  <2>10. QED
    BY <2>6, <2>7, <2>8, <2>9 DEF OrderInv
<1>3. CASE RunReturn
  BY <1>3 DEF RunReturn, OrderInv, QuietRun, OneJobEach, PickedIsReady, Ready,
     RunningIsHeld, FailureIsShown, AwaitingIsRunning, Awaiting, DependencyOrder, Busy,
     memVars, threadVars
<1>4. ASSUME NEW g \in Goroutine, Dispatch(g) PROVE OrderInv'
  <2>1. /\ \A h \in Goroutine : pc[h] = "idle"
        /\ runPc \notin {"loop", "collect"}
        /\ UNCHANGED <<memVars, runVars>>
    BY <1>4 DEF Dispatch, MayCall, RunActive
  <2>2. /\ pc'[g] = "picked" /\ job'[g] \in Ready
        /\ \A h \in Goroutine : h # g => pc'[h] = "idle"
    BY <1>4, <2>1 DEF Dispatch, FirstReady, TypeInv, TypeOK
  <2>3. Ready' = Ready
    BY <2>1 DEF Ready, memVars
  <2>4. QuietRun' /\ OneJobEach' /\ PickedIsReady' /\ RunningIsHeld' /\ FailureIsShown'
    BY <2>1, <2>2, <2>3 DEF QuietRun, OneJobEach, PickedIsReady, RunningIsHeld,
       FailureIsShown, Busy, runVars
  <2>5. AwaitingIsRunning' /\ DependencyOrder'
    BY <2>1 DEF OrderInv, AwaitingIsRunning, Awaiting, DependencyOrder, memVars
  <2>6. QED
    BY <2>4, <2>5 DEF OrderInv
<1>5. ASSUME NEW g \in Goroutine, RunReceive(g) PROVE OrderInv'
  <2>1. job[g] \in WP /\ Busy(g) /\ runPc = "collect" /\ g \in batch
    BY <1>5 DEF RunReceive, TypeInv, Busy
  <2>2. \A h \in Goroutine : Busy(h)' =>
          pc'[h] = pc[h] /\ job'[h] = job[h] /\ out'[h] = out[h] /\ h # g
    BY <1>5 DEF RunReceive, Busy, TypeInv, TypeOK
  <2>3. UNCHANGED <<asg, current, attempts>>
    BY <1>5 DEF RunReceive
  <2>4. /\ \A v \in WP : v # job[g] => graph'[v] = graph[v]
        /\ graph' = graph \/ graph[job[g]] = "DEFICIENT"
    BY <1>5, <2>1 DEF RunReceive, Retryable, OrderInv, FailureIsShown, TypeInv, TypeOK
  <2>5. \A v \in WP : graph[v] = "COMPLETED" => graph'[v] = "COMPLETED"
    BY <2>4
  <2>6. \A h \in Goroutine : Busy(h)' => Busy(h) /\ job[h] # job[g] /\ job[h] \in WP
    BY <2>1, <2>2 DEF OrderInv, OneJobEach, TypeInv, Busy
  <2>7. QuietRun'
    <3>1. CASE out[g] = "error"
      BY <1>5, <3>1 DEF RunReceive, QuietRun
    <3>2. CASE out[g] # "error"
      <4>1. batch' = batch \ {g} /\ runPc' = IF batch' = {} THEN "loop" ELSE "collect"
        BY <1>5, <3>2 DEF RunReceive
      <4>2. \A h \in Goroutine : Busy(h)' => h \in batch'
        BY <2>1, <2>2, <2>6, <4>1 DEF OrderInv, QuietRun
      <4>3. QED
        BY <4>1, <4>2 DEF QuietRun
    <3>3. QED
      BY <3>1, <3>2
  <2>8. OneJobEach'
    BY <2>2, <2>6 DEF OrderInv, OneJobEach
  <2>9. PickedIsReady'
    <3> SUFFICES ASSUME NEW h \in Goroutine, pc'[h] = "picked" PROVE job'[h] \in Ready'
      BY DEF PickedIsReady
    <3>1. job[h] \in Ready /\ job'[h] = job[h] /\ job[h] \in WP /\ job[h] # job[g]
      BY <2>2, <2>6 DEF OrderInv, PickedIsReady, Busy
    <3>2. \A d \in DependsOn[job[h]] : d \in WP
      BY <3>1, ConstantsAssumption
    <3>3. QED
      BY <2>4, <2>5, <3>1, <3>2 DEF Ready
  <2>10. RunningIsHeld' /\ FailureIsShown'
    BY <2>2, <2>3, <2>4, <2>6 DEF OrderInv, RunningIsHeld, FailureIsShown, Awaiting, Busy
  <2>11. AwaitingIsRunning'
    BY <2>3, <2>4 DEF OrderInv, AwaitingIsRunning, Awaiting
  <2>12. DependencyOrder'
    BY <2>3, <2>5, ConstantsAssumption DEF OrderInv, DependencyOrder
  <2>13. QED
    BY <2>7, <2>8, <2>9, <2>10, <2>11, <2>12 DEF OrderInv
<1>6. ASSUME NEW g \in Goroutine, Refuse(g) PROVE OrderInv'
  <2>1. PICK w \in WP : w = job[g]
    BY <1>6 DEF Refuse, TypeInv, Busy
  <2>2. Busy(g) /\ pc[g] = "picked" /\ graph[w] \in {"PROPOSED", "READY"}
    BY <1>6, <2>1 DEF Refuse, Busy, OrderInv, PickedIsReady, Ready
  <2>3. /\ UNCHANGED <<graph, asg, current, runPc, batch>>
        /\ \A v \in WP : v # w => attempts'[v] = attempts[v]
        /\ Return(g, "error")
    BY <1>6, <2>1 DEF Refuse, runVars, TypeInv, TypeOK
  <2>4. ~Awaiting(w)'
    BY <2>2, <2>3 DEF OrderInv, AwaitingIsRunning, Awaiting
  <2>5. QED
    BY <2>1, <2>2, <2>3, <2>4, ReturnEffect, StepKeepsOrder
<1>7. ASSUME NEW g \in Goroutine, Start(g) PROVE OrderInv'
  <2>1. PICK w \in WP : w = job[g]
    BY <1>7 DEF Start, TypeInv, Busy
  <2>2. PICK n \in Attempt : n = NextAttempt(w)
    BY <1>7, <2>1 DEF Start
  <2>3. Busy(g) /\ pc[g] = "picked" /\ graph[w] \in {"PROPOSED", "READY"}
    BY <1>7, <2>1 DEF Start, Busy, OrderInv, PickedIsReady, Ready
  <2>4. /\ UNCHANGED <<current, runPc, batch>>
        /\ \A v \in WP : v # w => attempts'[v] = attempts[v]
    BY <1>7, <2>1 DEF Start, runVars, TypeInv, TypeOK
  <2>5. ~Awaiting(w)
    BY <2>3 DEF OrderInv, AwaitingIsRunning
  <2>6. CASE /\ asg' = [asg EXCEPT ![w][n] = "running"]
             /\ SetWorkPackageState(w, "RUNNING")
             /\ pc' = [pc EXCEPT ![g] = "running"]
             /\ UNCHANGED <<job, out>>
    <3>1. graph'[w] = "RUNNING" /\ \A v \in WP : v # w => graph'[v] = graph[v]
      BY <2>6 DEF SetWorkPackageState, TypeInv, TypeOK
    <3>2. ~Awaiting(w)' /\ \A v \in WP : v # w => asg'[v] = asg[v]
      BY <2>4, <2>5, <2>6 DEF Awaiting, TypeInv, TypeOK
    <3>3. pc'[g] = "running" /\ \A h \in Goroutine : h # g => pc'[h] = pc[h]
      BY <2>6 DEF TypeInv, TypeOK
    <3>4. QED
      BY <2>1, <2>3, <2>4, <2>6, <3>1, <3>2, <3>3, StepKeepsOrder
  <2>7. CASE /\ asg' = [asg EXCEPT ![w][n] = "failed"]
             /\ graph' = [graph EXCEPT ![w] = "DEFICIENT"]
             /\ Return(g, "error")
    <3>1. graph'[w] = "DEFICIENT" /\ \A v \in WP : v # w => graph'[v] = graph[v]
      BY <2>7 DEF TypeInv, TypeOK
    <3>2. ~Awaiting(w)' /\ \A v \in WP : v # w => asg'[v] = asg[v]
      BY <2>4, <2>5, <2>7 DEF Awaiting, TypeInv, TypeOK
    <3>3. QED
      BY <2>1, <2>3, <2>4, <2>7, <3>1, <3>2, ReturnEffect, StepKeepsOrder
  <2>8. QED
    BY <1>7, <2>1, <2>2, <2>6, <2>7 DEF Start
<1>8. ASSUME NEW g \in Goroutine, NEW to \in {"failed", "canceled"}, AdapterError(g, to)
      PROVE  OrderInv'
  <2>1. PICK w \in WP, n \in Attempt : w = job[g] /\ n = try[g]
    BY <1>8 DEF AdapterError, TypeInv, Busy
  <2>2. Busy(g) /\ graph[w] = "RUNNING"
    BY <1>8, <2>1 DEF AdapterError, Busy, OrderInv, RunningIsHeld
  <2>3. PICK o \in {"failed", "error"} : (o = "failed" => to = "failed") /\ Return(g, o)
    BY <1>8 DEF AdapterError
  <2>4. /\ Conclude(w, n, to)
        /\ current' = [current EXCEPT ![w] = n]
        /\ UNCHANGED <<attempts, runPc, batch>>
    BY <1>8, <2>1 DEF AdapterError, runVars
  <2>5. current'[w] = n /\ \A v \in WP : v # w => current'[v] = current[v]
    BY <2>4 DEF TypeInv, TypeOK
  <2>6. ~Awaiting(w)'
    BY <2>4, <2>5, ConcludeEffect DEF Awaiting
  <2>7. QED
    BY <2>1, <2>2, <2>3, <2>4, <2>5, <2>6, ConcludeEffect, ReturnEffect, StepKeepsOrder
<1>9. ASSUME NEW g \in Goroutine, CollectInvalid(g) PROVE OrderInv'
  <2>1. PICK w \in WP, n \in Attempt : w = job[g] /\ n = try[g]
    BY <1>9 DEF CollectInvalid, TypeInv, Busy
  <2>2. Busy(g) /\ graph[w] = "RUNNING"
    BY <1>9, <2>1 DEF CollectInvalid, Busy, OrderInv, RunningIsHeld
  <2>3. /\ asg' = [asg EXCEPT ![w][n] = "collecting"]
        /\ Return(g, "error")
        /\ UNCHANGED <<graph, attempts, current, runPc, batch>>
    BY <1>9, <2>1 DEF CollectInvalid, runVars
  <2>4. \A v \in WP : v # w => asg'[v] = asg[v]
    BY <2>3 DEF TypeInv, TypeOK
  <2>5. QED
    BY <2>1, <2>2, <2>3, <2>4, ReturnEffect, StepKeepsOrder
<1>10. ASSUME NEW g \in Goroutine, NEW status \in {"succeeded", "failed"},
              NEW tests \in BOOLEAN, Collect(g, status, tests)
       PROVE  OrderInv'
  <2>1. PICK w \in WP, n \in Attempt : w = job[g] /\ n = try[g]
    BY <1>10 DEF Collect, TypeInv, Busy
  <2>2. Busy(g) /\ graph[w] = "RUNNING"
    BY <1>10, <2>1 DEF Collect, Busy, OrderInv, RunningIsHeld
  <2>3. PICK to, o :
          /\ Conclude(w, n, to)
          /\ Return(g, o)
          /\ o = "failed" => to = "failed"
    <3> DEFINE verdict == Verdict(w, status, tests)
               path == RecordedPath(verdict)
    <3>1. Final(verdict).out = "failed" => Final(verdict).state = "failed"
      BY DEF Final
    <3>2. \/ /\ Conclude(w, n, Final(verdict).state)
             /\ Return(g, Final(verdict).out)
          \/ /\ \E written \in 0..(Len(path) - 1) : Conclude(w, n, path[written + 1])
             /\ Return(g, "error")
      BY <1>10, <2>1 DEF Collect
    <3> HIDE DEF verdict, path
    <3>3. QED
      BY <3>1, <3>2
  <2>4. /\ current' = [current EXCEPT ![w] = n]
        /\ UNCHANGED <<attempts, runPc, batch>>
    BY <1>10, <2>1 DEF Collect, runVars
  <2>5. current'[w] = n /\ \A v \in WP : v # w => current'[v] = current[v]
    BY <2>4 DEF TypeInv, TypeOK
  <2>6. Awaiting(w)' => graph'[w] = "RUNNING"
    BY <2>2, <2>3, <2>5, ConcludeEffect DEF Awaiting
  <2>7. QED
    BY <2>1, <2>2, <2>3, <2>4, <2>5, <2>6, ConcludeEffect, ReturnEffect, StepKeepsOrder
<1>11. ASSUME NEW w \in WP, Approve(w) \/ Reject(w) PROVE OrderInv'
  BY <1>11 DEF Approve, Reject, OrderInv, QuietRun, OneJobEach, PickedIsReady, Ready,
     RunningIsHeld, FailureIsShown, AwaitingIsRunning, Awaiting, DependencyOrder, Busy,
     memVars, threadVars, runVars
<1>12. ASSUME NEW w \in WP, Resolve(w) PROVE OrderInv'
  <2>1. Awaiting(w) /\ graph[w] = "RUNNING"
    BY <1>12 DEF Resolve, Resolvable, Awaiting, OrderInv, AwaitingIsRunning
  <2>2. PICK n \in Attempt : n = current[w]
    BY <2>1 DEF Awaiting, TypeInv, TypeOK, Attempt
  <2>3. PICK to \in {"accepted", "failed"} : Conclude(w, n, to)
    BY <1>12, <2>2 DEF Resolve
  <2>4. UNCHANGED <<attempts, current, pc, job, out, runPc, batch>>
    BY <1>12 DEF Resolve, threadVars, runVars
  <2>5. /\ \A v \in WP : v # w => graph'[v] = graph[v] /\ asg'[v] = asg[v]
        /\ ~Awaiting(w)'
    BY <2>2, <2>3, <2>4, ConcludeEffect DEF Awaiting
  <2>6. \A h \in Goroutine :
          Busy(h) /\ (pc[h] \in {"picked", "running"} \/ out[h] = "failed")
            => job[h] # w /\ job[h] \in WP
    BY <2>1 DEF OrderInv, PickedIsReady, Ready, RunningIsHeld, FailureIsShown, TypeInv,
       TypeOK, Busy
  <2>7. QuietRun' /\ OneJobEach'
    BY <2>4 DEF OrderInv, QuietRun, OneJobEach, Busy
  <2>8. PickedIsReady'
    <3> SUFFICES ASSUME NEW h \in Goroutine, pc'[h] = "picked" PROVE job'[h] \in Ready'
      BY DEF PickedIsReady
    <3>1. job[h] \in Ready /\ job'[h] = job[h] /\ job[h] \in WP /\ job[h] # w
      BY <2>4, <2>6 DEF OrderInv, PickedIsReady, Busy
    <3>2. \A d \in DependsOn[job[h]] : d \in WP
      BY <3>1, ConstantsAssumption
    <3>3. QED
      BY <2>1, <2>5, <3>1, <3>2 DEF Ready
  <2>9. RunningIsHeld' /\ FailureIsShown'
    BY <2>4, <2>5, <2>6 DEF OrderInv, RunningIsHeld, FailureIsShown, Awaiting, Busy
  <2>10. AwaitingIsRunning'
    BY <2>4, <2>5 DEF OrderInv, AwaitingIsRunning, Awaiting
  <2>11. DependencyOrder'
    BY <2>1, <2>4, <2>5, ConstantsAssumption DEF OrderInv, DependencyOrder
  <2>12. QED
    BY <2>7, <2>8, <2>9, <2>10, <2>11 DEF OrderInv
<1>13. CASE UNCHANGED vars
  BY <1>13 DEF vars, OrderInv, QuietRun, OneJobEach, PickedIsReady, Ready,
     RunningIsHeld, FailureIsShown, AwaitingIsRunning, Awaiting, DependencyOrder, Busy,
     memVars, threadVars, runVars
<1>14. QED
  BY <1>1, <1>2, <1>3, <1>4, <1>5, <1>6, <1>7, <1>8, <1>9, <1>10, <1>11, <1>12, <1>13
     DEF Next, Step

\* When callers wait for the goroutines of the previous call, a work package is
\* attempted only on completed dependencies, and these stay complete, for every
\* graph, concurrency, retry limit and pattern of failing writes.
THEOREM DependencyOrderHolds == ASSUME ~Overlap PROVE Spec => []DependencyOrder
<1>1. TypeInv /\ OrderInv /\ [Next]_vars => OrderInv'
  BY OrderNext
<1>2. OrderInv => DependencyOrder
  BY DEF OrderInv
<1>3. QED
  BY <1>1, <1>2, TypeInit, TypeNext, OrderInit, PTL DEF Spec

-----------------------------------------------------------------------------
(* What each attempt leaves behind, for callers that do not overlap.       *)
(* dispatchOne moves an assignment, its work package and the durable       *)
(* records of both by separate calls of which some fail, and Resolve comes *)
(* back to an assignment long after its goroutine has gone.  EvidenceInv   *)
(* says what of an attempt can be seen at any time, so that the next       *)
(* attempt, Resolve and a retry know what they find.                       *)

\* Only the last attempt of a package can be other than failed, and only while the
\* package runs or is complete.
LastAttemptStands(w) ==
  \A n \in Attempt : asg[w][n] \notin {"none", "failed"} =>
    n = attempts[w] /\ graph[w] \in {"RUNNING", "COMPLETED"}

EvidenceIsOwn(w) ==
  /\ \A n \in Attempt : asg[w][n] = "accepted" =>
       /\ graph[w] = "COMPLETED"
       /\ results[w].attempt = n
       /\ "tests" \in Gates => results[w].tests
  /\ Awaiting(w) => results[w].attempt = current[w]

RecordsBehind(w) ==
  /\ durWP[w] = "COMPLETED" => graph[w] = "COMPLETED"
  /\ \A n \in Attempt : durAsg[w][n] = "accepted" => asg[w][n] = "accepted"

Executed(w) == \E g \in Goroutine : pc[g] = "running" /\ job[g] = w /\ try[g] = attempts[w]

Stopped(w) ==
  attempts[w] \in Attempt /\ asg[w][attempts[w]] \in {"awaiting_gates", "canceled", "collecting"}

PackageOk(w) == LastAttemptStands(w) /\ EvidenceIsOwn(w) /\ RecordsBehind(w)

RunsLast(g) ==
  pc[g] = "running" => try[g] = attempts[job[g]] /\ asg[job[g]][try[g]] = "running"

EvidenceInv ==
  /\ \A w \in WP : PackageOk(w) /\ (graph[w] = "RUNNING" => Executed(w) \/ Stopped(w))
  /\ \A g \in Goroutine : RunsLast(g)

\* Passing gates mean passing tests and an approval that no rejection overrides.
LEMMA PassedMeans ==
  ASSUME NEW w, NEW t \in BOOLEAN, Evaluate(w, t) = "passed"
  PROVE  /\ "tests" \in Gates => t
         /\ "human_review" \in Gates => w \in approved \ rejected
<1>1. "pending" \notin Decisions(w, t) /\ "failed" \notin Decisions(w, t)
  BY DEF Evaluate
<1>2. "tests" \in Gates => TestsGate(t) \in Decisions(w, t)
  BY DEF Decisions
<1>3. "human_review" \in Gates => HumanGate(w) \in Decisions(w, t)
  BY DEF Decisions
<1>4. QED
  BY <1>1, <1>2, <1>3 DEF TestsGate, HumanGate

\* Acceptance is the last thing recorded of a collected result, and only of one
\* that passed its gates.
LEMMA AcceptedLast ==
  ASSUME NEW v
  PROVE  /\ \A i \in 1..Len(RecordedPath(v)) :
              /\ RecordedPath(v)[i] \in {"collecting", "awaiting_gates", "accepted", "failed"}
              /\ RecordedPath(v)[i] = "accepted" => v = "accepted" /\ i = Len(RecordedPath(v))
         /\ Final(v).state \in {"awaiting_gates", "accepted", "failed"}
         /\ Final(v).state = "accepted" <=> v = "accepted"
<1>1. CASE v = "failed"
  BY <1>1 DEF RecordedPath, Final
<1>2. CASE v = "accepted"
  BY <1>2 DEF RecordedPath, Final
<1>3. CASE v # "failed" /\ v # "accepted"
  BY <1>3 DEF RecordedPath, Final
<1>4. QED
  BY <1>1, <1>2, <1>3

\* All that Conclude does.
LEMMA ConcludeAll ==
  ASSUME TypeInv, NEW w \in WP, NEW n \in Attempt, NEW to, Conclude(w, n, to)
  PROVE  /\ \A v \in WP : v # w => graph'[v] = graph[v] /\ asg'[v] = asg[v] /\ durWP'[v] = durWP[v]
         /\ \A m \in Attempt : asg'[w][m] = IF m = n THEN to ELSE asg[w][m]
         /\ graph'[w] = IF to = "failed" THEN "DEFICIENT"
                        ELSE IF to = "accepted" THEN "COMPLETED" ELSE graph[w]
         /\ durWP'[w] \in {durWP[w], graph'[w]}
<1>1. /\ \A v \in WP : v # w => asg'[v] = asg[v]
      /\ \A m \in Attempt : asg'[w][m] = IF m = n THEN to ELSE asg[w][m]
  BY DEF TypeInv, TypeOK, Conclude
<1>2. ASSUME NEW s, SetWorkPackageState(w, s)
      PROVE  /\ graph'[w] = s /\ durWP'[w] \in {durWP[w], s}
             /\ \A v \in WP : v # w => graph'[v] = graph[v] /\ durWP'[v] = durWP[v]
  BY <1>2 DEF TypeInv, TypeOK, SetWorkPackageState
<1>3. QED
  BY <1>1, <1>2 DEF Conclude

LEMMA RecordAll ==
  ASSUME TypeInv, NEW w \in WP, NEW n \in Attempt, NEW to, RecordAssignment(w, n, to)
  PROVE  /\ \A v \in WP : v # w => durAsg'[v] = durAsg[v]
         /\ \A m \in Attempt : durAsg'[w][m] = IF m = n THEN to ELSE durAsg[w][m]
BY DEF TypeInv, TypeOK, RecordAssignment

\* A goroutine that returns no longer executes; the others are as they were.
LEMMA ReturnAll ==
  ASSUME TypeInv, NEW g \in Goroutine, NEW o, Return(g, o)
  PROVE  /\ \A h \in Goroutine : h # g => pc'[h] = pc[h] /\ job'[h] = job[h] /\ try'[h] = try[h]
         /\ pc'[g] # "running"
BY DEF TypeInv, TypeOK, Return

-----------------------------------------------------------------------------
\* The last attempt of a running package moves on.
LEMMA ConcludeKeepsPackage ==
  ASSUME TypeInv, NEW w \in WP, NEW n \in Attempt, NEW to, Conclude(w, n, to), PackageOk(w),
         to \in {"collecting", "awaiting_gates", "accepted", "failed", "canceled"},
         graph[w] = "RUNNING", n = attempts[w], attempts'[w] = attempts[w],
         current'[w] \in 0..AttemptBound,
         to = "accepted" => results'[w].attempt = n /\ ("tests" \in Gates => results'[w].tests),
         to = "awaiting_gates" => results'[w].attempt = n,
         \A m \in Attempt : m # n => durAsg'[w][m] = durAsg[w][m],
         durAsg'[w][n] = durAsg[w][n] \/ (durAsg'[w][n] = "accepted" => to = "accepted")
  PROVE  PackageOk(w)' /\ (graph'[w] = "RUNNING" => Stopped(w)')
<1>1. /\ \A m \in Attempt : asg'[w][m] = IF m = n THEN to ELSE asg[w][m]
      /\ graph'[w] = IF to = "failed" THEN "DEFICIENT"
                     ELSE IF to = "accepted" THEN "COMPLETED" ELSE graph[w]
      /\ durWP'[w] \in {durWP[w], graph'[w]}
  BY ConcludeAll
<1>2. \A m \in Attempt : asg[w][m] # "accepted"
  BY DEF PackageOk, EvidenceIsOwn
<1>3. \A m \in Attempt : m # n => asg[w][m] \in {"none", "failed"}
  BY DEF PackageOk, LastAttemptStands
<1>4. LastAttemptStands(w)'
  BY <1>1, <1>3 DEF LastAttemptStands
<1>5. EvidenceIsOwn(w)'
  <2>1. Awaiting(w)' => current'[w] = n /\ to = "awaiting_gates"
    <3> SUFFICES ASSUME Awaiting(w)' PROVE current'[w] = n /\ to = "awaiting_gates"
      OBVIOUS
    <3>1. current'[w] \in Attempt /\ asg'[w][current'[w]] = "awaiting_gates"
      BY DEF Awaiting, Attempt
    <3>2. QED
      BY <1>1, <1>3, <3>1
  <2>2. QED
    BY <1>1, <1>2, <2>1 DEF EvidenceIsOwn
<1>6. RecordsBehind(w)'
  BY <1>1, <1>2 DEF PackageOk, RecordsBehind
<1>7. graph'[w] = "RUNNING" => Stopped(w)'
  BY <1>1 DEF Stopped
<1>8. QED
  BY <1>4, <1>5, <1>6, <1>7 DEF PackageOk

\* A goroutine that leaves its own package in order leaves all of them so.
LEMMA StepKeepsEvidence ==
  ASSUME TypeInv, OrderInv, EvidenceInv,
         NEW g \in Goroutine, Busy(g), NEW w \in WP, job[g] = w,
         \A v \in WP : v # w =>
           /\ graph'[v] = graph[v] /\ asg'[v] = asg[v] /\ current'[v] = current[v]
           /\ attempts'[v] = attempts[v] /\ results'[v] = results[v]
           /\ durWP'[v] = durWP[v] /\ durAsg'[v] = durAsg[v],
         \A h \in Goroutine : h # g => pc'[h] = pc[h] /\ job'[h] = job[h] /\ try'[h] = try[h],
         PackageOk(w)', graph'[w] = "RUNNING" => Executed(w)' \/ Stopped(w)',
         RunsLast(g)'
  PROVE  EvidenceInv'
<1>1. \A h \in Goroutine : h # g /\ Busy(h) => job[h] # w /\ job[h] \in WP
  BY DEF OrderInv, OneJobEach, TypeInv
<1>2. ASSUME NEW v \in WP, v # w PROVE PackageOk(v)' /\ (graph'[v] = "RUNNING" => Executed(v)' \/ Stopped(v)')
  <2>1. PackageOk(v) /\ (graph[v] = "RUNNING" => Executed(v) \/ Stopped(v))
    BY DEF EvidenceInv
  <2>2. PackageOk(v)'
    BY <1>2, <2>1 DEF PackageOk, LastAttemptStands, EvidenceIsOwn, RecordsBehind, Awaiting
  <2>3. Stopped(v) => Stopped(v)'
    BY <1>2 DEF Stopped
  <2>4. Executed(v) => Executed(v)'
    BY <1>2 DEF Executed
  <2>5. QED
    BY <1>2, <2>1, <2>2, <2>3, <2>4
<1>3. ASSUME NEW h \in Goroutine, h # g PROVE RunsLast(h)'
  <2> SUFFICES ASSUME pc'[h] = "running"
               PROVE  try'[h] = attempts'[job'[h]] /\ asg'[job'[h]][try'[h]] = "running"
    BY DEF RunsLast
  <2>1. pc[h] = "running" /\ job'[h] = job[h] /\ try'[h] = try[h] /\ job[h] # w /\ job[h] \in WP
    BY <1>1, <1>3 DEF Busy
  <2>2. QED
    BY <2>1 DEF EvidenceInv, RunsLast
<1>4. QED
  BY <1>2, <1>3 DEF EvidenceInv

\* Nothing that EvidenceInv speaks of changes when goroutines that do not execute
\* are started, return to nobody or are collected.
LEMMA ThreadsKeepEvidence ==
  ASSUME EvidenceInv, UNCHANGED <<memVars, durVars>>,
         \A h \in Goroutine : pc[h] = "running" \/ pc'[h] = "running" =>
           pc'[h] = pc[h] /\ job'[h] = job[h] /\ try'[h] = try[h]
  PROVE  EvidenceInv'
<1>1. UNCHANGED <<graph, attempts, asg, current, results, durWP, durAsg>>
  BY DEF memVars, durVars
<1>2. ASSUME NEW w \in WP PROVE PackageOk(w)' /\ (graph'[w] = "RUNNING" => Executed(w)' \/ Stopped(w)')
  <2>1. PackageOk(w)'
    BY <1>1 DEF EvidenceInv, PackageOk, LastAttemptStands, EvidenceIsOwn, RecordsBehind, Awaiting
  <2>2. Executed(w) => Executed(w)'
    BY <1>1 DEF Executed
  <2>3. QED
    BY <1>1, <2>1, <2>2 DEF EvidenceInv, Stopped
<1>3. \A g \in Goroutine : RunsLast(g)'
  BY <1>1 DEF EvidenceInv, RunsLast
<1>4. QED
  BY <1>2, <1>3 DEF EvidenceInv

\* A new scheduler has no attempts.
LEMMA EvidenceInit == Init => EvidenceInv
<1> SUFFICES ASSUME Init PROVE EvidenceInv
  OBVIOUS
<1>1. \A w \in WP : PackageOk(w) /\ graph[w] # "RUNNING"
  BY DEF Init, InitWith, PackageOk, LastAttemptStands, EvidenceIsOwn, RecordsBehind, Awaiting
<1>2. \A g \in Goroutine : RunsLast(g)
  BY DEF Init, InitWith, RunsLast
<1>3. QED
  BY <1>1, <1>2 DEF EvidenceInv

\* A package that waits to be attempted has only failed attempts behind it.
LEMMA NothingStands ==
  ASSUME EvidenceInv, NEW w \in WP, graph[w] \in {"PROPOSED", "READY", "DEFICIENT"}
  PROVE  /\ \A n \in Attempt : asg[w][n] \in {"none", "failed"} /\ durAsg[w][n] # "accepted"
         /\ durWP[w] # "COMPLETED"
BY DEF EvidenceInv, PackageOk, LastAttemptStands, RecordsBehind

\* Every step keeps EvidenceInv when callers wait for earlier goroutines.
LEMMA EvidenceNext ==
  ASSUME ~Overlap PROVE TypeInv /\ TypeInv' /\ OrderInv /\ EvidenceInv /\ [Next]_vars => EvidenceInv'
<1> SUFFICES ASSUME TypeInv, TypeInv', OrderInv, EvidenceInv, [Next]_vars PROVE EvidenceInv'
  OBVIOUS
<1>1. CASE RunStart \/ RunReturn \/ UNCHANGED vars
  <2>1. UNCHANGED <<memVars, durVars, threadVars>>
    BY <1>1 DEF RunStart, RunReturn, vars
  <2>2. QED
    BY <2>1, ThreadsKeepEvidence DEF threadVars
<1>2. CASE RunBatch
  <2>1. /\ UNCHANGED <<memVars, durVars>> /\ UNCHANGED try
        /\ \A h \in Goroutine : pc[h] = "idle"
    BY <1>2 DEF RunBatch, OrderInv, QuietRun, Busy
  <2>2. \A h \in Goroutine : pc'[h] \in {"picked", pc[h]}
    BY <1>2 DEF RunBatch
  <2>3. QED
    BY <2>1, <2>2, ThreadsKeepEvidence
<1>3. ASSUME NEW g \in Goroutine, Dispatch(g) PROVE EvidenceInv'
  <2>1. UNCHANGED <<memVars, durVars>> /\ UNCHANGED try /\ pc[g] = "idle"
    BY <1>3 DEF Dispatch
  <2>2. /\ \A h \in Goroutine : h # g => pc'[h] = pc[h] /\ job'[h] = job[h]
        /\ pc'[g] = "picked"
    BY <1>3 DEF Dispatch, TypeInv, TypeOK
  <2>3. QED
    BY <2>1, <2>2, ThreadsKeepEvidence
<1>4. ASSUME NEW g \in Goroutine, RunReceive(g) PROVE EvidenceInv'
  <2>1. PICK w \in WP : w = job[g]
    BY <1>4 DEF RunReceive, TypeInv, Busy
  <2>2. UNCHANGED <<attempts, asg, current, results, seen, durWP, durAsg>>
    BY <1>4 DEF RunReceive, durVars
  <2>3. \A h \in Goroutine : pc[h] = "running" \/ pc'[h] = "running" =>
          pc'[h] = pc[h] /\ job'[h] = job[h] /\ try'[h] = try[h]
    BY <1>4 DEF RunReceive
  <2>4. CASE UNCHANGED graph
    BY <2>2, <2>3, <2>4, ThreadsKeepEvidence DEF memVars, durVars
  <2>5. CASE graph[w] = "DEFICIENT" /\ graph' = [graph EXCEPT ![w] = "READY"]
    <3>1. graph'[w] = "READY" /\ \A v \in WP : v # w => graph'[v] = graph[v]
      BY <2>5 DEF TypeInv, TypeOK
    <3>2. PackageOk(w)'
      <4>1. \A n \in Attempt : asg[w][n] \in {"none", "failed"} /\ durAsg[w][n] # "accepted"
        BY <2>5, NothingStands
      <4>2. durWP[w] # "COMPLETED" /\ ~Awaiting(w)
        BY <2>5, NothingStands DEF OrderInv, AwaitingIsRunning
      <4>3. QED
        BY <2>2, <4>1, <4>2 DEF PackageOk, LastAttemptStands, EvidenceIsOwn, RecordsBehind, Awaiting
    <3>3. ASSUME NEW v \in WP, v # w PROVE PackageOk(v)' /\ (graph'[v] = "RUNNING" => Executed(v)' \/ Stopped(v)')
      <4>1. PackageOk(v)'
        BY <2>2, <3>1, <3>3 DEF EvidenceInv, PackageOk, LastAttemptStands, EvidenceIsOwn, RecordsBehind, Awaiting
      <4>2. Executed(v) => Executed(v)'
        BY <2>2, <2>3 DEF Executed
      <4>3. QED
        BY <2>2, <3>1, <3>3, <4>1, <4>2 DEF EvidenceInv, Stopped
    <3>4. \A h \in Goroutine : RunsLast(h)'
      BY <2>2, <2>3 DEF EvidenceInv, RunsLast
    <3>5. QED
      BY <3>1, <3>2, <3>3, <3>4 DEF EvidenceInv
  <2>6. QED
    BY <1>4, <2>1, <2>4, <2>5 DEF RunReceive, Retryable, OrderInv, FailureIsShown
<1>5. ASSUME NEW g \in Goroutine, Refuse(g) PROVE EvidenceInv'
  <2>1. PICK w \in WP : w = job[g]
    BY <1>5 DEF Refuse, TypeInv, Busy
  <2>2. Busy(g) /\ graph[w] \in {"PROPOSED", "READY"}
    BY <1>5, <2>1 DEF Refuse, Busy, OrderInv, PickedIsReady, Ready
  <2>3. /\ UNCHANGED <<graph, asg, current, results, durWP, durAsg>>
        /\ \A v \in WP : v # w => attempts'[v] = attempts[v]
        /\ Return(g, "error")
    BY <1>5, <2>1 DEF Refuse, durVars, TypeInv, TypeOK
  <2>4. PackageOk(w)'
    <3>1. \A n \in Attempt : asg[w][n] \in {"none", "failed"} /\ durAsg[w][n] # "accepted"
      BY <2>2, NothingStands
    <3>2. durWP[w] # "COMPLETED" /\ ~Awaiting(w)
      BY <2>2, NothingStands DEF OrderInv, AwaitingIsRunning
    <3>3. QED
      BY <2>3, <3>1, <3>2 DEF PackageOk, LastAttemptStands, EvidenceIsOwn, RecordsBehind, Awaiting
  <2>5. /\ \A h \in Goroutine : h # g => pc'[h] = pc[h] /\ job'[h] = job[h] /\ try'[h] = try[h]
        /\ RunsLast(g)'
    BY <2>3, ReturnAll DEF RunsLast
  <2>6. graph'[w] # "RUNNING"
    BY <2>2, <2>3
  <2>7. QED
    BY <2>1, <2>2, <2>3, <2>4, <2>5, <2>6, StepKeepsEvidence
<1>6. ASSUME NEW g \in Goroutine, Start(g) PROVE EvidenceInv'
  <2>1. PICK w \in WP : w = job[g]
    BY <1>6 DEF Start, TypeInv, Busy
  <2>2. PICK n \in Attempt : n = attempts[w] + 1
    BY <1>6, <2>1 DEF Start, NextAttempt
  <2>3. Busy(g) /\ graph[w] \in {"PROPOSED", "READY"}
    BY <1>6, <2>1 DEF Start, Busy, OrderInv, PickedIsReady, Ready
  <2>4. /\ UNCHANGED <<current, results>> /\ attempts'[w] = n
        /\ \A v \in WP : v # w => attempts'[v] = attempts[v]
    BY <1>6, <2>1, <2>2 DEF Start, NextAttempt, TypeInv, TypeOK
  <2>5. /\ \A m \in Attempt : asg[w][m] \in {"none", "failed"} /\ durAsg[w][m] # "accepted"
        /\ durWP[w] # "COMPLETED"
    BY <2>3, NothingStands
  <2>6. ASSUME NEW s \in {"running", "failed"}, asg' = [asg EXCEPT ![w][n] = s],
               graph'[w] = IF s = "running" THEN "RUNNING" ELSE "DEFICIENT",
               durWP'[w] # "COMPLETED",
               \A m \in Attempt : durAsg'[w][m] # "accepted"
        PROVE  PackageOk(w)'
    <3>1. \A m \in Attempt : asg'[w][m] = IF m = n THEN s ELSE asg[w][m]
      BY <2>6 DEF TypeInv, TypeOK
    <3>2. ~Awaiting(w)'
      <4>1. current'[w] \in 0..AttemptBound
        BY DEF TypeInv, TypeOK
      <4>2. QED
        BY <2>5, <3>1, <4>1 DEF Awaiting, Attempt
    <3>3. QED
      BY <2>4, <2>5, <2>6, <3>1, <3>2 DEF PackageOk, LastAttemptStands, EvidenceIsOwn, RecordsBehind
  <2>7. CASE /\ asg' = [asg EXCEPT ![w][n] = "running"]
             /\ SetWorkPackageState(w, "RUNNING")
             /\ RecordAssignment(w, n, "running")
             /\ pc' = [pc EXCEPT ![g] = "running"]
             /\ try' = [try EXCEPT ![g] = n]
             /\ UNCHANGED <<job, out>>
    <3>1. /\ graph'[w] = "RUNNING" /\ durWP'[w] \in {durWP[w], "RUNNING"}
          /\ \A v \in WP : v # w => graph'[v] = graph[v] /\ durWP'[v] = durWP[v]
      BY <2>7 DEF SetWorkPackageState, TypeInv, TypeOK
    <3>2. /\ \A v \in WP : v # w => durAsg'[v] = durAsg[v]
          /\ \A m \in Attempt : durAsg'[w][m] = IF m = n THEN "running" ELSE durAsg[w][m]
      BY <2>7, RecordAll
    <3>3. \A m \in Attempt : durAsg'[w][m] # "accepted"
      BY <2>5, <3>2
    <3>4. PackageOk(w)'
      BY <2>5, <2>6, <2>7, <3>1, <3>3
    <3>5. /\ \A h \in Goroutine : h # g => pc'[h] = pc[h] /\ job'[h] = job[h] /\ try'[h] = try[h]
          /\ pc'[g] = "running" /\ job'[g] = w /\ try'[g] = n
      BY <2>1, <2>7 DEF TypeInv, TypeOK
    <3>6. asg'[w][n] = "running" /\ \A v \in WP : v # w => asg'[v] = asg[v]
      BY <2>7 DEF TypeInv, TypeOK
    <3>7. RunsLast(g)' /\ Executed(w)'
      BY <2>4, <3>5, <3>6 DEF RunsLast, Executed
    <3>8. QED
      BY <2>1, <2>3, <2>4, <3>1, <3>2, <3>4, <3>5, <3>6, <3>7, StepKeepsEvidence
  <2>8. CASE /\ asg' = [asg EXCEPT ![w][n] = "failed"]
             /\ graph' = [graph EXCEPT ![w] = "DEFICIENT"]
             /\ \E s \in {durWP[w], "RUNNING", "DEFICIENT"} : durWP' = [durWP EXCEPT ![w] = s]
             /\ Return(g, "error")
             /\ UNCHANGED durAsg
    <3>1. /\ graph'[w] = "DEFICIENT" /\ durWP'[w] # "COMPLETED"
          /\ \A v \in WP : v # w => graph'[v] = graph[v] /\ durWP'[v] = durWP[v]
      BY <2>5, <2>8 DEF TypeInv, TypeOK
    <3>2. PackageOk(w)'
      BY <2>5, <2>6, <2>8, <3>1
    <3>3. \A v \in WP : v # w => asg'[v] = asg[v]
      BY <2>8 DEF TypeInv, TypeOK
    <3>4. /\ \A h \in Goroutine : h # g => pc'[h] = pc[h] /\ job'[h] = job[h] /\ try'[h] = try[h]
          /\ RunsLast(g)'
      BY <2>8, ReturnAll DEF RunsLast
    <3>5. graph'[w] # "RUNNING"
      BY <3>1
    <3>6. QED
      BY <2>1, <2>3, <2>4, <2>8, <3>1, <3>2, <3>3, <3>4, <3>5, StepKeepsEvidence
  <2>9. QED
    BY <1>6, <2>1, <2>2, <2>7, <2>8 DEF Start, NextAttempt
<1>7. ASSUME NEW g \in Goroutine, pc[g] = "running", NEW to, NEW o, NEW rec,
             Conclude(job[g], try[g], to), Return(g, o),
             to \in {"collecting", "awaiting_gates", "accepted", "failed", "canceled"},
             UNCHANGED durAsg \/ (RecordAssignment(job[g], try[g], rec) /\ (rec = "accepted" => to = "accepted")),
             UNCHANGED attempts,
             \A v \in WP : v # job[g] => current'[v] = current[v] /\ results'[v] = results[v],
             to = "accepted" => /\ results'[job[g]].attempt = try[g]
                                /\ "tests" \in Gates => results'[job[g]].tests,
             to = "awaiting_gates" => results'[job[g]].attempt = try[g]
      PROVE  EvidenceInv'
  <2>1. PICK w \in WP, n \in Attempt : w = job[g] /\ n = try[g]
    BY <1>7 DEF TypeInv, Busy
  <2>2. Busy(g) /\ graph[w] = "RUNNING" /\ n = attempts[w] /\ PackageOk(w)
    BY <1>7, <2>1 DEF Busy, OrderInv, RunningIsHeld, EvidenceInv, RunsLast
  <2>3. Conclude(w, n, to)
    BY <1>7, <2>1
  <2>4. /\ \A v \in WP : v # w => durAsg'[v] = durAsg[v]
        /\ \A m \in Attempt : m # n => durAsg'[w][m] = durAsg[w][m]
        /\ durAsg'[w][n] = durAsg[w][n] \/ (durAsg'[w][n] = "accepted" => to = "accepted")
    <3>1. CASE UNCHANGED durAsg
      BY <3>1
    <3>2. CASE RecordAssignment(w, n, rec) /\ (rec = "accepted" => to = "accepted")
      BY <3>2, RecordAll
    <3>3. QED
      BY <1>7, <2>1, <3>1, <3>2
  <2>5. PackageOk(w)' /\ (graph'[w] = "RUNNING" => Stopped(w)')
    <3>1. current'[w] \in 0..AttemptBound
      BY DEF TypeInv, TypeOK
    <3>2. attempts'[w] = attempts[w]
      BY <1>7
    <3>3. /\ to = "accepted" => results'[w].attempt = n /\ ("tests" \in Gates => results'[w].tests)
          /\ to = "awaiting_gates" => results'[w].attempt = n
      BY <1>7, <2>1
    <3>4. QED
      BY <1>7, <2>2, <2>3, <2>4, <3>1, <3>2, <3>3, ConcludeKeepsPackage
  <2>6. \A v \in WP : v # w =>
          /\ graph'[v] = graph[v] /\ asg'[v] = asg[v] /\ current'[v] = current[v]
          /\ attempts'[v] = attempts[v] /\ results'[v] = results[v]
          /\ durWP'[v] = durWP[v] /\ durAsg'[v] = durAsg[v]
    BY <1>7, <2>1, <2>3, <2>4, ConcludeAll
  <2>7. /\ \A h \in Goroutine : h # g => pc'[h] = pc[h] /\ job'[h] = job[h] /\ try'[h] = try[h]
        /\ RunsLast(g)'
    BY <1>7, ReturnAll DEF RunsLast
  <2>8. QED
    BY <2>1, <2>2, <2>5, <2>6, <2>7, StepKeepsEvidence
<1>8. ASSUME NEW g \in Goroutine, NEW to \in {"failed", "canceled"}, AdapterError(g, to)
      PROVE  EvidenceInv'
  <2>1. PICK o : Return(g, o) /\ (UNCHANGED durAsg \/ RecordAssignment(job[g], try[g], to))
    BY <1>8 DEF AdapterError
  <2>2. /\ pc[g] = "running" /\ Conclude(job[g], try[g], to) /\ UNCHANGED <<attempts, results>>
        /\ \A v \in WP : v # job[g] => current'[v] = current[v]
    BY <1>8 DEF AdapterError, TypeInv, TypeOK
  <2>3. QED
    BY <1>7, <2>1, <2>2
<1>9. ASSUME NEW g \in Goroutine, CollectInvalid(g) PROVE EvidenceInv'
  <2>1. /\ pc[g] = "running" /\ Conclude(job[g], try[g], "collecting") /\ Return(g, "error")
        /\ UNCHANGED <<attempts, current, results, durAsg>>
    BY <1>9 DEF CollectInvalid, Conclude, durVars
  <2>2. QED
    BY <1>7, <2>1
<1>10. ASSUME NEW g \in Goroutine, NEW status \in {"succeeded", "failed"},
              NEW tests \in BOOLEAN, Collect(g, status, tests)
       PROVE  EvidenceInv'
  <2> DEFINE w == job[g]
             n == try[g]
             verdict == Verdict(w, status, tests)
             path == RecordedPath(verdict)
  <2>1. /\ pc[g] = "running" /\ w \in WP /\ UNCHANGED attempts
        /\ current' = [current EXCEPT ![w] = n]
        /\ results' = [results EXCEPT ![w] = [attempt |-> n, tests |-> tests]]
    BY <1>10 DEF Collect, TypeInv, Busy
  <2>2. \/ /\ Conclude(w, n, Final(verdict).state)
           /\ RecordAssignment(w, n, path[Len(path)])
           /\ Return(g, Final(verdict).out)
        \/ /\ \E written \in 0..(Len(path) - 1) :
                /\ Conclude(w, n, path[written + 1])
                /\ IF written = 0 THEN UNCHANGED durAsg
                   ELSE RecordAssignment(w, n, path[written])
           /\ Return(g, "error")
    BY <1>10 DEF Collect
  <2>3. verdict = "accepted" => Evaluate(w, tests) = "passed"
    BY DEF Verdict
  <2>4. verdict = "accepted" => ("tests" \in Gates => tests)
    BY <2>3, PassedMeans
  <2>5. /\ Len(path) \in 2..3
        /\ \A i \in 1..Len(path) :
              /\ path[i] \in {"collecting", "awaiting_gates", "accepted", "failed"}
              /\ path[i] = "accepted" => verdict = "accepted" /\ i = Len(path)
        /\ Final(verdict).state \in {"awaiting_gates", "accepted", "failed"}
        /\ Final(verdict).state = "accepted" <=> verdict = "accepted"
    BY PathStates, AcceptedLast
  <2>6. /\ results'[w].attempt = n /\ results'[w].tests = tests
        /\ \A v \in WP : v # w => current'[v] = current[v] /\ results'[v] = results[v]
    BY <2>1 DEF TypeInv, TypeOK
  <2> HIDE DEF verdict, path
  <2> DEFINE Moves(to, o, rec) ==
          /\ Conclude(w, n, to) /\ Return(g, o)
          /\ to \in {"collecting", "awaiting_gates", "accepted", "failed", "canceled"}
          /\ UNCHANGED durAsg \/ (RecordAssignment(w, n, rec) /\ (rec = "accepted" => to = "accepted"))
          /\ to = "accepted" => verdict = "accepted"
  <2>7. PICK to, o, rec : Moves(to, o, rec)
    <3>1. CASE /\ Conclude(w, n, Final(verdict).state)
               /\ RecordAssignment(w, n, path[Len(path)])
               /\ Return(g, Final(verdict).out)
      <4>1. path[Len(path)] = "accepted" => Final(verdict).state = "accepted"
        BY <2>5
      <4>2. Final(verdict).state \in {"collecting", "awaiting_gates", "accepted", "failed", "canceled"}
        BY <2>5
      <4>3. QED
        BY <2>5, <3>1, <4>1, <4>2
    <3>2. ASSUME NEW written \in 0..(Len(path) - 1), Conclude(w, n, path[written + 1]),
                 IF written = 0 THEN UNCHANGED durAsg ELSE RecordAssignment(w, n, path[written]),
                 Return(g, "error")
          PROVE  Moves(path[written + 1], "error", path[written])
      <4>1. /\ path[written + 1] \in {"collecting", "awaiting_gates", "accepted", "failed"}
            /\ path[written + 1] = "accepted" => verdict = "accepted"
        BY <2>5
      <4>2. written # 0 => path[written] # "accepted"
        BY <2>5
      <4>3. QED
        BY <3>2, <4>1, <4>2
    <3>3. QED
      BY <2>2, <3>1, <3>2
  <2>8. QED
    BY <1>7, <2>1, <2>4, <2>6, <2>7
<1>11. ASSUME NEW w \in WP, Approve(w) \/ Reject(w) PROVE EvidenceInv'
  BY <1>11, ThreadsKeepEvidence DEF Approve, Reject, threadVars
<1>12. ASSUME NEW w \in WP, Resolve(w) PROVE EvidenceInv'
  <2>1. Awaiting(w) /\ graph[w] = "RUNNING"
    BY <1>12 DEF Resolve, Resolvable, Awaiting, OrderInv, AwaitingIsRunning
  <2>2. PICK n \in Attempt : n = current[w]
    BY <2>1 DEF Awaiting, TypeInv, TypeOK, Attempt
  <2>3. PICK to \in {"accepted", "failed"} :
          /\ Conclude(w, n, to)
          /\ RecordAssignment(w, n, to) \/ UNCHANGED durAsg
          /\ to = "accepted" => Evaluate(w, results[w].tests) = "passed"
    BY <1>12, <2>2 DEF Resolve
  <2>4. UNCHANGED <<attempts, current, results, pc, job, try>>
    BY <1>12 DEF Resolve, threadVars
  <2>5. n = attempts[w] /\ results[w].attempt = n /\ PackageOk(w) /\ results[w].tests \in BOOLEAN
    BY <2>1, <2>2 DEF EvidenceInv, PackageOk, LastAttemptStands, EvidenceIsOwn, Awaiting, TypeInv, TypeOK, Result
  <2>6. /\ \A v \in WP : v # w => durAsg'[v] = durAsg[v]
        /\ \A m \in Attempt : m # n => durAsg'[w][m] = durAsg[w][m]
        /\ durAsg'[w][n] = durAsg[w][n] \/ (durAsg'[w][n] = "accepted" => to = "accepted")
    BY <2>3, RecordAll
  <2>7. PackageOk(w)' /\ (graph'[w] = "RUNNING" => Stopped(w)')
    <3>1. /\ to = "accepted" => results'[w].attempt = n /\ ("tests" \in Gates => results'[w].tests)
          /\ to = "awaiting_gates" => results'[w].attempt = n
      BY <2>3, <2>4, <2>5, PassedMeans
    <3>2. current'[w] \in 0..AttemptBound /\ attempts'[w] = attempts[w]
      BY <2>4 DEF TypeInv, TypeOK
    <3>3. to \in {"collecting", "awaiting_gates", "accepted", "failed", "canceled"}
      OBVIOUS
    <3>4. QED
      BY <2>1, <2>3, <2>5, <2>6, <3>1, <3>2, <3>3, ConcludeKeepsPackage
  <2>8. ASSUME NEW v \in WP, v # w PROVE PackageOk(v)' /\ (graph'[v] = "RUNNING" => Executed(v)' \/ Stopped(v)')
    <3>1. graph'[v] = graph[v] /\ asg'[v] = asg[v] /\ durWP'[v] = durWP[v] /\ durAsg'[v] = durAsg[v]
      BY <2>3, <2>6, <2>8, ConcludeAll
    <3>2. PackageOk(v)'
      BY <2>4, <3>1 DEF EvidenceInv, PackageOk, LastAttemptStands, EvidenceIsOwn, RecordsBehind, Awaiting
    <3>3. QED
      BY <2>4, <3>1, <3>2 DEF EvidenceInv, Executed, Stopped
  <2>9. ASSUME NEW h \in Goroutine PROVE RunsLast(h)'
    <3> SUFFICES ASSUME pc'[h] = "running"
                 PROVE  try'[h] = attempts'[job'[h]] /\ asg'[job'[h]][try'[h]] = "running"
      BY DEF RunsLast
    <3>1. pc[h] = "running" /\ job[h] # w /\ job[h] \in WP
      BY <2>1, <2>4 DEF OrderInv, RunningIsHeld, TypeInv, Busy
    <3>2. asg'[job[h]] = asg[job[h]]
      BY <2>3, <3>1, ConcludeAll
    <3>3. QED
      BY <2>4, <3>1, <3>2 DEF EvidenceInv, RunsLast
  <2>10. QED
    BY <2>7, <2>8, <2>9 DEF EvidenceInv
<1>13. QED
  BY <1>1, <1>2, <1>3, <1>4, <1>5, <1>6, <1>8, <1>9, <1>10, <1>11, <1>12 DEF Next, Step

LEMMA EvidenceAlways == ASSUME ~Overlap PROVE Spec => [](TypeInv /\ EvidenceInv)
<1>1. TypeInv /\ OrderInv /\ [Next]_vars => OrderInv'
  BY OrderNext
<1>2. TypeInv /\ TypeInv' /\ OrderInv /\ EvidenceInv /\ [Next]_vars => EvidenceInv'
  BY EvidenceNext
<1>3. QED
  BY <1>1, <1>2, TypeInit, TypeNext, OrderInit, EvidenceInit, PTL DEF Spec

\* When callers wait for the goroutines of the previous call, an accepted assignment
\* is the last attempt of a complete package and was judged on that attempt's own
\* result, on collection and on a Resolve that comes after any number of other steps.
THEOREM AcceptedOnOwnEvidenceHolds == ASSUME ~Overlap PROVE Spec => []AcceptedOnOwnEvidence
<1>1. TypeInv /\ EvidenceInv => AcceptedOnOwnEvidence
  BY DEF EvidenceInv, PackageOk, LastAttemptStands, EvidenceIsOwn, AcceptedOnOwnEvidence
<1>2. QED
  BY <1>1, EvidenceAlways, PTL

\* Then no attempt is overtaken before it has failed, and a package shown as running
\* is executed by somebody or was left by one of dispatchOne's silent exits.
THEOREM AttemptsAccountedForHolds == ASSUME ~Overlap PROVE Spec => []AttemptsAccountedFor
<1>1. TypeInv /\ EvidenceInv => AttemptsAccountedFor
  <2> SUFFICES ASSUME TypeInv, EvidenceInv, NEW w \in WP
               PROVE  /\ \A n \in Attempt : n < attempts[w] => asg[w][n] \in {"none", "failed"}
                      /\ graph[w] = "RUNNING" => Executed(w) \/ Stopped(w)
    BY DEF AttemptsAccountedFor, Executed, Stopped
  <2>1. ASSUME NEW n \in Attempt, n < attempts[w] PROVE n # attempts[w]
    BY <2>1 DEF Attempt, TypeInv, TypeOK
  <2>2. QED
    BY <2>1 DEF EvidenceInv, PackageOk, LastAttemptStands
<1>2. QED
  BY <1>1, EvidenceAlways, PTL

\* Then the durable records never claim a completion or an acceptance that memory
\* does not have, whichever writes fail.
THEOREM DurableNotAheadHolds == ASSUME ~Overlap PROVE Spec => []DurableNotAhead
<1>1. TypeInv /\ EvidenceInv => DurableNotAhead
  BY DEF EvidenceInv, PackageOk, RecordsBehind, DurableNotAhead
<1>2. QED
  BY <1>1, EvidenceAlways, PTL

-----------------------------------------------------------------------------
(* The report of Run, for callers that do not overlap.                     *)

InHand(w) == \E g \in Goroutine : Busy(g) /\ job[g] = w

Ended == {"COMPLETED", "DEFICIENT", "RUNNING"}

\* The packages Run has tried and let go of, by the state they are in.
Left(S) == {w \in WP : report.attempts[w] > 0 /\ ~InHand(w) /\ graph[w] \in S}

\* What an outcome in Run's channel says of its package.
Outcome(g) ==
  pc[g] = "returned" /\ out[g] # "error" =>
    /\ attempts[job[g]] > 0
    /\ out[g] # "none"
    /\ out[g] = "succeeded" => graph[job[g]] = "COMPLETED"
    /\ out[g] = "failed" => current[job[g]] # 0
    /\ out[g] = "pending" => graph[job[g]] \in Ended /\ "human_review" \in Gates

Budgeted(w) ==
  /\ report.attempts[w] > 0 => attempts[w] > 0 /\ graph[w] # "ABSENT"
  /\ InHand(w) \/ graph[w] \in {"PROPOSED", "READY"} => report.attempts[w] < MaxAttempts

Sums ==
  /\ IsFiniteSet(Left(Ended))
  /\ report.accepted + report.failed + report.pending = Cardinality(Left(Ended))
  /\ report.accepted <= Cardinality(Left({"COMPLETED"}))
  /\ report.failed <= Cardinality(Left({"DEFICIENT"}))

Exact ==
  /\ report.accepted = Cardinality(Left({"COMPLETED"}))
  /\ report.failed = Cardinality(Left({"DEFICIENT"}))
  /\ report.pending = 0 /\ Left({"RUNNING"}) = {}
  /\ \A w \in Left({"DEFICIENT"}) : report.attempts[w] = MaxAttempts

Reported ==
  /\ \A g \in Goroutine : Outcome(g)
  /\ \A w \in WP : Budgeted(w)
  /\ Sums
  /\ "human_review" \notin Gates => Exact

ReportInv == RunActive => Reported

\* The parts of what Run has let go of, and their sizes.
LEMMA LeftParts ==
  ASSUME IsFiniteSet(Left(Ended))
  PROVE  /\ Left(Ended) = Left({"COMPLETED"}) \cup Left({"DEFICIENT"}) \cup Left({"RUNNING"})
         /\ Cardinality(Left(Ended)) \in Nat
         /\ \A s \in Ended : IsFiniteSet(Left({s})) /\ Cardinality(Left({s})) \in Nat
<1>1. Left(Ended) = Left({"COMPLETED"}) \cup Left({"DEFICIENT"}) \cup Left({"RUNNING"})
  BY DEF Left, Ended
<1>2. ASSUME NEW s \in Ended PROVE IsFiniteSet(Left({s})) /\ Cardinality(Left({s})) \in Nat
  <2>1. Left({s}) \subseteq Left(Ended)
    BY DEF Left
  <2>2. QED
    BY <2>1, FS_Subset, FS_CardinalityType
<1>3. QED
  BY <1>1, <1>2, FS_CardinalityType

\* A step that leaves the counts and what Run has let go of as they are.
LEMMA SameLeft ==
  ASSUME Sums, "human_review" \notin Gates => Exact,
         report'.accepted = report.accepted, report'.failed = report.failed, report'.pending = report.pending,
         \A w \in WP : ~InHand(w) => report'.attempts[w] = report.attempts[w],
         \A s \in Ended : Left({s})' = Left({s})
  PROVE  Sums' /\ ("human_review" \notin Gates => Exact')
<1>1. Left(Ended) = Left({"COMPLETED"}) \cup Left({"DEFICIENT"}) \cup Left({"RUNNING"})
  BY DEF Left, Ended
<1>2. Left(Ended)' = Left({"COMPLETED"})' \cup Left({"DEFICIENT"})' \cup Left({"RUNNING"})'
  BY DEF Left, Ended
<1>3. /\ Left({"COMPLETED"})' = Left({"COMPLETED"}) /\ Left({"DEFICIENT"})' = Left({"DEFICIENT"})
      /\ Left({"RUNNING"})' = Left({"RUNNING"})
  BY DEF Ended
<1>4. Left(Ended)' = Left(Ended)
  BY <1>1, <1>2, <1>3
<1>5. Sums'
  BY <1>3, <1>4 DEF Sums
<1>6. \A w \in Left({"DEFICIENT"}) : report'.attempts[w] = report.attempts[w]
  BY DEF Left
<1>7. Exact => Exact'
  BY <1>3, <1>6 DEF Exact
<1>8. QED
  BY <1>5, <1>7

\* Run lets go of a package that it will not try again: one more in one of the parts.
LEMMA LetGo ==
  ASSUME IsFiniteSet(Left(Ended)), NEW w, w \notin Left(Ended), NEW s \in Ended,
         Left({s})' = Left({s}) \cup {w},
         \A t \in Ended : t # s => Left({t})' = Left({t})
  PROVE  /\ IsFiniteSet(Left(Ended)') /\ Cardinality(Left(Ended)') = Cardinality(Left(Ended)) + 1
         /\ Cardinality(Left({s})') = Cardinality(Left({s})) + 1
         /\ \A t \in Ended : t # s => Cardinality(Left({t})') = Cardinality(Left({t}))
<1>1. Left(Ended) = Left({"COMPLETED"}) \cup Left({"DEFICIENT"}) \cup Left({"RUNNING"})
  BY LeftParts
<1>2. Left(Ended)' = Left({"COMPLETED"})' \cup Left({"DEFICIENT"})' \cup Left({"RUNNING"})'
  BY DEF Left, Ended
<1>3. /\ Left({"COMPLETED"})' = Left({"COMPLETED"}) \cup (IF s = "COMPLETED" THEN {w} ELSE {})
      /\ Left({"DEFICIENT"})' = Left({"DEFICIENT"}) \cup (IF s = "DEFICIENT" THEN {w} ELSE {})
      /\ Left({"RUNNING"})' = Left({"RUNNING"}) \cup (IF s = "RUNNING" THEN {w} ELSE {})
  BY DEF Ended
<1>4. Left(Ended)' = Left(Ended) \cup {w}
  BY <1>1, <1>2, <1>3 DEF Ended
<1>5. w \notin Left({s}) /\ IsFiniteSet(Left({s}))
  BY <1>1, LeftParts DEF Ended
<1>6. IsFiniteSet(Left(Ended)') /\ Cardinality(Left(Ended)') = Cardinality(Left(Ended)) + 1
  BY <1>4, FS_AddElement
<1>7. Cardinality(Left({s})') = Cardinality(Left({s})) + 1
  BY <1>5, FS_AddElement
<1>8. QED
  BY <1>6, <1>7

\* While Run is at work, whoever returns returns to it.
LEMMA ReturnsToRun ==
  ASSUME TypeInv, QuietRun, RunActive, NEW g \in Goroutine, Busy(g), NEW o, Return(g, o)
  PROVE  /\ pc'[g] = "returned" /\ out'[g] = o /\ job'[g] = job[g]
         /\ \A h \in Goroutine : h # g => pc'[h] = pc[h] /\ job'[h] = job[h] /\ out'[h] = out[h]
<1>1. g \in batch
  BY DEF QuietRun, RunActive
<1>2. QED
  BY <1>1 DEF Return, TypeInv, TypeOK

\* A goroutine at work on its own package, which it keeps, disturbs no count.
LEMMA StepKeepsReport ==
  ASSUME TypeInv, OrderInv, Reported, NEW g \in Goroutine, Busy(g), NEW w \in WP, w = job[g],
         \A v \in WP : v # w => graph'[v] = graph[v] /\ attempts'[v] = attempts[v] /\ current'[v] = current[v],
         attempts[w] > 0 => attempts'[w] > 0, graph'[w] = graph[w] \/ graph'[w] # "ABSENT",
         \A h \in Goroutine : h # g => pc'[h] = pc[h] /\ job'[h] = job[h] /\ out'[h] = out[h],
         pc'[g] # "idle", job'[g] = w, report' = report, Outcome(g)'
  PROVE  Reported'
<1>1. \A h \in Goroutine : h # g /\ Busy(h) => job[h] # w /\ job[h] \in WP
  BY DEF OrderInv, OneJobEach, TypeInv
<1>2. \A v \in WP : InHand(v)' <=> InHand(v)
  BY DEF InHand, Busy
<1>3. InHand(w)
  BY DEF InHand
<1>4. ASSUME NEW s \in Ended PROVE Left({s})' = Left({s})
  BY <1>2, <1>3 DEF Left
<1>5. ASSUME NEW v \in WP PROVE Budgeted(v)'
  <2>1. Budgeted(v)
    BY DEF Reported
  <2>2. QED
    BY <1>2, <1>3, <2>1 DEF Budgeted
<1>6. ASSUME NEW h \in Goroutine PROVE Outcome(h)'
  <2>1. CASE h # g /\ pc[h] = "returned"
    <3>1. job[h] \in WP /\ job[h] # w /\ Outcome(h)
      BY <1>1, <2>1 DEF Busy, Reported
    <3>2. QED
      BY <2>1, <3>1 DEF Outcome
  <2>2. CASE h # g /\ pc[h] # "returned"
    BY <2>2 DEF Outcome
  <2>3. QED
    BY <2>1, <2>2
<1>7. Sums' /\ ("human_review" \notin Gates => Exact')
  BY <1>4, SameLeft DEF Reported
<1>8. QED
  BY <1>5, <1>6, <1>7 DEF Reported

\* Only a human gate is ever pending.
LEMMA PendingIsHuman ==
  ASSUME NEW w, NEW t \in BOOLEAN, Evaluate(w, t) = "pending"
  PROVE  "human_review" \in Gates
<1>1. PICK g \in Gates : "pending" = IF g = "tests" THEN TestsGate(t) ELSE HumanGate(w)
  BY DEF Evaluate, Decisions
<1>2. QED
  BY <1>1, ConstantsAssumption DEF TestsGate

\* The steps of dispatchOne while Run waits for their outcome.
LEMMA WorkKeepsReport ==
  ASSUME TypeInv, OrderInv, EvidenceInv, RunActive, Reported, NEW g \in Goroutine, Step(g)
  PROVE  Reported'
<1>1. PICK w \in WP : w = job[g] /\ Busy(g)
  BY DEF Step, Refuse, Start, AdapterError, CollectInvalid, Collect, TypeInv, Busy
<1>2. QuietRun /\ report' = report
  BY DEF OrderInv, Step, Refuse, Start, AdapterError, CollectInvalid, Collect, runVars
<1>3. ASSUME NEW o, Return(g, o)
      PROVE  /\ pc'[g] = "returned" /\ out'[g] = o /\ job'[g] = w
             /\ \A h \in Goroutine : h # g => pc'[h] = pc[h] /\ job'[h] = job[h] /\ out'[h] = out[h]
  BY <1>1, <1>2, <1>3, ReturnsToRun
<1>4. CASE Refuse(g)
  <2>1. /\ Return(g, "error") /\ UNCHANGED <<graph, current>>
        /\ \A v \in WP : v # w => attempts'[v] = attempts[v]
        /\ attempts[w] > 0 => attempts'[w] > 0
    BY <1>1, <1>4 DEF Refuse, TypeInv, TypeOK
  <2>2. /\ pc'[g] = "returned" /\ out'[g] = "error" /\ job'[g] = w
        /\ \A h \in Goroutine : h # g => pc'[h] = pc[h] /\ job'[h] = job[h] /\ out'[h] = out[h]
    BY <1>3, <2>1
  <2>3. Outcome(g)'
    BY <2>2 DEF Outcome
  <2>4. QED
    BY <1>1, <1>2, <2>1, <2>2, <2>3, StepKeepsReport
<1>5. CASE Start(g)
  <2>1. /\ current' = current
        /\ \A v \in WP : v # w => attempts'[v] = attempts[v] /\ graph'[v] = graph[v]
        /\ attempts[w] > 0 => attempts'[w] > 0
        /\ graph'[w] # "ABSENT"
    BY <1>1, <1>5 DEF Start, NextAttempt, SetWorkPackageState, TypeInv, TypeOK
  <2>2. /\ pc'[g] # "idle" /\ job'[g] = w /\ Outcome(g)'
        /\ \A h \in Goroutine : h # g => pc'[h] = pc[h] /\ job'[h] = job[h] /\ out'[h] = out[h]
    <3>1. CASE pc' = [pc EXCEPT ![g] = "running"] /\ UNCHANGED <<job, out>>
      BY <1>1, <3>1 DEF Outcome, TypeInv, TypeOK
    <3>2. CASE Return(g, "error")
      BY <1>3, <3>2 DEF Outcome
    <3>3. QED
      BY <1>5, <3>1, <3>2 DEF Start
  <2>3. QED
    BY <1>1, <1>2, <2>1, <2>2, StepKeepsReport
<1>6. ASSUME pc[g] = "running" PROVE attempts[w] > 0 /\ try[g] \in Attempt /\ try[g] # 0 /\ graph[w] = "RUNNING"
  BY <1>1, <1>6 DEF EvidenceInv, RunsLast, TypeInv, Attempt, OrderInv, RunningIsHeld
<1>7. ASSUME pc[g] = "running", NEW to, Conclude(w, try[g], to), NEW o, Return(g, o), UNCHANGED attempts,
             \A v \in WP : v # w => current'[v] = current[v],
             o \in {"error", "succeeded", "failed", "pending"},
             o = "succeeded" => to = "accepted",
             o = "failed" => current'[w] # 0,
             o = "pending" => to = "awaiting_gates" /\ "human_review" \in Gates
      PROVE  Reported'
  <2>1. /\ \A v \in WP : v # w => graph'[v] = graph[v]
        /\ graph'[w] = IF to = "failed" THEN "DEFICIENT" ELSE IF to = "accepted" THEN "COMPLETED" ELSE graph[w]
    BY <1>6, <1>7, ConcludeAll
  <2>2. /\ pc'[g] = "returned" /\ out'[g] = o /\ job'[g] = w
        /\ \A h \in Goroutine : h # g => pc'[h] = pc[h] /\ job'[h] = job[h] /\ out'[h] = out[h]
    BY <1>3, <1>7
  <2>3. Outcome(g)'
    BY <1>6, <1>7, <2>1, <2>2 DEF Outcome, Ended
  <2>4. QED
    BY <1>1, <1>2, <1>7, <2>1, <2>2, <2>3, StepKeepsReport
<1>8. ASSUME NEW to \in {"failed", "canceled"}, AdapterError(g, to) PROVE Reported'
  <2>1. /\ pc[g] = "running" /\ Conclude(w, try[g], to) /\ UNCHANGED attempts
        /\ current'[w] = try[g] /\ \A v \in WP : v # w => current'[v] = current[v]
    BY <1>1, <1>8 DEF AdapterError, TypeInv, TypeOK
  <2>2. PICK o \in {"failed", "error"} : Return(g, o)
    BY <1>8 DEF AdapterError
  <2>3. QED
    BY <1>6, <1>7, <2>1, <2>2
<1>9. CASE CollectInvalid(g)
  <2>1. /\ pc[g] = "running" /\ Conclude(w, try[g], "collecting") /\ Return(g, "error")
        /\ UNCHANGED <<attempts, current>>
    BY <1>1, <1>9 DEF CollectInvalid, Conclude, durVars
  <2>2. QED
    BY <1>7, <2>1
<1>10. ASSUME NEW status \in {"succeeded", "failed"}, NEW tests \in BOOLEAN, Collect(g, status, tests)
       PROVE  Reported'
  <2>1. PICK verdict : verdict = Verdict(w, status, tests)
    OBVIOUS
  <2>2. /\ pc[g] = "running" /\ UNCHANGED attempts
        /\ current'[w] = try[g] /\ \A v \in WP : v # w => current'[v] = current[v]
    BY <1>1, <1>10 DEF Collect, TypeInv, TypeOK
  <2>3. \/ Conclude(w, try[g], Final(verdict).state) /\ Return(g, Final(verdict).out)
        \/ (\E to : Conclude(w, try[g], to)) /\ Return(g, "error")
    BY <1>1, <1>10, <2>1 DEF Collect
  <2>4. verdict \in {"failed", "accepted", "pending", "gates_failed"}
    BY <2>1 DEF Verdict
  <2>5. verdict = "pending" => Evaluate(w, tests) = "pending"
    BY <2>1 DEF Verdict
  <2>6. /\ Final(verdict).out \in {"succeeded", "failed", "pending"}
        /\ Final(verdict).out = "succeeded" => Final(verdict).state = "accepted"
        /\ Final(verdict).out = "pending" => Final(verdict).state = "awaiting_gates" /\ verdict = "pending"
    BY <2>4 DEF Final
  <2>7. Final(verdict).out = "pending" => "human_review" \in Gates
    BY <2>5, <2>6, PendingIsHuman
  <2>8. CASE Conclude(w, try[g], Final(verdict).state) /\ Return(g, Final(verdict).out)
    BY <1>6, <1>7, <2>2, <2>6, <2>7, <2>8
  <2>9. CASE (\E to : Conclude(w, try[g], to)) /\ Return(g, "error")
    BY <1>7, <2>2, <2>9
  <2>10. QED
    BY <2>3, <2>8, <2>9
<1>11. QED
  BY <1>4, <1>5, <1>8, <1>9, <1>10 DEF Step

\* Run receives an outcome: a retried package goes on, any other is let go of and
\* counted once.
LEMMA ReceiveKeepsReport ==
  ASSUME TypeInv, OrderInv, RunActive, Reported, NEW g \in Goroutine, RunReceive(g), out[g] # "error"
  PROVE  Reported'
<1>1. PICK w \in WP : w = job[g] /\ Busy(g) /\ pc[g] = "returned"
  BY DEF RunReceive, TypeInv, Busy
<1>2. PICK o : o = out[g] /\ o \in {"succeeded", "failed", "pending"}
  BY <1>1 DEF TypeInv, TypeOK, Reported, Outcome
<1>3. PICK r \in BOOLEAN : r = Retryable(w, o)
  BY DEF Retryable
<1>4. /\ pc'[g] = "idle" /\ UNCHANGED <<attempts, current>>
      /\ \A h \in Goroutine : h # g => pc'[h] = pc[h] /\ job'[h] = job[h] /\ out'[h] = out[h]
  BY <1>1 DEF RunReceive, TypeInv, TypeOK
<1>5. /\ report'.attempts = [report.attempts EXCEPT ![w] = @ + 1]
      /\ report'.accepted = report.accepted + (IF o = "succeeded" THEN 1 ELSE 0)
      /\ report'.failed = report.failed + (IF o = "failed" /\ ~r THEN 1 ELSE 0)
      /\ report'.pending = report.pending + (IF o = "pending" THEN 1 ELSE 0)
      /\ graph' = IF r THEN [graph EXCEPT ![w] = "READY"] ELSE graph
  BY <1>1, <1>2, <1>3 DEF RunReceive
<1>6. /\ report.attempts \in [WP -> Nat] /\ report.accepted \in Nat /\ report.failed \in Nat /\ report.pending \in Nat
  BY DEF TypeInv, TypeOK, Report
<1>7. /\ report'.attempts[w] = report.attempts[w] + 1 /\ report'.attempts[w] > 0
      /\ \A v \in WP : v # w => report'.attempts[v] = report.attempts[v]
  BY <1>5, <1>6
<1>8. /\ graph'[w] = IF r THEN "READY" ELSE graph[w]
      /\ \A v \in WP : v # w => graph'[v] = graph[v]
  BY <1>5 DEF TypeInv, TypeOK
<1>9. \A h \in Goroutine : h # g /\ Busy(h) => job[h] # w /\ job[h] \in WP
  BY <1>1 DEF OrderInv, OneJobEach, TypeInv
<1>10. InHand(w) /\ ~InHand(w)' /\ \A v \in WP : v # w => (InHand(v)' <=> InHand(v))
  BY <1>1, <1>4, <1>9 DEF InHand, Busy
<1>11. /\ attempts[w] > 0 /\ (o = "succeeded" => graph[w] = "COMPLETED") /\ (o = "failed" => current[w] # 0)
       /\ o = "pending" => graph[w] \in Ended /\ "human_review" \in Gates
       /\ o = "failed" => graph[w] = "DEFICIENT"
  BY <1>1, <1>2 DEF Reported, Outcome, OrderInv, FailureIsShown
<1>12. r => o = "failed" /\ report.attempts[w] + 1 < MaxAttempts
  BY <1>3 DEF Retryable
<1>13. o = "failed" /\ ~r => report.attempts[w] + 1 = MaxAttempts
  <2>1. report.attempts[w] < MaxAttempts
    BY <1>10 DEF Reported, Budgeted
  <2>2. PICK k \in Nat : k = report.attempts[w]
    BY <1>6
  <2>3. o = "failed" /\ ~r => ~(k + 1 < MaxAttempts)
    BY <1>3, <1>11, <2>2 DEF Retryable
  <2>4. MaxAttempts \in Nat
    BY ConstantsAssumption
  <2>5. QED
    BY <2>1, <2>2, <2>3, <2>4
<1>14. \A h \in Goroutine : Outcome(h)'
  <2> SUFFICES ASSUME NEW h \in Goroutine, pc'[h] = "returned", out'[h] # "error" PROVE Outcome(h)'
    BY DEF Outcome
  <2>1. h # g /\ pc[h] = "returned" /\ job[h] # w /\ job[h] \in WP
    BY <1>4, <1>9 DEF Busy
  <2>2. Outcome(h)
    BY DEF Reported
  <2>3. QED
    BY <1>4, <1>8, <2>1, <2>2 DEF Outcome
<1>15. ASSUME NEW v \in WP PROVE Budgeted(v)'
  <2>1. Budgeted(v)
    BY DEF Reported
  <2>2. CASE v # w
    BY <1>4, <1>7, <1>8, <1>10, <2>1, <2>2 DEF Budgeted
  <2>3. CASE v = w
    <3>1. graph'[w] \in {"PROPOSED", "READY"} => r
      BY <1>2, <1>8, <1>11 DEF Ended
    <3>2. r => report'.attempts[w] < MaxAttempts
      BY <1>7, <1>12
    <3>3. graph'[w] # "ABSENT"
      BY <1>2, <1>8, <1>11 DEF Ended
    <3>4. QED
      BY <1>4, <1>10, <1>11, <2>3, <3>1, <3>2, <3>3 DEF Budgeted
  <2>4. QED
    BY <2>2, <2>3
<1>16. \A v \in WP : ~InHand(v) => report'.attempts[v] = report.attempts[v]
  BY <1>7, <1>10
<1>17. w \notin Left(Ended) /\ \A S : w \notin Left(S)
  BY <1>10 DEF Left
<1>18. ASSUME NEW s \in Ended PROVE Left({s})' = IF graph'[w] = s THEN Left({s}) \cup {w} ELSE Left({s})
  <2>1. \A v \in WP : v # w => (v \in Left({s})' <=> v \in Left({s}))
    BY <1>7, <1>8, <1>10 DEF Left
  <2>2. w \in Left({s})' <=> graph'[w] = s
    BY <1>7, <1>10 DEF Left
  <2>3. Left({s})' \subseteq WP /\ Left({s}) \subseteq WP
    BY DEF Left
  <2>4. QED
    BY <1>17, <2>1, <2>2, <2>3
<1>19. Sums /\ ("human_review" \notin Gates => Exact)
  BY DEF Reported
<1>20. Sums' /\ ("human_review" \notin Gates => Exact')
  <2>1. CASE r
    <3>1. \A s \in Ended : Left({s})' = Left({s})
      BY <1>8, <1>18, <2>1 DEF Ended
    <3>2. report'.accepted = report.accepted /\ report'.failed = report.failed /\ report'.pending = report.pending
      BY <1>5, <1>6, <1>12, <2>1
    <3>3. QED
      BY <1>16, <1>19, <3>1, <3>2, SameLeft
  <2>2. CASE ~r
    <3>1. PICK s \in Ended : s = graph'[w] /\ s = graph[w]
      BY <1>2, <1>8, <1>11, <2>2 DEF Ended
    <3>2. Left({s})' = Left({s}) \cup {w} /\ \A t \in Ended : t # s => Left({t})' = Left({t})
      BY <1>18, <3>1
    <3>3. IsFiniteSet(Left(Ended))
      BY <1>19 DEF Sums
    <3>4. /\ IsFiniteSet(Left(Ended)') /\ Cardinality(Left(Ended)') = Cardinality(Left(Ended)) + 1
          /\ Cardinality(Left({s})') = Cardinality(Left({s})) + 1
          /\ \A t \in Ended : t # s => Cardinality(Left({t})') = Cardinality(Left({t}))
      BY <1>17, <3>2, <3>3, LetGo
    <3>5. PICK c \in Nat, d \in Nat, e \in Nat :
             /\ c = Cardinality(Left({"COMPLETED"})) /\ d = Cardinality(Left({"DEFICIENT"})) /\ e = Cardinality(Left(Ended))
      BY <3>3, LeftParts DEF Ended
    <3>6. /\ Cardinality(Left({"COMPLETED"})') = c + (IF s = "COMPLETED" THEN 1 ELSE 0)
          /\ Cardinality(Left({"DEFICIENT"})') = d + (IF s = "DEFICIENT" THEN 1 ELSE 0)
          /\ Cardinality(Left(Ended)') = e + 1
      <4>1. CASE s = "COMPLETED"
        BY <3>4, <3>5, <4>1 DEF Ended
      <4>2. CASE s = "DEFICIENT"
        BY <3>4, <3>5, <4>2 DEF Ended
      <4>3. CASE s = "RUNNING"
        BY <3>4, <3>5, <4>3 DEF Ended
      <4>4. QED
        BY <4>1, <4>2, <4>3 DEF Ended
    <3>7. /\ report.accepted + report.failed + report.pending = e /\ report.accepted <= c /\ report.failed <= d
      BY <1>19, <3>5 DEF Sums
    <3>8. /\ report'.accepted + report'.failed + report'.pending = e + 1
          /\ report'.accepted <= c + (IF s = "COMPLETED" THEN 1 ELSE 0)
          /\ report'.failed <= d + (IF s = "DEFICIENT" THEN 1 ELSE 0)
      BY <1>2, <1>5, <1>6, <1>11, <2>2, <3>1, <3>7
    <3>9. Sums'
      BY <3>4, <3>6, <3>8 DEF Sums
    <3>10. ASSUME "human_review" \notin Gates PROVE Exact'
      <4>1. Exact /\ (o = "succeeded" \/ o = "failed") /\ s # "RUNNING"
        BY <1>2, <1>11, <1>19, <3>1, <3>10
      <4>2. report.accepted = c /\ report.failed = d /\ report.pending = 0
        BY <3>5, <4>1 DEF Exact
      <4>3. report'.accepted = Cardinality(Left({"COMPLETED"})') /\ report'.failed = Cardinality(Left({"DEFICIENT"})')
        BY <1>5, <1>11, <2>2, <3>1, <3>6, <4>1, <4>2
      <4>4. report'.pending = 0 /\ Left({"RUNNING"})' = {}
        BY <1>5, <3>2, <4>1, <4>2 DEF Exact, Ended
      <4>5. ASSUME NEW v \in Left({"DEFICIENT"})' PROVE report'.attempts[v] = MaxAttempts
        <5>1. CASE v = w
          <6>1. s = "DEFICIENT"
            BY <3>1, <4>5, <5>1 DEF Left
          <6>2. QED
            BY <1>7, <1>11, <1>13, <2>2, <3>1, <4>1, <5>1, <6>1
        <5>2. CASE v # w
          <6>1. v \in Left({"DEFICIENT"}) /\ v \in WP
            BY <3>2, <5>2 DEF Ended, Left
          <6>2. QED
            BY <1>7, <4>1, <5>2, <6>1 DEF Exact
        <5>3. QED
          BY <5>1, <5>2
      <4>6. QED
        BY <4>3, <4>4, <4>5 DEF Exact
    <3>11. QED
      BY <3>9, <3>10
  <2>3. QED
    BY <2>1, <2>2
<1>21. QED
  BY <1>14, <1>15, <1>20 DEF Reported

\* Resolve moves a package that waits: one Run still holds, one it never tried, or
\* one it has counted as pending.
LEMMA ResolveKeepsReport ==
  ASSUME TypeInv, OrderInv, RunActive, Reported, NEW w \in WP, Resolve(w)
  PROVE  Reported'
<1>1. Awaiting(w) /\ graph[w] = "RUNNING"
  BY DEF Resolve, Resolvable, Awaiting, OrderInv, AwaitingIsRunning
<1>2. PICK n \in Attempt : n = current[w]
  BY <1>1 DEF Awaiting, TypeInv, TypeOK, Attempt
<1>3. PICK to \in {"accepted", "failed"} : Conclude(w, n, to)
  BY <1>2 DEF Resolve
<1>4. /\ graph'[w] \in {"COMPLETED", "DEFICIENT"} /\ \A v \in WP : v # w => graph'[v] = graph[v]
  BY <1>3, ConcludeAll
<1>5. UNCHANGED <<attempts, current, pc, job, out, report>>
  BY DEF Resolve, threadVars, runVars
<1>6. \A v \in WP : InHand(v)' <=> InHand(v)
  BY <1>5 DEF InHand, Busy
<1>7. ASSUME NEW h \in Goroutine PROVE Outcome(h)'
  <2>1. Outcome(h) /\ (pc[h] = "returned" => job[h] \in WP) /\ (pc[h] = "returned" /\ out[h] = "failed" => graph[job[h]] = "DEFICIENT")
    BY DEF Reported, TypeInv, Busy, OrderInv, FailureIsShown
  <2>2. CASE job[h] = w
    BY <1>1, <1>4, <1>5, <2>1, <2>2 DEF Outcome, Ended
  <2>3. CASE job[h] # w
    BY <1>4, <1>5, <2>1, <2>3 DEF Outcome
  <2>4. QED
    BY <2>2, <2>3
<1>8. ASSUME NEW v \in WP PROVE Budgeted(v)'
  <2>1. Budgeted(v)
    BY DEF Reported
  <2>2. QED
    BY <1>4, <1>5, <1>6, <2>1 DEF Budgeted
<1>9. Sums /\ ("human_review" \notin Gates => Exact)
  BY DEF Reported
<1>10. Sums' /\ ("human_review" \notin Gates => Exact')
  <2>1. CASE w \notin Left({"RUNNING"})
    <3>1. InHand(w) \/ ~(report.attempts[w] > 0)
      BY <1>1, <2>1 DEF Left
    <3>2. ASSUME NEW s \in Ended PROVE Left({s})' = Left({s})
      BY <1>4, <1>5, <1>6, <3>1 DEF Left
    <3>3. QED
      BY <1>5, <1>9, <3>2, SameLeft
  <2>2. CASE w \in Left({"RUNNING"})
    <3>1. "human_review" \in Gates
      BY <1>9, <2>2 DEF Exact
    <3>2. ~InHand(w) /\ report.attempts[w] > 0
      BY <2>2 DEF Left
    <3>3. Left(Ended)' = Left(Ended)
      BY <1>1, <1>4, <1>5, <1>6, <3>2 DEF Left, Ended
    <3>4. ASSUME NEW s \in {"COMPLETED", "DEFICIENT"} PROVE Left({s}) \subseteq Left({s})' /\ Left({s})' \subseteq Left(Ended)'
      BY <1>1, <1>4, <1>5, <1>6 DEF Left, Ended
    <3>5. ASSUME NEW s \in {"COMPLETED", "DEFICIENT"}
          PROVE  /\ Cardinality(Left({s})) \in Nat /\ Cardinality(Left({s})') \in Nat
                 /\ Cardinality(Left({s})) <= Cardinality(Left({s})')
      <4>1. IsFiniteSet(Left({s})')
        BY <1>9, <3>3, <3>4, FS_Subset DEF Sums
      <4>2. QED
        BY <3>4, <4>1, FS_Subset, FS_CardinalityType
    <3>6. report.accepted \in Nat /\ report.failed \in Nat
      BY DEF TypeInv, TypeOK, Report
    <3>7. Sums'
      BY <1>5, <1>9, <3>3, <3>5, <3>6 DEF Sums
    <3>8. QED
      BY <3>1, <3>7
  <2>3. QED
    BY <2>1, <2>2
<1>11. QED
  BY <1>7, <1>8, <1>10 DEF Reported

\* Run takes a batch of ready packages, none of which it has counted.
LEMMA BatchKeepsReport ==
  ASSUME TypeInv, OrderInv, RunActive, Reported, RunBatch
  PROVE  Reported'
<1>1. (\A h \in Goroutine : pc[h] = "idle") /\ UNCHANGED <<graph, attempts, report>>
  BY DEF RunBatch, OrderInv, QuietRun, Busy, memVars
<1>2. \A h \in Goroutine : pc'[h] \in {"idle", "picked"}
  BY <1>1 DEF RunBatch
<1>3. \A h \in Goroutine : pc'[h] = "picked" => job'[h] \in Ready
  <2> SUFFICES ASSUME NEW h \in Goroutine, pc'[h] = "picked" PROVE job'[h] \in Ready
    OBVIOUS
  <2>1. PICK start \in [FirstReady(MaxConcurrency) -> {g \in Goroutine : pc[g] = "idle"}] :
           /\ pc' = [g \in Goroutine |-> IF g \in {start[w] : w \in DOMAIN start} THEN "picked" ELSE pc[g]]
           /\ job' = [g \in Goroutine |-> IF g \in {start[w] : w \in DOMAIN start}
                                         THEN CHOOSE w \in DOMAIN start : start[w] = g ELSE job[g]]
    BY DEF RunBatch
  <2>2. \E w \in DOMAIN start : start[w] = h
    BY <1>1, <2>1
  <2>3. job'[h] \in DOMAIN start
    BY <2>1, <2>2
  <2>4. QED
    BY <2>1, <2>3 DEF FirstReady
<1>4. \A v \in WP : ~InHand(v)
  BY <1>1 DEF InHand, Busy
<1>5. \A v \in WP : InHand(v)' => graph[v] \in {"PROPOSED", "READY"}
  BY <1>2, <1>3 DEF InHand, Busy, Ready
<1>6. \A h \in Goroutine : Outcome(h)'
  BY <1>2 DEF Outcome
<1>7. ASSUME NEW v \in WP PROVE Budgeted(v)'
  <2>1. Budgeted(v)
    BY DEF Reported
  <2>2. QED
    BY <1>1, <1>5, <2>1 DEF Budgeted
<1>8. ASSUME NEW s \in Ended PROVE Left({s})' = Left({s})
  <2>1. s \notin {"PROPOSED", "READY"}
    BY DEF Ended
  <2>2. QED
    BY <1>1, <1>4, <1>5, <2>1 DEF Left
<1>9. Sums' /\ ("human_review" \notin Gates => Exact')
  BY <1>1, <1>8, SameLeft DEF Reported
<1>10. QED
  BY <1>6, <1>7, <1>9 DEF Reported

\* A Run that starts has an empty report and no goroutine.
LEMMA StartReports ==
  ASSUME ~Overlap, TypeInv, RunStart PROVE Reported'
<1>1. report' = EmptyReport /\ UNCHANGED <<graph, attempts, pc, job, out>> /\ \A g \in Goroutine : pc[g] = "idle"
  BY DEF RunStart, MayCall, memVars, threadVars
<1>2. \A w \in WP : report'.attempts[w] = 0 /\ report'.accepted = 0 /\ report'.failed = 0 /\ report'.pending = 0
  BY <1>1 DEF EmptyReport
<1>3. report'.accepted = 0 /\ report'.failed = 0 /\ report'.pending = 0
  BY <1>1 DEF EmptyReport
<1>4. ASSUME NEW S PROVE Left(S)' = {}
  BY <1>2 DEF Left
<1>5. IsFiniteSet({}) /\ Cardinality({}) = 0
  BY FS_EmptySet
<1>6. Sums' /\ Exact'
  BY <1>3, <1>4, <1>5 DEF Sums, Exact
<1>7. \A g \in Goroutine : Outcome(g)'
  BY <1>1 DEF Outcome
<1>8. \A w \in WP : Budgeted(w)'
  <2>1. 0 < MaxAttempts /\ ~(0 > 0)
    BY ConstantsAssumption
  <2>2. QED
    BY <1>2, <2>1 DEF Budgeted
<1>9. QED
  BY <1>6, <1>7, <1>8 DEF Reported

\* Every step keeps the report's account when callers wait for earlier goroutines.
LEMMA ReportNext ==
  ASSUME ~Overlap PROVE TypeInv /\ OrderInv /\ EvidenceInv /\ ReportInv /\ [Next]_vars => ReportInv'
<1> SUFFICES ASSUME TypeInv, OrderInv, EvidenceInv, ReportInv, [Next]_vars, RunActive' PROVE Reported'
  BY DEF ReportInv
<1>1. CASE RunStart
  BY <1>1, StartReports
<1>2. CASE RunBatch
  <2>1. RunActive
    BY <1>2 DEF RunBatch, RunActive
  <2>2. QED
    BY <1>2, <2>1, BatchKeepsReport DEF ReportInv
<1>3. CASE RunReturn
  BY <1>3 DEF RunReturn, RunActive
<1>4. ASSUME NEW g \in Goroutine, Dispatch(g) PROVE FALSE
  BY <1>4 DEF Dispatch, MayCall, RunActive, runVars
<1>5. ASSUME NEW g \in Goroutine, RunReceive(g) PROVE Reported'
  <2>1. RunActive /\ out[g] # "error"
    BY <1>5 DEF RunReceive, RunActive
  <2>2. QED
    BY <1>5, <2>1, ReceiveKeepsReport DEF ReportInv
<1>6. ASSUME NEW g \in Goroutine, Step(g) PROVE Reported'
  <2>1. RunActive
    BY <1>6 DEF Step, Refuse, Start, AdapterError, CollectInvalid, Collect, runVars, RunActive
  <2>2. QED
    BY <1>6, <2>1, WorkKeepsReport DEF ReportInv
<1>7. ASSUME NEW w \in WP, Resolve(w) PROVE Reported'
  <2>1. RunActive
    BY <1>7 DEF Resolve, runVars, RunActive
  <2>2. QED
    BY <1>7, <2>1, ResolveKeepsReport DEF ReportInv
<1>8. ASSUME UNCHANGED <<graph, attempts, current, pc, job, out, report, runPc>> PROVE Reported'
  <2>1. Reported
    BY <1>8 DEF ReportInv, RunActive
  <2>2. /\ \A v : InHand(v)' <=> InHand(v)
        /\ \A g \in Goroutine : Outcome(g) => Outcome(g)'
    BY <1>8 DEF InHand, Busy, Outcome
  <2>3. \A w \in WP : Budgeted(w) => Budgeted(w)'
    BY <1>8, <2>2 DEF Budgeted
  <2>4. ASSUME NEW s \in Ended PROVE Left({s})' = Left({s})
    BY <1>8, <2>2 DEF Left
  <2>5. Sums' /\ ("human_review" \notin Gates => Exact')
    BY <1>8, <2>1, <2>4, SameLeft DEF Reported
  <2>6. QED
    BY <2>1, <2>2, <2>3, <2>5 DEF Reported
<1>9. ASSUME NEW w \in WP, Approve(w) \/ Reject(w) PROVE Reported'
  BY <1>8, <1>9 DEF Approve, Reject, memVars, threadVars, runVars
<1>10. CASE UNCHANGED vars
  BY <1>8, <1>10 DEF vars, memVars, threadVars, runVars
<1>11. QED
  BY <1>1, <1>2, <1>3, <1>4, <1>5, <1>6, <1>7, <1>9, <1>10 DEF Next

\* When Run returns, what it has tried it has let go of, and the rest is blocked.
LEMMA ReportAtReturn ==
  ASSUME TypeInv, OrderInv, ReportInv, runPc = "loop", Ready = {}
  PROVE  /\ report.accepted + report.failed + report.pending = Cardinality(Tried)
         /\ report.accepted <= Cardinality(TriedIn("COMPLETED"))
         /\ report.failed <= Cardinality(TriedIn("DEFICIENT"))
         /\ "human_review" \notin Gates =>
              /\ report.accepted = Cardinality(TriedIn("COMPLETED"))
              /\ report.failed = Cardinality(TriedIn("DEFICIENT"))
              /\ report.pending = Cardinality(TriedIn("RUNNING"))
              /\ \A w \in TriedIn("DEFICIENT") : report.attempts[w] = MaxAttempts
         /\ \A w \in WP : graph[w] \in {"PROPOSED", "READY"} =>
              \E d \in DependsOn[w] : graph[d] # "COMPLETED"
<1>1. Reported /\ \A w : ~InHand(w)
  BY DEF ReportInv, RunActive, OrderInv, QuietRun, InHand
<1>2. \A w \in WP : graph[w] \in {"PROPOSED", "READY"} => \E d \in DependsOn[w] : graph[d] # "COMPLETED"
  BY DEF Ready
<1>3. ASSUME NEW w \in Tried PROVE graph[w] \in Ended
  <2>1. w \in WP /\ attempts[w] > 0 /\ graph[w] # "ABSENT"
    BY <1>1 DEF Tried, Reported, Budgeted
  <2>2. graph[w] \notin {"PROPOSED", "READY"}
    BY <1>2, <2>1 DEF OrderInv, DependencyOrder
  <2>3. QED
    BY <2>1, <2>2 DEF TypeInv, TypeOK, WPState, Ended
<1>4. Left(Ended) = Tried
  BY <1>1, <1>3 DEF Left, Tried
<1>5. \A s \in Ended : Left({s}) = TriedIn(s)
  BY <1>1 DEF Left, TriedIn, Tried
<1>6. /\ Left({"COMPLETED"}) = TriedIn("COMPLETED") /\ Left({"DEFICIENT"}) = TriedIn("DEFICIENT")
      /\ Left({"RUNNING"}) = TriedIn("RUNNING")
  BY <1>5 DEF Ended
<1>7. /\ report.accepted + report.failed + report.pending = Cardinality(Tried)
      /\ report.accepted <= Cardinality(TriedIn("COMPLETED"))
      /\ report.failed <= Cardinality(TriedIn("DEFICIENT"))
  BY <1>1, <1>4, <1>6 DEF Reported, Sums
<1>8. ASSUME "human_review" \notin Gates
      PROVE  /\ report.accepted = Cardinality(TriedIn("COMPLETED"))
             /\ report.failed = Cardinality(TriedIn("DEFICIENT"))
             /\ report.pending = Cardinality(TriedIn("RUNNING"))
             /\ \A w \in TriedIn("DEFICIENT") : report.attempts[w] = MaxAttempts
  BY <1>1, <1>6, <1>8, FS_EmptySet DEF Reported, Exact
<1>9. QED
  BY <1>2, <1>7, <1>8

\* When callers wait for the goroutines of the previous call, the report of a Run that
\* returns without error counts what it tried, each package once and as it ended, and
\* nothing it could have tried is left, whichever attempts failed, were retried, or
\* were resolved by a reviewer meanwhile.
THEOREM RunReportFaithfulHolds == ASSUME ~Overlap PROVE Spec => RunReportFaithful
<1>1. Init => ReportInv
  BY DEF Init, InitWith, ReportInv, RunActive
<1>2. TypeInv /\ OrderInv /\ [Next]_vars => OrderInv'
  BY OrderNext
<1>3. TypeInv /\ TypeInv' /\ OrderInv /\ EvidenceInv /\ [Next]_vars => EvidenceInv'
  BY EvidenceNext
<1>4. TypeInv /\ OrderInv /\ EvidenceInv /\ ReportInv /\ [Next]_vars => ReportInv'
  BY ReportNext
<1>5. TypeInv /\ OrderInv /\ ReportInv /\ [Next]_vars =>
        [runPc = "loop" /\ runPc' = "done" =>
           /\ report.accepted + report.failed + report.pending = Cardinality(Tried)
           /\ report.accepted <= Cardinality(TriedIn("COMPLETED"))
           /\ report.failed <= Cardinality(TriedIn("DEFICIENT"))
           /\ "human_review" \notin Gates =>
                /\ report.accepted = Cardinality(TriedIn("COMPLETED"))
                /\ report.failed = Cardinality(TriedIn("DEFICIENT"))
                /\ report.pending = Cardinality(TriedIn("RUNNING"))
                /\ \A w \in TriedIn("DEFICIENT") : report.attempts[w] = MaxAttempts
           /\ \A w \in WP : graph[w] \in {"PROPOSED", "READY"} =>
                \E d \in DependsOn[w] : graph[d] # "COMPLETED"]_vars
  <2> SUFFICES ASSUME TypeInv, OrderInv, ReportInv, [Next]_vars, runPc = "loop", runPc' = "done"
               PROVE  Ready = {}
    BY ReportAtReturn
  <2>1. CASE RunReturn
    BY <2>1 DEF RunReturn
  <2>2. ASSUME NEW g \in Goroutine, RunReceive(g) PROVE FALSE
    BY <2>2 DEF RunReceive
  <2>3. ASSUME runPc' = runPc PROVE FALSE
    BY <2>3
  <2>4. ASSUME NEW g \in Goroutine, Dispatch(g) \/ Step(g) PROVE runPc' = runPc
    BY <2>4 DEF Dispatch, Step, Refuse, Start, AdapterError, CollectInvalid, Collect, runVars
  <2>5. ASSUME NEW w \in WP, Approve(w) \/ Reject(w) \/ Resolve(w) PROVE runPc' = runPc
    BY <2>5 DEF Approve, Reject, Resolve, runVars
  <2>6. ~RunStart /\ ~RunBatch
    BY DEF RunStart, RunBatch
  <2>7. CASE UNCHANGED vars
    BY <2>7 DEF vars, runVars
  <2>8. QED
    BY <2>1, <2>2, <2>3, <2>4, <2>5, <2>6, <2>7 DEF Next
<1>6. QED
  BY <1>1, <1>2, <1>3, <1>4, <1>5, TypeInit, TypeNext, OrderInit, EvidenceInit, PTL DEF Spec, RunReportFaithful

-----------------------------------------------------------------------------
(* What holds of callers that overlap as well.                             *)

\* Result ids are made of attempt numbers, which are drawn under the lock: no two
\* executions share one, and none has been collected before.
IdsInv ==
  /\ \A g \in Goroutine : pc[g] = "running" =>
       try[g] <= attempts[job[g]] /\ <<job[g], try[g]>> \notin seen
  /\ \A g, h \in Goroutine :
       pc[g] = "running" /\ pc[h] = "running" /\ job[g] = job[h] /\ try[g] = try[h] => g = h
  /\ \A w \in WP, n \in Attempt : <<w, n>> \in seen => n <= attempts[w]

\* A step that starts no execution and draws no number twice.
LEMMA FewerKeepIds ==
  ASSUME TypeInv, TypeInv', IdsInv, seen' = seen,
         \A w \in WP : attempts[w] <= attempts'[w],
         \A h \in Goroutine : pc'[h] = "running" =>
           pc[h] = "running" /\ job'[h] = job[h] /\ try'[h] = try[h]
  PROVE  IdsInv'
<1>1. attempts \in [WP -> 0..AttemptBound] /\ attempts' \in [WP -> 0..AttemptBound]
  BY DEF TypeInv, TypeOK
<1>2. \A h \in Goroutine : pc[h] = "running" => job[h] \in WP /\ try[h] \in Attempt
  BY DEF TypeInv, Busy
<1>3. ASSUME NEW g \in Goroutine, pc'[g] = "running"
      PROVE  try'[g] <= attempts'[job'[g]] /\ <<job'[g], try'[g]>> \notin seen'
  <2>1. job[g] \in WP /\ try[g] \in Attempt /\ try[g] <= attempts[job[g]] /\ <<job[g], try[g]>> \notin seen
    BY <1>2, <1>3 DEF IdsInv
  <2>2. attempts[job[g]] <= attempts'[job[g]] /\ attempts[job[g]] \in Nat /\ attempts'[job[g]] \in Nat
    <3>1. PICK w \in WP : w = job[g]
      BY <2>1
    <3>2. attempts[w] <= attempts'[w] /\ attempts[w] \in Nat /\ attempts'[w] \in Nat
      BY <1>1, ConstantsAssumption
    <3>3. QED
      BY <3>1, <3>2
  <2>3. job'[g] = job[g] /\ try'[g] = try[g] /\ try[g] \in Nat
    BY <1>3, <2>1 DEF Attempt
  <2>4. try[g] <= attempts'[job[g]]
    BY <2>1, <2>2, <2>3
  <2>5. QED
    BY <2>1, <2>3, <2>4
<1>4. \A g, h \in Goroutine :
        pc'[g] = "running" /\ pc'[h] = "running" /\ job'[g] = job'[h] /\ try'[g] = try'[h] => g = h
  BY DEF IdsInv
<1>5. ASSUME NEW w \in WP, NEW n \in Attempt, <<w, n>> \in seen' PROVE n <= attempts'[w]
  <2>1. n <= attempts[w] /\ attempts[w] <= attempts'[w] /\ attempts[w] \in Nat /\ attempts'[w] \in Nat
    BY <1>1, <1>5, ConstantsAssumption DEF IdsInv
  <2>2. QED
    BY <2>1 DEF Attempt
<1>6. QED
  BY <1>3, <1>4, <1>5 DEF IdsInv

LEMMA IdsInit == Init => IdsInv
BY DEF Init, InitWith, IdsInv

LEMMA IdsNext == TypeInv /\ TypeInv' /\ IdsInv /\ [Next]_vars => IdsInv'
<1> SUFFICES ASSUME TypeInv, TypeInv', IdsInv, [Next]_vars PROVE IdsInv'
  OBVIOUS
<1>1. ASSUME UNCHANGED attempts PROVE \A w \in WP : attempts[w] <= attempts'[w]
  BY <1>1, ConstantsAssumption DEF TypeInv, TypeOK
<1>2. CASE RunStart \/ RunReturn \/ UNCHANGED vars \/ \E w \in WP : Approve(w) \/ Reject(w) \/ Resolve(w)
  <2>1. UNCHANGED <<attempts, seen, pc, job, try>>
    BY <1>2 DEF RunStart, RunReturn, Approve, Reject, Resolve, vars, memVars, threadVars
  <2>2. QED
    BY <1>1, <2>1, FewerKeepIds
<1>3. CASE RunBatch
  <2>1. UNCHANGED <<attempts, seen, try>> /\ \A h \in Goroutine : pc'[h] = "picked" \/ (pc'[h] = pc[h] /\ job'[h] = job[h])
    BY <1>3 DEF RunBatch, memVars
  <2>2. \A h \in Goroutine : pc'[h] = "running" => pc[h] = "running" /\ job'[h] = job[h] /\ try'[h] = try[h]
    BY <2>1
  <2>3. QED
    BY <1>1, <2>1, <2>2, FewerKeepIds
<1>4. ASSUME NEW g \in Goroutine, Dispatch(g) PROVE IdsInv'
  <2>1. /\ UNCHANGED <<attempts, seen, try>>
        /\ \A h \in Goroutine : h # g => pc'[h] = pc[h] /\ job'[h] = job[h]
        /\ pc'[g] = "picked"
    BY <1>4 DEF Dispatch, memVars, TypeInv, TypeOK
  <2>2. \A h \in Goroutine : pc'[h] = "running" => pc[h] = "running" /\ job'[h] = job[h] /\ try'[h] = try[h]
    BY <2>1
  <2>3. QED
    BY <1>1, <2>1, <2>2, FewerKeepIds
<1>5. ASSUME NEW g \in Goroutine, RunReceive(g) PROVE IdsInv'
  <2>1. UNCHANGED <<attempts, seen>>
    BY <1>5 DEF RunReceive
  <2>2. \A h \in Goroutine : pc'[h] = "running" => pc[h] = "running" /\ job'[h] = job[h] /\ try'[h] = try[h]
    BY <1>5 DEF RunReceive
  <2>3. QED
    BY <1>1, <2>1, <2>2, FewerKeepIds
<1>6. ASSUME NEW g \in Goroutine, NEW o, Return(g, o)
      PROVE  \A h \in Goroutine : pc'[h] = "running" => pc[h] = "running" /\ job'[h] = job[h] /\ try'[h] = try[h]
  BY <1>6, ReturnAll
<1>7. ASSUME NEW g \in Goroutine, Refuse(g) PROVE IdsInv'
  <2>1. Return(g, "error") /\ UNCHANGED seen
    BY <1>7 DEF Refuse
  <2>2. \A w \in WP : attempts[w] <= attempts'[w]
    BY <1>7, ConstantsAssumption DEF Refuse, TypeInv, TypeOK
  <2>3. QED
    BY <1>6, <2>1, <2>2, FewerKeepIds
<1>8. ASSUME NEW g \in Goroutine, NEW to \in {"failed", "canceled"}, AdapterError(g, to) \/ CollectInvalid(g)
      PROVE  IdsInv'
  <2>1. PICK o : Return(g, o)
    BY <1>8 DEF AdapterError, CollectInvalid
  <2>2. UNCHANGED <<attempts, seen>>
    BY <1>8 DEF AdapterError, CollectInvalid
  <2>3. QED
    BY <1>1, <1>6, <2>1, <2>2, FewerKeepIds
<1>9. ASSUME NEW g \in Goroutine, Start(g) PROVE IdsInv'
  <2>1. PICK w \in WP : w = job[g]
    BY <1>9 DEF Start, TypeInv, Busy
  <2>2. PICK n \in Attempt : n = attempts[w] + 1 /\ attempts' = [attempts EXCEPT ![w] = n]
    BY <1>9, <2>1 DEF Start, NextAttempt
  <2>3. /\ \A v \in WP : attempts[v] <= attempts'[v] /\ attempts[v] \in Nat /\ attempts'[v] \in Nat
        /\ attempts'[w] = n /\ UNCHANGED seen
    BY <1>9, <2>2, ConstantsAssumption DEF Start, TypeInv, TypeOK
  <2>4. CASE pc' = [pc EXCEPT ![g] = "running"] /\ try' = [try EXCEPT ![g] = n] /\ UNCHANGED job
    <3>1. /\ \A h \in Goroutine : h # g => pc'[h] = pc[h] /\ try'[h] = try[h]
          /\ pc'[g] = "running" /\ try'[g] = n /\ job' = job
      BY <2>4 DEF TypeInv, TypeOK
    <3>2. \A m \in Attempt : <<w, m>> \in seen => m # n
      BY <2>2, <2>3 DEF IdsInv, Attempt
    <3>3. ASSUME NEW h \in Goroutine, h # g, pc[h] = "running"
          PROVE  /\ try[h] <= attempts'[job[h]] /\ <<job[h], try[h]>> \notin seen
                 /\ job[h] = w => try[h] # n
      <4>1. job[h] \in WP /\ try[h] \in Attempt
        BY <3>3 DEF TypeInv, Busy
      <4>2. try[h] <= attempts[job[h]] /\ <<job[h], try[h]>> \notin seen
        BY <3>3 DEF IdsInv
      <4>3. QED
        BY <2>2, <2>3, <4>1, <4>2 DEF Attempt
    <3>4. ASSUME NEW h \in Goroutine, pc'[h] = "running"
          PROVE  try'[h] <= attempts'[job'[h]] /\ <<job'[h], try'[h]>> \notin seen'
      <4>1. CASE h = g
        BY <2>1, <2>3, <3>1, <3>2, <4>1
      <4>2. CASE h # g
        BY <2>3, <3>1, <3>3, <3>4, <4>2
      <4>3. QED
        BY <4>1, <4>2
    <3>5. ASSUME NEW h \in Goroutine, NEW i \in Goroutine, pc'[h] = "running", pc'[i] = "running",
                 job'[h] = job'[i], try'[h] = try'[i]
          PROVE  h = i
      BY <2>1, <3>1, <3>3, <3>5 DEF IdsInv
    <3>6. ASSUME NEW v \in WP, NEW m \in Attempt, <<v, m>> \in seen' PROVE m <= attempts'[v]
      BY <2>3, <3>6 DEF IdsInv, Attempt
    <3>7. QED
      BY <3>4, <3>5, <3>6 DEF IdsInv
  <2>5. CASE Return(g, "error")
    BY <1>6, <2>3, <2>5, FewerKeepIds
  <2>6. QED
    BY <1>9, <2>1, <2>2, <2>4, <2>5 DEF Start, NextAttempt
<1>10. ASSUME NEW g \in Goroutine, NEW status \in {"succeeded", "failed"},
              NEW tests \in BOOLEAN, Collect(g, status, tests)
       PROVE  IdsInv'
  <2>1. PICK w \in WP, n \in Attempt : w = job[g] /\ n = try[g] /\ n <= attempts[w]
    BY <1>10 DEF Collect, TypeInv, Busy, IdsInv
  <2>2. pc[g] = "running" /\ seen' = seen \union {<<w, n>>} /\ UNCHANGED attempts
    BY <1>10, <2>1 DEF Collect
  <2>3. PICK o : Return(g, o)
    BY <1>10 DEF Collect
  <2>4. pc'[g] # "running" /\ \A h \in Goroutine : h # g => pc'[h] = pc[h] /\ job'[h] = job[h] /\ try'[h] = try[h]
    BY <2>3, ReturnAll
  <2>5. ASSUME NEW h \in Goroutine, pc'[h] = "running"
        PROVE  try'[h] <= attempts'[job'[h]] /\ <<job'[h], try'[h]>> \notin seen'
    BY <2>1, <2>2, <2>4, <2>5 DEF IdsInv
  <2>6. QED
    BY <2>1, <2>2, <2>4, <2>5 DEF IdsInv
<1>11. QED
  BY <1>2, <1>3, <1>4, <1>5, <1>7, <1>8, <1>9, <1>10 DEF Next, Step

\* Nothing new is claimed of a package, in memory or on disk.
NoNewClaim(w) ==
  /\ graph'[w] = "COMPLETED" => graph[w] = "COMPLETED"
  /\ durWP'[w] = "COMPLETED" => durWP[w] = "COMPLETED" \/ graph[w] = "COMPLETED"
  /\ \A n \in Attempt : /\ asg'[w][n] = "accepted" => asg[w][n] = "accepted"
                        /\ durAsg'[w][n] = "accepted" => durAsg[w][n] = "accepted"

LEMMA ConcludeClaims ==
  ASSUME TypeInv, NEW v \in WP, NEW n \in Attempt, NEW to, NEW rec, Conclude(v, n, to),
         UNCHANGED durAsg \/ RecordAssignment(v, n, rec),
         NEW w \in WP, w = v => to # "accepted" /\ rec # "accepted"
  PROVE  NoNewClaim(w)
<1>1. \A m \in Attempt : durAsg'[w][m] = "accepted" => durAsg[w][m] = "accepted"
  <2>1. CASE UNCHANGED durAsg
    BY <2>1
  <2>2. CASE RecordAssignment(v, n, rec)
    BY <2>2, RecordAll
  <2>3. QED
    BY <2>1, <2>2
<1>2. CASE w = v
  BY <1>1, <1>2, ConcludeAll DEF NoNewClaim
<1>3. CASE w # v
  BY <1>1, <1>3, ConcludeAll DEF NoNewClaim
<1>4. QED
  BY <1>2, <1>3

\* Only a result that passed its gates is accepted or completes a package.
LEMMA ClaimsOnEvidence ==
  ASSUME TypeInv, Next, NEW w \in WP
  PROVE  \/ NoNewClaim(w)
         \/ /\ "human_review" \in Gates => w \in approved \ rejected
            /\ "tests" \in Gates => results'[w].tests
<1> DEFINE Judged == \E t \in BOOLEAN : Evaluate(w, t) = "passed" /\ results'[w].tests = t
<1>1. ASSUME NEW v \in WP, Resolve(v) PROVE NoNewClaim(w) \/ Judged
  <2>1. PICK n \in Attempt : n = current[v]
    BY <1>1 DEF Resolve, Resolvable, TypeInv, TypeOK, Attempt
  <2>2. PICK to \in {"accepted", "failed"} :
          /\ Conclude(v, n, to) /\ (to = "accepted" => Evaluate(v, results[v].tests) = "passed")
          /\ UNCHANGED durAsg \/ RecordAssignment(v, n, to)
    BY <1>1, <2>1 DEF Resolve
  <2>3. CASE w = v /\ to = "accepted"
    <3>1. results[w].tests \in BOOLEAN /\ results' = results
      BY <1>1 DEF Resolve, TypeInv, TypeOK, Result
    <3>2. QED
      BY <2>2, <2>3, <3>1
  <2>4. CASE w = v => to # "accepted"
    BY <2>2, <2>4, ConcludeClaims
  <2>5. QED
    BY <2>3, <2>4
<1>2. ASSUME NEW g \in Goroutine, NEW status \in {"succeeded", "failed"},
             NEW tests \in BOOLEAN, Collect(g, status, tests)
      PROVE  NoNewClaim(w) \/ Judged
  <2> DEFINE v == job[g]
             n == try[g]
             verdict == Verdict(v, status, tests)
             path == RecordedPath(verdict)
  <2>1. v \in WP /\ n \in Attempt /\ results' = [results EXCEPT ![v] = [attempt |-> n, tests |-> tests]]
    BY <1>2 DEF Collect, TypeInv, Busy
  <2>2. \/ /\ Conclude(v, n, Final(verdict).state)
           /\ RecordAssignment(v, n, path[Len(path)])
        \/ \E written \in 0..(Len(path) - 1) :
             /\ Conclude(v, n, path[written + 1])
             /\ IF written = 0 THEN UNCHANGED durAsg ELSE RecordAssignment(v, n, path[written])
    BY <1>2 DEF Collect
  <2>3. verdict = "accepted" => Evaluate(v, tests) = "passed"
    BY DEF Verdict
  <2>4. /\ Len(path) \in 2..3
        /\ \A i \in 1..Len(path) : path[i] = "accepted" => verdict = "accepted"
        /\ Final(verdict).state = "accepted" <=> verdict = "accepted"
    BY PathStates, AcceptedLast
  <2>5. results'[v].tests = tests
    BY <2>1 DEF TypeInv, TypeOK
  <2> HIDE DEF verdict, path, v, n
  <2>6. CASE w = v /\ verdict = "accepted"
    BY <2>3, <2>5, <2>6
  <2>7. CASE w = v => verdict # "accepted"
    <3>1. \A i \in 0..(Len(path) - 1) : i + 1 \in 1..Len(path) /\ (i = 0 \/ i \in 1..Len(path)) /\ Len(path) \in 1..Len(path)
      BY <2>4
    <3>2. PICK to, rec : /\ Conclude(v, n, to) /\ (UNCHANGED durAsg \/ RecordAssignment(v, n, rec))
                         /\ w = v => to # "accepted" /\ rec # "accepted"
      <4>1. CASE Conclude(v, n, Final(verdict).state) /\ RecordAssignment(v, n, path[Len(path)])
        <5>1. Len(path) \in 1..Len(path)
          BY <2>4
        <5>2. QED
          BY <2>4, <2>7, <4>1, <5>1
      <4>2. ASSUME NEW i \in 0..(Len(path) - 1), Conclude(v, n, path[i + 1]),
                   IF i = 0 THEN UNCHANGED durAsg ELSE RecordAssignment(v, n, path[i])
            PROVE  \E to, rec : /\ Conclude(v, n, to) /\ (UNCHANGED durAsg \/ RecordAssignment(v, n, rec))
                                /\ w = v => to # "accepted" /\ rec # "accepted"
        <5>1. w = v => path[i + 1] # "accepted" /\ (i = 0 \/ path[i] # "accepted")
          BY <2>4, <2>7, <3>1
        <5>2. CASE i = 0
          <6>1. UNCHANGED durAsg
            BY <4>2, <5>2
          <6>2. QED
            BY <4>2, <5>1, <6>1
        <5>3. CASE i # 0
          BY <4>2, <5>1, <5>3
        <5>4. QED
          BY <5>2, <5>3
      <4>3. QED
        BY <2>2, <4>1, <4>2
    <3>3. QED
      BY <2>1, <3>2, ConcludeClaims
  <2>8. QED
    BY <2>6, <2>7
<1>3. ASSUME NEW g \in Goroutine, NEW to \in {"failed", "canceled"}, AdapterError(g, to) PROVE NoNewClaim(w)
  <2>1. /\ job[g] \in WP /\ try[g] \in Attempt /\ Conclude(job[g], try[g], to)
        /\ UNCHANGED durAsg \/ RecordAssignment(job[g], try[g], to)
    BY <1>3 DEF AdapterError, TypeInv, Busy
  <2>2. QED
    BY <2>1, ConcludeClaims
<1>4. ASSUME NEW g \in Goroutine, CollectInvalid(g) PROVE NoNewClaim(w)
  <2>1. PICK v \in WP, n \in Attempt : v = job[g] /\ n = try[g]
    BY <1>4 DEF CollectInvalid, TypeInv, Busy
  <2>2. PICK to \in {"collecting"} : Conclude(v, n, to) /\ (UNCHANGED durAsg \/ RecordAssignment(v, n, to))
    BY <1>4, <2>1 DEF CollectInvalid, Conclude, durVars
  <2>3. w = v => to # "accepted"
    OBVIOUS
  <2>4. QED
    BY <2>2, <2>3, ConcludeClaims
<1>5. ASSUME NEW g \in Goroutine, Start(g) PROVE NoNewClaim(w)
  <2>1. PICK v \in WP : v = job[g]
    BY <1>5 DEF Start, TypeInv, Busy
  <2>2. PICK n \in Attempt : n = NextAttempt(v)
    BY <1>5, <2>1 DEF Start
  <2>3. PICK s \in {"running", "failed"} : asg' = [asg EXCEPT ![v][n] = s]
    BY <1>5, <2>1, <2>2 DEF Start
  <2>4. /\ graph'[w] # graph[w] => graph'[w] # "COMPLETED"
        /\ durWP'[w] # durWP[w] => durWP'[w] # "COMPLETED"
    BY <1>5 DEF Start, SetWorkPackageState, TypeInv, TypeOK
  <2>5. \A m \in Attempt : durAsg'[w][m] = "accepted" => durAsg[w][m] = "accepted"
    <3>1. UNCHANGED durAsg \/ RecordAssignment(v, n, "running")
      BY <1>5, <2>1, <2>2 DEF Start
    <3>2. CASE RecordAssignment(v, n, "running")
      BY <3>2, RecordAll
    <3>3. QED
      BY <3>1, <3>2
  <2>6. \A m \in Attempt : asg'[w][m] = "accepted" => asg[w][m] = "accepted"
    BY <2>3 DEF TypeInv, TypeOK
  <2>7. QED
    BY <2>4, <2>5, <2>6 DEF NoNewClaim
<1>6. ASSUME NEW g \in Goroutine, RunReceive(g) PROVE NoNewClaim(w)
  BY <1>6 DEF RunReceive, NoNewClaim, durVars, TypeInv, TypeOK
<1>7. ASSUME NEW g \in Goroutine, Dispatch(g) \/ Refuse(g) PROVE NoNewClaim(w)
  BY <1>7 DEF Dispatch, Refuse, NoNewClaim, memVars, durVars
<1>8. ASSUME RunStart \/ RunBatch \/ RunReturn \/ \E v \in WP : Approve(v) \/ Reject(v) PROVE NoNewClaim(w)
  BY <1>8 DEF RunStart, RunBatch, RunReturn, Approve, Reject, NoNewClaim, memVars, durVars
<1>9. Judged => /\ "human_review" \in Gates => w \in approved \ rejected
                /\ "tests" \in Gates => results'[w].tests
  BY PassedMeans
<1>10. NoNewClaim(w) \/ Judged
  BY <1>1, <1>2, <1>3, <1>4, <1>5, <1>6, <1>7, <1>8 DEF Next, Step
<1>11. QED
  BY <1>9, <1>10

\* Whether or not callers overlap: no execution carries a result id that was already
\* collected, and a package completes only on an approval that no rejection overrides
\* and on passing tests.
THEOREM OverlapIsSafeHolds == Spec => OverlapIsSafe
<1>1. TypeInv /\ IdsInv' /\ [Next]_vars =>
        [/\ \A g \in Goroutine : pc'[g] = "running" => <<job'[g], try'[g]>> \notin seen'
         /\ \A w \in WP : graph[w] # "COMPLETED" /\ graph'[w] = "COMPLETED" =>
              /\ "human_review" \in Gates => w \in approved \ rejected
              /\ "tests" \in Gates => results'[w].tests]_vars
  BY ClaimsOnEvidence DEF IdsInv, NoNewClaim
<1>2. QED
  BY <1>1, TypeInit, TypeNext, IdsInit, IdsNext, PTL DEF Spec, OverlapIsSafe

=============================================================================
