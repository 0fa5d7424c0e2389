------------------------------ MODULE Workflow ------------------------------
(***************************************************************************)
(* Declarative workflows, src/toolbox/workflow: Compile turns a workflow   *)
(* into a plan, Runtime.Run executes it and returns its state, and the     *)
(* caller keeps that state and resumes from it.                            *)
(*                                                                         *)
(* A step is a number, since ready steps are ordered by id.  Run goes over *)
(* the plan's order and passes over terminal steps, so it is always at the *)
(* first step that is not terminal (Current); Run is sequential, and one   *)
(* step here is one call of the runner, the compensator or the gates.  The *)
(* process may stop within Run, whose state is then lost; between runs the *)
(* caller may compile a version of the workflow that allows more retries.  *)
(* Outputs and reasons are left out, a runner is configured; the last      *)
(* error is not nil exactly when this call of Run has tried the step.      *)
(***************************************************************************)
EXTENDS Integers, Sequences, FiniteSets

CONSTANTS
    Steps,         \* step ids
    Dependencies,  \* the dependency declarations a workflow may have
    Profiles,      \* the kind, retries and failure policy its steps may have
    CanCompensate, \* the runner implements Compensator
    MaxRetries,    \* bound on retries
    MaxRuns        \* bound on calls of Run

ASSUME StepsAssumption == IsFiniteSet(Steps) /\ Steps \subseteq Nat
ASSUME DependenciesAssumption == Dependencies \subseteq [Steps -> SUBSET Steps]
ASSUME ProfilesAssumption ==
    Profiles \subseteq [Steps -> [kind : {"tool", "gate"}, retries : 0 .. MaxRetries,
                                  onFailure : {"fail", "retry", "skip", "compensate"}]]
ASSUME WorkflowBoundsAssumption == MaxRetries \in Nat /\ MaxRuns \in Nat /\ CanCompensate \in BOOLEAN

VARIABLES
    dependsOn,  \* the workflow's declared dependencies
    profile,    \* and its steps
    compiled,   \* "no", "plan" or "refused"
    order,      \* Plan.Order
    inRun,      \* Run is executing
    results,    \* RunState.Results within Run
    saved,      \* the results the caller holds
    status,     \* the status of the last Run that returned
    panicked,   \* the last Run ended in a nil dereference
    runs,       \* calls of Run so far
    tried,      \* runner calls of each step in this Run
    ran,        \* history: runner calls of each step in all
    lost        \* history: those whose Run never returned

flowVars == <<dependsOn, profile, compiled, order, inRun, results, saved, status,
              panicked, runs, tried, ran, lost>>

Fresh == [state |-> "pending", attempts |-> 0]
Zero == [s \in Steps |-> 0]

FlowInit ==
    /\ dependsOn \in Dependencies
    /\ profile \in Profiles
    /\ compiled = "no" /\ order = <<>>
    /\ inRun = FALSE /\ status = "running" /\ panicked = FALSE /\ runs = 0
    /\ results = [s \in Steps |-> Fresh] /\ saved = [s \in Steps |-> Fresh]
    /\ tried = Zero /\ ran = Zero /\ lost = Zero

Elements(seq) == {seq[i] : i \in 1 .. Len(seq)}

\* A step is ready with one of its dependencies emitted.
ReadySteps_Any(emitted) ==
    {s \in Steps \ Elements(emitted) :
        dependsOn[s] = {} \/ dependsOn[s] \cap Elements(emitted) # {}}

\* The steps that are not emitted and whose dependencies are.
ReadySteps(emitted) == {s \in Steps \ Elements(emitted) : dependsOn[s] \subseteq Elements(emitted)}

Least(set) == CHOOSE s \in set : \A t \in set : s <= t

\* The order after n rounds: the ready step with the least id comes next.
TopoRounds[n \in Nat] ==
    IF n = 0 THEN <<>>
    ELSE LET emitted == TopoRounds[n - 1]
             ready == ReadySteps(emitted)
         IN  IF ready = {} THEN emitted ELSE Append(emitted, Least(ready))

TopoOrder == TopoRounds[Cardinality(Steps)]

\* A step that depends on itself is refused at once, a cycle after the order
\* was tried.
Compile ==
    /\ compiled = "no"
    /\ LET valid == /\ \A s \in Steps : s \notin dependsOn[s]
                    /\ Len(TopoOrder) = Cardinality(Steps)
       IN  /\ compiled' = IF valid THEN "plan" ELSE "refused"
           /\ order' = IF valid THEN TopoOrder ELSE <<>>
    /\ UNCHANGED <<dependsOn, profile, inRun, results, saved, status, panicked, runs, tried, ran, lost>>

\* A new version of the workflow gives a step one more retry.
Edit(s) ==
    /\ compiled = "plan" /\ ~inRun /\ runs < MaxRuns
    /\ profile[s].kind = "tool" /\ profile[s].retries < MaxRetries
    /\ profile' = [profile EXCEPT ![s].retries = @ + 1]
    /\ UNCHANGED <<dependsOn, compiled, order, inRun, results, saved, status, panicked, runs, tried, ran, lost>>

\* A failed step counts as done.
TerminalStep_FailedToo(r) == r.state \in {"complete", "skipped", "compensated", "failed"}

\* StepResult.Terminal
TerminalStep(r) == r.state \in {"complete", "skipped", "compensated"}

\* The state a resumed run starts from: a copy of the caller's.
Resume == saved

\* Run is called, with the saved state from the second time on.
RunBegin ==
    /\ compiled = "plan" /\ ~inRun /\ runs < MaxRuns
    /\ inRun' = TRUE /\ results' = Resume /\ tried' = Zero
    /\ runs' = runs + 1 /\ panicked' = FALSE
    /\ UNCHANGED <<dependsOn, profile, compiled, order, saved, status, ran, lost>>

\* Run is at its first step that is not terminal.
Current(s) ==
    /\ inRun
    /\ \E i \in 1 .. Len(order) :
          order[i] = s /\ ~TerminalStep(results[s]) /\ \A k \in 1 .. i - 1 : TerminalStep(results[order[k]])

DepsSatisfied(s) == \A d \in dependsOn[s] : TerminalStep(results[d])

MaxAttempts(s) == profile[s].retries + 1

Recorded(s, st, n) == [results EXCEPT ![s] = [state |-> st, attempts |-> n]]

\* Run goes on after recording a step.
Proceed(s, st, n) ==
    /\ results' = Recorded(s, st, n)
    /\ UNCHANGED <<inRun, saved, status, panicked>>

\* Run returns its state, which the caller keeps.
ReturnState(r, st) ==
    /\ inRun' = FALSE
    /\ results' = r /\ saved' = r
    /\ status' = st
    /\ UNCHANGED panicked

\* A gate or approval step passes.
GatePasses(s) ==
    /\ Current(s) /\ DepsSatisfied(s) /\ profile[s].kind = "gate"
    /\ Proceed(s, "complete", 0)
    /\ UNCHANGED <<dependsOn, profile, compiled, order, runs, tried, ran, lost>>

\* A gate does not pass or cannot be evaluated; or a dependency is missing.
StepHeld(s) ==
    /\ Current(s) /\ (DepsSatisfied(s) => profile[s].kind = "gate")
    /\ ReturnState(Recorded(s, "awaiting_gate", 0),
                   IF DepsSatisfied(s) THEN "awaiting_approval" ELSE "failed")
    /\ UNCHANGED <<dependsOn, profile, compiled, order, runs, tried, ran, lost>>

\* The runner is called for the next attempt.
Attempt(s, ok) ==
    /\ Current(s) /\ DepsSatisfied(s) /\ profile[s].kind = "tool"
    /\ results[s].attempts < MaxAttempts(s)
    /\ Proceed(s, IF ok THEN "complete" ELSE "running", results[s].attempts + 1)
    /\ tried' = [tried EXCEPT ![s] = @ + 1]
    /\ ran' = [ran EXCEPT ![s] = @ + 1]
    /\ UNCHANGED <<dependsOn, profile, compiled, order, runs, lost>>

\* No attempt is left for the step Run is at.
Exhausted(s) ==
    /\ Current(s) /\ DepsSatisfied(s) /\ profile[s].kind = "tool"
    /\ results[s].attempts >= MaxAttempts(s)

Undoes(s) == profile[s].onFailure = "compensate" /\ CanCompensate

\* Failure policies skip and compensate: the run goes on.
PassOver(s) ==
    /\ Exhausted(s) /\ tried[s] > 0
    /\ \/ profile[s].onFailure = "skip" /\ Proceed(s, "skipped", results[s].attempts)
       \/ Undoes(s) /\ Proceed(s, "compensated", results[s].attempts)
    /\ UNCHANGED <<dependsOn, profile, compiled, order, runs, tried, ran, lost>>

\* Policy fail, no compensator, or a compensation that fails: Run returns.
StepFails(s) ==
    /\ Exhausted(s) /\ profile[s].onFailure # "skip" /\ (tried[s] > 0 \/ Undoes(s))
    /\ ReturnState(Recorded(s, "failed", results[s].attempts), "failed")
    /\ UNCHANGED <<dependsOn, profile, compiled, order, runs, tried, ran, lost>>

RunLost(p) ==
    /\ inRun' = FALSE /\ panicked' = p
    /\ results' = saved
    /\ lost' = [s \in Steps |-> lost[s] + tried[s]]
    /\ UNCHANGED <<dependsOn, profile, compiled, order, saved, status, runs, tried, ran>>

\* The attempts were used up before this Run: there is no last error to
\* report, and asking it for its text panics.
Panics(s) == Exhausted(s) /\ tried[s] = 0 /\ RunLost(TRUE)

\* The process stops within Run.
RunStops == inRun /\ RunLost(FALSE)

\* Every step is terminal.
RunCompletes ==
    /\ inRun /\ \A s \in Steps : TerminalStep(results[s])
    /\ ReturnState(results, "complete")
    /\ UNCHANGED <<dependsOn, profile, compiled, order, runs, tried, ran, lost>>

FlowNext ==
    \/ Compile \/ RunBegin \/ RunStops \/ RunCompletes
    \/ \E s \in Steps :
          \/ Edit(s) \/ GatePasses(s) \/ StepHeld(s) \/ PassOver(s) \/ StepFails(s) \/ Panics(s)
          \/ \E ok \in BOOLEAN : Attempt(s, ok)

FlowSpec == FlowInit /\ [][FlowNext]_flowVars

----------------------------------------------------------------------------
\* The reference for the cycle check: some steps wait for each other.
Cyclic == \E set \in SUBSET Steps : set # {} /\ \A s \in set : dependsOn[s] \cap set # {}

\* Compile refuses exactly the workflows that cannot be finished, and its order
\* has every step once, after its dependencies (topoOrder: Kahn's algorithm).
CompileAgrees ==
    /\ compiled = "refused" => Cyclic
    /\ compiled = "plan" =>
         /\ ~Cyclic
         /\ Elements(order) = Steps /\ Len(order) = Cardinality(Steps)
         /\ \A i, k \in 1 .. Len(order) : order[k] \in dependsOn[order[i]] => k < i

Done(r) == r.state \in {"complete", "skipped", "compensated"}

\* The runner is called only for a step whose dependencies are done, directly
\* or not, gates included, never again for a step that the caller's state
\* records as done, and over all runs that returned at most as often as the
\* step's policy allows, however often the run was resumed and edited (what a
\* stopped process did within Run was never returned, and does not count); and
\* Run reports completion only of a finished plan (Run, depsSatisfied,
\* runWithPolicy, Terminal).
PlanFollowed ==
    [][/\ \A s \in Steps : ran'[s] # ran[s] =>
              /\ ~Done(saved[s])
              /\ ran'[s] - lost'[s] <= MaxAttempts(s)
              /\ \E before \in SUBSET Steps :
                    /\ s \notin before /\ dependsOn[s] \subseteq before
                    /\ \A t \in before : dependsOn[t] \subseteq before /\ Done(results[t])
       /\ (inRun /\ ~inRun' /\ status' = "complete") => \A s \in Steps : Done(saved'[s]) \/ status = "complete"]_flowVars

\* A run that was returned can be resumed (Run: "returns the resulting state
\* even on error so the caller can persist and resume it").
ResumeContinues == ~panicked
============================================================================
