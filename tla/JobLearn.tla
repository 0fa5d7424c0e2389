------------------------------ MODULE JobLearn ------------------------------
(***************************************************************************)
(* Learning from completed work: src/kernel/joblearn.  Traces of attempts  *)
(* are loaded under a bound, attributed and scored, turned into candidates *)
(* by the generator or the distiller, and proposed one by one as memory    *)
(* records; a backtest against a baseline feeds the evidence gate of       *)
(* learned routing, and the router gives hints under that gate.            *)
(*                                                                         *)
(* One role.  Packages and workers are numbers, 0 for none, because their  *)
(* order decides.  Scores, rates and thresholds are thousandths; two means *)
(* are compared by cross-multiplication.  Titles and contents are the      *)
(* numbers they are written from.                                          *)
(***************************************************************************)
EXTENDS Integers, Sequences, FiniteSets, FiniteSetsExt, Tables

CONSTANTS
    TraceNos,        \* trace ids, in their order
    TraceChoices,    \* the traces an attempt may leave
    MaxTraces,       \* Bounds.MaxTraces
    MaxSteps,        \* Bounds.MaxSteps
    MinOutcomes,     \* candidates.Policy and distill.Policy MinOutcomes
    MinWorkerOutcomes,
    GatePolicies,    \* policies an operator may set for learned routing
    MaxLearnCalls,   \* bound on learning runs and calls of the gate and router
    MaxTicks,        \* bound on the seconds that pass
    MaxSinkFaults    \* bound on writes of the sink that fail

ASSUME LearnAssumption ==
    /\ TraceNos \subseteq Nat
    /\ \A t \in TraceChoices :
          /\ t.steps # {} /\ t.steps \subseteq {"succeeded", "failed", "skipped", "blocked"}
          /\ t.package \in Nat /\ t.worker \in Nat /\ t.cost \in 0 .. 1000
    /\ \A p \in GatePolicies : p.minOutcomes \in Nat /\ p.minImprovement \in 0 .. 1000

VARIABLES
    history,    \* the traces memory keeps: trace number -> trace
    learner,    \* the learning run under way
    records,    \* memory records: identity -> record
    reported,   \* what Propose returned as stored: <<identity, content>>
    refused,    \* history: a candidate was refused although nothing about it had changed
    second,     \* the clock, in the unit records are stamped with
    gatePolicy, \* Registry.policies[learned_routing]
    decision,   \* Registry.decisions[learned_routing]
    hint,       \* the last hint given
    learnCalls, sinkFaults

lvars == <<history, learner, records, reported, refused, second, gatePolicy, decision, hint, learnCalls, sinkFaults>>

NoRun == [batch |-> {}, stored |-> {}, produced |-> 0]
NoEvidence == [outcomes |-> 0, baseline |-> FALSE, improvement |-> 0, fallback |-> FALSE, noBypass |-> FALSE, answered |-> FALSE]
Disabled == [enabled |-> FALSE, evidence |-> NoEvidence]
NoHint == [learned |-> FALSE, option |-> 0]

\* NewRegistry: every capability starts disabled.
LearnInit ==
    /\ history = <<>> /\ learner = NoRun /\ records = <<>> /\ reported = {} /\ refused = FALSE /\ second = 0
    /\ gatePolicy \in GatePolicies /\ decision = Disabled
    /\ hint = NoHint /\ learnCalls = 0 /\ sinkFaults = 0

----------------------------------------------------------------------------
(* Traces and scores.                                                      *)

\* Bound: whole traces in the order of their ids, while both bounds allow it;
\* a bound of 0 is no bound.
WithinBounds(n) ==
    LET upTo == {k \in DOMAIN history : k <= n}
    IN  /\ MaxTraces > 0 => Cardinality(upTo) <= MaxTraces
        /\ MaxSteps > 0 => MapThenSumSet(LAMBDA k : Cardinality(history[k].steps), upTo) <= MaxSteps
Bound == {n \in DOMAIN history : WithinBounds(n)}

\* features.Extract: which outcomes the steps of a trace had, and whether the
\* trace was cut short.
Extract(t) ==
    [failed |-> "failed" \in t.steps, blocked |-> "blocked" \in t.steps,
     succeeded |-> "succeeded" \in t.steps, truncated |-> t.truncated]

TraceOutcome(t) ==
    LET set == Extract(t)
    IN  IF set.failed THEN "failed"
        ELSE IF set.blocked THEN "blocked"
        ELSE IF set.truncated THEN "partial"
        ELSE IF set.succeeded THEN "succeeded" ELSE "unknown"

successScore(o) == CASE o = "succeeded" -> 1000 [] o = "partial" -> 500 [] o = "unknown" -> 250 [] OTHER -> 0

\* ScoreTrace without gates, retries or a duration: quality is one half.
Overall(t) == (5 * successScore(TraceOutcome(t)) + 2 * 500 + (1000 - t.cost) + 1000 + 1000) \div 10

\* AttributeTrace refuses a trace without a work package, and DeriveTraces
\* with it all the others.
Attributable(loaded) == \A n \in loaded : history[n].package # 0

\* DeriveTrace.
ResultOf(n) == [no |-> n, package |-> history[n].package, worker |-> history[n].worker,
              outcome |-> TraceOutcome(history[n]), cost |-> history[n].cost, overall |-> Overall(history[n])]
ResultsOf(loaded) == {ResultOf(n) : n \in loaded}

\* Summarize and GroupBy.
Count(S, o) == Cardinality({r \in S : r.outcome = o})
Sum(S, field) == MapThenSumSet(LAMBDA r : r[field], S)
OfPackage(S, p) == {r \in S : r.package = p}
OfWorker(S, w) == {r \in S : r.worker = w}
WorkersOf(S) == {r.worker : r \in S} \ {0}
PackagesOf(S) == {r.package : r \in S}

\* part of whole is at least limit thousandths.
AtLeast(part, whole, limit) == part * 1000 >= limit * whole

----------------------------------------------------------------------------
(* Candidates.                                                             *)

\* The default thresholds of the generator, the distiller and the router.
GeneratorPolicy == [success |-> 800, failure |-> 500, strategy |-> 1000, cost |-> 750, minImprovement |-> 100]
DistillerPolicy == [success |-> 800, failure |-> 500]
RouterPolicy == [minImprovement |-> 100]

\* evidenceOf: the traces that results refer to.
EvidenceOf(S) == {r.no : r \in S}

\* build; scope 0 is the role, any other one a work package.  The content is what
\* the text says, in numbers, and the traces cited as evidence.
Candidate(kind, level, scope, about, says, S) ==
    [kind |-> kind, level |-> level, scope |-> scope, about |-> about,
     content |-> [says |-> says, evidence |-> EvidenceOf(S)]]

\* promote.identity: kind, level, scope and title.
Identity(c) == [kind |-> c.kind, level |-> c.level, scope |-> c.scope, about |-> c.about]

\* The mean of the better group, the first one of two that are equal.
BetterMean(S, a, b) ==
    LET x == Sum(OfWorker(S, a), "overall") * Cardinality(OfWorker(S, b))
        y == Sum(OfWorker(S, b), "overall") * Cardinality(OfWorker(S, a))
    IN  x > y \/ (x = y /\ a <= b)

\* bestWorker: the highest mean, ties by worker id.
BestWorker(S) == CHOOSE w \in WorkersOf(S) : \A v \in WorkersOf(S) : BetterMean(S, w, v)

\* The best worker has enough outcomes and beats the mean of all by the margin.
Beats(S, w, margin) ==
    LET own == OfWorker(S, w)
    IN  /\ Cardinality(own) >= MinWorkerOutcomes
        /\ (Sum(own, "overall") * Cardinality(S) - Sum(S, "overall") * Cardinality(own))
              >= margin * Cardinality(own) * Cardinality(S)

\* routing: a hint for the worker that beats the role's baseline by 0.1.
Routing(S) ==
    {Candidate("routing", "workforce", 0, w, <<Sum(S, "overall"), Cardinality(S)>>, OfWorker(S, w)) :
        w \in {v \in WorkersOf(S) : Cardinality(S) >= MinOutcomes /\ v = BestWorker(S) /\ Beats(S, v, GeneratorPolicy.minImprovement)}}

\* Generate under the default thresholds.
Generate(S) ==
    LET n == Cardinality(S)
        role(kind, o) == Candidate(kind, "role", 0, 0, <<Count(S, o), n>>, S)
        enough == {T \in {OfPackage(S, p) : p \in PackagesOf(S)} : Cardinality(T) >= MinOutcomes}
        scope(T) == CHOOSE p \in PackagesOf(T) : TRUE
    IN  {role(x[1], x[2]) : x \in {y \in {<<"pattern", "succeeded">>, <<"pitfall", "failed">>} :
             n >= MinOutcomes /\ AtLeast(Count(S, y[2]), n, IF y[1] = "pattern" THEN GeneratorPolicy.success ELSE GeneratorPolicy.failure)}}
        \cup {Candidate("strategy", "task", scope(T), 0, <<Count(T, "succeeded"), Cardinality(T)>>, T) :
                 T \in {U \in enough : AtLeast(Count(U, "succeeded"), Cardinality(U), GeneratorPolicy.strategy)}}
        \cup {Candidate("pitfall", "project", scope(T), 0, <<Sum(T, "cost"), Cardinality(T)>>, T) :
                 T \in {U \in enough : Sum(U, "cost") >= GeneratorPolicy.cost * Cardinality(U)}}
        \cup Routing(S)

\* Distill: a strategy or a pitfall per scope.
Distill(S) ==
    LET scopeArtifacts(level, scope, T) ==
            {Candidate(kind, level, scope, 1, <<Count(T, "succeeded"), Count(T, "failed"), Cardinality(T)>>, T) :
                kind \in {k \in {"strategy", "pitfall"} :
                             /\ Cardinality(T) >= MinOutcomes
                             /\ IF k = "strategy" THEN AtLeast(Count(T, "succeeded"), Cardinality(T), DistillerPolicy.success)
                                ELSE AtLeast(Count(T, "failed"), Cardinality(T), DistillerPolicy.failure)}}
    IN  scopeArtifacts("role", 0, S) \cup UNION {scopeArtifacts("task", p, OfPackage(S, p)) : p \in PackagesOf(S)}

\* dedupSort: by kind, then scope, then title.
KindRank(k) == CASE k = "pattern" -> 1 [] k = "pitfall" -> 2 [] k = "routing" -> 3 [] OTHER -> 4
First(batch) ==
    CHOOSE c \in batch : \A d \in batch :
        KindRank(c.kind) < KindRank(d.kind) \/ (c.kind = d.kind /\ c.scope <= d.scope)

----------------------------------------------------------------------------
(* The learning run: Load, DeriveTraces, Generate or Distill, and Propose. *)

\* An attempt's trace reaches memory.
TraceKept(n, t) ==
    /\ n \notin DOMAIN history
    /\ history' = Put(history, n, t)
    /\ UNCHANGED <<learner, records, reported, refused, second, gatePolicy, decision, hint, learnCalls, sinkFaults>>

Called == learnCalls < MaxLearnCalls /\ learnCalls' = learnCalls + 1

\* A run that fails to attribute, and one without candidates, ends here.
Learn(candidates) ==
    /\ learner = NoRun
    /\ Called
    /\ learner' = IF Attributable(Bound) /\ candidates # {}
                  THEN [batch |-> candidates, stored |-> {}, produced |-> second] ELSE NoRun
    /\ UNCHANGED <<history, records, reported, refused, second, gatePolicy, decision, hint, sinkFaults>>

\* Promoter.record: revision 1, a candidate, stamped with both clocks.
RecordOf(c) == [rev |-> 1, life |-> "CANDIDATE", content |-> c.content, at |-> <<learner.produced, second>>]

\* The run goes on with the candidates left; the last one ends it.
Proposed(c) ==
    LET rest == [learner EXCEPT !.batch = @ \ {c}, !.stored = @ \cup {<<Identity(c), c.content>>}]
    IN  IF rest.batch = {} THEN learner' = NoRun /\ reported' = reported \cup rest.stored
        ELSE learner' = rest /\ UNCHANGED reported

\* Sink.Propose that replaces what is stored.
ProposeNext_Replaces ==
    LET c == First(learner.batch)
    IN  /\ learner # NoRun
        /\ records' = Put(records, Identity(c), RecordOf(c))
        /\ Proposed(c)
        /\ UNCHANGED <<history, refused, second, gatePolicy, decision, hint, learnCalls, sinkFaults>>

\* Sink.Propose of the next candidate: a new record is stored, the same one is
\* left alone, and another revision or content under its identity is an error
\* that ends the run with what it stored so far.
ProposeNext ==
    LET c == First(learner.batch)
        id == Identity(c)
    IN  /\ learner # NoRun
        /\ IF id \notin DOMAIN records
           THEN records' = Put(records, id, RecordOf(c)) /\ Proposed(c) /\ UNCHANGED refused
           ELSE IF records[id] = RecordOf(c)
           THEN Proposed(c) /\ UNCHANGED <<records, refused>>
           ELSE /\ learner' = NoRun
                /\ refused' = (refused \/ (records[id].content = c.content /\ records[id].life = "CANDIDATE"))
                /\ UNCHANGED <<records, reported>>
        /\ UNCHANGED <<history, second, gatePolicy, decision, hint, learnCalls, sinkFaults>>

\* A write of the sink fails: Propose returns the error.
SinkFails ==
    /\ learner # NoRun /\ sinkFaults < MaxSinkFaults
    /\ sinkFaults' = sinkFaults + 1
    /\ learner' = NoRun
    /\ UNCHANGED <<history, records, reported, refused, second, gatePolicy, decision, hint, learnCalls>>

\* Promoter.Promote through memory's state machine.
Promote(id) ==
    /\ id \in DOMAIN records
    /\ Called
    /\ \E move \in {<<"CANDIDATE", "VALIDATED">>, <<"VALIDATED", "ACTIVE">>} :
          /\ records[id].life = move[1]
          /\ records' = [records EXCEPT ![id].life = move[2], ![id].rev = @ + 1]
    /\ UNCHANGED <<history, learner, reported, refused, second, gatePolicy, decision, hint, sinkFaults>>

Tick ==
    /\ second < MaxTicks
    /\ second' = second + 1
    /\ UNCHANGED <<history, learner, records, reported, refused, gatePolicy, decision, hint, learnCalls, sinkFaults>>

----------------------------------------------------------------------------
(* The backtest and the gate of learned routing.                           *)

Labels == <<"blocked", "failed", "partial", "succeeded", "unknown">>  \* in their order

\* MajorityBaseline: the most common label, the first of those that tie.
MajorityBaseline(S) ==
    LET n(i) == Count(S, Labels[i])
    IN  Labels[CHOOSE i \in DOMAIN Labels : \A j \in DOMAIN Labels : n(i) > n(j) \/ (n(i) = n(j) /\ i <= j)]

\* InferencePredictor: what the recommender says of a package, or the fallback
\* where it has no answer.
Predict(says, S, p) == IF says[p] = "" THEN MajorityBaseline(S) ELSE says[p]

\* backtest.Run: by how much the policy is right more often than the baseline.
Improvement(says, S) ==
    LET right == Cardinality({r \in S : Predict(says, S, r.package) = r.outcome})
    IN  ((right - Count(S, MajorityBaseline(S))) * 1000) \div Cardinality(S)

\* Evaluate's requirements.
Meets(e, p) ==
    /\ e.outcomes >= p.minOutcomes
    /\ p.requireBaseline => e.baseline
    /\ p.minImprovement > 0 => e.improvement >= p.minImprovement
    /\ p.requireFallback => e.fallback
    /\ p.requireNoGateBypass => e.noBypass

\* The decision is recorded; the evidence of one that stays disabled decides
\* nothing later and is left out.
Decide(e) ==
    /\ decision' = IF Meets(e, gatePolicy) THEN [enabled |-> TRUE, evidence |-> e] ELSE Disabled
    /\ UNCHANGED <<history, learner, records, reported, refused, second, gatePolicy, hint, sinkFaults>>

\* Evaluate on EvidenceFromTraces after a backtest of the recommender; an empty
\* dataset is not ready.
EvaluateBacktest(says, fallback, noBypass) ==
    LET S == ResultsOf(Bound)
    IN  /\ S # {} /\ Attributable(Bound)
        /\ Decide([outcomes |-> Cardinality(S), baseline |-> TRUE, improvement |-> Improvement(says, S),
                   fallback |-> fallback, noBypass |-> noBypass, answered |-> \E p \in DOMAIN says : says[p] # ""])

\* Evaluate on outcomes alone.
EvaluateCounts(fallback, noBypass) ==
    /\ Attributable(Bound)
    /\ Decide([NoEvidence EXCEPT !.outcomes = Cardinality(Bound), !.fallback = fallback, !.noBypass = noBypass])

\* SetPolicy that leaves the decision in place.
SetPolicy_Keeps(p) ==
    /\ p # gatePolicy /\ Called
    /\ gatePolicy' = p
    /\ UNCHANGED <<history, learner, records, reported, refused, second, decision, hint, sinkFaults>>

\* SetPolicy resets the decision.
SetPolicy(p) ==
    /\ p # gatePolicy /\ Called
    /\ gatePolicy' = p /\ decision' = Disabled
    /\ UNCHANGED <<history, learner, records, reported, refused, second, hint, sinkFaults>>

\* learnedOption: the best worker, who must have enough outcomes and the margin;
\* the second best is not asked.
LearnedOption(S, w) == w \in WorkersOf(S) /\ w = BestWorker(S) /\ Beats(S, w, RouterPolicy.minImprovement)

\* Route: withheld while an approval is pending or the capability is disabled.
Route(approval) ==
    LET S == ResultsOf(Bound)
        options == {w \in WorkersOf(S) : ~approval /\ decision.enabled /\ LearnedOption(S, w)}
    IN  /\ Attributable(Bound)
        /\ hint' = IF options = {} THEN NoHint ELSE [learned |-> TRUE, option |-> CHOOSE w \in options : TRUE]
        /\ UNCHANGED <<history, learner, records, reported, refused, second, gatePolicy, decision, sinkFaults>>

Recommenders(S) == [PackagesOf(S) -> {"", "failed", "succeeded"}]

LearnNext ==
    \/ \E n \in TraceNos, t \in TraceChoices : TraceKept(n, t)
    \/ Learn(Generate(ResultsOf(Bound))) \/ Learn(Distill(ResultsOf(Bound)))
    \/ ProposeNext \/ SinkFails \/ Tick
    \/ \E id \in DOMAIN records : Promote(id)
    \/ Called /\ \E says \in Recommenders(ResultsOf(Bound)), f, b \in BOOLEAN : EvaluateBacktest(says, f, b)
    \/ Called /\ \E f, b \in BOOLEAN : EvaluateCounts(f, b)
    \/ \E p \in GatePolicies : SetPolicy(p)
    \/ Called /\ \E approval \in BOOLEAN : Route(approval)

LearnSpec == LearnInit /\ [][LearnNext]_lvars

----------------------------------------------------------------------------
\* What Propose reported as stored stays as it was reported, and a record moves
\* only by Promote, one lifecycle step and one revision at a time: no later run
\* over more evidence replaces, demotes or promotes it ("no candidate is ever
\* auto-promoted", src/kernel/joblearn/promote/promote.go).
ReportedIsStored == \A r \in reported : r[1] \in DOMAIN records /\ records[r[1]].content = r[2]

PromotionStands ==
    [][/\ ReportedIsStored'
       /\ \A id \in DOMAIN records :
             /\ id \in DOMAIN records'
             /\ records'[id] # records[id] =>
                   /\ records'[id].rev = records[id].rev + 1
                   /\ records'[id].content = records[id].content
                   /\ records'[id].life # "CANDIDATE"]_lvars

\* While learned routing is enabled, the evidence it was enabled on satisfies the
\* policy in force, is no more than was kept, and, where the policy asks for an
\* improvement, comes from a recommender that answered: an outage that falls
\* back to the baseline never enables it (Registry.Evaluate, SetPolicy,
\* InferencePredictor).
EnabledIsEarned ==
    decision.enabled =>
        /\ decision.evidence.outcomes >= gatePolicy.minOutcomes
        /\ decision.evidence.outcomes <= Cardinality(DOMAIN history)
        /\ gatePolicy.minImprovement > 0 => decision.evidence.answered
        /\ gatePolicy.requireFallback => decision.evidence.fallback

\* Proposing again a candidate that memory holds as it was proposed succeeds and
\* changes nothing ("Re-proposing a candidate is idempotent because identity
\* derives from its kind, level, scope, and title",
\* src/kernel/joblearn/promote/promote.go).
ReproposingSucceeds == ~refused
============================================================================
