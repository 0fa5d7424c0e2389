--------------------------- MODULE WorkflowProofs ---------------------------
(***************************************************************************)
(* Proofs about Workflow for any finite set of steps, any dependencies     *)
(* (cycles included), profiles, number of runs, edits and stops.           *)
(*                                                                         *)
(* topoOrder is a loop, here the recursive function TopoRounds.  A         *)
(* recursive definition says nothing until its equation is shown to have a *)
(* solution: RoundsExist builds the first n rounds for every n by taking   *)
(* the least n without them (LeastNumber), RoundsUnique shows that any two *)
(* such solutions agree, so TopoRoundsEquation may be used.  Each round    *)
(* keeps the order of the steps emitted so far (Ordered), and when a round *)
(* finds no ready step, those left wait for each other: a cycle.           *)
(*                                                                         *)
(* Run is at the first step that is not terminal; the order makes its      *)
(* dependencies, and theirs, terminal.  Counted relates the attempts of    *)
(* the results, of the caller's copy and of the runs that were lost, which *)
(* bounds the runner's calls over all runs.                                *)
(***************************************************************************)
EXTENDS Workflow, TLAPS, WellFoundedInduction, FiniteSetTheorems, SequenceTheorems

\* A nonempty set of numbers has a least one.
LEMMA LeastNumber ==
    ASSUME NEW S \in SUBSET Nat, S # {}
    PROVE  \E m \in S : \A n \in S : m <= n
<1>1. PICK m \in S : \A n \in S : ~(<<n, m>> \in OpToRel(<, Nat))
  BY NatLessThanWellFounded, WFMin
<1>2. \A n \in S : ~(n < m)
  BY <1>1 DEF OpToRel
<1> QED
  BY <1>2

\* One round of topoOrder.
Round(emitted) == LET ready == ReadySteps(emitted) IN IF ready = {} THEN emitted ELSE Append(emitted, Least(ready))

\* f has the first n rounds.
Rounds(f, n) == f[0] = <<>> /\ \A k \in 1 .. n : f[k] = Round(f[k - 1])

\* For every n there is a function with the first n rounds.
LEMMA RoundsExist ==
    ASSUME NEW n \in Nat PROVE \E f : Rounds(f, n)
<1> DEFINE None == {k \in Nat : ~\E f : Rounds(f, k)}
<1> SUFFICES ASSUME None # {} PROVE FALSE
  OBVIOUS
<1>1. PICK m \in None : \A k \in None : m <= k
  <2> None \in SUBSET Nat
    OBVIOUS
  <2> HIDE DEF None
  <2> QED
    BY LeastNumber
<1>2. m # 0
  <2>1. Rounds([k \in {0} |-> <<>>], 0)
    BY DEF Rounds
  <2> QED
    BY <2>1, <1>1
<1>3. m \in Nat /\ m - 1 \in Nat /\ m - 1 \notin None
  BY <1>1, <1>2
<1>4. PICK f : Rounds(f, m - 1)
  BY <1>3
<1> DEFINE g == [k \in 0 .. m |-> IF k = m THEN Round(f[m - 1]) ELSE f[k]]
<1>5. Rounds(g, m)
  <2>1. g[0] = <<>>
    BY <1>2, <1>3, <1>4 DEF Rounds
  <2>2. ASSUME NEW k \in 1 .. m PROVE g[k] = Round(g[k - 1])
    <3>1. CASE k = m
      BY <3>1, <1>3
    <3>2. CASE k # m
      <4>1. k \in 1 .. m - 1 /\ k \in 0 .. m /\ k - 1 \in 0 .. m /\ k - 1 # m
        BY <3>2, <1>3
      <4>2. g[k] = f[k] /\ g[k - 1] = f[k - 1]
        BY <3>2, <4>1
      <4>3. f[k] = Round(f[k - 1])
        BY <4>1, <1>4 DEF Rounds
      <4> QED
        BY <4>2, <4>3
    <3> QED
      BY <3>1, <3>2
  <2> HIDE DEF g
  <2> QED
    BY <2>1, <2>2 DEF Rounds
<1> QED
  BY <1>1, <1>5

\* Two of them agree.
LEMMA RoundsUnique ==
    ASSUME NEW n \in Nat, NEW f, NEW g, Rounds(f, n), Rounds(g, n), NEW i \in 0 .. n
    PROVE  f[i] = g[i]
<1> DEFINE Differ == {k \in 0 .. n : f[k] # g[k]}
<1> SUFFICES ASSUME Differ # {} PROVE FALSE
  OBVIOUS
<1>1. PICK m \in Differ : \A k \in Differ : m <= k
  <2> Differ \in SUBSET Nat
    OBVIOUS
  <2> HIDE DEF Differ
  <2> QED
    BY LeastNumber
<1>2. m # 0
  BY <1>1 DEF Rounds
<1>3. m \in 1 .. n /\ m - 1 \in 0 .. n /\ m - 1 \notin Differ
  BY <1>1, <1>2
<1>4. f[m - 1] = g[m - 1] /\ f[m] = Round(f[m - 1]) /\ g[m] = Round(g[m - 1])
  BY <1>3 DEF Rounds
<1> QED
  BY <1>1, <1>4

\* TopoRounds is what its equation says.
LEMMA TopoRoundsEquation ==
    /\ TopoRounds[0] = <<>>
    /\ \A n \in Nat : TopoRounds[n + 1] = Round(TopoRounds[n])
<1> DEFINE all == [n \in Nat |-> (CHOOSE f : Rounds(f, n))[n]]
           Eq(h) == h = [n \in Nat |-> IF n = 0 THEN <<>> ELSE Round(h[n - 1])]
<1>1. \A n \in Nat : Rounds(CHOOSE f : Rounds(f, n), n)
  BY RoundsExist
<1>2. \A n \in Nat : all[n] = IF n = 0 THEN <<>> ELSE Round(all[n - 1])
  <2> SUFFICES ASSUME NEW n \in Nat PROVE all[n] = IF n = 0 THEN <<>> ELSE Round(all[n - 1])
    OBVIOUS
  <2> DEFINE F == CHOOSE f : Rounds(f, n)
             G == CHOOSE f : Rounds(f, n - 1)
  <2>1. CASE n = 0
    BY <2>1, <1>1 DEF Rounds
  <2>2. CASE n # 0
    <3>1. n - 1 \in Nat /\ n \in 1 .. n
      BY <2>2
    <3>2. Rounds(F, n) /\ Rounds(G, n - 1)
      BY <3>1, <1>1
    <3>3. all[n] = F[n] /\ all[n - 1] = G[n - 1]
      BY <3>1
    <3> HIDE DEF F, G, all
    <3>4. Rounds(F, n - 1)
      BY <3>1, <3>2 DEF Rounds
    <3>5. F[n - 1] = G[n - 1]
      BY <3>1, <3>2, <3>4, RoundsUnique
    <3>6. F[n] = Round(F[n - 1])
      BY <3>1, <3>2 DEF Rounds
    <3> QED
      BY <2>2, <3>3, <3>5, <3>6
  <2> QED
    BY <2>1, <2>2
<1>3. Eq(all)
  <2>1. all = [n \in Nat |-> all[n]]
    OBVIOUS
  <2> HIDE DEF all
  <2>2. [n \in Nat |-> all[n]] = [n \in Nat |-> IF n = 0 THEN <<>> ELSE Round(all[n - 1])]
    BY <1>2
  <2> QED
    BY <2>1, <2>2
<1>4. TopoRounds = CHOOSE h : Eq(h)
  BY DEF TopoRounds, Round
<1>5. Eq(TopoRounds)
  BY <1>3, <1>4
<1> HIDE DEF all
<1>6. \A n \in Nat : TopoRounds[n] = IF n = 0 THEN <<>> ELSE Round(TopoRounds[n - 1])
  BY <1>5
<1>7. \A n \in Nat : n + 1 \in Nat /\ n + 1 # 0 /\ n + 1 - 1 = n
  OBVIOUS
<1> QED
  BY <1>6, <1>7

\* The steps emitted by a round are distinct, and each comes after what it
\* depends on.
Ordered(o) ==
    /\ o \in Seq(Steps)
    /\ \A i, k \in 1 .. Len(o) : o[i] = o[k] => i = k
    /\ \A i \in 1 .. Len(o) : \A d \in dependsOn[o[i]] : \E k \in 1 .. Len(o) : k < i /\ o[k] = d

\* A round keeps the order, and adds a step if one is ready.
LEMMA RoundOrdered ==
    ASSUME NEW o, Ordered(o)
    PROVE  /\ Ordered(Round(o))
           /\ ReadySteps(o) # {} => Len(Round(o)) = Len(o) + 1
           /\ ReadySteps(o) = {} => Round(o) = o
<1>1. CASE ReadySteps(o) = {}
  BY <1>1 DEF Round
<1>2. CASE ReadySteps(o) # {}
  <2> DEFINE s == Least(ReadySteps(o))
             p == Append(o, s)
  <2>1. s \in ReadySteps(o)
    <3>1. ReadySteps(o) \in SUBSET Nat
      BY StepsAssumption DEF ReadySteps
    <3>2. \E x \in ReadySteps(o) : \A t \in ReadySteps(o) : x <= t
      BY <3>1, <1>2, LeastNumber
    <3> QED
      BY <3>2 DEF Least
  <2> HIDE DEF s
  <2>2. s \in Steps /\ (\A i \in 1 .. Len(o) : o[i] # s) /\ \A d \in dependsOn[s] : \E k \in 1 .. Len(o) : o[k] = d
    BY <2>1 DEF ReadySteps, Elements
  <2>3. Round(o) = p
    BY <1>2 DEF Round, s
  <2>4. PICK n \in Nat : n = Len(o)
    BY DEF Ordered
  <2>5. /\ p \in Seq(Steps) /\ Len(p) = n + 1 /\ p[n + 1] = s
        /\ \A i \in 1 .. n : p[i] = o[i]
    BY <2>2, <2>4 DEF Ordered
  <2> HIDE DEF p
  <2>6. \A i, k \in 1 .. n + 1 : p[i] = p[k] => i = k
    <3> SUFFICES ASSUME NEW i \in 1 .. n + 1, NEW k \in 1 .. n + 1, p[i] = p[k] PROVE i = k
      OBVIOUS
    <3>1. (i \in 1 .. n \/ i = n + 1) /\ (k \in 1 .. n \/ k = n + 1)
      OBVIOUS
    <3> QED
      BY <3>1, <2>2, <2>4, <2>5 DEF Ordered
  <2>7. ASSUME NEW i \in 1 .. n + 1, NEW d \in dependsOn[p[i]]
        PROVE  \E k \in 1 .. n + 1 : k < i /\ p[k] = d
    <3>1. CASE i = n + 1
      <4>1. PICK k \in 1 .. n : o[k] = d
        BY <3>1, <2>2, <2>4, <2>5, <2>7
      <4>2. k \in 1 .. n + 1 /\ k < i /\ p[k] = d
        BY <3>1, <4>1, <2>5
      <4> QED
        BY <4>2
    <3>2. CASE i \in 1 .. n
      <4>1. PICK k \in 1 .. n : k < i /\ o[k] = d
        BY <3>2, <2>4, <2>5, <2>7 DEF Ordered
      <4>2. k \in 1 .. n + 1 /\ p[k] = d
        BY <4>1, <2>5
      <4> QED
        BY <4>1, <4>2
    <3> QED
      BY <3>1, <3>2
  <2> QED
    BY <1>2, <2>3, <2>4, <2>5, <2>6, <2>7 DEF Ordered
<1> QED
  BY <1>1, <1>2

\* After n rounds there are n steps, or no step is ready.
LEMMA TopoRoundsOrdered ==
    ASSUME NEW n \in Nat
    PROVE  /\ Ordered(TopoRounds[n])
           /\ Len(TopoRounds[n]) = n \/ ReadySteps(TopoRounds[n]) = {}
<1> DEFINE Good(k) == /\ Ordered(TopoRounds[k])
                      /\ Len(TopoRounds[k]) = k \/ ReadySteps(TopoRounds[k]) = {}
           Bad == {k \in Nat : ~Good(k)}
<1> SUFFICES ASSUME Bad # {} PROVE FALSE
  OBVIOUS
<1>1. PICK m \in Bad : \A k \in Bad : m <= k
  <2> Bad \in SUBSET Nat
    OBVIOUS
  <2> HIDE DEF Bad
  <2> QED
    BY LeastNumber
<1>2. m # 0
  <2>1. Good(0)
    BY TopoRoundsEquation DEF Ordered
  <2> QED
    BY <1>1, <2>1
<1>3. m \in Nat /\ m - 1 \in Nat /\ (m - 1) + 1 = m /\ m - 1 \notin Bad
  <2>1. m \in Nat
    BY <1>1
  <2>2. m - 1 \in Nat /\ (m - 1) + 1 = m /\ ~(m <= m - 1)
    BY <2>1, <1>2
  <2> HIDE DEF Bad
  <2> QED
    BY <2>1, <2>2, <1>1
<1>4. Good(m - 1) /\ ~Good(m)
  BY <1>1, <1>3
<1>5. TopoRounds[m] = Round(TopoRounds[m - 1])
  BY <1>3, TopoRoundsEquation
<1> DEFINE o == TopoRounds[m - 1]
<1>6. Ordered(o) /\ (Len(o) = m - 1 \/ ReadySteps(o) = {})
  BY <1>4
<1>7. ~(Ordered(Round(o)) /\ (Len(Round(o)) = m \/ ReadySteps(Round(o)) = {}))
  BY <1>4, <1>5
<1> HIDE DEF o
<1> QED
  BY <1>3, <1>6, <1>7, RoundOrdered

\* A sequence of distinct steps is as long as the set of its elements.
LEMMA DistinctElements ==
    ASSUME NEW o, Ordered(o)
    PROVE  /\ IsFiniteSet(Elements(o)) /\ Cardinality(Elements(o)) = Len(o)
           /\ Elements(o) \subseteq Steps
<1>1. Elements(o) \subseteq Steps
  BY DEF Ordered, Elements
<1>2. PICK n \in Nat : n = Len(o)
  BY DEF Ordered
<1>3. IsFiniteSet(1 .. n) /\ Cardinality(1 .. n) = n
  <2>1. Cardinality(1 .. n) = IF 1 > n THEN 0 ELSE n - 1 + 1
    BY FS_Interval
  <2> QED
    BY <2>1, FS_Interval
<1>4. IsFiniteSet(Elements(o)) /\ Cardinality(Elements(o)) = n
  <2> DEFINE f == [i \in 1 .. n |-> o[i]]
  <2>1. f \in Bijection(1 .. n, Elements(o))
    BY <1>2 DEF Elements, Ordered, Bijection, Injection, Surjection, IsInjective
  <2>2. ExistsBijection(1 .. n, Elements(o))
    BY <2>1 DEF ExistsBijection
  <2> QED
    BY <1>3, <2>2, FS_Bijection
<1> QED
  BY <1>1, <1>2, <1>4

\* What Compile finds.
LEMMA TopoOrderAgrees ==
    /\ Ordered(TopoOrder)
    /\ Len(TopoOrder) = Cardinality(Steps) => Elements(TopoOrder) = Steps
    /\ Len(TopoOrder) # Cardinality(Steps) => Elements(TopoOrder) # Steps /\ ReadySteps(TopoOrder) = {}
<1>1. Cardinality(Steps) \in Nat
  BY StepsAssumption, FS_CardinalityType
<1>2. Ordered(TopoOrder) /\ (Len(TopoOrder) = Cardinality(Steps) \/ ReadySteps(TopoOrder) = {})
  BY <1>1, TopoRoundsOrdered DEF TopoOrder
<1>3. /\ Cardinality(Elements(TopoOrder)) = Len(TopoOrder) /\ Elements(TopoOrder) \subseteq Steps
  BY <1>2, DistinctElements
<1>4. Len(TopoOrder) = Cardinality(Steps) => Elements(TopoOrder) = Steps
  BY <1>3, StepsAssumption, FS_Subset
<1> QED
  BY <1>2, <1>3, <1>4

\* Steps that wait for each other cannot be ordered.
LEMMA OrderedIsAcyclic ==
    ASSUME NEW o, Ordered(o), Elements(o) = Steps PROVE ~Cyclic
<1> SUFFICES ASSUME NEW set \in SUBSET Steps, set # {}, \A s \in set : dependsOn[s] \cap set # {}
             PROVE  FALSE
  BY DEF Cyclic
<1> DEFINE at == {i \in 1 .. Len(o) : o[i] \in set}
<1>0. Len(o) \in Nat
  BY DEF Ordered
<1>1. at # {}
  BY DEF Elements
<1>2. PICK i \in at : \A k \in at : i <= k
  <2> at \in SUBSET Nat
    BY <1>0
  <2> HIDE DEF at
  <2> QED
    BY <1>1, LeastNumber
<1>3. PICK d \in dependsOn[o[i]] : d \in set
  BY <1>2
<1>4. PICK k \in 1 .. Len(o) : k < i /\ o[k] = d
  BY <1>2, <1>3 DEF Ordered
<1> QED
  BY <1>0, <1>2, <1>3, <1>4

----------------------------------------------------------------------------
StepStates == {"pending", "running", "complete", "skipped", "compensated", "failed", "awaiting_gate"}

\* Results, counters and profiles, and the plan once there is one.
FlowType ==
    /\ dependsOn \in Dependencies
    /\ profile \in [Steps -> [kind : {"tool", "gate"}, retries : 0 .. MaxRetries,
                           onFailure : {"fail", "retry", "skip", "compensate"}]]
    /\ compiled \in {"no", "plan", "refused"}
    /\ inRun \in BOOLEAN
    /\ results \in [Steps -> [state : StepStates, attempts : Nat]]
    /\ saved \in [Steps -> [state : StepStates, attempts : Nat]]
    /\ tried \in [Steps -> Nat] /\ ran \in [Steps -> Nat] /\ lost \in [Steps -> Nat]

\* A plan is an order of all steps; without one nothing runs.
Planned ==
    /\ compiled = "plan" => Ordered(order) /\ Elements(order) = Steps
    /\ compiled # "plan" => order = <<>> /\ ~inRun
    /\ compiled = "refused" => Cyclic

\* The runner's calls that count are those of the results; within Run they are
\* the caller's and the ones of this Run, and steps the caller has as done are.
Counted ==
    /\ inRun => \A s \in Steps :
          /\ ran[s] = lost[s] + results[s].attempts
          /\ results[s].attempts = saved[s].attempts + tried[s]
          /\ TerminalStep(saved[s]) => TerminalStep(results[s])
    /\ ~inRun => \A s \in Steps : ran[s] = lost[s] + saved[s].attempts
    /\ \A s \in Steps : profile[s].kind = "gate" => saved[s].attempts = 0 /\ (inRun => results[s].attempts = 0)

FlowInv == FlowType /\ Planned /\ Counted

\* The step Run is at has every dependency done, and those theirs.
LEMMA CurrentIsReady ==
    ASSUME FlowInv, NEW s \in Steps, Current(s)
    PROVE  /\ compiled = "plan" /\ DepsSatisfied(s) /\ ~TerminalStep(results[s])
           /\ \E before \in SUBSET Steps :
                 /\ s \notin before /\ dependsOn[s] \subseteq before
                 /\ \A t \in before : dependsOn[t] \subseteq before /\ TerminalStep(results[t])
<1>1. compiled = "plan" /\ Ordered(order) /\ inRun
  BY DEF FlowInv, Planned, Current
<1>2. PICK i \in 1 .. Len(order) :
         order[i] = s /\ ~TerminalStep(results[s]) /\ \A k \in 1 .. i - 1 : TerminalStep(results[order[k]])
  BY DEF Current
<1>3. PICK n \in Nat : n = Len(order)
  BY <1>1 DEF Ordered
<1> DEFINE before == {order[k] : k \in 1 .. i - 1}
<1>4. i \in 1 .. n /\ \A k \in 1 .. i - 1 : k \in 1 .. n /\ k < i
  BY <1>2, <1>3
<1>5. before \in SUBSET Steps
  BY <1>1, <1>3, <1>4 DEF Ordered
<1>6. s \notin before
  BY <1>1, <1>2, <1>3, <1>4 DEF Ordered
<1>7. \A k \in 1 .. i : dependsOn[order[k]] \subseteq before
  <2> SUFFICES ASSUME NEW k \in 1 .. i, NEW d \in dependsOn[order[k]] PROVE d \in before
    OBVIOUS
  <2>1. k \in 1 .. n
    BY <1>4
  <2>2. PICK j \in 1 .. n : j < k /\ order[j] = d
    BY <2>1, <1>1, <1>3 DEF Ordered
  <2>3. j \in 1 .. i - 1
    BY <1>4, <2>1, <2>2
  <2> QED
    BY <2>2, <2>3
<1>8. dependsOn[s] \subseteq before
  BY <1>2, <1>4, <1>7
<1>9. \A t \in before : dependsOn[t] \subseteq before /\ TerminalStep(results[t])
  <2> SUFFICES ASSUME NEW k \in 1 .. i - 1
               PROVE  dependsOn[order[k]] \subseteq before /\ TerminalStep(results[order[k]])
    OBVIOUS
  <2>1. k \in 1 .. i
    BY <1>4
  <2> QED
    BY <2>1, <1>2, <1>7
<1>10. DepsSatisfied(s)
  BY <1>8, <1>9 DEF DepsSatisfied
<1> HIDE DEF before
<1> QED
  BY <1>1, <1>2, <1>5, <1>6, <1>8, <1>9, <1>10

\* The invariant holds at the start.
LEMMA FlowInitOk ==
    ASSUME FlowInit PROVE FlowInv
<1>1. FlowType
  <2>1. Fresh \in [state : StepStates, attempts : Nat] /\ Zero \in [Steps -> Nat]
    BY DEF Fresh, Zero, StepStates
  <2>2. [s \in Steps |-> Fresh] \in [Steps -> [state : StepStates, attempts : Nat]]
    BY <2>1
  <2>3. profile \in Profiles /\ dependsOn \in Dependencies
    BY DEF FlowInit
  <2> QED
    BY <2>1, <2>2, <2>3, ProfilesAssumption DEF FlowInit, FlowType
<1>2. Planned
  BY DEF FlowInit, Planned
<1>3. Counted
  BY DEF FlowInit, Counted, Fresh, Zero
<1> QED
  BY <1>1, <1>2, <1>3 DEF FlowInv

\* Compile refuses only cycles, and what it plans is an order.
LEMMA CompileKeeps ==
    ASSUME FlowInv, Compile PROVE FlowInv'
<1> DEFINE valid == /\ \A s \in Steps : s \notin dependsOn[s]
                    /\ Len(TopoOrder) = Cardinality(Steps)
<1>0. /\ compiled' = IF valid THEN "plan" ELSE "refused"
      /\ order' = IF valid THEN TopoOrder ELSE <<>>
      /\ UNCHANGED <<dependsOn, profile, inRun, results, saved, status, panicked, runs, tried, ran, lost>>
      /\ compiled = "no"
  BY DEF Compile
<1>1. FlowType' /\ Counted'
  BY <1>0 DEF FlowInv, FlowType, Counted, TerminalStep
<1>2. Ordered(order)' <=> Ordered(order')
  BY <1>0 DEF Ordered
<1>3. Cyclic' <=> Cyclic
  BY <1>0 DEF Cyclic
<1>4. CASE valid
  <2>1. compiled' = "plan" /\ order' = TopoOrder
    BY <1>4, <1>0
  <2>2. Ordered(TopoOrder) /\ Elements(TopoOrder) = Steps
    BY <1>4, TopoOrderAgrees
  <2>3. Ordered(order)' /\ Elements(order)' = Steps
    BY <2>1, <2>2, <1>2 DEF Elements
  <2>4. Planned'
    BY <2>1, <2>3 DEF Planned
  <2> QED
    BY <1>1, <2>4 DEF FlowInv
<1>5. CASE ~valid
  <2>1. compiled' = "refused" /\ order' = <<>> /\ ~inRun'
    BY <1>5, <1>0 DEF FlowInv, Planned
  <2>2. Cyclic
    <3>1. CASE \E s \in Steps : s \in dependsOn[s]
      <4>1. PICK s \in Steps : s \in dependsOn[s]
        BY <3>1
      <4>2. {s} \in SUBSET Steps /\ {s} # {} /\ \A t \in {s} : dependsOn[t] \cap {s} # {}
        BY <4>1
      <4> QED
        BY <4>2 DEF Cyclic
    <3>2. CASE Len(TopoOrder) # Cardinality(Steps)
      <4> DEFINE rest == Steps \ Elements(TopoOrder)
      <4>1. rest # {} /\ ReadySteps(TopoOrder) = {}
        BY <3>2, TopoOrderAgrees, DistinctElements
      <4>2. \A s \in rest : dependsOn[s] \subseteq Steps
        BY DependenciesAssumption DEF FlowInv, FlowType
      <4>3. \A s \in rest : dependsOn[s] \cap rest # {}
        BY <4>1, <4>2 DEF ReadySteps
      <4> QED
        BY <4>1, <4>3 DEF Cyclic
    <3> QED
      BY <1>5, <3>1, <3>2
  <2>3. Planned'
    BY <2>1, <2>2, <1>3 DEF Planned
  <2> QED
    BY <1>1, <2>3 DEF FlowInv
<1> QED
  BY <1>4, <1>5

\* After Compile the plan stays.
LEMMA PlanStays ==
    ASSUME FlowInv, UNCHANGED <<dependsOn, compiled, order>>, inRun' => inRun \/ compiled = "plan"
    PROVE  Planned'
<1>1. Ordered(order)' <=> Ordered(order)
  BY DEF Ordered
<1>2. Cyclic' <=> Cyclic
  BY DEF Cyclic
<1>3. Elements(order)' = Elements(order)
  BY DEF Elements
<1> QED
  BY <1>1, <1>2, <1>3 DEF FlowInv, Planned

\* An edit changes retries only.
LEMMA EditKeeps ==
    ASSUME FlowInv, NEW s \in Steps, Edit(s) PROVE FlowInv'
<1>1. Planned'
  BY PlanStays DEF Edit
<1>2. profile[s] \in [kind : {"tool", "gate"}, retries : 0 .. MaxRetries, onFailure : {"fail", "retry", "skip", "compensate"}]
  BY DEF FlowInv, FlowType
<1>3. PICK k \in {"tool", "gate"}, r \in 0 .. MaxRetries, f \in {"fail", "retry", "skip", "compensate"} :
         profile[s] = [kind |-> k, retries |-> r, onFailure |-> f]
  BY <1>2
<1>4. r + 1 \in 0 .. MaxRetries
  BY <1>3, WorkflowBoundsAssumption DEF Edit
<1>5. profile' = [profile EXCEPT ![s] = [kind |-> k, retries |-> r + 1, onFailure |-> f]]
  <2>1. profile' = [profile EXCEPT ![s] = [profile[s] EXCEPT !.retries = @ + 1]]
    BY DEF Edit, FlowInv, FlowType
  <2>2. [[kind |-> k, retries |-> r, onFailure |-> f] EXCEPT !.retries = @ + 1]
          = [kind |-> k, retries |-> r + 1, onFailure |-> f]
    OBVIOUS
  <2> QED
    BY <1>3, <2>1, <2>2
<1>6. profile' \in [Steps -> [kind : {"tool", "gate"}, retries : 0 .. MaxRetries, onFailure : {"fail", "retry", "skip", "compensate"}]]
  BY <1>4, <1>5 DEF FlowInv, FlowType
<1>7. FlowType'
  BY <1>6 DEF FlowInv, FlowType, Edit
<1>8. \A t \in Steps : profile'[t].kind = profile[t].kind
  BY <1>3, <1>5 DEF FlowInv, FlowType
<1>9. Counted'
  BY <1>8 DEF FlowInv, Counted, Edit, TerminalStep
<1> QED
  BY <1>1, <1>7, <1>9 DEF FlowInv

\* Run starts from the caller's results.
LEMMA RunBeginKeeps ==
    ASSUME FlowInv, RunBegin PROVE FlowInv'
<1>1. Planned'
  BY PlanStays DEF RunBegin
<1>2. FlowType'
  BY DEF FlowInv, FlowType, RunBegin, Resume, Zero
<1>3. Counted'
  <2>1. inRun' /\ results' = saved /\ saved' = saved /\ ran' = ran /\ lost' = lost /\ profile' = profile /\ ~inRun
    BY DEF RunBegin, Resume
  <2>2. \A s \in Steps : tried'[s] = 0
    BY DEF RunBegin, Zero
  <2>3. \A s \in Steps : saved[s].attempts \in Nat
    BY DEF FlowInv, FlowType
  <2> QED
    BY <2>1, <2>2, <2>3 DEF FlowInv, Counted, TerminalStep
<1> QED
  BY <1>1, <1>2, <1>3 DEF FlowInv

\* What a step of Run does to the results: the step it is at gets a state and
\* a number of attempts.
LEMMA RecordedFields ==
    ASSUME FlowInv, NEW s \in Steps, NEW st \in StepStates, NEW n \in Nat
    PROVE  /\ Recorded(s, st, n) \in [Steps -> [state : StepStates, attempts : Nat]]
           /\ Recorded(s, st, n)[s].state = st /\ Recorded(s, st, n)[s].attempts = n
           /\ \A t \in Steps : t # s => Recorded(s, st, n)[t] = results[t]
BY DEF Recorded, FlowInv, FlowType

\* Run goes on, with or without a call of the runner.
LEMMA ProceedKeeps ==
    ASSUME FlowInv, NEW s \in Steps, Current(s), NEW st \in StepStates, NEW c \in {0, 1},
           Proceed(s, st, results[s].attempts + c),
           c = 1 => profile[s].kind = "tool",
           tried' = [tried EXCEPT ![s] = @ + c], ran' = [ran EXCEPT ![s] = @ + c],
           UNCHANGED <<dependsOn, profile, compiled, order, lost>>
    PROVE  FlowInv'
<1>0. /\ results[s].attempts + c \in Nat /\ results[s].attempts \in Nat /\ ran[s] \in Nat /\ lost[s] \in Nat
      /\ tried[s] \in Nat /\ saved[s].attempts \in Nat
  BY DEF FlowInv, FlowType
<1>1. Planned'
  BY PlanStays DEF Proceed
<1>2. /\ results' \in [Steps -> [state : StepStates, attempts : Nat]]
      /\ results'[s].attempts = results[s].attempts + c
      /\ \A t \in Steps : t # s => results'[t] = results[t]
      /\ inRun' /\ inRun /\ saved' = saved
  <2>1. results' = Recorded(s, st, results[s].attempts + c) /\ inRun' = inRun /\ saved' = saved
    BY DEF Proceed
  <2>2. inRun
    BY DEF Current
  <2>3. PICK n \in Nat : n = results[s].attempts + c
    BY <1>0
  <2>4. results' = Recorded(s, st, n)
    BY <2>1, <2>3
  <2>5. /\ results' \in [Steps -> [state : StepStates, attempts : Nat]]
        /\ results'[s].attempts = n
        /\ \A t \in Steps : t # s => results'[t] = results[t]
    BY <2>4, RecordedFields
  <2> QED
    BY <2>1, <2>2, <2>3, <2>5
<1>3. tried' \in [Steps -> Nat] /\ ran' \in [Steps -> Nat]
  BY DEF FlowInv, FlowType
<1>4. FlowType'
  BY <1>2, <1>3 DEF FlowInv, FlowType
<1>5. ~TerminalStep(saved[s])
  BY <1>2, CurrentIsReady DEF FlowInv, Counted
<1>6. ASSUME NEW t \in Steps
      PROVE  /\ ran'[t] = lost'[t] + results'[t].attempts
             /\ results'[t].attempts = saved'[t].attempts + tried'[t]
             /\ TerminalStep(saved'[t]) => TerminalStep(results'[t])
             /\ profile'[t].kind = "gate" => saved'[t].attempts = 0 /\ results'[t].attempts = 0
  <2>1. CASE t = s
    <3>1. ran'[s] = ran[s] + c /\ tried'[s] = tried[s] + c
      BY DEF FlowInv, FlowType
    <3>2. ran[s] = lost[s] + results[s].attempts /\ results[s].attempts = saved[s].attempts + tried[s]
      BY <1>2 DEF FlowInv, Counted
    <3>3. profile[s].kind = "gate" => saved[s].attempts = 0 /\ results[s].attempts = 0 /\ c = 0
      BY <1>2 DEF FlowInv, Counted
    <3> QED
      BY <2>1, <3>1, <3>2, <3>3, <1>0, <1>2, <1>5
  <2>2. CASE t # s
    <3>1. ran'[t] = ran[t] /\ tried'[t] = tried[t] /\ results'[t] = results[t]
      BY <2>2, <1>2 DEF FlowInv, FlowType
    <3> QED
      BY <3>1, <1>2 DEF FlowInv, Counted, TerminalStep
  <2> QED
    BY <2>1, <2>2
<1>7. Counted'
  BY <1>2, <1>6 DEF Counted, TerminalStep
<1> QED
  BY <1>1, <1>4, <1>7 DEF FlowInv

\* Run returns: the caller has what Run had.
LEMMA ReturnKeeps ==
    ASSUME FlowInv, NEW s \in Steps, Current(s), NEW st \in StepStates, NEW last,
           ReturnState(Recorded(s, st, results[s].attempts), last),
           UNCHANGED <<dependsOn, profile, compiled, order, tried, ran, lost>>
    PROVE  FlowInv'
<1>0. results[s].attempts \in Nat /\ inRun
  BY DEF FlowInv, FlowType, Current
<1>1. Planned'
  BY PlanStays DEF ReturnState
<1>2. results' = Recorded(s, st, results[s].attempts) /\ saved' = results' /\ ~inRun' /\ inRun' = FALSE
  BY DEF ReturnState
<1>3. /\ results' \in [Steps -> [state : StepStates, attempts : Nat]]
      /\ \A t \in Steps : results'[t].attempts = results[t].attempts
  <2>1. /\ results' \in [Steps -> [state : StepStates, attempts : Nat]]
        /\ results'[s].attempts = results[s].attempts
        /\ \A t \in Steps : t # s => results'[t] = results[t]
    BY <1>0, <1>2, RecordedFields
  <2> QED
    BY <2>1
<1>4. FlowType'
  BY <1>2, <1>3 DEF FlowInv, FlowType
<1>5. Counted'
  BY <1>0, <1>2, <1>3 DEF FlowInv, Counted
<1> QED
  BY <1>1, <1>4, <1>5 DEF FlowInv

\* Run returns with every step done.
LEMMA CompletesKeeps ==
    ASSUME FlowInv, RunCompletes PROVE FlowInv'
<1>1. Planned'
  BY PlanStays DEF RunCompletes, ReturnState
<1>2. results' = results /\ saved' = results /\ inRun' = FALSE /\ inRun
      /\ UNCHANGED <<dependsOn, profile, compiled, order, tried, ran, lost>>
  BY DEF RunCompletes, ReturnState
<1>3. FlowType' /\ Counted'
  BY <1>2 DEF FlowInv, FlowType, Counted
<1> QED
  BY <1>1, <1>3 DEF FlowInv

\* What a Run that never returned did is lost with it.
LEMMA LostKeeps ==
    ASSUME FlowInv, inRun, NEW p, RunLost(p) PROVE FlowInv'
<1>1. Planned'
  BY PlanStays DEF RunLost
<1>2. inRun' = FALSE /\ results' = saved /\ saved' = saved /\ ran' = ran /\ profile' = profile
      /\ tried' = tried /\ compiled' = compiled /\ dependsOn' = dependsOn
      /\ lost' = [s \in Steps |-> lost[s] + tried[s]]
  BY DEF RunLost
<1>3. FlowType'
  <2>1. \A s \in Steps : lost[s] + tried[s] \in Nat
    BY DEF FlowInv, FlowType
  <2>2. lost' \in [Steps -> Nat]
    BY <2>1, <1>2
  <2> QED
    BY <1>2, <2>2 DEF FlowInv, FlowType
<1>4. ASSUME NEW s \in Steps PROVE ran'[s] = lost'[s] + saved'[s].attempts
  <2>1. ran[s] \in Nat /\ lost[s] \in Nat /\ tried[s] \in Nat /\ saved[s].attempts \in Nat
    BY DEF FlowInv, FlowType
  <2>2. ran[s] = lost[s] + results[s].attempts /\ results[s].attempts = saved[s].attempts + tried[s]
    BY DEF FlowInv, Counted
  <2>3. lost'[s] = lost[s] + tried[s]
    BY <1>2
  <2> QED
    BY <1>2, <2>1, <2>2, <2>3
<1>5. Counted'
  BY <1>2, <1>4 DEF FlowInv, Counted
<1> QED
  BY <1>1, <1>3, <1>5 DEF FlowInv

\* The states that steps of Run record.
LEMMA StatesAre ==
    {"complete", "skipped", "compensated", "failed", "awaiting_gate", "running"} \subseteq StepStates
BY DEF StepStates

\* Which steps call the runner, and when Run is over with everything done.
RunsOnly(s) == \A t \in Steps : t # s => ran'[t] = ran[t]
QuietEnd == status' # "complete" \/ status = "complete" \/ inRun'

\* Steps of Run, each with the number of runner calls it makes.
LEMMA StepOfRunKeeps ==
    ASSUME FlowInv, NEW s \in Steps,
           \/ GatePasses(s) \/ StepHeld(s) \/ PassOver(s) \/ StepFails(s) \/ Panics(s)
    PROVE  FlowInv' /\ ran' = ran /\ QuietEnd
<1>c. PICK c \in {0, 1} : c = 0
  OBVIOUS
<1>0. /\ results[s].attempts \in Nat /\ tried \in [Steps -> Nat] /\ ran \in [Steps -> Nat]
      /\ inRun => (profile[s].kind = "gate" => results[s].attempts = 0)
      /\ tried = [tried EXCEPT ![s] = @ + c] /\ ran = [ran EXCEPT ![s] = @ + c]
      /\ results[s].attempts + c = results[s].attempts
  BY <1>c DEF FlowInv, FlowType, Counted
<1>1. CASE GatePasses(s)
  <2>1. Current(s) /\ inRun /\ Proceed(s, "complete", results[s].attempts + c) /\ UNCHANGED <<dependsOn, profile, compiled, order, tried, ran, lost>>
    BY <1>0, <1>1 DEF GatePasses, Current
  <2>2. tried' = [tried EXCEPT ![s] = @ + c] /\ ran' = [ran EXCEPT ![s] = @ + c] /\ ran' = ran
    BY <2>1, <1>0
  <2>3. UNCHANGED <<dependsOn, profile, compiled, order, lost>> /\ (c = 1 => profile[s].kind = "tool")
    BY <2>1, <1>c
  <2>4. FlowInv'
    BY <2>1, <2>2, <2>3, ProceedKeeps, StatesAre
  <2> QED
    BY <2>1, <2>2, <2>4 DEF QuietEnd, Proceed
<1>2. CASE StepHeld(s)
  <2>1. Current(s) /\ inRun /\ DepsSatisfied(s)
    BY <1>2, CurrentIsReady DEF StepHeld, Current
  <2>2. ReturnState(Recorded(s, "awaiting_gate", results[s].attempts), "awaiting_approval")
    BY <1>0, <1>2, <2>1 DEF StepHeld
  <2>3. UNCHANGED <<dependsOn, profile, compiled, order, tried, ran, lost>>
    BY <1>2 DEF StepHeld
  <2>4. FlowInv'
    BY <2>1, <2>2, <2>3, ReturnKeeps, StatesAre
  <2> QED
    BY <2>2, <2>3, <2>4 DEF QuietEnd, ReturnState
<1>3. CASE PassOver(s)
  <2>1. Current(s) /\ inRun /\ UNCHANGED <<dependsOn, profile, compiled, order, tried, ran, lost>>
    BY <1>3 DEF PassOver, Exhausted, Current
  <2>2. \E st \in {"skipped", "compensated"} : Proceed(s, st, results[s].attempts + c)
    BY <1>0, <1>3 DEF PassOver
  <2>3. tried' = [tried EXCEPT ![s] = @ + c] /\ ran' = [ran EXCEPT ![s] = @ + c] /\ ran' = ran
    BY <2>1, <1>0
  <2>4. UNCHANGED <<dependsOn, profile, compiled, order, lost>> /\ (c = 1 => profile[s].kind = "tool")
    BY <2>1, <1>c
  <2>5. FlowInv'
    BY <2>1, <2>2, <2>3, <2>4, ProceedKeeps, StatesAre
  <2> QED
    BY <2>1, <2>2, <2>3, <2>5 DEF QuietEnd, Proceed
<1>4. CASE StepFails(s)
  <2>1. Current(s) /\ ReturnState(Recorded(s, "failed", results[s].attempts), "failed")
        /\ UNCHANGED <<dependsOn, profile, compiled, order, tried, ran, lost>>
    BY <1>4 DEF StepFails, Exhausted
  <2>2. FlowInv'
    BY <2>1, ReturnKeeps, StatesAre
  <2> QED
    BY <2>1, <2>2 DEF QuietEnd, ReturnState
<1>5. CASE Panics(s)
  <2>1. inRun /\ RunLost(TRUE)
    BY <1>5 DEF Panics, Exhausted, Current
  <2> QED
    BY <2>1, LostKeeps DEF RunLost, QuietEnd
<1> QED
  BY <1>1, <1>2, <1>3, <1>4, <1>5

\* A call of the runner: the step was not done, and an attempt is left.
LEMMA AttemptKeeps ==
    ASSUME FlowInv, NEW s \in Steps, NEW ok \in BOOLEAN, Attempt(s, ok)
    PROVE  /\ FlowInv' /\ inRun' /\ RunsOnly(s)
           /\ ~TerminalStep(saved[s]) /\ ran'[s] - lost'[s] <= MaxAttempts(s)
<1>1. /\ Current(s) /\ inRun /\ profile[s].kind = "tool" /\ results[s].attempts < MaxAttempts(s)
      /\ tried' = [tried EXCEPT ![s] = @ + 1] /\ ran' = [ran EXCEPT ![s] = @ + 1]
      /\ UNCHANGED <<dependsOn, profile, compiled, order, lost>>
  BY DEF Attempt, Current
<1>2. \E st \in {"complete", "running"} : Proceed(s, st, results[s].attempts + 1)
  BY DEF Attempt
<1>3. FlowInv'
  BY <1>1, <1>2, ProceedKeeps, StatesAre
<1>4. inRun' /\ RunsOnly(s)
  BY <1>1, <1>2 DEF Proceed, RunsOnly, FlowInv, FlowType
<1>5. ~TerminalStep(saved[s])
  BY <1>1, CurrentIsReady DEF FlowInv, Counted
<1>6. ran'[s] - lost'[s] <= MaxAttempts(s)
  <2>1. ran[s] \in Nat /\ lost[s] \in Nat /\ results[s].attempts \in Nat /\ profile[s].retries \in Nat
    BY WorkflowBoundsAssumption DEF FlowInv, FlowType
  <2>2. ran[s] = lost[s] + results[s].attempts /\ ran'[s] = ran[s] + 1 /\ lost'[s] = lost[s]
    BY <1>1 DEF FlowInv, FlowType, Counted
  <2>3. results[s].attempts < profile[s].retries + 1
    BY <1>1 DEF MaxAttempts
  <2> QED
    BY <2>1, <2>2, <2>3 DEF MaxAttempts
<1> QED
  BY <1>3, <1>4, <1>5, <1>6

\* What a step of the specification may do, PlanFollowed's action.
Follows ==
    /\ \A s \in Steps : ran'[s] # ran[s] =>
          /\ ~Done(saved[s])
          /\ ran'[s] - lost'[s] <= MaxAttempts(s)
          /\ \E before \in SUBSET Steps :
                /\ s \notin before /\ dependsOn[s] \subseteq before
                /\ \A t \in before : dependsOn[t] \subseteq before /\ Done(results[t])
    /\ (inRun /\ ~inRun' /\ status' = "complete") => \A s \in Steps : Done(saved'[s]) \/ status = "complete"

\* Terminal and Done are one.
LEMMA DoneIsTerminal == \A r : Done(r) <=> TerminalStep(r)
BY DEF Done, TerminalStep

\* Every step keeps the invariant and follows the plan.
LEMMA FlowStep ==
    ASSUME FlowInv, [FlowNext]_flowVars PROVE FlowInv' /\ Follows
<1>1. CASE Compile
  <2>1. ran' = ran /\ inRun' = inRun
    BY <1>1 DEF Compile
  <2> QED
    BY <1>1, <2>1, CompileKeeps DEF Follows
<1>2. CASE RunBegin
  <2>1. ran' = ran /\ ~inRun
    BY <1>2 DEF RunBegin
  <2> QED
    BY <1>2, <2>1, RunBeginKeeps DEF Follows
<1>3. CASE RunStops
  <2>1. ran' = ran /\ status' = status /\ inRun /\ RunLost(FALSE)
    BY <1>3 DEF RunStops, RunLost
  <2>2. FlowInv'
    BY <2>1, LostKeeps
  <2> QED
    BY <2>1, <2>2 DEF Follows
<1>4. CASE RunCompletes
  <2>1. ran' = ran /\ saved' = results /\ \A s \in Steps : TerminalStep(results[s])
    BY <1>4 DEF RunCompletes, ReturnState
  <2>2. \A s \in Steps : Done(saved'[s])
    BY <2>1, DoneIsTerminal
  <2>3. FlowInv'
    BY <1>4, CompletesKeeps
  <2> QED
    BY <2>1, <2>2, <2>3 DEF Follows
<1>5. ASSUME NEW s \in Steps, Edit(s) PROVE FlowInv' /\ Follows
  <2>1. ran' = ran /\ inRun' = inRun
    BY <1>5 DEF Edit
  <2>2. FlowInv'
    BY <1>5, EditKeeps
  <2> QED
    BY <2>1, <2>2 DEF Follows
<1>6. ASSUME NEW s \in Steps,
             \/ GatePasses(s) \/ StepHeld(s) \/ PassOver(s) \/ StepFails(s) \/ Panics(s)
      PROVE  FlowInv' /\ Follows
  <2>1. FlowInv' /\ ran' = ran /\ QuietEnd
    BY <1>6, StepOfRunKeeps
  <2> QED
    BY <2>1 DEF Follows, QuietEnd
<1>7. ASSUME NEW s \in Steps, NEW ok \in BOOLEAN, Attempt(s, ok) PROVE FlowInv' /\ Follows
  <2>1. /\ FlowInv' /\ inRun' /\ RunsOnly(s)
        /\ ~TerminalStep(saved[s]) /\ ran'[s] - lost'[s] <= MaxAttempts(s)
    BY <1>7, AttemptKeeps
  <2>2. Current(s)
    BY <1>7 DEF Attempt
  <2>3. PICK before \in SUBSET Steps :
           /\ s \notin before /\ dependsOn[s] \subseteq before
           /\ \A t \in before : dependsOn[t] \subseteq before /\ TerminalStep(results[t])
    BY <2>2, CurrentIsReady
  <2>4. \A t \in before : Done(results[t])
    BY <2>3, DoneIsTerminal
  <2>5. ~Done(saved[s])
    BY <2>1, DoneIsTerminal
  <2>6. \A t \in Steps : ran'[t] # ran[t] => t = s
    BY <2>1 DEF RunsOnly
  <2> QED
    BY <2>1, <2>3, <2>4, <2>5, <2>6 DEF Follows
<1>8. CASE UNCHANGED flowVars
  <2>1. UNCHANGED <<dependsOn, profile, compiled, order, inRun, results, saved, status, tried, ran, lost>>
    BY <1>8 DEF flowVars
  <2>2. Planned'
    BY <2>1, PlanStays
  <2>3. FlowType' /\ Counted'
    BY <2>1 DEF FlowInv, FlowType, Counted, TerminalStep
  <2> QED
    BY <2>1, <2>2, <2>3 DEF FlowInv, Follows
<1> QED
  BY <1>1, <1>2, <1>3, <1>4, <1>5, <1>6, <1>7, <1>8 DEF FlowNext

\* What is known of a workflow's plan and of the runner's calls between the steps
\* of Compile and Run: FlowInv is inductive.
THEOREM FlowInvariant == FlowSpec => []FlowInv
<1>1. FlowInit => FlowInv
  BY FlowInitOk
<1>2. FlowInv /\ [FlowNext]_flowVars => FlowInv'
  BY FlowStep
<1> QED
  BY <1>1, <1>2, PTL DEF FlowSpec

\* For any steps and dependencies, topoOrder finds an order exactly when there is
\* no cycle, and it has every step once, after what it depends on.
THEOREM CompileAgreesHolds == FlowSpec => []CompileAgrees
<1>1. ASSUME FlowInv PROVE CompileAgrees
  <2>1. compiled = "refused" => Cyclic
    BY <1>1 DEF FlowInv, Planned
  <2>2. ASSUME compiled = "plan"
        PROVE  /\ ~Cyclic
               /\ Elements(order) = Steps /\ Len(order) = Cardinality(Steps)
               /\ \A i, k \in 1 .. Len(order) : order[k] \in dependsOn[order[i]] => k < i
    <3>1. Ordered(order) /\ Elements(order) = Steps
      BY <1>1, <2>2 DEF FlowInv, Planned
    <3>2. ~Cyclic
      BY <3>1, OrderedIsAcyclic
    <3>3. Len(order) = Cardinality(Steps)
      BY <3>1, DistinctElements
    <3>4. \A i, k \in 1 .. Len(order) : order[k] \in dependsOn[order[i]] => k < i
      BY <3>1 DEF Ordered
    <3> QED
      BY <3>1, <3>2, <3>3, <3>4
  <2> QED
    BY <2>1, <2>2 DEF CompileAgrees
<1> QED
  BY <1>1, FlowInvariant, PTL

\* For any workflow, however often Run is resumed, edited or stopped: the runner is
\* called only for a step whose dependencies are done and which the caller has not
\* as done, within its retries, and Run reports completion of finished plans only.
THEOREM PlanFollowedHolds == FlowSpec => PlanFollowed
<1>1. FlowInit => FlowInv
  BY FlowInitOk
<1>2. FlowInv /\ [FlowNext]_flowVars => FlowInv' /\ Follows
  BY FlowStep
<1>3. FlowSpec => [][Follows]_flowVars
  BY <1>1, <1>2, PTL DEF FlowSpec
<1> QED
  BY <1>3 DEF PlanFollowed, Follows
=============================================================================
