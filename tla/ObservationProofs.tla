------------------------- MODULE ObservationProofs -------------------------
(***************************************************************************)
(* Proofs about Journal, for any sets of producers and subscriptions, any  *)
(* channel capacity and any number of events and restarts, and about the   *)
(* plane over it in Observation, for any finite set of goroutines and any  *)
(* sessions, offers, Codex outputs and limits, and about the Visualizer.   *)
(*                                                                         *)
(* Journal: the file refines an append-only log under increasing           *)
(* sequences, an acknowledged event can be replayed, a subscription loses  *)
(* nothing silently and receives nothing twice, and closing disturbs       *)
(* nothing but a Subscribe call under way.                                 *)
(* Two facts are about loops over data.  Reopening numbers the lines of a  *)
(* file again, and Replay filters the events; both are recursive functions *)
(* that have a closed form on increasing sequences.  The closed form       *)
(* satisfies the recursive equation, and the least index at which two      *)
(* solutions could differ shows that there is one solution only.           *)
(*                                                                         *)
(* Observation: a session has one record, and the emitters' counters, the  *)
(* answers to a batch, the reports and the buffer agree with the journals. *)
(*                                                                         *)
(* Visualizer, for any observations, canonical events, retention policy    *)
(* and number of followers: what a bridge shows after following is what    *)
(* the replay shows, and a timeline only grows and ends in the present.    *)
(* The sort puts each event at its rank, so that it is onto and in order   *)
(* by counting, with no induction over the list.                           *)
(***************************************************************************)
EXTENDS Journal, Observation, Visualizer, SequenceTheorems, FiniteSetTheorems, WellFoundedInduction, TLAPS

\* Every set of naturals that is not empty has a least element.
LEMMA LeastNat ==
  ASSUME NEW S \in SUBSET Nat, S # {}
  PROVE  \E m \in S : \A n \in S : m <= n
<1>1. PICK m \in S : \A n \in S : ~(<<n, m>> \in OpToRel(<, Nat))
  BY NatLessThanWellFounded, WFMin
<1>2. \A n \in S : ~(n < m)
  BY <1>1 DEF OpToRel
<1> QED BY <1>2

\* Min is the least element of a set of naturals that is not empty.
LEMMA MinIsLeast ==
  ASSUME NEW S \in SUBSET Nat, S # {}
  PROVE  Min(S) \in S /\ \A n \in S : Min(S) <= n
<1>1. \E m \in S : \A n \in S : m <= n
  BY LeastNat
<1> QED BY <1>1 DEF Min

\* Max is the greatest element of a bounded set of naturals that is not empty.
LEMMA MaxIsGreatest ==
  ASSUME NEW S \in SUBSET Nat, S # {}, NEW b \in Nat, \A n \in S : n <= b
  PROVE  Max(S) \in S /\ \A n \in S : n <= Max(S)
<1> DEFINE bounds == {k \in Nat : \A n \in S : n <= k}
<1>1. PICK m \in bounds : \A k \in bounds : m <= k
  BY LeastNat
<1>2. m \in S
  <2>1. SUFFICES ASSUME m \notin S PROVE FALSE
    OBVIOUS
  <2>2. \A n \in S : n < m
    BY <1>1, <2>1
  <2>3. PICK n0 \in S : TRUE
    OBVIOUS
  <2>4. n0 \in Nat /\ m \in Nat /\ n0 < m
    BY <2>2, <1>1
  <2>5. m - 1 \in bounds
    BY <2>2, <2>4
  <2> QED BY <2>4, <2>5, <1>1
<1>3. \E x \in S : \A y \in S : x >= y
  BY <1>1, <1>2
<1> QED BY <1>3 DEF Max

\* An interval has as many elements as there are steps from one end to the other.
LEMMA IntervalSize ==
  ASSUME NEW a \in Nat, NEW b \in Nat, a <= b + 1
  PROVE  IsFiniteSet(a..b) /\ Cardinality(a..b) = b - a + 1
BY FS_Interval

\* The fields of an event.
LEMMA EventFields ==
  ASSUME NEW e \in Event
  PROVE  e.seq \in Nat /\ e.id \in Nat
BY JournalAssumption DEF Event

\* The recursive equation behind Load.
IsCounter(c, lines) ==
  c = [i \in 0..Len(lines) |->
        IF i = 0 THEN 0
        ELSE IF lines[i].seq > c[i - 1] THEN lines[i].seq + 1
        ELSE c[i - 1] + 1]

\* On increasing lines the counter stands one above each stored sequence.
LEMMA CounterOfIncreasing ==
  ASSUME NEW lines \in Seq(Event), Increasing(lines)
  PROVE  IsCounter([i \in 0..Len(lines) |-> IF i = 0 THEN 0 ELSE lines[i].seq + 1], lines)
<1> DEFINE g == [i \in 0..Len(lines) |-> IF i = 0 THEN 0 ELSE lines[i].seq + 1]
<1>1. ASSUME NEW i \in 0..Len(lines), i # 0
      PROVE  g[i] = IF lines[i].seq > g[i - 1] THEN lines[i].seq + 1 ELSE g[i - 1] + 1
  <2>1. lines[i] \in Event /\ lines[i].seq \in Nat /\ i - 1 \in 0..Len(lines)
    BY <1>1, EventFields
  <2>2. CASE i = 1
    BY <2>1, <2>2
  <2>3. CASE i # 1
    <3>1. i - 1 \in 1..Len(lines) /\ lines[i - 1] \in Event /\ lines[i - 1].seq \in Nat
      BY <1>1, <2>3, EventFields
    <3>2. lines[i - 1].seq < lines[i].seq
      BY <1>1, <3>1 DEF Increasing
    <3>3. QED
      BY <1>1, <2>1, <2>3, <3>1, <3>2
  <2>4. QED
    BY <2>2, <2>3
<1>2. QED
  BY <1>1 DEF IsCounter

\* The equation has one solution: two would differ at a least index.
LEMMA CounterUnique ==
  ASSUME NEW lines, NEW c, NEW d, IsCounter(c, lines), IsCounter(d, lines), Len(lines) \in Nat
  PROVE  c = d
<1> DEFINE D == 0..Len(lines)
           Differ == {i \in D : c[i] # d[i]}
<1>1. Differ = {}
  <2> SUFFICES ASSUME Differ # {} PROVE FALSE
    OBVIOUS
  <2>1. PICK m \in Differ : \A n \in Differ : m <= n
    <3>1. Differ \in SUBSET Nat
      OBVIOUS
    <3> HIDE DEF Differ
    <3>2. QED
      BY <3>1, LeastNat
  <2>2. m # 0
    BY <2>1 DEF IsCounter
  <2>3. m - 1 \in D /\ m - 1 \notin Differ
    BY <2>1, <2>2
  <2>4. c[m - 1] = d[m - 1]
    BY <2>3
  <2>5. c[m] = d[m]
    BY <2>1, <2>2, <2>4 DEF IsCounter
  <2>6. QED
    BY <2>1, <2>5
<1>2. \A i \in D : c[i] = d[i]
  BY <1>1
<1>3. QED
  BY <1>2 DEF IsCounter

\* Reopening a file of increasing sequences keeps every sequence and goes on
\* after the last one (OpenFile).
LEMMA LoadOfIncreasing ==
  ASSUME NEW lines \in Seq(Event), Increasing(lines)
  PROVE  /\ Load(lines).events = lines
         /\ Load(lines).next = IF lines = <<>> THEN 0 ELSE lines[Len(lines)].seq + 1
<1> DEFINE g == [i \in 0..Len(lines) |-> IF i = 0 THEN 0 ELSE lines[i].seq + 1]
           c == CHOOSE c : IsCounter(c, lines)
<1>1. IsCounter(g, lines)
  BY CounterOfIncreasing
<1>2. IsCounter(c, lines)
  BY <1>1
<1>3. c = g
  BY <1>1, <1>2, CounterUnique, LenProperties
<1>4. Load(lines) = [events |-> [i \in 1..Len(lines) |-> [lines[i] EXCEPT !.seq = c[i] - 1]],
                     next |-> c[Len(lines)]]
  BY DEF Load, IsCounter
<1> HIDE DEF c
<1>5. \A i \in 1..Len(lines) : [lines[i] EXCEPT !.seq = c[i] - 1] = lines[i]
  <2> SUFFICES ASSUME NEW i \in 1..Len(lines)
               PROVE  [lines[i] EXCEPT !.seq = c[i] - 1] = lines[i]
    OBVIOUS
  <2>1. lines[i] \in Event /\ lines[i].seq \in Nat
    BY EventFields
  <2>2. c[i] - 1 = lines[i].seq
    BY <1>3, <2>1
  <2>3. QED
    BY <2>1, <2>2 DEF Event
<1>6. [i \in 1..Len(lines) |-> [lines[i] EXCEPT !.seq = c[i] - 1]] = lines
  <2>1. lines = [i \in 1..Len(lines) |-> lines[i]]
    BY LenProperties
  <2>2. QED
    BY <1>5, <2>1
<1>7. Load(lines).next = IF lines = <<>> THEN 0 ELSE lines[Len(lines)].seq + 1
  BY <1>3, <1>4, EmptySeq, LenProperties
<1>8. QED
  BY <1>4, <1>6, <1>7

\* The recursive equation behind Replay.
IsKept(k, es, from) ==
  k = [i \in 0..Len(es) |->
        IF i = 0 THEN <<>>
        ELSE IF es[i].seq >= from THEN Append(k[i - 1], es[i])
        ELSE k[i - 1]]

\* The equation has one solution.
LEMMA KeptUnique ==
  ASSUME NEW es, NEW from, NEW c, NEW d, IsKept(c, es, from), IsKept(d, es, from),
         Len(es) \in Nat
  PROVE  c = d
<1> DEFINE D == 0..Len(es)
           Differ == {i \in D : c[i] # d[i]}
<1>1. Differ = {}
  <2> SUFFICES ASSUME Differ # {} PROVE FALSE
    OBVIOUS
  <2>1. PICK m \in Differ : \A n \in Differ : m <= n
    <3>1. Differ \in SUBSET Nat
      OBVIOUS
    <3> HIDE DEF Differ
    <3>2. QED
      BY <3>1, LeastNat
  <2>2. m # 0
    BY <2>1 DEF IsKept
  <2>3. m - 1 \in D /\ m - 1 \notin Differ
    BY <2>1, <2>2
  <2>4. c[m - 1] = d[m - 1]
    BY <2>3
  <2>5. c[m] = d[m]
    <3>1. m \in D
      BY <2>1
    <3>2. c[m] = IF es[m].seq >= from THEN Append(c[m - 1], es[m]) ELSE c[m - 1]
      BY <2>2, <3>1 DEF IsKept
    <3>3. d[m] = IF es[m].seq >= from THEN Append(d[m - 1], es[m]) ELSE d[m - 1]
      BY <2>2, <3>1 DEF IsKept
    <3>4. QED
      BY <2>4, <3>2, <3>3
  <2>6. QED
    BY <2>1, <2>5
<1>2. \A i \in D : c[i] = d[i]
  BY <1>1
<1>3. QED
  BY <1>2 DEF IsKept

\* In an increasing sequence the events from a given sequence on are a suffix.
LEMMA Threshold ==
  ASSUME NEW es \in Seq(Event), Increasing(es), NEW from \in Nat
  PROVE  \E m \in 0..Len(es) : \A i \in 1..Len(es) : es[i].seq >= from <=> i > m
<1> DEFINE S == {i \in 1..Len(es) + 1 : i = Len(es) + 1 \/ es[i].seq >= from}
<1>0. \A i \in 1..Len(es) : es[i] \in Event /\ es[i].seq \in Nat
  BY EventFields
<1>1. S \in SUBSET Nat /\ S # {}
  <2>1. Len(es) + 1 \in S
    BY LenProperties
  <2>2. QED
    BY <2>1
<1>2. PICK k \in S : \A n \in S : k <= n
  <2> HIDE DEF S
  <2>1. QED
    BY <1>1, LeastNat
<1>3. k - 1 \in 0..Len(es)
  BY <1>2, LenProperties
<1>4. ASSUME NEW i \in 1..Len(es) PROVE es[i].seq >= from <=> i > k - 1
  <2>1. CASE i < k
    BY <1>2, <2>1
  <2>2. CASE i >= k
    <3>1. k # Len(es) + 1
      BY <2>2, LenProperties
    <3>2. k \in 1..Len(es) /\ es[k].seq >= from
      BY <1>2, <3>1
    <3>3. es[k].seq <= es[i].seq
      BY <1>0, <2>2, <3>2 DEF Increasing
    <3>4. QED
      BY <1>0, <2>2, <3>2, <3>3
  <2>3. QED
    BY <1>2, <2>1, <2>2
<1>5. QED
  BY <1>3, <1>4

\* Replay returns that suffix.
LEMMA ReplayIsSuffix ==
  ASSUME events \in Seq(Event), Increasing(events), NEW from \in Nat
  PROVE  \E m \in 0..Len(events) :
           /\ \A i \in 1..Len(events) : events[i].seq >= from <=> i > m
           /\ Replay(from) = [j \in 1..(Len(events) - m) |-> events[m + j]]
<1>1. PICK m \in 0..Len(events) : \A i \in 1..Len(events) : events[i].seq >= from <=> i > m
  BY Threshold
<1> DEFINE g == [i \in 0..Len(events) |-> [j \in 1..(i - m) |-> events[m + j]]]
           k == CHOOSE k : IsKept(k, events, from)
<1>2. IsKept(g, events, from)
  <2>1. ASSUME NEW i \in 0..Len(events), i >= m
        PROVE  g[i] \in Seq(Event) /\ Len(g[i]) = i - m
    BY <2>1
  <2>2. ASSUME NEW i \in 0..Len(events), i <= m
        PROVE  g[i] = <<>>
    <3>1. 1..(i - m) = {}
      BY <2>2
    <3>2. QED
      BY <3>1
  <2>3. ASSUME NEW i \in 0..Len(events), i # 0
        PROVE  g[i] = IF events[i].seq >= from THEN Append(g[i - 1], events[i]) ELSE g[i - 1]
    <3>0. i \in 1..Len(events) /\ i - 1 \in 0..Len(events)
      BY <2>3
    <3>1. CASE i > m
      <4>1. events[i].seq >= from
        BY <1>1, <2>3, <3>1
      <4>2. g[i - 1] \in Seq(Event) /\ Len(g[i - 1]) = i - 1 - m
        BY <3>0, <3>1, <2>1
      <4>3. g[i] \in Seq(Event) /\ Len(g[i]) = i - m
        BY <3>0, <3>1, <2>1
      <4>4. \A j \in 1..(i - 1 - m) : g[i][j] = events[m + j] /\ g[i - 1][j] = events[m + j]
        BY <3>0, <3>1
      <4>5. g[i][i - m] = events[i]
        BY <3>0, <3>1
      <4>6. g[i] = Append(g[i - 1], events[i])
        <5> HIDE DEF g
        <5>1. PICK a \in Seq(Event) : a = g[i - 1]
          BY <4>2
        <5>2. PICK b \in Seq(Event) : b = g[i]
          BY <4>3
        <5>3. PICK n \in Nat : n = i - m /\ n >= 1 /\ Len(a) = n - 1 /\ Len(b) = n
          BY <3>0, <3>1, <4>2, <4>3, <5>1, <5>2
        <5>4. /\ \A j \in 1..(n - 1) : b[j] = a[j]
              /\ b[n] = events[i]
          BY <4>4, <4>5, <5>1, <5>2, <5>3
        <5>5. events[i] \in Event
          BY <3>0
        <5>6. b = Append(a, events[i])
          BY <5>3, <5>4, <5>5
        <5>7. QED
          BY <5>1, <5>2, <5>6
      <4>7. QED
        BY <4>1, <4>6
    <3>2. CASE ~(i > m)
      <4>1. ~(events[i].seq >= from)
        BY <1>1, <2>3, <3>2
      <4>2. g[i] = g[i - 1]
        BY <3>0, <2>2, <3>2
      <4>3. QED
        BY <4>1, <4>2
    <3>3. QED
      BY <3>1, <3>2
  <2>4. g[0] = <<>>
    BY <2>2, LenProperties
  <2>5. QED
    BY <2>3, <2>4 DEF IsKept
<1>3. IsKept(k, events, from)
  BY <1>2
<1>4. k = g
  BY <1>2, <1>3, KeptUnique, LenProperties
<1>5. Replay(from) = k[Len(events)]
  BY DEF Replay, IsKept
<1>6. Replay(from) = [j \in 1..(Len(events) - m) |-> events[m + j]]
  <2> HIDE DEF k
  <2>1. Replay(from) = g[Len(events)]
    BY <1>4, <1>5
  <2>2. QED
    BY <2>1, LenProperties
<1>7. QED
  BY <1>1, <1>6

\* What Subscribe needs to know of its backlog.
LEMMA ReplayProperties ==
  ASSUME events \in Seq(Event), Increasing(events), NEW from \in Nat
  PROVE  /\ Replay(from) \in Seq(Event)
         /\ Len(Replay(from)) = Cardinality({i \in DOMAIN events : events[i].seq >= from})
         /\ \A i \in DOMAIN Replay(from) : Replay(from)[i] \in ToSet(events)
         /\ Increasing(Replay(from))
<1>1. PICK m \in 0..Len(events) :
           /\ \A i \in 1..Len(events) : events[i].seq >= from <=> i > m
           /\ Replay(from) = [j \in 1..(Len(events) - m) |-> events[m + j]]
  BY ReplayIsSuffix
<1>2. Len(events) \in Nat /\ DOMAIN events = 1..Len(events)
  BY LenProperties
<1>3. Replay(from) \in Seq(Event) /\ Len(Replay(from)) = Len(events) - m
  BY <1>1
<1>4. {i \in DOMAIN events : events[i].seq >= from} = (m + 1)..Len(events)
  BY <1>1, <1>2, SMTT(40)
<1>5. Cardinality((m + 1)..Len(events)) = Len(events) - m
  <2>1. PICK L \in Nat : L = Len(events)
    BY <1>2
  <2>2. Cardinality((m + 1)..L) = L - m
    <3>1. m + 1 \in Int /\ L \in Int /\ m <= L
      BY <2>1
    <3>2. Cardinality((m + 1)..L) = IF m + 1 > L THEN 0 ELSE L - (m + 1) + 1
      BY <3>1, FS_Interval
    <3>3. QED
      BY <3>1, <3>2
  <2>3. QED
    BY <2>1, <2>2
<1>6. \A i \in DOMAIN Replay(from) : Replay(from)[i] \in ToSet(events)
  BY <1>1, <1>2 DEF ToSet
<1>7. Increasing(Replay(from))
  BY <1>1, <1>2 DEF Increasing
<1>8. QED
  BY <1>3, <1>4, <1>5, <1>6, <1>7

\* Types.
JTypeOK ==
  /\ kind \in {"memory", "file"}
  /\ mode \in {"open", "closed", "refused"}
  /\ events \in Seq(Event)
  /\ file \in Seq(Event)
  /\ next \in Nat
  /\ emitted \in 0..EventBound
  /\ restarts \in Nat
  /\ torn \in BOOLEAN
  /\ fileOpen \in BOOLEAN
  /\ acked \subseteq Event
  /\ pc \in [Producer -> {"idle", "deliver"}]
  /\ ev \in [Producer -> Event]
  /\ targets \in [Producer -> SUBSET Sub]
  /\ subs \subseteq Sub
  /\ closing \subseteq Sub
  /\ sub \in [Sub -> Subscription]
  /\ since \in [Sub -> Nat]
  /\ got \in [Sub -> Seq(Event)]

\* p is inside Append.
Busy(p) == pc[p] # "idle"

\* Sequences grow along the journal and along the file and stay below the counters;
\* ids tell Append calls apart.
Numbered ==
  /\ Increasing(events)
  /\ Increasing(file)
  /\ next <= emitted
  /\ \A i \in DOMAIN events : events[i].seq < next /\ events[i].id <= emitted
  /\ \A i \in DOMAIN file : file[i].seq < emitted /\ file[i].id <= emitted

\* The event of an Append under way is in memory, under an id of its own, and is owed
\* to subscriptions only while the Append runs.
Producers ==
  \A p \in Producer :
    /\ Busy(p) => mode # "refused" /\ ev[p] \in ToSet(events)
    /\ \A q \in Producer : Busy(p) /\ Busy(q) /\ p # q => ev[p].id # ev[q].id
    /\ ~Busy(p) => targets[p] = {}

\* File.Append is exclusive, finds its file open, and its event comes after every line.
Writing ==
  Durable =>
    /\ \A p, q \in Producer : Busy(p) /\ Busy(q) => p = q
    /\ \A p \in Producer : Busy(p) =>
         fileOpen /\ \A i \in DOMAIN file : file[i].seq < ev[p].seq
    /\ mode = "open" => fileOpen

\* Memory indexes every line; what was acknowledged is on disk, or in memory for a
\* journal without a file.
Kept ==
  /\ mode # "refused" => ToSet(file) \subseteq ToSet(events)
  /\ Durable /\ ~torn => acked \subseteq ToSet(file)
  /\ ~Durable /\ restarts = 0 => mode # "refused" /\ acked \subseteq ToSet(events)

\* The subscription is in use and its closed flag is not set.
Held(s) == sub[s].at \in {"sending", "open"} /\ ~sub[s].marked

\* What Memory knows of a subscription and what the subscription is.
Subscribed ==
  \A s \in Sub :
    /\ sub[s].at = "none" =>
         /\ sub[s] = NoSubscription
         /\ got[s] = <<>>
         /\ s \notin subs
         /\ InFlight(s) = {}
    /\ sub[s].at # "none" => since[s] <= next
    /\ sub[s].at = "closed" => sub[s].marked
    /\ mode = "open" /\ Held(s) => s \in subs
    /\ IsFiniteSet(InFlight(s))

\* DeliveredOrCounted, with what keeps an event from being delivered twice: ids are
\* fresh, and an event still in flight to a subscription is not among what it has.
Delivery ==
  \A s \in Sub :
    /\ \A i, j \in DOMAIN Owed(s) : Owed(s)[i] = Owed(s)[j] => i = j
    /\ \A i \in DOMAIN Owed(s) : Owed(s)[i].id <= emitted
    /\ \A p \in InFlight(s) : \A i \in DOMAIN Owed(s) : Owed(s)[i] # ev[p]
    /\ Held(s) =>
         Cardinality({i \in DOMAIN events : events[i].seq >= since[s]}) =
           Len(Owed(s)) + sub[s].dropped + Cardinality(InFlight(s))

\* The inductive invariant.
CoreInv == Numbered /\ Producers /\ Writing /\ Kept
JournalInv == JTypeOK /\ CoreInv /\ Subscribed /\ Delivery

\* What the journal itself keeps, without its subscriptions.
coreVars == <<kind, mode, events, next, file, torn, fileOpen, pc, ev, acked, emitted, restarts>>

\* Membership in a sequence after an Append.
LEMMA ToSetAppend ==
  ASSUME NEW S, NEW es \in Seq(S), NEW e \in S
  PROVE  /\ Append(es, e) \in Seq(S)
         /\ ToSet(Append(es, e)) = ToSet(es) \union {e}
<1>1. DOMAIN es = 1..Len(es) /\ Len(es) \in Nat
  BY LenProperties
<1>2. /\ Append(es, e) \in Seq(S)
      /\ DOMAIN Append(es, e) = 1..(Len(es) + 1)
      /\ Append(es, e)[Len(es) + 1] = e
      /\ \A i \in 1..Len(es) : Append(es, e)[i] = es[i]
  BY AppendProperties
<1>3. 1..(Len(es) + 1) = 1..Len(es) \union {Len(es) + 1}
  BY <1>1
<1>4. QED
  BY <1>1, <1>2, <1>3 DEF ToSet

\* A member of a sequence has an index.
LEMMA ToSetMember ==
  ASSUME NEW S, NEW es \in Seq(S), NEW e \in ToSet(es)
  PROVE  e \in S /\ \E i \in DOMAIN es : es[i] = e
BY DEF ToSet

\* An event above all sequences keeps a sequence increasing.
LEMMA IncreasingAppend ==
  ASSUME NEW es \in Seq(Event), NEW e \in Event, Increasing(es),
         \A i \in DOMAIN es : es[i].seq < e.seq
  PROVE  Increasing(Append(es, e))
<1>1. DOMAIN es = 1..Len(es) /\ Len(es) \in Nat
  BY LenProperties
<1>2. /\ DOMAIN Append(es, e) = 1..(Len(es) + 1)
      /\ Append(es, e)[Len(es) + 1] = e
      /\ \A i \in 1..Len(es) : Append(es, e)[i] = es[i]
  BY AppendProperties
<1> SUFFICES ASSUME NEW i \in 1..(Len(es) + 1), NEW j \in 1..(Len(es) + 1), i < j
             PROVE  Append(es, e)[i].seq < Append(es, e)[j].seq
  BY <1>2 DEF Increasing
<1>3. i \in 1..Len(es)
  BY <1>1
<1>4. CASE j = Len(es) + 1
  BY <1>1, <1>2, <1>3, <1>4
<1>5. CASE j # Len(es) + 1
  <2>1. j \in 1..Len(es)
    BY <1>1, <1>5
  <2>2. QED
    BY <1>1, <1>2, <1>3, <2>1 DEF Increasing
<1>6. QED
  BY <1>4, <1>5

\* The sequences of an appended log.
LEMMA AppendBounded ==
  ASSUME NEW es \in Seq(Event), NEW e \in Event, NEW m, NEW n,
         \A i \in DOMAIN es : es[i].seq < m /\ es[i].id <= n,
         e.seq < m /\ e.id <= n
  PROVE  \A i \in DOMAIN Append(es, e) : Append(es, e)[i].seq < m /\ Append(es, e)[i].id <= n
<1>1. DOMAIN es = 1..Len(es) /\ Len(es) \in Nat
  BY LenProperties
<1>2. /\ DOMAIN Append(es, e) = 1..(Len(es) + 1)
      /\ Append(es, e)[Len(es) + 1] = e
      /\ \A i \in 1..Len(es) : Append(es, e)[i] = es[i]
  BY AppendProperties
<1>3. \A i \in 1..(Len(es) + 1) : i = Len(es) + 1 \/ i \in 1..Len(es)
  BY <1>1
<1>4. QED
  BY <1>1, <1>2, <1>3

\* A busy producer's event is below the counters.
LEMMA BusyEvent ==
  ASSUME JTypeOK, CoreInv, NEW p \in Producer, Busy(p)
  PROVE  ev[p] \in Event /\ ev[p].seq < next /\ ev[p].id <= emitted /\ ev[p].seq < emitted
<1>1. ev[p] \in ToSet(events) /\ events \in Seq(Event)
  BY DEF JTypeOK, CoreInv, Producers
<1>2. PICK i \in DOMAIN events : events[i] = ev[p]
  BY <1>1, ToSetMember
<1>3. ev[p] \in Event
  BY <1>1, ToSetMember
<1>4. ev[p].seq \in Nat /\ next \in Nat /\ emitted \in Nat
  BY <1>3, EventFields, JournalAssumption DEF JTypeOK
<1>5. ev[p].seq < next /\ ev[p].id <= emitted /\ next <= emitted
  BY <1>2 DEF CoreInv, Numbered
<1>6. QED
  BY <1>3, <1>4, <1>5

\* The critical section of appendAssigned keeps CoreInv.
LEMMA CoreAppendAssigned ==
  ASSUME JTypeOK, CoreInv, NEW p \in Producer, AppendAssigned(p)
  PROVE  CoreInv'
<1> DEFINE e == [seq |-> next, id |-> emitted + 1]
<1>1. /\ mode = "open" /\ mode' = mode /\ pc[p] = "idle" /\ ~FileLocked
      /\ emitted' = emitted + 1
      /\ events' = Append(events, e)
      /\ next' = next + 1
      /\ pc' = [pc EXCEPT ![p] = "deliver"]
      /\ ev' = [ev EXCEPT ![p] = e]
      /\ targets' = [targets EXCEPT ![p] = Recipients]
      /\ UNCHANGED <<kind, file, torn, fileOpen, acked, restarts>>
  BY DEF AppendAssigned, fileVars
<1>2. e \in Event /\ next \in Nat /\ emitted \in Nat /\ next <= emitted /\ emitted < EventBound
  BY JournalAssumption DEF AppendAssigned, JTypeOK, CoreInv, Numbered, Event
<1>3. events \in Seq(Event) /\ file \in Seq(Event)
  BY DEF JTypeOK
<1>4. \A i \in DOMAIN events : events[i].seq < next /\ events[i].id <= emitted
  BY DEF CoreInv, Numbered
<1>5. \A i \in DOMAIN events : events[i] \in Event /\ events[i].seq \in Nat /\ events[i].id \in Nat
  BY <1>3, EventFields
<1>6. /\ e.seq = next /\ e.id = emitted + 1
  OBVIOUS
<1> HIDE DEF e
<1>7. Numbered'
  <2>1. Increasing(events')
    BY <1>1, <1>2, <1>3, <1>4, <1>6, IncreasingAppend DEF CoreInv, Numbered
  <2>2. Increasing(file')
    BY <1>1 DEF CoreInv, Numbered
  <2>3. \A i \in DOMAIN events : events[i].seq < next + 1 /\ events[i].id <= emitted + 1
    BY <1>2, <1>4, <1>5
  <2>4. e.seq < next + 1 /\ e.id <= emitted + 1
    BY <1>2, <1>6
  <2>5. \A i \in DOMAIN events' : events'[i].seq < next' /\ events'[i].id <= emitted'
    BY <1>1, <1>2, <1>3, <2>3, <2>4, AppendBounded
  <2>6. ASSUME NEW i \in DOMAIN file PROVE file[i].seq < emitted + 1 /\ file[i].id <= emitted + 1
    <3>1. file[i] \in Event /\ file[i].seq \in Nat /\ file[i].id \in Nat
      BY <1>3, EventFields
    <3>2. file[i].seq < emitted /\ file[i].id <= emitted
      BY DEF CoreInv, Numbered
    <3>3. QED
      BY <1>2, <3>1, <3>2
  <2>7. \A i \in DOMAIN file' : file'[i].seq < emitted' /\ file'[i].id <= emitted'
    BY <1>1, <2>6
  <2>8. next' <= emitted'
    BY <1>1, <1>2
  <2>9. QED
    BY <2>1, <2>2, <2>5, <2>7, <2>8 DEF Numbered
<1>8. ToSet(events') = ToSet(events) \union {e}
  BY <1>1, <1>2, <1>3, ToSetAppend
<1>9. Producers'
  <2> SUFFICES ASSUME NEW r \in Producer
               PROVE  /\ Busy(r)' => mode' # "refused" /\ ev'[r] \in ToSet(events')
                      /\ \A q \in Producer :
                           Busy(r)' /\ Busy(q)' /\ r # q => ev'[r].id # ev'[q].id
                      /\ ~Busy(r)' => targets'[r] = {}
    BY DEF Producers
  <2>1. \A q \in Producer : /\ q # p => pc'[q] = pc[q] /\ ev'[q] = ev[q] /\ targets'[q] = targets[q]
                            /\ q = p => pc'[q] = "deliver" /\ ev'[q] = e
    BY <1>1 DEF JTypeOK
  <2>2. \A q \in Producer : Busy(q) => ev[q].id # e.id
    <3>1. SUFFICES ASSUME NEW q \in Producer, Busy(q) PROVE ev[q].id # e.id
      OBVIOUS
    <3>2. ev[q] \in Event /\ ev[q].id <= emitted
      BY <3>1, BusyEvent
    <3>3. ev[q].id \in Nat
      BY <3>2, EventFields
    <3>4. QED
      BY <1>2, <1>6, <3>2, <3>3
  <2>3. Busy(r)' => mode' # "refused" /\ ev'[r] \in ToSet(events')
    BY <1>1, <1>8, <2>1 DEF CoreInv, Producers, Busy
  <2>4. \A q \in Producer : Busy(r)' /\ Busy(q)' /\ r # q => ev'[r].id # ev'[q].id
    BY <2>1, <2>2 DEF CoreInv, Producers, Busy
  <2>5. ~Busy(r)' => targets'[r] = {}
    BY <2>1 DEF CoreInv, Producers, Busy
  <2>6. QED
    BY <2>3, <2>4, <2>5
<1>10. \A i \in DOMAIN file : file[i].seq < next
  <2> SUFFICES ASSUME NEW i \in DOMAIN file PROVE file[i].seq < next
    OBVIOUS
  <2>1. file[i] \in ToSet(events)
    BY <1>1 DEF CoreInv, Kept, ToSet
  <2>2. PICK j \in DOMAIN events : events[j] = file[i]
    BY <2>1, <1>3, ToSetMember
  <2>3. QED
    BY <1>4, <2>2
<1>11. Writing'
  BY <1>1, <1>6, <1>10 DEF Writing, CoreInv, Durable, FileLocked, Busy, JTypeOK
<1>12. Kept'
  BY <1>1, <1>8 DEF CoreInv, Kept, Durable
<1>13. QED
  BY <1>7, <1>9, <1>11, <1>12 DEF CoreInv

\* What a write leaves: the line at the end of the file, or the file as it was.
LEMMA WriteLeaves ==
  ASSUME NEW e, NEW o \in WriteOutcome(e), torn \in BOOLEAN
  PROVE  /\ o.torn \in BOOLEAN
         /\ torn => o.torn
         /\ \/ o.file = file /\ (o.ok => o.torn)
            \/ o.file = Append(file, e) /\ ~torn /\ ~o.torn
<1>1. CASE o = [ok |-> TRUE, file |-> IF torn THEN file ELSE Append(file, e), torn |-> torn]
  <2>1. o.ok = TRUE /\ o.torn = torn /\ o.file = IF torn THEN file ELSE Append(file, e)
    BY <1>1
  <2>2. QED
    BY <2>1
<1>2. CASE o = [ok |-> FALSE, file |-> file, torn |-> torn]
  BY <1>2
<1>3. CASE o = [ok |-> FALSE, file |-> file, torn |-> TRUE]
  BY <1>3
<1>4. QED
  BY <1>1, <1>2, <1>3 DEF WriteOutcome

\* A line that is added keeps the file increasing.
LEMMA FileGrows ==
  ASSUME JTypeOK, CoreInv, NEW p \in Producer, Busy(p), Durable
  PROVE  /\ Append(file, ev[p]) \in Seq(Event)
         /\ Increasing(Append(file, ev[p]))
         /\ \A i \in DOMAIN Append(file, ev[p]) :
              Append(file, ev[p])[i].seq < emitted /\ Append(file, ev[p])[i].id <= emitted
         /\ ToSet(Append(file, ev[p])) = ToSet(file) \union {ev[p]}
<1>1. file \in Seq(Event)
  BY DEF JTypeOK
<1>2. ev[p] \in Event /\ ev[p].seq < emitted /\ ev[p].id <= emitted
  BY BusyEvent
<1>3. Increasing(file) /\ \A i \in DOMAIN file : file[i].seq < emitted /\ file[i].id <= emitted
  BY DEF CoreInv, Numbered
<1>4. \A i \in DOMAIN file : file[i].seq < ev[p].seq
  BY DEF CoreInv, Writing
<1>5. QED
  BY <1>1, <1>2, <1>3, <1>4, ToSetAppend, IncreasingAppend, AppendBounded

\* The end of Append, with or without a failed write, keeps CoreInv.
LEMMA CoreFinish ==
  ASSUME JTypeOK, CoreInv, NEW p \in Producer, Finish(p)
  PROVE  CoreInv'
<1>1. /\ pc[p] = "deliver" /\ targets[p] = {}
      /\ pc' = [pc EXCEPT ![p] = "idle"]
      /\ ev' = [ev EXCEPT ![p] = NoEvent]
      /\ UNCHANGED <<kind, mode, events, next, fileOpen, targets, emitted, restarts>>
  BY DEF Finish, memVars
<1>2. Busy(p) /\ mode # "refused" /\ ev[p] \in ToSet(events)
  BY <1>1 DEF CoreInv, Producers, Busy
<1>3. /\ torn \in BOOLEAN /\ file \in Seq(Event)
      /\ \A q \in Producer : pc[q] \in {"idle", "deliver"}
  BY DEF JTypeOK
<1>4. \A q \in Producer : /\ q # p => pc'[q] = pc[q] /\ ev'[q] = ev[q]
                          /\ ~Busy(p)'
  BY <1>1, <1>3 DEF JTypeOK, Busy
<1>5. Producers'
  BY <1>1, <1>4 DEF CoreInv, Producers, Busy
<1>6. CASE ~Durable
  <2>1. acked' = acked \union {ev[p]} /\ file' = file /\ torn' = torn
    BY <1>6 DEF Finish
  <2>2. Numbered'
    BY <1>1, <2>1 DEF CoreInv, Numbered
  <2>3. Writing'
    BY <1>1, <1>6 DEF Writing, Durable
  <2>4. Kept'
    BY <1>1, <1>2, <1>6, <2>1 DEF CoreInv, Kept, Durable
  <2>5. QED
    BY <1>5, <2>2, <2>3, <2>4 DEF CoreInv
<1>7. CASE Durable
  <2>1. PICK o \in WriteOutcome(ev[p]) :
            /\ file' = o.file
            /\ torn' = o.torn
            /\ acked' = IF o.ok THEN acked \union {ev[p]} ELSE acked
    BY <1>7 DEF Finish
  <2>2. /\ o.torn \in BOOLEAN
        /\ torn => o.torn
        /\ \/ o.file = file /\ (o.ok => o.torn)
           \/ o.file = Append(file, ev[p]) /\ ~torn /\ ~o.torn
    BY <1>3, WriteLeaves
  <2>3. \A q \in Producer : ~Busy(q)'
    BY <1>2, <1>4, <1>7 DEF CoreInv, Writing, Busy
  <2>4. Writing'
    BY <1>1, <2>3 DEF CoreInv, Writing, Durable
  <2>5. CASE o.file = file /\ (o.ok => o.torn)
    <3>1. Numbered'
      BY <1>1, <2>1, <2>5 DEF CoreInv, Numbered
    <3>2. Kept'
      BY <1>1, <1>7, <2>1, <2>2, <2>5 DEF CoreInv, Kept, Durable
    <3>3. QED
      BY <1>5, <2>4, <3>1, <3>2 DEF CoreInv
  <2>6. CASE o.file = Append(file, ev[p]) /\ ~torn /\ ~o.torn
    <3>1. /\ Increasing(file')
          /\ \A i \in DOMAIN file' : file'[i].seq < emitted' /\ file'[i].id <= emitted'
          /\ ToSet(file') = ToSet(file) \union {ev[p]}
      BY <1>1, <1>2, <1>7, <2>1, <2>6, FileGrows
    <3>2. Numbered'
      BY <1>1, <3>1 DEF CoreInv, Numbered
    <3>3. Kept'
      BY <1>1, <1>2, <1>7, <2>1, <2>6, <3>1 DEF CoreInv, Kept, Durable
    <3>4. QED
      BY <1>5, <2>4, <3>2, <3>3 DEF CoreInv
  <2>7. QED
    BY <2>2, <2>5, <2>6
<1>8. QED
  BY <1>6, <1>7

\* What a restart finds in the file.
LEMMA RestartFinds ==
  ASSUME JTypeOK, CoreInv, Restart
  PROVE  /\ torn' \in BOOLEAN /\ file' \in Seq(Event)
         /\ torn => torn'
         /\ Increasing(file')
         /\ \A i \in DOMAIN file' : file'[i].seq < emitted /\ file'[i].id <= emitted
         /\ \/ file' = file
            \/ \E p \in Producer : Busy(p) /\ Durable /\ file' = Append(file, ev[p])
         /\ ToSet(file) \subseteq ToSet(file')
         /\ ~Durable => file' = file /\ torn' = torn
<1> DEFINE writing == {p \in Producer : Durable /\ pc[p] = "deliver" /\ targets[p] = {}}
<1>1. PICK o \in (UNION {WriteOutcome(ev[p]) : p \in writing}) \union {[file |-> file, torn |-> torn]} :
         file' = o.file /\ torn' = o.torn
  BY DEF Restart
<1>2. file \in Seq(Event) /\ torn \in BOOLEAN
  BY DEF JTypeOK
<1>3. CASE o = [file |-> file, torn |-> torn]
  <2>1. file' = file /\ torn' = torn
    BY <1>1, <1>3
  <2>2. QED
    BY <1>2, <2>1 DEF CoreInv, Numbered
<1>4. CASE o # [file |-> file, torn |-> torn]
  <2>1. PICK p \in writing : o \in WriteOutcome(ev[p])
    BY <1>1, <1>4
  <2>2. p \in Producer /\ Busy(p) /\ Durable
    BY <2>1 DEF Busy
  <2>3. /\ o.torn \in BOOLEAN
        /\ torn => o.torn
        /\ \/ o.file = file /\ (o.ok => o.torn)
           \/ o.file = Append(file, ev[p]) /\ ~torn /\ ~o.torn
    BY <1>2, <2>1, WriteLeaves
  <2>4. CASE o.file = file
    BY <1>1, <1>2, <2>2, <2>3, <2>4 DEF CoreInv, Numbered
  <2>5. CASE o.file = Append(file, ev[p])
    <3>1. /\ Append(file, ev[p]) \in Seq(Event)
          /\ Increasing(Append(file, ev[p]))
          /\ \A i \in DOMAIN Append(file, ev[p]) :
               Append(file, ev[p])[i].seq < emitted /\ Append(file, ev[p])[i].id <= emitted
          /\ ToSet(Append(file, ev[p])) = ToSet(file) \union {ev[p]}
      BY <2>2, FileGrows
    <3>2. QED
      BY <1>1, <2>2, <2>3, <2>5, <3>1
  <2>6. QED
    BY <2>3, <2>4, <2>5
<1>5. QED
  BY <1>3, <1>4

\* A restart keeps CoreInv: the index is rebuilt from increasing lines.
LEMMA CoreRestart ==
  ASSUME JTypeOK, CoreInv, Restart
  PROVE  CoreInv'
<1>1. /\ torn' \in BOOLEAN /\ file' \in Seq(Event)
      /\ torn => torn'
      /\ Increasing(file')
      /\ \A i \in DOMAIN file' : file'[i].seq < emitted /\ file'[i].id <= emitted
      /\ ToSet(file) \subseteq ToSet(file')
      /\ ~Durable => file' = file /\ torn' = torn
  BY RestartFinds
<1>2. /\ restarts' = restarts + 1
      /\ mode' = IF torn' THEN "refused" ELSE "open"
      /\ events' = IF torn' THEN <<>> ELSE Load(file').events
      /\ next' = IF torn' THEN 0 ELSE Load(file').next
      /\ fileOpen' = (Durable /\ ~torn')
      /\ pc' = [p \in Producer |-> "idle"]
      /\ ev' = [p \in Producer |-> NoEvent]
      /\ targets' = [p \in Producer |-> {}]
      /\ UNCHANGED <<kind, acked, emitted>>
  BY DEF Restart
<1>3. PICK lines \in Seq(Event) : lines = file'
  BY <1>1
<1>4. /\ Load(lines).events = lines
      /\ Load(lines).next = IF lines = <<>> THEN 0 ELSE lines[Len(lines)].seq + 1
  BY <1>1, <1>3, LoadOfIncreasing
<1>5. \A p \in Producer : ~Busy(p)' /\ targets'[p] = {}
  BY <1>2 DEF Busy
<1>6. emitted \in Nat /\ restarts \in Nat
  BY JournalAssumption DEF JTypeOK
<1>7. Numbered'
  <2>1. CASE torn'
    <3>1. events' = <<>> /\ next' = 0
      BY <1>2, <2>1
    <3>2. Increasing(events') /\ \A i \in DOMAIN events' : events'[i].seq < next' /\ events'[i].id <= emitted'
      BY <3>1 DEF Increasing
    <3>3. next' <= emitted'
      BY <1>2, <1>6, <3>1
    <3>4. QED
      BY <1>1, <1>2, <3>2, <3>3 DEF Numbered
  <2>2. CASE ~torn'
    <3>1. events' = lines /\ next' = IF lines = <<>> THEN 0 ELSE lines[Len(lines)].seq + 1
      BY <1>2, <1>3, <1>4, <2>2
    <3>2. \A i \in DOMAIN lines : lines[i].seq < emitted /\ lines[i].id <= emitted
      BY <1>1, <1>3
    <3>3. DOMAIN lines = 1..Len(lines) /\ Len(lines) \in Nat
      BY LenProperties
    <3>4. \A i \in DOMAIN lines : lines[i] \in Event /\ lines[i].seq \in Nat
      BY EventFields
    <3>5. next' <= emitted'
      <4>1. CASE lines = <<>>
        BY <1>2, <1>6, <3>1, <4>1
      <4>2. CASE lines # <<>>
        <5>1. Len(lines) \in DOMAIN lines
          BY <3>3, <4>2, EmptySeq
        <5>2. QED
          BY <1>2, <1>6, <3>1, <3>2, <3>4, <4>2, <5>1
      <4>3. QED
        BY <4>1, <4>2
    <3>6. ASSUME NEW i \in DOMAIN lines PROVE lines[i].seq < next'
      <4>1. Len(lines) \in DOMAIN lines /\ lines # <<>>
        BY <3>3, EmptySeq
      <4>2. i = Len(lines) \/ lines[i].seq < lines[Len(lines)].seq
        BY <1>1, <1>3, <3>3, <4>1 DEF Increasing
      <4>3. QED
        BY <3>1, <3>4, <4>1, <4>2
    <3>7. QED
      BY <1>1, <1>2, <1>3, <3>1, <3>2, <3>5, <3>6 DEF Numbered
  <2>3. QED
    BY <1>1, <2>1, <2>2
<1>8. Producers'
  BY <1>5 DEF Producers
<1>9. Writing'
  BY <1>2, <1>5 DEF Writing, Durable
<1>10. Kept'
  <2>1. mode' # "refused" => ToSet(file') \subseteq ToSet(events')
    BY <1>1, <1>2, <1>3, <1>4
  <2>2. restarts' # 0
    BY <1>2, <1>6
  <2>3. QED
    BY <1>1, <1>2, <2>1, <2>2 DEF CoreInv, Kept, Durable
<1>11. QED
  BY <1>7, <1>8, <1>9, <1>10 DEF CoreInv

\* The other actions leave CoreInv alone.
LEMMA CoreRest ==
  ASSUME JTypeOK, CoreInv,
         \/ \E p \in Producer, s \in Sub : Deliver(p, s)
         \/ \E s \in Sub : Subscribing(s)
         \/ Close
         \/ CloseFile
         \/ UNCHANGED jvars
  PROVE  CoreInv'
<1>1. CASE UNCHANGED <<coreVars, targets>>
  BY <1>1 DEF coreVars, CoreInv, Numbered, Producers, Writing, Kept, Durable, Busy
<1>2. CASE \E p \in Producer, s \in Sub : Deliver(p, s)
  <2>1. PICK p \in Producer, s \in Sub : Deliver(p, s)
    BY <1>2
  <2>2. UNCHANGED coreVars /\ pc[p] = "deliver" /\ targets' = [targets EXCEPT ![p] = targets[p] \ {s}]
    BY <2>1 DEF Deliver, coreVars, memVars, fileVars, countVars
  <2>3. \A q \in Producer : ~Busy(q) => targets'[q] = targets[q]
    BY <2>2 DEF Busy, JTypeOK
  <2>4. QED
    BY <2>2, <2>3 DEF coreVars, CoreInv, Numbered, Producers, Writing, Kept, Durable, Busy
<1>3. CASE \E s \in Sub : Subscribing(s)
  <2>1. UNCHANGED <<coreVars, targets>>
    BY <1>3 DEF Subscribing, Subscribe, SendBacklog, SubscribeReturn, ReceiveEvent, MarkClosed,
                CloseChannel, coreVars, memVars, fileVars, prodVars, countVars
  <2>2. QED
    BY <1>1, <2>1, SMTT(40)
<1>4. CASE Close
  <2>1. /\ UNCHANGED <<kind, events, next, file, torn, fileOpen, pc, ev, targets, acked, emitted, restarts>>
        /\ mode = "open" /\ mode' = "closed"
    BY <1>4 DEF Close, fileVars, prodVars, countVars
  <2>2. QED
    BY <2>1 DEF CoreInv, Numbered, Producers, Writing, Kept, Durable, Busy
<1>5. CASE CloseFile
  <2>1. /\ UNCHANGED <<kind, mode, events, next, file, torn, pc, ev, targets, acked, emitted, restarts>>
        /\ mode = "closed" /\ ~FileLocked
    BY <1>5 DEF CloseFile, memVars, prodVars, countVars
  <2>2. QED
    BY <2>1 DEF CoreInv, Numbered, Producers, Writing, Kept, Durable, Busy, FileLocked
<1>6. CASE UNCHANGED jvars
  BY <1>1, <1>6 DEF jvars, coreVars, memVars, fileVars, prodVars, countVars
<1>7. QED
  BY <1>2, <1>3, <1>4, <1>5, <1>6

(***************************************************************************)
(* Types.                                                                  *)
(***************************************************************************)
\* The fields of a subscription.
LEMMA SubscriptionFields ==
  ASSUME NEW r \in Subscription
  PROVE  /\ r.at \in {"none", "sending", "open", "closed", "panicked"}
         /\ r.marked \in BOOLEAN
         /\ r.ch \in Seq(Event)
         /\ r.cap \in Nat
         /\ r.backlog \in Seq(Event)
         /\ r.dropped \in Nat
BY DEF Subscription

\* A subscription with one field replaced.
LEMMA SubscriptionUpdates ==
  ASSUME NEW r \in Subscription
  PROVE  /\ \A c \in Seq(Event) :
              [r EXCEPT !.ch = c] \in Subscription
              /\ [r EXCEPT !.ch = c] =
                   [at |-> r.at, marked |-> r.marked, ch |-> c, cap |-> r.cap,
                    backlog |-> r.backlog, dropped |-> r.dropped]
         /\ \A n \in Nat :
              [r EXCEPT !.dropped = n] \in Subscription
              /\ [r EXCEPT !.dropped = n] =
                   [at |-> r.at, marked |-> r.marked, ch |-> r.ch, cap |-> r.cap,
                    backlog |-> r.backlog, dropped |-> n]
         /\ \A a \in {"none", "sending", "open", "closed", "panicked"} :
              [r EXCEPT !.at = a] \in Subscription
              /\ [r EXCEPT !.at = a] =
                   [at |-> a, marked |-> r.marked, ch |-> r.ch, cap |-> r.cap,
                    backlog |-> r.backlog, dropped |-> r.dropped]
         /\ \A b \in BOOLEAN :
              [r EXCEPT !.marked = b] \in Subscription
              /\ [r EXCEPT !.marked = b] =
                   [at |-> r.at, marked |-> b, ch |-> r.ch, cap |-> r.cap,
                    backlog |-> r.backlog, dropped |-> r.dropped]
BY DEF Subscription

\* A subscription with two fields replaced.
LEMMA TwoUpdates ==
  ASSUME NEW r \in Subscription, NEW c, NEW b
  PROVE  [[r EXCEPT !.ch = c] EXCEPT !.backlog = b]
           = [at |-> r.at, marked |-> r.marked, ch |-> c, cap |-> r.cap,
              backlog |-> b, dropped |-> r.dropped]
<1>1. PICK a, m, h, k, l, d : r = [at |-> a, marked |-> m, ch |-> h, cap |-> k, backlog |-> l, dropped |-> d]
  BY DEF Subscription
<1>2. PICK q : q = [r EXCEPT !.ch = c]
  OBVIOUS
<1>3. q = [at |-> a, marked |-> m, ch |-> c, cap |-> k, backlog |-> l, dropped |-> d]
  BY <1>1, <1>2
<1>4. [q EXCEPT !.backlog = b] = [at |-> a, marked |-> m, ch |-> c, cap |-> k, backlog |-> b, dropped |-> d]
  BY <1>3
<1>5. a = r.at /\ m = r.marked /\ k = r.cap /\ d = r.dropped
  BY <1>1
<1>6. QED
  BY <1>2, <1>4, <1>5

\* The subscription that Subscribe makes.
LEMMA FreshSubscription ==
  ASSUME NEW b, NEW n
  PROVE  [NoSubscription EXCEPT !.at = "sending", !.backlog = b, !.cap = n]
           = [at |-> "sending", marked |-> FALSE, ch |-> <<>>, cap |-> n,
              backlog |-> b, dropped |-> 0]
<1>1. PICK f, e : f = FALSE /\ e = <<>>
  OBVIOUS
<1>2. PICK r : r = NoSubscription
  OBVIOUS
<1>3. r = [at |-> "none", marked |-> f, ch |-> e, cap |-> 0, backlog |-> e, dropped |-> 0]
  BY <1>1, <1>2 DEF NoSubscription
<1>4. PICK q : q = [r EXCEPT !.at = "sending"]
  OBVIOUS
<1>5. q = [at |-> "sending", marked |-> f, ch |-> e, cap |-> 0, backlog |-> e, dropped |-> 0]
  BY <1>3, <1>4
<1>6. PICK u : u = [q EXCEPT !.backlog = b]
  OBVIOUS
<1>7. u = [at |-> "sending", marked |-> f, ch |-> e, cap |-> 0, backlog |-> b, dropped |-> 0]
  BY <1>5, <1>6
<1>8. [u EXCEPT !.cap = n] = [at |-> "sending", marked |-> f, ch |-> e, cap |-> n, backlog |-> b, dropped |-> 0]
  BY <1>7
<1>9. [NoSubscription EXCEPT !.at = "sending", !.backlog = b, !.cap = n] = [u EXCEPT !.cap = n]
  BY <1>2, <1>4, <1>6
<1>10. QED
  BY <1>1, <1>8, <1>9

\* The empty subscription is a subscription.
LEMMA NoSubscriptionType == NoSubscription \in Subscription
BY DEF NoSubscription, Subscription

\* A table of subscriptions with one replaced.
LEMMA SubTyped ==
  ASSUME sub \in [Sub -> Subscription], NEW s \in Sub, NEW r \in Subscription,
         sub' = [sub EXCEPT ![s] = r]
  PROVE  /\ sub' \in [Sub -> Subscription]
         /\ sub'[s] = r
         /\ \A t \in Sub : t # s => sub'[t] = sub[t]
OBVIOUS

\* What each action on one subscription makes of it.
LEMMA DeliverEffect ==
  ASSUME JTypeOK, NEW p \in Producer, NEW s \in Sub, Deliver(p, s)
  PROVE  \/ sub[s].marked /\ sub' = sub
         \/ /\ ~sub[s].marked
            /\ Append(sub[s].ch, ev[p]) \in Seq(Event)
            /\ sub' = [sub EXCEPT ![s] =
                 [at |-> sub[s].at, marked |-> sub[s].marked, ch |-> Append(sub[s].ch, ev[p]),
                  cap |-> sub[s].cap, backlog |-> sub[s].backlog, dropped |-> sub[s].dropped]]
         \/ /\ ~sub[s].marked
            /\ sub' = [sub EXCEPT ![s] =
                 [at |-> sub[s].at, marked |-> sub[s].marked, ch |-> sub[s].ch,
                  cap |-> sub[s].cap, backlog |-> sub[s].backlog, dropped |-> sub[s].dropped + 1]]
<1>1. sub[s] \in Subscription /\ ev[p] \in Event
  BY DEF JTypeOK
<1>2. Append(sub[s].ch, ev[p]) \in Seq(Event) /\ sub[s].dropped + 1 \in Nat
  BY <1>1, SubscriptionFields, AppendProperties
<1>3. /\ [sub[s] EXCEPT !.ch = Append(sub[s].ch, ev[p])] =
           [at |-> sub[s].at, marked |-> sub[s].marked, ch |-> Append(sub[s].ch, ev[p]),
            cap |-> sub[s].cap, backlog |-> sub[s].backlog, dropped |-> sub[s].dropped]
      /\ [sub[s] EXCEPT !.dropped = sub[s].dropped + 1] =
           [at |-> sub[s].at, marked |-> sub[s].marked, ch |-> sub[s].ch,
            cap |-> sub[s].cap, backlog |-> sub[s].backlog, dropped |-> sub[s].dropped + 1]
  BY <1>1, <1>2, SubscriptionUpdates
<1>4. \/ sub[s].marked /\ sub' = sub
      \/ ~sub[s].marked /\ sub' = [sub EXCEPT ![s] = [sub[s] EXCEPT !.ch = Append(sub[s].ch, ev[p])]]
      \/ ~sub[s].marked /\ sub' = [sub EXCEPT ![s] = [sub[s] EXCEPT !.dropped = sub[s].dropped + 1]]
  BY DEF Deliver
<1>5. QED
  BY <1>2, <1>3, <1>4

\* The step makes r of subscription s.
SubStep(s, r) == r \in Subscription /\ sub' = [sub EXCEPT ![s] = r]

\* What Subscribe makes of a subscription.
LEMMA SubscribeEffect ==
  ASSUME JTypeOK, Increasing(events), NEW s \in Sub, NEW from \in Nat, Subscribe(s, from)
  PROVE  SubStep(s, [at |-> "sending", marked |-> FALSE, ch |-> <<>>, cap |-> Len(Replay(from)) + Room,
                     backlog |-> Replay(from), dropped |-> 0])
<1>1. Replay(from) \in Seq(Event)
  BY ReplayProperties DEF JTypeOK
<1>2. Len(Replay(from)) \in Nat
  BY <1>1, LenProperties
<1>3. [NoSubscription EXCEPT !.at = "sending", !.backlog = Replay(from),
                             !.cap = Len(Replay(from)) + Room]
      = [at |-> "sending", marked |-> FALSE, ch |-> <<>>, cap |-> Len(Replay(from)) + Room,
         backlog |-> Replay(from), dropped |-> 0]
  BY FreshSubscription
<1>4. [at |-> "sending", marked |-> FALSE, ch |-> <<>>, cap |-> Len(Replay(from)) + Room,
         backlog |-> Replay(from), dropped |-> 0] \in Subscription
  <2>1. Len(Replay(from)) + Room \in Nat
    BY <1>2, JournalAssumption
  <2>2. <<>> \in Seq(Event)
    OBVIOUS
  <2>3. QED
    BY <1>1, <2>1, <2>2 DEF Subscription
<1>5. QED
  BY <1>3, <1>4 DEF Subscribe, SubStep

\* What a backlog send makes of a subscription.
LEMMA SendBacklogEffect ==
  ASSUME JTypeOK, NEW s \in Sub, SendBacklog(s)
  PROVE  SubStep(s, [at |-> sub[s].at, marked |-> sub[s].marked,
                     ch |-> Append(sub[s].ch, Head(sub[s].backlog)), cap |-> sub[s].cap,
                     backlog |-> Tail(sub[s].backlog), dropped |-> sub[s].dropped])
<1>1. sub[s] \in Subscription /\ sub \in [Sub -> Subscription] /\ sub[s].backlog # <<>>
  BY DEF JTypeOK, SendBacklog
<1>2. /\ sub[s].at \in {"none", "sending", "open", "closed", "panicked"}
      /\ sub[s].marked \in BOOLEAN
      /\ sub[s].ch \in Seq(Event)
      /\ sub[s].cap \in Nat
      /\ sub[s].backlog \in Seq(Event)
      /\ sub[s].dropped \in Nat
  BY <1>1, SubscriptionFields
<1>3. Head(sub[s].backlog) \in Event /\ Tail(sub[s].backlog) \in Seq(Event)
  BY <1>1, <1>2, HeadTailProperties
<1>4. Append(sub[s].ch, Head(sub[s].backlog)) \in Seq(Event)
  BY <1>2, <1>3, AppendProperties
<1>5. [sub EXCEPT ![s].ch = Append(@, Head(sub[s].backlog)), ![s].backlog = Tail(@)]
      = [sub EXCEPT ![s] = [[sub[s] EXCEPT !.ch = Append(sub[s].ch, Head(sub[s].backlog))]
                              EXCEPT !.backlog = Tail(sub[s].backlog)]]
  BY <1>1 DEF Subscription
<1>6. [[sub[s] EXCEPT !.ch = Append(sub[s].ch, Head(sub[s].backlog))]
                              EXCEPT !.backlog = Tail(sub[s].backlog)]
      = [at |-> sub[s].at, marked |-> sub[s].marked,
                     ch |-> Append(sub[s].ch, Head(sub[s].backlog)), cap |-> sub[s].cap,
                     backlog |-> Tail(sub[s].backlog), dropped |-> sub[s].dropped]
  BY <1>1, TwoUpdates
<1>7. [at |-> sub[s].at, marked |-> sub[s].marked,
                     ch |-> Append(sub[s].ch, Head(sub[s].backlog)), cap |-> sub[s].cap,
                     backlog |-> Tail(sub[s].backlog), dropped |-> sub[s].dropped] \in Subscription
  BY <1>2, <1>3, <1>4 DEF Subscription
<1>8. QED
  BY <1>5, <1>6, <1>7 DEF SendBacklog, SubStep

\* What the other actions make of a subscription.
LEMMA OtherEffects ==
  ASSUME JTypeOK, NEW s \in Sub
  PROVE  /\ SubscribeReturn(s) =>
              SubStep(s, [at |-> "open", marked |-> sub[s].marked, ch |-> sub[s].ch, cap |-> sub[s].cap,
                          backlog |-> sub[s].backlog, dropped |-> sub[s].dropped])
         /\ ReceiveEvent(s) =>
              /\ sub[s].ch \in Seq(Event) /\ Head(sub[s].ch) \in Event
              /\ SubStep(s, [at |-> sub[s].at, marked |-> sub[s].marked, ch |-> Tail(sub[s].ch),
                          cap |-> sub[s].cap, backlog |-> sub[s].backlog, dropped |-> sub[s].dropped])
         /\ MarkClosed(s) =>
              SubStep(s, [at |-> sub[s].at, marked |-> TRUE, ch |-> sub[s].ch, cap |-> sub[s].cap,
                          backlog |-> sub[s].backlog, dropped |-> sub[s].dropped])
         /\ CloseChannel(s) =>
              SubStep(s, [at |-> IF sub[s].backlog = <<>> THEN "closed" ELSE "panicked",
                          marked |-> sub[s].marked, ch |-> sub[s].ch, cap |-> sub[s].cap,
                          backlog |-> sub[s].backlog, dropped |-> sub[s].dropped])
<1>1. sub[s] \in Subscription /\ sub \in [Sub -> Subscription]
  BY DEF JTypeOK
<1>2. ASSUME SubscribeReturn(s)
      PROVE SubStep(s, [at |-> "open", marked |-> sub[s].marked, ch |-> sub[s].ch, cap |-> sub[s].cap,
                          backlog |-> sub[s].backlog, dropped |-> sub[s].dropped])
  <2>1. sub' = [sub EXCEPT ![s] = [sub[s] EXCEPT !.at = "open"]]
    BY <1>2 DEF SubscribeReturn
  <2>2. QED
    BY <1>1, <2>1, SubscriptionUpdates, ZenonT(60) DEF SubStep
<1>3. ASSUME ReceiveEvent(s)
      PROVE /\ sub[s].ch \in Seq(Event) /\ Head(sub[s].ch) \in Event
            /\ SubStep(s, [at |-> sub[s].at, marked |-> sub[s].marked, ch |-> Tail(sub[s].ch),
                          cap |-> sub[s].cap, backlog |-> sub[s].backlog, dropped |-> sub[s].dropped])
  <2>1. sub' = [sub EXCEPT ![s] = [sub[s] EXCEPT !.ch = Tail(sub[s].ch)]] /\ sub[s].ch # <<>>
    BY <1>3 DEF ReceiveEvent
  <2>2. sub[s].ch \in Seq(Event)
    BY <1>1, SubscriptionFields
  <2>3. Head(sub[s].ch) \in Event /\ Tail(sub[s].ch) \in Seq(Event)
    BY <2>1, <2>2, HeadTailProperties
  <2>4. QED
    BY <1>1, <2>1, <2>2, <2>3, SubscriptionUpdates, ZenonT(60) DEF SubStep
<1>4. ASSUME MarkClosed(s)
      PROVE SubStep(s, [at |-> sub[s].at, marked |-> TRUE, ch |-> sub[s].ch, cap |-> sub[s].cap,
                          backlog |-> sub[s].backlog, dropped |-> sub[s].dropped])
  <2>1. sub' = [sub EXCEPT ![s] = [sub[s] EXCEPT !.marked = TRUE]]
    BY <1>4 DEF MarkClosed
  <2>2. QED
    BY <1>1, <2>1, SubscriptionUpdates DEF SubStep
<1>5. ASSUME CloseChannel(s)
      PROVE SubStep(s, [at |-> IF sub[s].backlog = <<>> THEN "closed" ELSE "panicked",
                          marked |-> sub[s].marked, ch |-> sub[s].ch, cap |-> sub[s].cap,
                          backlog |-> sub[s].backlog, dropped |-> sub[s].dropped])
  <2> DEFINE a == IF sub[s].backlog = <<>> THEN "closed" ELSE "panicked"
  <2>1. sub' = [sub EXCEPT ![s] = [sub[s] EXCEPT !.at = a]]
    BY <1>5 DEF CloseChannel
  <2>2. a \in {"none", "sending", "open", "closed", "panicked"}
    OBVIOUS
  <2> HIDE DEF a
  <2>3. SubStep(s, [at |-> a, marked |-> sub[s].marked, ch |-> sub[s].ch, cap |-> sub[s].cap,
                          backlog |-> sub[s].backlog, dropped |-> sub[s].dropped])
    <3>1. PICK x \in {"none", "sending", "open", "closed", "panicked"} : x = a
      BY <2>2
    <3>2. /\ [sub[s] EXCEPT !.at = x] \in Subscription
          /\ [sub[s] EXCEPT !.at = x] =
                   [at |-> x, marked |-> sub[s].marked, ch |-> sub[s].ch, cap |-> sub[s].cap,
                    backlog |-> sub[s].backlog, dropped |-> sub[s].dropped]
      BY <1>1, SubscriptionUpdates
    <3>3. QED
      BY <2>1, <3>1, <3>2 DEF SubStep
  <2>4. QED
    BY <2>3 DEF a
<1>6. QED
  BY <1>2, <1>3, <1>4, <1>5

\* Sequences that grow in the middle.
LEMMA MoveHead ==
  ASSUME NEW a \in Seq(Event), NEW b \in Seq(Event), b # <<>>
  PROVE  Append(a, Head(b)) \o Tail(b) = a \o b
<1>1. /\ Head(b) \in Event /\ Tail(b) \in Seq(Event) /\ Len(Tail(b)) = Len(b) - 1
      /\ \A i \in 1..Len(Tail(b)) : Tail(b)[i] = b[i + 1]
      /\ Len(b) \in Nat /\ Len(b) >= 1 /\ Len(a) \in Nat
  BY HeadTailProperties, LenProperties, EmptySeq
<1>2. Head(b) = b[1]
  BY SMT
<1>3. PICK h \in Event : h = Head(b)
  BY <1>1
<1>4. PICK t \in Seq(Event) : t = Tail(b)
  BY <1>1
<1>5. Append(a, h) \o t = a \o b
  BY <1>1, <1>2, <1>3, <1>4, SMTT(40)
<1>6. QED
  BY <1>3, <1>4, <1>5

\* Appending to the second of two sequences.
LEMMA AppendConcat ==
  ASSUME NEW a \in Seq(Event), NEW b \in Seq(Event), NEW e \in Event
  PROVE  a \o Append(b, e) = Append(a \o b, e)
OBVIOUS

\* x is a followed by e and b, y is a followed by b.
Inserted(a, b, e, x, y) == x = Append(a, e) \o b /\ y = a \o b

\* A new element inserted into a sequence without duplicates gives one without
\* duplicates (a live event overtakes the backlog that is still to be sent).
LEMMA InsertEvent ==
  ASSUME NEW a \in Seq(Event), NEW b \in Seq(Event), NEW e \in Event,
         NEW x, NEW y, Inserted(a, b, e, x, y)
  PROVE  /\ x \in Seq(Event)
         /\ Len(x) = Len(y) + 1
         /\ \A i \in DOMAIN x : x[i] = e \/ \E j \in DOMAIN y : x[i] = y[j]
         /\ ((\A i, j \in DOMAIN y : y[i] = y[j] => i = j) /\ (\A i \in DOMAIN y : y[i] # e)
            => \A i, j \in DOMAIN x : x[i] = x[j] => i = j)
<1>1. PICK m \in Nat : m = Len(a)
  BY LenProperties
<1>2. PICK n \in Nat : n = Len(b)
  BY LenProperties
<1>3. x \in Seq(Event) /\ x = Append(a, e) \o b
  BY ConcatProperties, AppendProperties DEF Inserted
<1>4. y \in Seq(Event) /\ y = a \o b
  BY ConcatProperties DEF Inserted
<1>5. /\ Len(x) = m + n + 1 /\ DOMAIN x = 1..(m + n + 1)
      /\ Len(y) = m + n /\ DOMAIN y = 1..(m + n)
  BY <1>1, <1>2, <1>3, <1>4
<1>6. /\ \A i \in 1..m : x[i] = y[i]
      /\ x[m + 1] = e
      /\ \A i \in (m + 2)..(m + n + 1) : x[i] = y[i - 1]
  BY <1>1, <1>2, <1>3, <1>4
<1>7. \A i \in DOMAIN x : x[i] = e \/ \E j \in DOMAIN y : x[i] = y[j]
  <2> SUFFICES ASSUME NEW i \in DOMAIN x, i # m + 1 PROVE \E j \in DOMAIN y : x[i] = y[j]
    BY <1>6
  <2>1. CASE i \in 1..m
    BY <1>5, <1>6, <2>1
  <2>2. CASE i \in (m + 2)..(m + n + 1)
    <3>1. i - 1 \in DOMAIN y /\ x[i] = y[i - 1]
      BY <1>5, <1>6, <2>2
    <3>2. QED
      BY <3>1
  <2>3. QED
    BY <1>5, <2>1, <2>2
<1>8. ASSUME \A i, j \in DOMAIN y : y[i] = y[j] => i = j, \A i \in DOMAIN y : y[i] # e
      PROVE  \A i, j \in DOMAIN x : x[i] = x[j] => i = j
  <2> DEFINE f(i) == IF i <= m THEN i ELSE i - 1
  <2>1. \A i \in DOMAIN x : i # m + 1 => f(i) \in DOMAIN y /\ x[i] = y[f(i)]
    BY <1>5, <1>6
  <2>2. \A i, j \in DOMAIN x : i # m + 1 /\ j # m + 1 /\ f(i) = f(j) => i = j
    BY <1>5
  <2>3. \A i \in DOMAIN x : x[i] = e <=> i = m + 1
    BY <1>6, <1>8, <2>1
  <2> HIDE DEF f
  <2>4. QED
    BY <1>8, <2>1, <2>2, <2>3
<1>9. QED
  BY <1>3, <1>4, <1>5, <1>7, <1>8

\* What a consumer with g, holding r, has or will have.
OwedOf(g, r) == g \o r.ch \o r.backlog

\* Types of what a subscription is owed.
LEMMA OwedTyped ==
  ASSUME JTypeOK, NEW s \in Sub
  PROVE  /\ Owed(s) \in Seq(Event)
         /\ got[s] \in Seq(Event) /\ sub[s] \in Subscription
         /\ sub[s].ch \in Seq(Event) /\ sub[s].backlog \in Seq(Event)
         /\ sub[s].dropped \in Nat
         /\ got[s] \o sub[s].ch \in Seq(Event)
<1>1. got[s] \in Seq(Event) /\ sub[s] \in Subscription
  BY DEF JTypeOK
<1>2. sub[s].ch \in Seq(Event) /\ sub[s].backlog \in Seq(Event) /\ sub[s].dropped \in Nat
  BY <1>1, SubscriptionFields
<1>3. got[s] \o sub[s].ch \in Seq(Event)
  BY <1>1, <1>2, ConcatProperties
<1>4. QED
  BY <1>1, <1>2, <1>3, ConcatProperties DEF Owed

\* A step on one subscription that takes nothing from it and gives nothing to it.
LEMMA QuietStep ==
  ASSUME JTypeOK, Subscribed, Delivery, NEW s \in Sub, NEW r, SubStep(s, r),
         UNCHANGED <<mode, events, next, ev, targets, emitted, since>>,
         \A t \in Sub : t # s => got'[t] = got[t] /\ (t \in subs' <=> t \in subs),
         OwedOf(got'[s], r) = Owed(s),
         r.dropped = sub[s].dropped,
         sub[s].at # "none" /\ r.at # "none",
         r.at = "closed" => r.marked,
         r.at \in {"sending", "open"} /\ ~r.marked => Held(s) /\ (s \in subs => s \in subs')
  PROVE  Subscribed' /\ Delivery'
<1>1. /\ sub'[s] = r
      /\ \A t \in Sub : t # s => sub'[t] = sub[t]
  BY SubTyped DEF SubStep, JTypeOK
<1>2. \A t \in Sub : InFlight(t)' = InFlight(t)
  BY DEF InFlight
<1>3. \A t \in Sub : Owed(t)' = Owed(t)
  BY <1>1 DEF Owed, OwedOf
<1>4. \A t \in Sub : sub'[t].dropped = sub[t].dropped /\ since'[t] = since[t]
  BY <1>1
<1>5. \A t \in Sub : Held(t)' => Held(t)
  BY <1>1 DEF Held
<1>6. Subscribed'
  <2> SUFFICES ASSUME NEW t \in Sub
               PROVE  /\ sub'[t].at = "none" =>
                           /\ sub'[t] = NoSubscription
                           /\ got'[t] = <<>>
                           /\ t \notin subs'
                           /\ InFlight(t)' = {}
                      /\ sub'[t].at # "none" => since'[t] <= next'
                      /\ sub'[t].at = "closed" => sub'[t].marked
                      /\ mode' = "open" /\ Held(t)' => t \in subs'
                      /\ IsFiniteSet(InFlight(t)')
    BY DEF Subscribed
  <2>1. CASE t # s
    BY <1>1, <1>2, <1>4, <1>5, <2>1 DEF Subscribed
  <2>2. CASE t = s
    BY <1>1, <1>2, <1>4, <1>5, <2>2 DEF Subscribed, Held
  <2>3. QED
    BY <2>1, <2>2
<1>7. Delivery'
  <2> SUFFICES ASSUME NEW t \in Sub
               PROVE  /\ \A i, j \in DOMAIN Owed(t)' : Owed(t)'[i] = Owed(t)'[j] => i = j
                      /\ \A i \in DOMAIN Owed(t)' : Owed(t)'[i].id <= emitted'
                      /\ \A p \in InFlight(t)' : \A i \in DOMAIN Owed(t)' : Owed(t)'[i] # ev'[p]
                      /\ Held(t)' =>
                           Cardinality({i \in DOMAIN events' : events'[i].seq >= since'[t]}) =
                             Len(Owed(t)') + sub'[t].dropped + Cardinality(InFlight(t)')
    BY DEF Delivery
  <2>1. PICK o : o = Owed(t)
    OBVIOUS
  <2>2. PICK Q : Q = InFlight(t)
    OBVIOUS
  <2>3. Owed(t)' = o /\ InFlight(t)' = Q
    BY <1>2, <1>3, <2>1, <2>2
  <2>4. /\ \A i, j \in DOMAIN o : o[i] = o[j] => i = j
        /\ \A i \in DOMAIN o : o[i].id <= emitted
        /\ \A p \in Q : \A i \in DOMAIN o : o[i] # ev[p]
    BY <2>1, <2>2 DEF Delivery
  <2>5. Held(t) => Cardinality({i \in DOMAIN events : events[i].seq >= since[t]}) =
                     Len(o) + sub[t].dropped + Cardinality(Q)
    BY <2>1, <2>2 DEF Delivery
  <2>6. Held(t)' => Cardinality({i \in DOMAIN events' : events'[i].seq >= since'[t]}) =
                      Len(o) + sub'[t].dropped + Cardinality(Q)
    BY <1>4, <1>5, <2>5
  <2>7. QED
    BY <2>3, <2>4, <2>6
<1>8. QED
  BY <1>6, <1>7

\* Moving events along a subscription, and closing it, keep Subscribed and Delivery.
LEMMA QuietActions ==
  ASSUME JTypeOK, Subscribed, Delivery, NEW s \in Sub,
         SendBacklog(s) \/ SubscribeReturn(s) \/ ReceiveEvent(s) \/ MarkClosed(s) \/ CloseChannel(s)
  PROVE  Subscribed' /\ Delivery'
<1>1. /\ Owed(s) \in Seq(Event)
      /\ got[s] \in Seq(Event) /\ sub[s] \in Subscription
      /\ sub[s].ch \in Seq(Event) /\ sub[s].backlog \in Seq(Event)
      /\ got[s] \o sub[s].ch \in Seq(Event)
  BY OwedTyped
<1>2. sub[s].at = "closed" => sub[s].marked
  BY DEF Subscribed
<1>3. CASE SendBacklog(s)
  <2> DEFINE r == [at |-> sub[s].at, marked |-> sub[s].marked,
                   ch |-> Append(sub[s].ch, Head(sub[s].backlog)), cap |-> sub[s].cap,
                   backlog |-> Tail(sub[s].backlog), dropped |-> sub[s].dropped]
  <2>1. SubStep(s, r)
    BY <1>3, SendBacklogEffect
  <2>2. sub[s].at = "sending" /\ sub[s].backlog # <<>>
        /\ UNCHANGED <<mode, events, next, subs, ev, targets, emitted, since, got>>
    BY <1>3, SMTT(40) DEF SendBacklog, memVars, prodVars, countVars
  <2>3. OwedOf(got'[s], r) = Owed(s)
    <3>1. Head(sub[s].backlog) \in Event
      BY <1>1, <2>2, HeadTailProperties
    <3>2. got[s] \o Append(sub[s].ch, Head(sub[s].backlog))
            = Append(got[s] \o sub[s].ch, Head(sub[s].backlog))
      BY <1>1, <3>1, AppendConcat
    <3>3. Append(got[s] \o sub[s].ch, Head(sub[s].backlog)) \o Tail(sub[s].backlog)
            = (got[s] \o sub[s].ch) \o sub[s].backlog
      BY <1>1, <2>2, MoveHead
    <3>4. OwedOf(got[s], r) = (got[s] \o Append(sub[s].ch, Head(sub[s].backlog))) \o Tail(sub[s].backlog)
      BY DEF OwedOf
    <3>5. QED
      BY <2>2, <3>2, <3>3, <3>4 DEF Owed
  <2>4. r.at = sub[s].at /\ r.marked = sub[s].marked /\ r.dropped = sub[s].dropped
    OBVIOUS
  <2> HIDE DEF r
  <2>5. QED
    BY <1>2, <2>1, <2>2, <2>3, <2>4, QuietStep DEF Held
<1>4. CASE SubscribeReturn(s)
  <2> DEFINE r == [at |-> "open", marked |-> sub[s].marked, ch |-> sub[s].ch, cap |-> sub[s].cap,
                          backlog |-> sub[s].backlog, dropped |-> sub[s].dropped]
  <2>1. SubStep(s, r)
    BY <1>4, OtherEffects
  <2>2. sub[s].at = "sending" 
        /\ UNCHANGED <<mode, events, next, subs, ev, targets, emitted, since, got>>
    BY <1>4 DEF SubscribeReturn, memVars, prodVars, countVars
  <2>3. OwedOf(got'[s], r) = Owed(s)
    BY <2>2 DEF Owed, OwedOf
  <2>4. r.at = "open" /\ r.marked = sub[s].marked /\ r.dropped = sub[s].dropped
    OBVIOUS
  <2> HIDE DEF r
  <2>5. QED
    BY <1>2, <2>1, <2>2, <2>3, <2>4, QuietStep DEF Held
<1>5. CASE ReceiveEvent(s)
  <2> DEFINE r == [at |-> sub[s].at, marked |-> sub[s].marked, ch |-> Tail(sub[s].ch),
                          cap |-> sub[s].cap, backlog |-> sub[s].backlog, dropped |-> sub[s].dropped]
  <2>1. SubStep(s, r)
    BY <1>5, OtherEffects
  <2>2. /\ sub[s].at \in {"open", "closed"} /\ sub[s].ch # <<>>
        /\ got' = [got EXCEPT ![s] = Append(got[s], Head(sub[s].ch))]
        /\ UNCHANGED <<mode, events, next, subs, ev, targets, emitted, since>>
    BY <1>5 DEF ReceiveEvent, memVars, prodVars, countVars
  <2>3. got'[s] = Append(got[s], Head(sub[s].ch)) /\ \A t \in Sub : t # s => got'[t] = got[t]
    BY <2>2 DEF JTypeOK
  <2>4. OwedOf(got'[s], r) = Owed(s)
    <3>1. Append(got[s], Head(sub[s].ch)) \o Tail(sub[s].ch) = got[s] \o sub[s].ch
      BY <1>1, <2>2, MoveHead
    <3>2. OwedOf(got'[s], r) = (Append(got[s], Head(sub[s].ch)) \o Tail(sub[s].ch)) \o sub[s].backlog
      BY <2>3 DEF OwedOf
    <3>3. QED
      BY <3>1, <3>2 DEF Owed
  <2>5. r.at = sub[s].at /\ r.marked = sub[s].marked /\ r.dropped = sub[s].dropped
    OBVIOUS
  <2> HIDE DEF r
  <2>6. QED
    BY <1>2, <2>1, <2>2, <2>3, <2>4, <2>5, QuietStep DEF Held
<1>6. CASE MarkClosed(s)
  <2> DEFINE r == [at |-> sub[s].at, marked |-> TRUE, ch |-> sub[s].ch, cap |-> sub[s].cap,
                          backlog |-> sub[s].backlog, dropped |-> sub[s].dropped]
  <2>1. SubStep(s, r)
    BY <1>6, OtherEffects
  <2>2. sub[s].at \in {"open", "sending"} 
        /\ UNCHANGED <<mode, events, next, subs, ev, targets, emitted, since, got>>
    BY <1>6 DEF MarkClosed, memVars, prodVars, countVars
  <2>3. OwedOf(got'[s], r) = Owed(s)
    BY <2>2 DEF Owed, OwedOf
  <2>4. r.at = sub[s].at /\ r.marked /\ r.dropped = sub[s].dropped
    OBVIOUS
  <2> HIDE DEF r
  <2>5. QED
    BY <1>2, <2>1, <2>2, <2>3, <2>4, QuietStep DEF Held
<1>7. CASE CloseChannel(s)
  <2> DEFINE r == [at |-> IF sub[s].backlog = <<>> THEN "closed" ELSE "panicked",
                          marked |-> sub[s].marked, ch |-> sub[s].ch, cap |-> sub[s].cap,
                          backlog |-> sub[s].backlog, dropped |-> sub[s].dropped]
  <2>1. SubStep(s, r)
    BY <1>7, OtherEffects
  <2>2. /\ sub[s].at \in {"open", "sending"} /\ sub[s].marked /\ subs' = subs \ {s}
        /\ UNCHANGED <<mode, events, next, ev, targets, emitted, since, got>>
    BY <1>7 DEF CloseChannel, prodVars, countVars
  <2>3. OwedOf(got'[s], r) = Owed(s)
    BY <2>2 DEF Owed, OwedOf
  <2>4. r.at \in {"closed", "panicked"} /\ r.marked = sub[s].marked /\ r.dropped = sub[s].dropped
    OBVIOUS
  <2> HIDE DEF r
  <2>5. QED
    BY <1>2, <2>1, <2>2, <2>3, <2>4, QuietStep DEF Held
<1>8. QED
  BY <1>3, <1>4, <1>5, <1>6, <1>7

\* The per-subscription parts of Subscribed and Delivery, with their state explicit.
SubscribedOf(r, g, from, listed, open, n, Q) ==
  /\ r.at = "none" => r = NoSubscription /\ g = <<>> /\ ~listed /\ Q = {}
  /\ r.at # "none" => from <= n
  /\ r.at = "closed" => r.marked
  /\ open /\ r.at \in {"sending", "open"} /\ ~r.marked => listed
  /\ IsFiniteSet(Q)

DeliveryOf(r, o, due, ids, e, Q) ==
  /\ \A i, j \in DOMAIN o : o[i] = o[j] => i = j
  /\ \A i \in DOMAIN o : o[i].id <= ids
  /\ \A p \in Q : \A i \in DOMAIN o : o[i] # e[p]
  /\ r.at \in {"sending", "open"} /\ ~r.marked =>
       Cardinality(due) = Len(o) + r.dropped + Cardinality(Q)

\* The events s is entitled to.
Due(s) == {i \in DOMAIN events : events[i].seq >= since[s]}

\* Subscribed and Delivery are conjunctions over the subscriptions.
LEMMA PartsAre ==
  /\ Subscribed <=>
       \A s \in Sub : SubscribedOf(sub[s], got[s], since[s], s \in subs, mode = "open", next, InFlight(s))
  /\ Delivery <=> \A s \in Sub : DeliveryOf(sub[s], Owed(s), Due(s), emitted, ev, InFlight(s))
BY DEF Subscribed, SubscribedOf, Delivery, DeliveryOf, Due, Held

\* The same in the next state.
LEMMA PartsArePrimed ==
  /\ Subscribed' <=>
       \A s \in Sub : SubscribedOf(sub'[s], got'[s], since'[s], s \in subs', mode' = "open", next', InFlight(s)')
  /\ Delivery' <=> \A s \in Sub : DeliveryOf(sub'[s], Owed(s)', Due(s)', emitted', ev', InFlight(s)')
BY DEF Subscribed, SubscribedOf, Delivery, DeliveryOf, Due, Held

\* A delivery takes its subscription off the list of its Append.
LEMMA DeliverInFlight ==
  ASSUME JTypeOK, NEW p \in Producer, NEW s \in Sub, Deliver(p, s)
  PROVE  /\ p \in InFlight(s)
         /\ InFlight(s)' = InFlight(s) \ {p}
         /\ \A t \in Sub : t # s => InFlight(t)' = InFlight(t)
<1>1. s \in targets[p] /\ targets' = [targets EXCEPT ![p] = targets[p] \ {s}]
  BY DEF Deliver
<1>2. \A q \in Producer : targets'[q] = IF q = p THEN targets[q] \ {s} ELSE targets[q]
  BY <1>1 DEF JTypeOK
<1>3. QED
  BY <1>1, <1>2 DEF InFlight

\* A delivery puts the event in the channel or counts it, and keeps Delivery.
LEMMA SubsDeliver ==
  ASSUME JTypeOK, CoreInv, Subscribed, Delivery, NEW p \in Producer, NEW s \in Sub, Deliver(p, s)
  PROVE  Subscribed' /\ Delivery'
<1>1. /\ p \in InFlight(s)
      /\ InFlight(s)' = InFlight(s) \ {p}
      /\ \A t \in Sub : t # s => InFlight(t)' = InFlight(t)
  BY DeliverInFlight
<1>2. UNCHANGED <<mode, events, next, subs, ev, since, got, emitted>> /\ pc[p] = "deliver"
  BY DEF Deliver, memVars, countVars
<1>3. /\ Owed(s) \in Seq(Event) /\ got[s] \in Seq(Event) /\ sub[s] \in Subscription
      /\ sub[s].ch \in Seq(Event) /\ sub[s].backlog \in Seq(Event) /\ sub[s].dropped \in Nat
      /\ got[s] \o sub[s].ch \in Seq(Event)
  BY OwedTyped
<1>4. ev[p] \in Event /\ ev[p].id <= emitted
  BY <1>2, BusyEvent DEF Busy
<1>5. PICK Q : Q = InFlight(s)
  OBVIOUS
<1>6. IsFiniteSet(Q) /\ p \in Q /\ Cardinality(Q) \in Nat
  BY <1>1, <1>5, FS_CardinalityType DEF Subscribed
<1>7. IsFiniteSet(Q \ {p}) /\ Cardinality(Q \ {p}) = Cardinality(Q) - 1
  BY <1>6, FS_RemoveElement
<1>8. sub[s].at # "none"
  BY <1>1 DEF Subscribed
<1>9. PICK o \in Seq(Event) : o = Owed(s)
  BY <1>3
<1>10. /\ \A i, j \in DOMAIN o : o[i] = o[j] => i = j
       /\ \A i \in DOMAIN o : o[i].id <= emitted
       /\ \A q \in Q : \A i \in DOMAIN o : o[i] # ev[q]
       /\ sub[s].at \in {"sending", "open"} /\ ~sub[s].marked =>
            Cardinality(Due(s)) = Len(o) + sub[s].dropped + Cardinality(Q)
       /\ Len(o) \in Nat
  BY <1>5, <1>9, LenProperties DEF Delivery, Held, Due
<1>11. \A q \in Q \ {p} : ev[q] # ev[p]
  BY <1>2, <1>5 DEF CoreInv, Producers, InFlight, Busy
<1>12. Due(s)' = Due(s) /\ \A t \in Sub : Due(t)' = Due(t)
  BY <1>2 DEF Due
<1>13. ASSUME NEW t \in Sub, t # s, sub'[t] = sub[t]
       PROVE  /\ SubscribedOf(sub'[t], got'[t], since'[t], t \in subs', mode' = "open", next', InFlight(t)')
              /\ DeliveryOf(sub'[t], Owed(t)', Due(t)', emitted', ev', InFlight(t)')
  <2>1. Owed(t)' = Owed(t)
    BY <1>2, <1>13 DEF Owed
  <2>2. /\ SubscribedOf(sub[t], got[t], since[t], t \in subs, mode = "open", next, InFlight(t))
        /\ DeliveryOf(sub[t], Owed(t), Due(t), emitted, ev, InFlight(t))
    BY PartsAre
  <2>3. QED
    BY <1>1, <1>2, <1>12, <1>13, <2>1, <2>2
<1>14. ASSUME NEW r \in Subscription, NEW x \in Seq(Event),
              sub'[s] = r, Owed(s)' = x, r.at = sub[s].at, r.marked = sub[s].marked,
              \A i, j \in DOMAIN x : x[i] = x[j] => i = j,
              \A i \in DOMAIN x : x[i] = ev[p] \/ \E j \in DOMAIN o : x[i] = o[j],
              r.at \in {"sending", "open"} /\ ~r.marked =>
                Len(x) + r.dropped = Len(o) + sub[s].dropped + 1,
              \A t \in Sub : t # s => sub'[t] = sub[t]
       PROVE  Subscribed' /\ Delivery'
  <2>1. SubscribedOf(sub'[s], got'[s], since'[s], s \in subs', mode' = "open", next', InFlight(s)')
    <3>1. SubscribedOf(sub[s], got[s], since[s], s \in subs, mode = "open", next, Q)
      BY <1>5, PartsAre
    <3>2. SubscribedOf(r, got[s], since[s], s \in subs, mode = "open", next, Q \ {p})
      BY <1>7, <1>8, <1>14, <3>1 DEF SubscribedOf
    <3>3. QED
      BY <1>1, <1>2, <1>5, <1>14, <3>2
  <2>2. \A i \in DOMAIN x : x[i].id <= emitted
    BY <1>4, <1>10, <1>14
  <2>3. \A q \in Q \ {p} : \A i \in DOMAIN x : x[i] # ev[q]
    BY <1>10, <1>11, <1>14
  <2>4. r.at \in {"sending", "open"} /\ ~r.marked =>
          Cardinality(Due(s)) = Len(x) + r.dropped + Cardinality(Q \ {p})
    <3>1. r.dropped \in Nat /\ Len(x) \in Nat
      BY SubscriptionFields, LenProperties
    <3>2. PICK m \in Nat, n \in Nat, d \in Nat, c \in Nat, k \in Nat :
             m = Len(x) /\ n = Len(o) /\ d = r.dropped /\ c = Cardinality(Q) /\ k = sub[s].dropped
      BY <1>3, <1>6, <1>10, <3>1
    <3>3. Cardinality(Q \ {p}) = c - 1
      BY <1>7, <3>2
    <3>4. ASSUME r.at \in {"sending", "open"} /\ ~r.marked
          PROVE  Cardinality(Due(s)) = n + k + c /\ m + d = n + k + 1
      BY <1>10, <1>14, <3>2, <3>4
    <3>5. ASSUME r.at \in {"sending", "open"} /\ ~r.marked
          PROVE  Cardinality(Due(s)) = m + d + (c - 1)
      BY <3>4, <3>5
    <3>6. QED
      BY <3>2, <3>3, <3>5
  <2>5. DeliveryOf(r, x, Due(s), emitted, ev, Q \ {p})
    BY <1>14, <2>2, <2>3, <2>4 DEF DeliveryOf
  <2>6. DeliveryOf(sub'[s], Owed(s)', Due(s)', emitted', ev', InFlight(s)')
    BY <1>1, <1>2, <1>5, <1>12, <1>14, <2>5
  <2>7. QED
    BY <1>13, <1>14, <2>1, <2>6, PartsArePrimed
<1>15. CASE sub[s].marked /\ sub' = sub
  <2>1. Owed(s)' = o /\ sub'[s] = sub[s]
    BY <1>2, <1>9, <1>15 DEF Owed
  <2>2. QED
    BY <1>3, <1>10, <1>14, <1>15, <2>1
<1>16. CASE /\ ~sub[s].marked
            /\ Append(sub[s].ch, ev[p]) \in Seq(Event)
            /\ sub' = [sub EXCEPT ![s] =
                 [at |-> sub[s].at, marked |-> sub[s].marked, ch |-> Append(sub[s].ch, ev[p]),
                  cap |-> sub[s].cap, backlog |-> sub[s].backlog, dropped |-> sub[s].dropped]]
  <2> DEFINE r == [at |-> sub[s].at, marked |-> sub[s].marked, ch |-> Append(sub[s].ch, ev[p]),
                  cap |-> sub[s].cap, backlog |-> sub[s].backlog, dropped |-> sub[s].dropped]
             x == Append(got[s] \o sub[s].ch, ev[p]) \o sub[s].backlog
  <2>1. r \in Subscription
    BY <1>3, <1>16, SubscriptionFields DEF Subscription
  <2>2. sub'[s] = r /\ \A t \in Sub : t # s => sub'[t] = sub[t]
    BY <1>16 DEF JTypeOK
  <2>3. r.at = sub[s].at /\ r.marked = sub[s].marked /\ r.dropped = sub[s].dropped
        /\ r.ch = Append(sub[s].ch, ev[p]) /\ r.backlog = sub[s].backlog
    OBVIOUS
  <2>4. o = (got[s] \o sub[s].ch) \o sub[s].backlog
    BY <1>9 DEF Owed
  <2>5. /\ x \in Seq(Event) /\ Len(x) = Len(o) + 1
        /\ \A i \in DOMAIN x : x[i] = ev[p] \/ \E j \in DOMAIN o : x[i] = o[j]
        /\ \A i, j \in DOMAIN x : x[i] = x[j] => i = j
    <3>1. PICK a \in Seq(Event) : a = got[s] \o sub[s].ch
      BY <1>3
    <3>2. PICK b \in Seq(Event) : b = sub[s].backlog
      BY <1>3
    <3>3. PICK e \in Event : e = ev[p]
      BY <1>4
    <3>4. PICK y : y = Append(a, e) \o b
      OBVIOUS
    <3>5. o = a \o b /\ x = y
      BY <2>4, <3>1, <3>2, <3>3, <3>4
    <3>6. (\A i, j \in DOMAIN o : o[i] = o[j] => i = j) /\ (\A i \in DOMAIN o : o[i] # e)
      BY <1>6, <1>10, <3>3
    <3> HIDE DEF x
    <3>7. /\ y \in Seq(Event)
          /\ Len(y) = Len(o) + 1
          /\ \A i \in DOMAIN y : y[i] = e \/ \E j \in DOMAIN o : y[i] = o[j]
          /\ ((\A i, j \in DOMAIN o : o[i] = o[j] => i = j) /\ (\A i \in DOMAIN o : o[i] # e)
              => \A i, j \in DOMAIN y : y[i] = y[j] => i = j)
      <4>1. Inserted(a, b, e, y, o)
        BY <3>4, <3>5 DEF Inserted
      <4>2. QED
        BY <4>1, InsertEvent, SMTT(40)
    <3>8. QED
      BY <3>3, <3>5, <3>6, <3>7
  <2> HIDE DEF r
  <2>6. Owed(s)' = x
    <3>1. got[s] \o Append(sub[s].ch, ev[p]) = Append(got[s] \o sub[s].ch, ev[p])
      BY <1>3, <1>4, AppendConcat
    <3>2. Owed(s)' = (got[s] \o r.ch) \o r.backlog
      BY <1>2, <2>2 DEF Owed
    <3>3. QED
      BY <2>3, <3>1, <3>2
  <2> HIDE DEF x
  <2>7. Len(x) + r.dropped = Len(o) + sub[s].dropped + 1
    <3>1. PICK n \in Nat : n = Len(o)
      BY <1>10
    <3>2. PICK d \in Nat : d = sub[s].dropped
      BY <1>3
    <3>3. Len(x) = n + 1 /\ r.dropped = d
      BY <2>3, <2>5, <3>1, <3>2
    <3>4. QED
      BY <3>1, <3>2, <3>3
  <2>8. QED
    BY <1>14, <2>1, <2>2, <2>3, <2>5, <2>6, <2>7
<1>17. CASE /\ ~sub[s].marked
            /\ sub' = [sub EXCEPT ![s] =
                 [at |-> sub[s].at, marked |-> sub[s].marked, ch |-> sub[s].ch,
                  cap |-> sub[s].cap, backlog |-> sub[s].backlog, dropped |-> sub[s].dropped + 1]]
  <2> DEFINE r == [at |-> sub[s].at, marked |-> sub[s].marked, ch |-> sub[s].ch,
                  cap |-> sub[s].cap, backlog |-> sub[s].backlog, dropped |-> sub[s].dropped + 1]
  <2>1. r \in Subscription
    BY <1>3, SubscriptionFields DEF Subscription
  <2>2. sub'[s] = r /\ \A t \in Sub : t # s => sub'[t] = sub[t]
    BY <1>17 DEF JTypeOK
  <2>3. r.at = sub[s].at /\ r.marked = sub[s].marked /\ r.dropped = sub[s].dropped + 1
        /\ r.ch = sub[s].ch /\ r.backlog = sub[s].backlog
    OBVIOUS
  <2> HIDE DEF r
  <2>4. Owed(s)' = o
    BY <1>2, <1>9, <2>2, <2>3 DEF Owed
  <2>5. Len(o) + r.dropped = Len(o) + sub[s].dropped + 1
    BY <1>3, <1>10, <2>3
  <2>6. QED
    BY <1>10, <1>14, <2>1, <2>2, <2>3, <2>4, <2>5
<1>18. QED
  BY <1>15, <1>16, <1>17, DeliverEffect

\* A new event is owed to every subscription that is entitled to it.
LEMMA SubsAppendAssigned ==
  ASSUME JTypeOK, CoreInv, Subscribed, Delivery, NEW p \in Producer, AppendAssigned(p)
  PROVE  Subscribed' /\ Delivery'
<1> DEFINE e == [seq |-> next, id |-> emitted + 1]
<1>1. /\ mode = "open" /\ pc[p] = "idle"
      /\ emitted' = emitted + 1
      /\ events' = Append(events, e)
      /\ next' = next + 1
      /\ ev' = [ev EXCEPT ![p] = e]
      /\ targets' = [targets EXCEPT ![p] = subs]
      /\ UNCHANGED <<mode, subs, sub, since, got>>
  BY DEF AppendAssigned, Recipients, subVars
<1>2. e \in Event /\ next \in Nat /\ emitted \in Nat /\ events \in Seq(Event)
  BY JournalAssumption DEF AppendAssigned, JTypeOK, CoreInv, Numbered, Event
<1>3. e.seq = next /\ e.id = emitted + 1
  OBVIOUS
<1> HIDE DEF e
<1>4. targets[p] = {}
  BY <1>1 DEF CoreInv, Producers, Busy
<1>5. ev'[p] = e /\ \A q \in Producer : q # p => ev'[q] = ev[q]
  BY <1>1 DEF JTypeOK
<1>6. \A q \in Producer : targets'[q] = IF q = p THEN subs ELSE targets[q]
  BY <1>1 DEF JTypeOK
<1> SUFFICES ASSUME NEW t \in Sub
             PROVE  /\ SubscribedOf(sub'[t], got'[t], since'[t], t \in subs', mode' = "open", next', InFlight(t)')
                    /\ DeliveryOf(sub'[t], Owed(t)', Due(t)', emitted', ev', InFlight(t)')
  BY PartsArePrimed
<1>7. PICK Q : Q = InFlight(t)
  OBVIOUS
<1>8. PICK R : R = InFlight(t)'
  OBVIOUS
<1>9. p \notin Q /\ R = IF t \in subs THEN Q \union {p} ELSE Q
  BY <1>4, <1>6, <1>7, <1>8 DEF InFlight
<1>10. SubscribedOf(sub[t], got[t], since[t], t \in subs, TRUE, next, Q)
       /\ DeliveryOf(sub[t], Owed(t), Due(t), emitted, ev, Q)
  BY <1>1, <1>7, PartsAre
<1>11. PICK o \in Seq(Event) : o = Owed(t)
  BY OwedTyped
<1>12. Owed(t)' = o
  BY <1>1, <1>11 DEF Owed
<1>13. /\ IsFiniteSet(Q) /\ Cardinality(Q) \in Nat
       /\ IsFiniteSet(R)
       /\ Cardinality(R) = IF t \in subs THEN Cardinality(Q) + 1 ELSE Cardinality(Q)
  <2>1. IsFiniteSet(Q)
    BY <1>10 DEF SubscribedOf
  <2>2. QED
    BY <2>1, <1>9, FS_AddElement, FS_CardinalityType
<1>14. since[t] \in Nat /\ sub[t].dropped \in Nat
  BY OwedTyped DEF JTypeOK
<1>15. SubscribedOf(sub'[t], got'[t], since'[t], t \in subs', mode' = "open", next', InFlight(t)')
  <2>1. SubscribedOf(sub[t], got[t], since[t], t \in subs, TRUE, next + 1, R)
    BY <1>2, <1>9, <1>10, <1>13, <1>14 DEF SubscribedOf
  <2>2. QED
    BY <1>1, <1>8, <2>1
<1>16. \A i \in DOMAIN o : o[i].id \in Nat /\ o[i].id <= emitted
  BY <1>10, <1>11, EventFields DEF DeliveryOf
<1>17. \A i \in DOMAIN o : o[i].id <= emitted + 1 /\ o[i] # e
  BY <1>2, <1>3, <1>16
<1>18. \A q \in R : \A i \in DOMAIN o : o[i] # ev'[q]
  <2>1. \A q \in Q : q \in Producer /\ q # p
    BY <1>7, <1>9 DEF InFlight
  <2>2. QED
    BY <1>5, <1>9, <1>10, <1>11, <1>17, <2>1 DEF DeliveryOf
<1>19. ASSUME since[t] <= next
       PROVE  Cardinality(Due(t)') = Cardinality(Due(t)) + 1 /\ Cardinality(Due(t)) \in Nat
  <2>1. PICK n \in Nat : n = Len(events)
    BY <1>2, LenProperties
  <2>2. /\ DOMAIN events = 1..n /\ DOMAIN events' = 1..(n + 1)
        /\ events'[n + 1] = e
        /\ \A i \in 1..n : events'[i] = events[i]
    BY <1>1, <1>2, <2>1, AppendProperties, LenProperties
  <2>3. Due(t)' = Due(t) \union {n + 1} /\ n + 1 \notin Due(t) /\ Due(t) \subseteq 1..n
    <3>1. next >= since[t]
      BY <1>2, <1>14, <1>19
    <3>2. 1..(n + 1) = 1..n \union {n + 1} /\ n + 1 \notin 1..n
      OBVIOUS
    <3>3. Due(t)' = {i \in 1..(n + 1) : events'[i].seq >= since[t]}
      BY <1>1, <2>2 DEF Due
    <3>4. Due(t) = {i \in 1..n : events[i].seq >= since[t]}
      BY <2>2 DEF Due
    <3>5. QED
      BY <1>3, <2>2, <3>1, <3>2, <3>3, <3>4
  <2>4. IsFiniteSet(Due(t))
    <3>1. IsFiniteSet(1..n)
      BY FS_Interval
    <3>2. QED
      BY <2>3, <3>1, FS_Subset
  <2>5. QED
    BY <2>3, <2>4, FS_AddElement, FS_CardinalityType
<1>20. sub[t].at \in {"sending", "open"} /\ ~sub[t].marked =>
         Cardinality(Due(t)') = Len(o) + sub[t].dropped + Cardinality(R)
  <2> SUFFICES ASSUME sub[t].at \in {"sending", "open"} /\ ~sub[t].marked
               PROVE  Cardinality(Due(t)') = Len(o) + sub[t].dropped + Cardinality(R)
    OBVIOUS
  <2>1. t \in subs /\ since[t] <= next
    BY <1>10 DEF SubscribedOf
  <2>2. Cardinality(Due(t)) = Len(o) + sub[t].dropped + Cardinality(Q)
    BY <1>10, <1>11 DEF DeliveryOf
  <2>3. PICK n \in Nat, d \in Nat, c \in Nat : n = Len(o) /\ d = sub[t].dropped /\ c = Cardinality(Q)
    BY <1>13, <1>14, LenProperties
  <2>4. Cardinality(R) = c + 1 /\ Cardinality(Due(t)') = n + d + c + 1
    BY <1>13, <1>19, <2>1, <2>2, <2>3
  <2>5. QED
    BY <2>3, <2>4, SMTT(40)
<1>21. DeliveryOf(sub'[t], Owed(t)', Due(t)', emitted', ev', InFlight(t)')
  <2>1. \A i, j \in DOMAIN o : o[i] = o[j] => i = j
    BY <1>10, <1>11 DEF DeliveryOf
  <2>2. DeliveryOf(sub[t], o, Due(t)', emitted + 1, ev', R)
    BY <1>17, <1>18, <1>20, <2>1 DEF DeliveryOf
  <2>3. QED
    BY <1>1, <1>8, <1>12, <2>2
<1>22. QED
  BY <1>15, <1>21

\* A new subscription is owed its backlog.
LEMMA SubsSubscribe ==
  ASSUME JTypeOK, CoreInv, Subscribed, Delivery, NEW s \in Sub, NEW from \in Nat, Subscribe(s, from)
  PROVE  Subscribed' /\ Delivery'
<1> DEFINE r == [at |-> "sending", marked |-> FALSE, ch |-> <<>>, cap |-> Len(Replay(from)) + Room,
                 backlog |-> Replay(from), dropped |-> 0]
<1>1. Increasing(events) /\ events \in Seq(Event) /\ next \in Nat
  BY DEF CoreInv, Numbered, JTypeOK
<1>2. SubStep(s, r)
  BY <1>1, SubscribeEffect
<1>3. /\ mode = "open" /\ sub[s].at = "none"
      /\ since' = [since EXCEPT ![s] = IF from < next THEN from ELSE next]
      /\ subs' = subs \union {s}
      /\ UNCHANGED <<mode, events, next, ev, targets, emitted, got>>
  BY DEF Subscribe, prodVars, countVars
<1>4. /\ r.at = "sending" /\ r.marked = FALSE /\ r.ch = <<>> /\ r.backlog = Replay(from) /\ r.dropped = 0
  OBVIOUS
<1> HIDE DEF r
<1>5. sub'[s] = r /\ \A t \in Sub : t # s => sub'[t] = sub[t]
  BY <1>2, SubTyped DEF SubStep, JTypeOK
<1>6. since'[s] = (IF from < next THEN from ELSE next) /\ \A t \in Sub : t # s => since'[t] = since[t]
  BY <1>3 DEF JTypeOK
<1>7. \A t \in Sub : InFlight(t)' = InFlight(t)
  BY <1>3 DEF InFlight
<1>8. ASSUME NEW t \in Sub, t # s
      PROVE  /\ SubscribedOf(sub'[t], got'[t], since'[t], t \in subs', mode' = "open", next', InFlight(t)')
             /\ DeliveryOf(sub'[t], Owed(t)', Due(t)', emitted', ev', InFlight(t)')
  <2>1. Owed(t)' = Owed(t) /\ Due(t)' = Due(t) /\ (t \in subs' <=> t \in subs)
    BY <1>3, <1>5, <1>6, <1>8 DEF Owed, Due
  <2>2. /\ SubscribedOf(sub[t], got[t], since[t], t \in subs, mode = "open", next, InFlight(t))
        /\ DeliveryOf(sub[t], Owed(t), Due(t), emitted, ev, InFlight(t))
    BY PartsAre
  <2>3. SubscribedOf(sub[t], got[t], since[t], t \in subs', mode = "open", next, InFlight(t))
    BY <2>1, <2>2 DEF SubscribedOf
  <2>4. QED
    BY <1>3, <1>5, <1>6, <1>7, <1>8, <2>1, <2>2, <2>3
<1>9. got[s] = <<>> /\ InFlight(s) = {}
  BY <1>3 DEF Subscribed
<1>10. PICK k \in Seq(Event) : k = Replay(from)
  BY <1>1, ReplayProperties
<1>11. /\ Len(k) = Cardinality({i \in DOMAIN events : events[i].seq >= from})
       /\ \A i \in DOMAIN k : k[i] \in ToSet(events)
       /\ Increasing(k)
       /\ DOMAIN k = 1..Len(k) /\ Len(k) \in Nat
  BY <1>1, <1>10, ReplayProperties, LenProperties
<1>12. Owed(s)' = k
  <2>1. Owed(s)' = (<<>> \o <<>>) \o k
    BY <1>3, <1>4, <1>5, <1>9, <1>10 DEF Owed
  <2>2. QED
    BY <2>1
<1>13. SubscribedOf(sub'[s], got'[s], since'[s], s \in subs', mode' = "open", next', InFlight(s)')
  <2>1. since'[s] <= next
    BY <1>1, <1>6
  <2>2. SubscribedOf(r, got[s], since'[s], TRUE, mode = "open", next, {})
    BY <1>4, <2>1, FS_EmptySet DEF SubscribedOf
  <2>3. s \in subs'
    BY <1>3
  <2>4. QED
    BY <1>3, <1>5, <1>7, <1>9, <2>2, <2>3
<1>14. Due(s)' = {i \in DOMAIN events : events[i].seq >= from}
  <2>1. \A i \in DOMAIN events : events[i] \in Event /\ events[i].seq \in Nat
    BY <1>1, EventFields
  <2>2. \A i \in DOMAIN events : events[i].seq < next
    BY DEF CoreInv, Numbered
  <2>3. \A i \in DOMAIN events : events[i].seq >= from <=> events[i].seq >= since'[s]
    BY <1>1, <1>6, <2>1, <2>2
  <2>4. QED
    BY <1>3, <2>3 DEF Due
<1>15. DeliveryOf(sub'[s], Owed(s)', Due(s)', emitted', ev', InFlight(s)')
  <2>1. \A i \in DOMAIN k : k[i] \in Event /\ k[i].seq \in Nat
    BY <1>11, EventFields
  <2>2. \A i, j \in DOMAIN k : k[i] = k[j] => i = j
    <3> SUFFICES ASSUME NEW i \in 1..Len(k), NEW j \in 1..Len(k), k[i] = k[j], i # j PROVE FALSE
      BY <1>11
    <3>1. k[i].seq < k[j].seq \/ k[j].seq < k[i].seq
      BY <1>11 DEF Increasing
    <3>2. QED
      BY <1>11, <2>1, <3>1
  <2>3. \A i \in DOMAIN k : k[i].id <= emitted
    <3> SUFFICES ASSUME NEW i \in DOMAIN k PROVE k[i].id <= emitted
      OBVIOUS
    <3>1. PICK j \in DOMAIN events : events[j] = k[i]
      BY <1>1, <1>11, ToSetMember
    <3>2. QED
      BY <3>1 DEF CoreInv, Numbered
  <2>4. Cardinality({}) = 0
    BY FS_EmptySet
  <2>5. Cardinality({i \in DOMAIN events : events[i].seq >= from}) = Len(k) + 0 + 0
    BY <1>11
  <2>6. DeliveryOf(r, k, {i \in DOMAIN events : events[i].seq >= from}, emitted, ev, {})
    BY <1>4, <2>2, <2>3, <2>4, <2>5 DEF DeliveryOf
  <2>7. QED
    BY <1>3, <1>5, <1>7, <1>9, <1>12, <1>14, <2>6
<1>16. QED
  BY <1>8, <1>13, <1>15, PartsArePrimed

\* The other actions keep Subscribed and Delivery.
LEMMA SubsRest ==
  ASSUME JTypeOK, CoreInv, Subscribed, Delivery,
         (\E p \in Producer : Finish(p)) \/ Close \/ CloseFile \/ Restart \/ UNCHANGED jvars
  PROVE  Subscribed' /\ Delivery'
<1>1. ASSUME UNCHANGED <<events, next, targets, sub, since, got, emitted>>,
             mode' = "open" => mode = "open" /\ subs' = subs,
             subs' \subseteq subs,
             \A t \in Sub : \A q \in InFlight(t) : ev'[q] = ev[q]
      PROVE  Subscribed' /\ Delivery'
  <2> SUFFICES ASSUME NEW t \in Sub
             PROVE  /\ SubscribedOf(sub'[t], got'[t], since'[t], t \in subs', mode' = "open", next', InFlight(t)')
                    /\ DeliveryOf(sub'[t], Owed(t)', Due(t)', emitted', ev', InFlight(t)')
    BY PartsArePrimed
  <2>1. Owed(t)' = Owed(t) /\ Due(t)' = Due(t) /\ InFlight(t)' = InFlight(t)
    BY <1>1 DEF Owed, Due, InFlight
  <2>2. /\ SubscribedOf(sub[t], got[t], since[t], t \in subs, mode = "open", next, InFlight(t))
        /\ DeliveryOf(sub[t], Owed(t), Due(t), emitted, ev, InFlight(t))
    BY PartsAre
  <2>3. SubscribedOf(sub[t], got[t], since[t], t \in subs', mode' = "open", next, InFlight(t))
    BY <1>1, <2>2 DEF SubscribedOf
  <2>4. DeliveryOf(sub[t], Owed(t), Due(t), emitted, ev', InFlight(t))
    BY <1>1, <2>2 DEF DeliveryOf
  <2>5. QED
    BY <1>1, <2>1, <2>3, <2>4
<1>2. CASE \E p \in Producer : Finish(p)
  <2>1. PICK p \in Producer : Finish(p)
    BY <1>2
  <2>2. /\ targets[p] = {} /\ ev' = [ev EXCEPT ![p] = NoEvent]
        /\ UNCHANGED <<events, next, targets, sub, since, got, emitted, mode, subs>>
    BY <2>1 DEF Finish, memVars, subVars
  <2>3. \A t \in Sub : \A q \in InFlight(t) : ev'[q] = ev[q]
    BY <2>2 DEF InFlight, JTypeOK
  <2>4. QED
    BY <1>1, <2>2, <2>3
<1>3. CASE Close
  BY <1>1, <1>3 DEF Close, prodVars, subVars, countVars
<1>4. CASE CloseFile
  BY <1>1, <1>4 DEF CloseFile, memVars, prodVars, subVars, countVars
<1>5. CASE UNCHANGED jvars
  BY <1>1, <1>5 DEF jvars, memVars, prodVars, subVars, countVars
<1>6. CASE Restart
  <2>1. /\ subs' = {} /\ targets' = [p \in Producer |-> {}]
        /\ sub' = [s \in Sub |-> NoSubscription]
        /\ since' = [s \in Sub |-> 0]
        /\ got' = [s \in Sub |-> <<>>]
    BY <1>6 DEF Restart
  <2> SUFFICES ASSUME NEW t \in Sub
             PROVE  /\ SubscribedOf(sub'[t], got'[t], since'[t], t \in subs', mode' = "open", next', InFlight(t)')
                    /\ DeliveryOf(sub'[t], Owed(t)', Due(t)', emitted', ev', InFlight(t)')
    BY PartsArePrimed
  <2>2. InFlight(t)' = {} /\ sub'[t] = NoSubscription /\ got'[t] = <<>> /\ t \notin subs'
    BY <2>1 DEF InFlight
  <2>3. Owed(t)' = <<>>
    <3>1. Owed(t)' = (<<>> \o <<>>) \o <<>>
      BY <2>2 DEF Owed, NoSubscription
    <3>2. QED
      BY <3>1
  <2>4. NoSubscription.at = "none"
    BY DEF NoSubscription
  <2>5. SubscribedOf(sub'[t], got'[t], since'[t], t \in subs', mode' = "open", next', InFlight(t)')
    BY <2>2, <2>4, FS_EmptySet DEF SubscribedOf
  <2>6. DeliveryOf(NoSubscription, <<>>, Due(t)', emitted', ev', {})
    BY <2>4 DEF DeliveryOf
  <2>7. QED
    BY <2>2, <2>3, <2>5, <2>6
<1>7. QED
  BY <1>2, <1>3, <1>4, <1>5, <1>6

\* Every step keeps the types.
LEMMA TypeStep ==
  ASSUME JTypeOK, CoreInv, [JNext]_jvars
  PROVE  JTypeOK'
<1>0. NoEvent \in Event
  BY JournalAssumption DEF NoEvent, Event
<1>1. CASE \E p \in Producer : AppendAssigned(p)
  <2>1. PICK p \in Producer : AppendAssigned(p)
    BY <1>1
  <2> DEFINE e == [seq |-> next, id |-> emitted + 1]
  <2>2. e \in Event /\ next \in Nat /\ emitted \in Nat /\ events \in Seq(Event)
    BY <2>1, JournalAssumption DEF AppendAssigned, JTypeOK, CoreInv, Numbered, Event
  <2>3. /\ emitted < EventBound /\ emitted' = emitted + 1
        /\ events' = Append(events, e)
        /\ next' = next + 1
        /\ pc' = [pc EXCEPT ![p] = "deliver"]
        /\ ev' = [ev EXCEPT ![p] = e]
        /\ targets' = [targets EXCEPT ![p] = subs]
        /\ UNCHANGED <<kind, mode, subs, closing, file, torn, fileOpen, sub, since, got, acked, restarts>>
    BY <2>1 DEF AppendAssigned, Recipients, fileVars, subVars
  <2> HIDE DEF e
  <2>4. events' \in Seq(Event)
    BY <2>2, <2>3, AppendProperties
  <2>5. emitted' \in 0..EventBound
    BY <2>2, <2>3, JournalAssumption
  <2>6. pc' \in [Producer -> {"idle", "deliver"}] /\ ev' \in [Producer -> Event]
        /\ targets' \in [Producer -> SUBSET Sub]
    BY <2>2, <2>3 DEF JTypeOK
  <2>7. QED
    BY <2>2, <2>3, <2>4, <2>5, <2>6 DEF JTypeOK
<1>2. CASE \E p \in Producer, s \in Sub : Deliver(p, s)
  <2>1. PICK p \in Producer, s \in Sub : Deliver(p, s)
    BY <1>2
  <2>2. /\ targets' = [targets EXCEPT ![p] = targets[p] \ {s}]
        /\ UNCHANGED <<kind, mode, events, next, subs, closing, file, torn, fileOpen, pc, ev,
                       since, got, acked, emitted, restarts>>
    BY <2>1 DEF Deliver, memVars, fileVars, countVars
  <2>3. targets' \in [Producer -> SUBSET Sub]
    BY <2>2 DEF JTypeOK
  <2>4. sub[s] \in Subscription /\ sub \in [Sub -> Subscription]
    BY DEF JTypeOK
  <2>5. /\ sub[s].at \in {"none", "sending", "open", "closed", "panicked"}
        /\ sub[s].marked \in BOOLEAN
        /\ sub[s].ch \in Seq(Event)
        /\ sub[s].cap \in Nat
        /\ sub[s].backlog \in Seq(Event)
        /\ sub[s].dropped \in Nat
    BY <2>4, SubscriptionFields
  <2>6. sub' \in [Sub -> Subscription]
    <3>1. CASE sub' = sub
      BY <2>4, <3>1
    <3>2. CASE /\ Append(sub[s].ch, ev[p]) \in Seq(Event)
               /\ sub' = [sub EXCEPT ![s] =
                 [at |-> sub[s].at, marked |-> sub[s].marked, ch |-> Append(sub[s].ch, ev[p]),
                  cap |-> sub[s].cap, backlog |-> sub[s].backlog, dropped |-> sub[s].dropped]]
      <4>1. [at |-> sub[s].at, marked |-> sub[s].marked, ch |-> Append(sub[s].ch, ev[p]),
                  cap |-> sub[s].cap, backlog |-> sub[s].backlog, dropped |-> sub[s].dropped] \in Subscription
        BY <2>5, <3>2 DEF Subscription
      <4>2. QED
        BY <2>4, <3>2, <4>1
    <3>3. CASE sub' = [sub EXCEPT ![s] =
                 [at |-> sub[s].at, marked |-> sub[s].marked, ch |-> sub[s].ch,
                  cap |-> sub[s].cap, backlog |-> sub[s].backlog, dropped |-> sub[s].dropped + 1]]
      <4>1. [at |-> sub[s].at, marked |-> sub[s].marked, ch |-> sub[s].ch,
                  cap |-> sub[s].cap, backlog |-> sub[s].backlog, dropped |-> sub[s].dropped + 1] \in Subscription
        BY <2>5 DEF Subscription
      <4>2. QED
        BY <2>4, <3>3, <4>1
    <3>4. QED
      BY <2>1, <3>1, <3>2, <3>3, DeliverEffect
  <2>7. QED
    BY <2>2, <2>3, <2>6 DEF JTypeOK
<1>3. CASE \E p \in Producer : Finish(p)
  <2>1. PICK p \in Producer : Finish(p)
    BY <1>3
  <2>2. /\ pc[p] = "deliver" /\ pc' = [pc EXCEPT ![p] = "idle"]
        /\ ev' = [ev EXCEPT ![p] = NoEvent]
        /\ UNCHANGED <<kind, mode, events, next, subs, closing, fileOpen, targets, sub, since, got, emitted, restarts>>
    BY <2>1 DEF Finish, memVars, subVars
  <2>3. pc' \in [Producer -> {"idle", "deliver"}] /\ ev' \in [Producer -> Event]
    BY <1>0, <2>2 DEF JTypeOK
  <2>4. Busy(p) /\ ev[p] \in Event /\ acked \subseteq Event /\ file \in Seq(Event) /\ torn \in BOOLEAN
    BY <2>2 DEF Busy, JTypeOK
  <2>5. file' \in Seq(Event) /\ torn' \in BOOLEAN /\ acked' \subseteq Event
    <3>1. CASE ~Durable
      BY <2>1, <2>4, <3>1 DEF Finish
    <3>2. CASE Durable
      <4>1. PICK o \in WriteOutcome(ev[p]) :
            /\ file' = o.file
            /\ torn' = o.torn
            /\ acked' = IF o.ok THEN acked \union {ev[p]} ELSE acked
        BY <2>1, <3>2 DEF Finish
      <4>2. o.torn \in BOOLEAN /\ (o.file = file \/ o.file = Append(file, ev[p]))
        BY <2>4, WriteLeaves
      <4>3. Append(file, ev[p]) \in Seq(Event)
        BY <2>4, AppendProperties
      <4>4. QED
        BY <2>4, <4>1, <4>2, <4>3
    <3>3. QED
      BY <3>1, <3>2
  <2>6. QED
    BY <2>2, <2>3, <2>5 DEF JTypeOK
<1>4. CASE \E s \in Sub : Subscribing(s)
  <2>1. PICK s \in Sub : Subscribing(s)
    BY <1>4
  <2>2. /\ UNCHANGED <<kind, mode, events, next, file, torn, fileOpen, pc, ev, targets, acked, emitted, restarts>>
        /\ subs' \subseteq Sub /\ closing' \subseteq Sub
    BY <2>1 DEF Subscribing, Subscribe, SendBacklog, SubscribeReturn, ReceiveEvent, MarkClosed,
                CloseChannel, memVars, fileVars, prodVars, countVars, JTypeOK
  <2>3. \E r : SubStep(s, r)
    <3>1. CASE \E from \in 0..EventBound : Subscribe(s, from)
      <4>1. PICK from \in 0..EventBound : Subscribe(s, from)
        BY <3>1
      <4>2. from \in Nat /\ Increasing(events)
        BY JournalAssumption DEF CoreInv, Numbered
      <4>3. QED
        BY <4>1, <4>2, SubscribeEffect
    <3>2. CASE SendBacklog(s)
      BY <3>2, SendBacklogEffect
    <3>3. CASE SubscribeReturn(s) \/ ReceiveEvent(s) \/ MarkClosed(s) \/ CloseChannel(s)
      BY <3>3, OtherEffects
    <3>4. QED
      BY <2>1, <3>1, <3>2, <3>3 DEF Subscribing
  <2>4. sub' \in [Sub -> Subscription]
    BY <2>3, SubTyped DEF SubStep, JTypeOK
  <2>5. since' \in [Sub -> Nat]
    <3>1. CASE \E from \in 0..EventBound : Subscribe(s, from)
      <4>1. PICK from \in 0..EventBound : Subscribe(s, from)
        BY <3>1
      <4>2. from \in Nat /\ next \in Nat /\ since \in [Sub -> Nat]
        BY JournalAssumption DEF JTypeOK
      <4>3. since' = [since EXCEPT ![s] = IF from < next THEN from ELSE next]
        BY <4>1 DEF Subscribe
      <4>4. QED
        BY <4>2, <4>3
    <3>2. CASE ~\E from \in 0..EventBound : Subscribe(s, from)
      BY <2>1, <3>2 DEF Subscribing, SendBacklog, SubscribeReturn, ReceiveEvent, MarkClosed,
                CloseChannel, JTypeOK
    <3>3. QED
      BY <3>1, <3>2
  <2>6. got' \in [Sub -> Seq(Event)]
    <3>1. CASE ReceiveEvent(s)
      <4>1. got' = [got EXCEPT ![s] = Append(got[s], Head(sub[s].ch))]
        BY <3>1 DEF ReceiveEvent
      <4>2. Head(sub[s].ch) \in Event /\ got[s] \in Seq(Event) /\ got \in [Sub -> Seq(Event)]
        BY <3>1, OtherEffects DEF JTypeOK
      <4>3. Append(got[s], Head(sub[s].ch)) \in Seq(Event)
        BY <4>2, AppendProperties
      <4>4. QED
        BY <4>1, <4>2, <4>3
    <3>2. CASE ~ReceiveEvent(s)
      BY <2>1, <3>2 DEF Subscribing, Subscribe, SendBacklog, SubscribeReturn, MarkClosed,
                CloseChannel, JTypeOK
    <3>3. QED
      BY <3>1, <3>2
  <2>7. QED
    BY <2>2, <2>4, <2>5, <2>6 DEF JTypeOK
<1>5. CASE Close
  BY <1>5 DEF Close, fileVars, prodVars, subVars, countVars, JTypeOK
<1>6. CASE CloseFile
  BY <1>6 DEF CloseFile, memVars, prodVars, subVars, countVars, JTypeOK
<1>7. CASE Restart
  <2>1. torn' \in BOOLEAN /\ file' \in Seq(Event) /\ Increasing(file')
        /\ \A i \in DOMAIN file' : file'[i].seq < emitted /\ file'[i].id <= emitted
    BY <1>7, RestartFinds
  <2>2. /\ restarts' = restarts + 1
        /\ mode' = IF torn' THEN "refused" ELSE "open"
        /\ events' = IF torn' THEN <<>> ELSE Load(file').events
        /\ next' = IF torn' THEN 0 ELSE Load(file').next
        /\ fileOpen' = (Durable /\ ~torn')
        /\ subs' = {} /\ closing' = {}
        /\ pc' = [p \in Producer |-> "idle"]
        /\ ev' = [p \in Producer |-> NoEvent]
        /\ targets' = [p \in Producer |-> {}]
        /\ sub' = [s \in Sub |-> NoSubscription]
        /\ since' = [s \in Sub |-> 0]
        /\ got' = [s \in Sub |-> <<>>]
        /\ UNCHANGED <<kind, acked, emitted>>
    BY <1>7 DEF Restart
  <2>3. PICK lines \in Seq(Event) : lines = file'
    BY <2>1
  <2>4. /\ Load(lines).events = lines
        /\ Load(lines).next = IF lines = <<>> THEN 0 ELSE lines[Len(lines)].seq + 1
    BY <2>1, <2>3, LoadOfIncreasing
  <2>5. events' \in Seq(Event)
    BY <2>2, <2>3, <2>4
  <2>6. Load(lines).next \in Nat
    <3>1. CASE lines = <<>>
      BY <2>4, <3>1
    <3>2. CASE lines # <<>>
      <4>1. Len(lines) \in DOMAIN lines
        BY <3>2, EmptySeq, LenProperties
      <4>2. lines[Len(lines)] \in Event
        BY <4>1
      <4>3. QED
        BY <2>4, <3>2, <4>2, EventFields
    <3>3. QED
      BY <3>1, <3>2
  <2>7. next' \in Nat
    BY <2>2, <2>3, <2>6
  <2>8. sub' \in [Sub -> Subscription] /\ since' \in [Sub -> Nat] /\ got' \in [Sub -> Seq(Event)]
    <3>1. <<>> \in Seq(Event)
      OBVIOUS
    <3>2. QED
      BY <2>2, <3>1, NoSubscriptionType
  <2>9. pc' \in [Producer -> {"idle", "deliver"}] /\ ev' \in [Producer -> Event]
        /\ targets' \in [Producer -> SUBSET Sub]
    BY <1>0, <2>2
  <2>10. /\ kind' \in {"memory", "file"} /\ mode' \in {"open", "closed", "refused"}
         /\ emitted' \in 0..EventBound /\ restarts' \in Nat /\ fileOpen' \in BOOLEAN
         /\ acked' \subseteq Event /\ subs' \subseteq Sub /\ closing' \subseteq Sub
    BY <2>2 DEF JTypeOK, Durable
  <2>11. QED
    BY <2>1, <2>5, <2>7, <2>8, <2>9, <2>10 DEF JTypeOK
<1>8. CASE UNCHANGED jvars
  BY <1>8 DEF jvars, memVars, fileVars, prodVars, subVars, countVars, JTypeOK
<1>9. QED
  BY <1>1, <1>2, <1>3, <1>4, <1>5, <1>6, <1>7, <1>8 DEF JNext, Producing

\* It holds at the start ...
LEMMA JournalInvInit == JInit => JournalInv
<1> SUFFICES ASSUME JInit PROVE JournalInv
  OBVIOUS
<1> USE JournalAssumption DEF JInit
<1>0. NoEvent \in Event
  BY DEF NoEvent, Event
<1>1. JTypeOK
  <2>1. sub \in [Sub -> Subscription]
    BY NoSubscriptionType
  <2>2. <<>> \in Seq(Event)
    OBVIOUS
  <2>3. /\ kind \in {"memory", "file"} /\ mode \in {"open", "closed", "refused"}
        /\ next \in Nat /\ emitted \in 0..EventBound /\ restarts \in Nat
        /\ subs \subseteq Sub /\ closing \subseteq Sub
    OBVIOUS
  <2>4. torn \in BOOLEAN /\ fileOpen \in BOOLEAN /\ acked \subseteq Event
    BY DEF Durable
  <2>5. /\ pc \in [Producer -> {"idle", "deliver"}] /\ ev \in [Producer -> Event]
        /\ targets \in [Producer -> SUBSET Sub]
    BY <1>0
  <2>6. since \in [Sub -> Nat] /\ got \in [Sub -> Seq(Event)]
    BY <2>2
  <2>7. events \in Seq(Event) /\ file \in Seq(Event)
    BY <2>2
  <2>8. QED
    BY <2>1, <2>3, <2>4, <2>5, <2>6, <2>7 DEF JTypeOK
<1>2. \A p \in Producer : ~Busy(p) /\ targets[p] = {}
  BY DEF Busy
<1>3. Numbered
  BY DEF Numbered, Increasing
<1>4. CoreInv
  BY <1>2, <1>3 DEF CoreInv, Producers, Writing, Kept, Durable, ToSet
<1>5. ASSUME NEW t \in Sub
      PROVE  /\ SubscribedOf(sub[t], got[t], since[t], t \in subs, mode = "open", next, InFlight(t))
             /\ DeliveryOf(sub[t], Owed(t), Due(t), emitted, ev, InFlight(t))
  <2>2. InFlight(t) = {} /\ sub[t] = NoSubscription /\ got[t] = <<>> /\ t \notin subs
    BY DEF InFlight
  <2>3. Owed(t) = <<>>
    <3>1. Owed(t) = (<<>> \o <<>>) \o <<>>
      BY <2>2 DEF Owed, NoSubscription
    <3>2. QED
      BY <3>1
  <2>4. NoSubscription.at = "none"
    BY DEF NoSubscription
  <2>5. SubscribedOf(sub[t], got[t], since[t], t \in subs, mode = "open", next, InFlight(t))
    BY <2>2, <2>4, FS_EmptySet DEF SubscribedOf
  <2>6. DeliveryOf(NoSubscription, <<>>, Due(t), emitted, ev, {})
    BY <2>4 DEF DeliveryOf
  <2>7. QED
    BY <2>2, <2>3, <2>5, <2>6
<1>6. QED
  BY <1>1, <1>4, <1>5, PartsAre DEF JournalInv

\* ... and every step keeps it.
LEMMA JournalInvStep ==
  ASSUME JournalInv, [JNext]_jvars
  PROVE  JournalInv'
<1>1. JTypeOK /\ CoreInv /\ Subscribed /\ Delivery
  BY DEF JournalInv
<1>2. JTypeOK'
  BY <1>1, TypeStep
<1>3. CASE \E p \in Producer : AppendAssigned(p)
  BY <1>1, <1>2, <1>3, CoreAppendAssigned, SubsAppendAssigned DEF JournalInv
<1>4. CASE \E p \in Producer, s \in Sub : Deliver(p, s)
  BY <1>1, <1>2, <1>4, CoreRest, SubsDeliver DEF JournalInv
<1>5. CASE \E p \in Producer : Finish(p)
  BY <1>1, <1>2, <1>5, CoreFinish, SubsRest DEF JournalInv
<1>6. CASE \E s \in Sub : Subscribing(s)
  <2>1. CoreInv'
    BY <1>1, <1>6, CoreRest
  <2>2. PICK s \in Sub : Subscribing(s)
    BY <1>6
  <2>3. CASE \E from \in 0..EventBound : Subscribe(s, from)
    <3>1. PICK from \in 0..EventBound : Subscribe(s, from)
      BY <2>3
    <3>2. from \in Nat
      BY JournalAssumption
    <3>3. QED
      BY <1>1, <1>2, <2>1, <3>1, <3>2, SubsSubscribe DEF JournalInv
  <2>4. CASE SendBacklog(s) \/ SubscribeReturn(s) \/ ReceiveEvent(s) \/ MarkClosed(s) \/ CloseChannel(s)
    BY <1>1, <1>2, <2>1, <2>4, QuietActions DEF JournalInv
  <2>5. QED
    BY <2>2, <2>3, <2>4 DEF Subscribing
<1>7. CASE Close \/ CloseFile \/ UNCHANGED jvars
  BY <1>1, <1>2, <1>7, CoreRest, SubsRest DEF JournalInv
<1>8. CASE Restart
  BY <1>1, <1>2, <1>8, CoreRestart, SubsRest DEF JournalInv
<1>9. QED
  BY <1>3, <1>4, <1>5, <1>6, <1>7, <1>8 DEF JNext, Producing

\* The journal and its subscriptions stay consistent, whatever producers, consumers,
\* Close, failed writes and restarts do.
THEOREM JournalInvariant == JSpec => []JournalInv
<1>1. JournalInv /\ [JNext]_jvars => JournalInv'
  BY JournalInvStep
<1>2. QED
  BY <1>1, JournalInvInit, PTL DEF JSpec

\* An Append that returned without error can be replayed, after a restart too, as long
\* as no line was cut short (File.Append, OpenFile).
THEOREM AppendedIsReplayable == JSpec => []AckedIsReplayable
<1>1. JournalInv => AckedIsReplayable
  BY DEF JournalInv, CoreInv, Kept, AckedIsReplayable
<1>2. QED
  BY <1>1, JournalInvariant, PTL

\* Backlog and live delivery give a subscription nothing twice, and every event it is
\* entitled to was received, is on its way, or is counted in Dropped (Subscribe, deliver).
THEOREM NothingLostSilently == JSpec => []DeliveredOrCounted
<1>1. JournalInv => DeliveredOrCounted
  BY DEF JournalInv, Delivery, DeliveredOrCounted, Held
<1>2. QED
  BY <1>1, JournalInvariant, PTL

\* A channel is closed under a Subscribe call only while Memory.Close has it on its list,
\* and a subscription its caller holds has no backlog left to send.
ClosingOf(s) ==
  /\ sub[s].at = "sending" /\ sub[s].marked => s \in closing
  /\ sub[s].at = "open" => sub[s].backlog = <<>>
  /\ Shut(s) => sub[s].marked

ClosingInv ==
  /\ closing # {} => mode # "open"
  /\ \A s \in Sub : ClosingOf(s)

\* What a step may do to the channel of s.
ChannelKept(s) ==
  /\ Shut(s) /\ Shut(s)' => Len(sub'[s].ch) <= Len(sub[s].ch)
  /\ sub[s].at # "panicked" /\ sub'[s].at = "panicked" => sub[s].at = "sending" /\ s \in closing

\* What a step made of s, field by field.
LEMMA StepFields ==
  ASSUME JTypeOK, NEW s \in Sub, NEW a, NEW m, NEW c, NEW k, NEW b, NEW d,
         SubStep(s, [at |-> a, marked |-> m, ch |-> c, cap |-> k, backlog |-> b, dropped |-> d])
  PROVE  sub'[s].at = a /\ sub'[s].marked = m /\ sub'[s].ch = c /\ sub'[s].backlog = b
<1>1. sub'[s] = [at |-> a, marked |-> m, ch |-> c, cap |-> k, backlog |-> b, dropped |-> d]
  BY DEF SubStep, JTypeOK
<1>2. QED
  BY <1>1

\* A step that leaves a subscription, and its place on the list, alone.
LEMMA ClosingElsewhere ==
  ASSUME JTypeOK, NEW s \in Sub, ClosingOf(s), sub'[s] = sub[s], s \in closing => s \in closing'
  PROVE  ClosingOf(s)' /\ ChannelKept(s)
<1>1. sub[s].ch \in Seq(Event)
  BY SubscriptionFields DEF JTypeOK
<1>2. Len(sub[s].ch) \in Nat
  BY <1>1, LenProperties
<1>3. Len(sub'[s].ch) <= Len(sub[s].ch)
  BY <1>2
<1>4. QED
  BY <1>3 DEF ClosingOf, ChannelKept, Shut

\* deliver leaves a closed channel alone (Subscription.deliver).
LEMMA ClosingDeliver ==
  ASSUME JTypeOK, NEW s \in Sub, ClosingOf(s), NEW p \in Producer, Deliver(p, s)
  PROVE  ClosingOf(s)' /\ ChannelKept(s)
<1>1. closing' = closing
  BY DEF Deliver, memVars
<1>2. CASE sub' = sub
  BY <1>1, <1>2, ClosingElsewhere
<1>3. ASSUME ~sub[s].marked,
             NEW c, NEW n, sub' = [sub EXCEPT ![s] =
               [at |-> sub[s].at, marked |-> sub[s].marked, ch |-> c, cap |-> sub[s].cap,
                backlog |-> sub[s].backlog, dropped |-> n]]
      PROVE  ClosingOf(s)' /\ ChannelKept(s)
  <2>1. sub'[s] = [at |-> sub[s].at, marked |-> sub[s].marked, ch |-> c, cap |-> sub[s].cap,
                   backlog |-> sub[s].backlog, dropped |-> n]
    BY <1>3 DEF JTypeOK
  <2>2. sub'[s].at = sub[s].at /\ sub'[s].marked = sub[s].marked /\ sub'[s].backlog = sub[s].backlog
    BY <2>1
  <2>3. QED
    BY <1>1, <1>3, <2>2 DEF ClosingOf, ChannelKept, Shut
<1>4. QED
  BY <1>2, <1>3, DeliverEffect

\* The calls on one subscription: a backlog send panics only for a channel that
\* Memory.Close closed (Subscribe, Subscription.Close).
LEMMA ClosingSubscribing ==
  ASSUME JTypeOK, Increasing(events), ClosingInv, NEW s \in Sub, Subscribing(s)
  PROVE  ClosingOf(s)' /\ ChannelKept(s)
<1>1. ClosingOf(s) /\ (mode = "open" => closing = {})
  BY DEF ClosingInv
<1>2. sub[s].ch \in Seq(Event) /\ sub \in [Sub -> Subscription]
  BY SubscriptionFields DEF JTypeOK
<1>3. ASSUME NEW from \in 0..EventBound, Subscribe(s, from)
      PROVE  ClosingOf(s)' /\ ChannelKept(s)
  <2>1. from \in Nat
    BY <1>3, JournalAssumption
  <2>2. Increasing(events) => sub'[s].at = "sending" /\ sub'[s].marked = FALSE
    BY <1>3, <2>1, SubscribeEffect, StepFields
  <2>3. QED
    BY <2>2 DEF ClosingOf, ChannelKept, Shut
<1>4. ASSUME SendBacklog(s) PROVE ClosingOf(s)' /\ ChannelKept(s)
  <2>1. sub'[s].at = sub[s].at /\ sub'[s].marked = sub[s].marked
    <3>1. SubStep(s, [at |-> sub[s].at, marked |-> sub[s].marked,
                      ch |-> Append(sub[s].ch, Head(sub[s].backlog)), cap |-> sub[s].cap,
                      backlog |-> Tail(sub[s].backlog), dropped |-> sub[s].dropped])
      BY <1>4, SendBacklogEffect
    <3>2. QED
      BY <3>1, StepFields
  <2>2. sub[s].at = "sending" /\ closing' = closing
    BY <1>4 DEF SendBacklog, memVars
  <2>3. QED
    BY <1>1, <2>1, <2>2 DEF ClosingOf, ChannelKept, Shut
<1>5. ASSUME SubscribeReturn(s) PROVE ClosingOf(s)' /\ ChannelKept(s)
  <2>1. sub'[s].at = "open" /\ sub'[s].backlog = sub[s].backlog
    <3>1. SubStep(s, [at |-> "open", marked |-> sub[s].marked, ch |-> sub[s].ch, cap |-> sub[s].cap,
                      backlog |-> sub[s].backlog, dropped |-> sub[s].dropped])
      BY <1>5, OtherEffects
    <3>2. QED
      BY <3>1, StepFields
  <2>2. sub[s].backlog = <<>>
    BY <1>5 DEF SubscribeReturn
  <2>3. QED
    BY <2>1, <2>2 DEF ClosingOf, ChannelKept, Shut
<1>6. ASSUME ReceiveEvent(s) PROVE ClosingOf(s)' /\ ChannelKept(s)
  <2>1. PICK h \in Seq(Event) : h = sub[s].ch
    BY <1>2
  <2>2. /\ sub'[s].at = sub[s].at /\ sub'[s].marked = sub[s].marked
        /\ sub'[s].backlog = sub[s].backlog /\ sub'[s].ch = Tail(h)
    <3>1. SubStep(s, [at |-> sub[s].at, marked |-> sub[s].marked, ch |-> Tail(sub[s].ch),
                      cap |-> sub[s].cap, backlog |-> sub[s].backlog, dropped |-> sub[s].dropped])
      BY <1>6, OtherEffects
    <3>2. PICK c : c = Tail(sub[s].ch)
      OBVIOUS
    <3>3. SubStep(s, [at |-> sub[s].at, marked |-> sub[s].marked, ch |-> c,
                      cap |-> sub[s].cap, backlog |-> sub[s].backlog, dropped |-> sub[s].dropped])
      BY <3>1, <3>2
    <3>4. /\ sub'[s].at = sub[s].at /\ sub'[s].marked = sub[s].marked
          /\ sub'[s].backlog = sub[s].backlog /\ sub'[s].ch = c
      BY <3>3, StepFields
    <3>5. QED
      BY <2>1, <3>2, <3>4
  <2>3. closing' = closing /\ h # <<>>
    BY <1>6, <2>1 DEF ReceiveEvent, memVars
  <2>4. Len(Tail(h)) <= Len(h)
    BY <2>3, HeadTailProperties, LenProperties
  <2>5. QED
    BY <1>1, <2>1, <2>2, <2>3, <2>4 DEF ClosingOf, ChannelKept, Shut
<1>7. ASSUME MarkClosed(s) PROVE ClosingOf(s)' /\ ChannelKept(s)
  <2>1. /\ sub'[s].at = sub[s].at /\ sub'[s].marked = TRUE
        /\ sub'[s].backlog = sub[s].backlog /\ sub'[s].ch = sub[s].ch
    <3>1. SubStep(s, [at |-> sub[s].at, marked |-> TRUE, ch |-> sub[s].ch, cap |-> sub[s].cap,
                      backlog |-> sub[s].backlog, dropped |-> sub[s].dropped])
      BY <1>7, OtherEffects
    <3>2. QED
      BY <3>1, StepFields
  <2>2. closing' = closing /\ ~Shut(s) /\ (sub[s].at = "sending" => s \in closing)
    BY <1>7 DEF MarkClosed, memVars, Shut
  <2>3. QED
    BY <1>1, <2>1, <2>2 DEF ClosingOf, ChannelKept, Shut
<1>8. ASSUME CloseChannel(s) PROVE ClosingOf(s)' /\ ChannelKept(s)
  <2>1. /\ sub'[s].marked = sub[s].marked
        /\ sub'[s].at = IF sub[s].backlog = <<>> THEN "closed" ELSE "panicked"
    <3>1. SubStep(s, [at |-> IF sub[s].backlog = <<>> THEN "closed" ELSE "panicked",
                      marked |-> sub[s].marked, ch |-> sub[s].ch, cap |-> sub[s].cap,
                      backlog |-> sub[s].backlog, dropped |-> sub[s].dropped])
      BY <1>8, OtherEffects
    <3>2. PICK x : x = IF sub[s].backlog = <<>> THEN "closed" ELSE "panicked"
      OBVIOUS
    <3>3. SubStep(s, [at |-> x, marked |-> sub[s].marked, ch |-> sub[s].ch, cap |-> sub[s].cap,
                      backlog |-> sub[s].backlog, dropped |-> sub[s].dropped])
      BY <3>1, <3>2
    <3>4. sub'[s].marked = sub[s].marked /\ sub'[s].at = x
      BY <3>3, StepFields
    <3>5. QED
      BY <3>2, <3>4
  <2>2. sub[s].marked /\ sub[s].at \in {"sending", "open"}
    BY <1>8 DEF CloseChannel
  <2>3. sub'[s].at = "panicked" => sub[s].at = "sending" /\ s \in closing
    BY <1>1, <2>1, <2>2 DEF ClosingOf
  <2>4. sub'[s].at \in {"closed", "panicked"} /\ ~Shut(s)
    BY <2>1, <2>2 DEF Shut
  <2>5. QED
    BY <2>1, <2>2, <2>3, <2>4 DEF ClosingOf, ChannelKept, Shut
<1>9. QED
  BY <1>3, <1>4, <1>5, <1>6, <1>7, <1>8 DEF Subscribing

\* Every step of the journal.
LEMMA ClosingStep ==
  ASSUME JTypeOK, Increasing(events), ClosingInv, [JNext]_jvars
  PROVE  ClosingInv' /\ \A s \in Sub : ChannelKept(s)
<1>1. (closing # {} => mode # "open")'
  BY DEF ClosingInv, JNext, Producing, AppendAssigned, Deliver, Finish, Subscribing, Subscribe, SendBacklog,
         SubscribeReturn, ReceiveEvent, MarkClosed, CloseChannel, Close, CloseFile, Restart, jvars, memVars
<1>2. SUFFICES ASSUME NEW s \in Sub PROVE ClosingOf(s)' /\ ChannelKept(s)
  BY <1>1 DEF ClosingInv
<1>3. ClosingOf(s)
  BY DEF ClosingInv
<1>4. ASSUME NEW p \in Producer, NEW t \in Sub, Deliver(p, t) PROVE ClosingOf(s)' /\ ChannelKept(s)
  <2>1. CASE t = s
    BY <1>3, <1>4, <2>1, ClosingDeliver
  <2>2. CASE t # s
    <3>1. sub'[s] = sub[s] /\ closing' = closing
      BY <1>4, <2>2 DEF Deliver, JTypeOK, memVars
    <3>2. QED
      BY <1>3, <3>1, ClosingElsewhere
  <2>3. QED
    BY <2>1, <2>2
<1>5. ASSUME NEW t \in Sub, Subscribing(t) PROVE ClosingOf(s)' /\ ChannelKept(s)
  <2>1. CASE t = s
    BY <1>5, <2>1, ClosingSubscribing
  <2>2. CASE t # s
    <3>1. sub'[s] = sub[s] /\ (s \in closing => s \in closing')
      BY <1>5, <2>2 DEF Subscribing, Subscribe, SendBacklog, SubscribeReturn, ReceiveEvent,
                        MarkClosed, CloseChannel, JTypeOK, memVars
    <3>2. QED
      BY <1>3, <3>1, ClosingElsewhere
  <2>3. QED
    BY <2>1, <2>2
<1>6. CASE Restart
  BY <1>6 DEF Restart, NoSubscription, ClosingOf, ChannelKept, Shut
<1>7. CASE \/ UNCHANGED jvars \/ Close \/ CloseFile
           \/ \E p \in Producer : AppendAssigned(p) \/ Finish(p)
  <2>1. sub' = sub
    BY <1>7 DEF jvars, subVars, Close, CloseFile, AppendAssigned, Finish
  <2>2. closing' = closing \/ closing = {}
    BY <1>7 DEF ClosingInv, jvars, memVars, Close, CloseFile, AppendAssigned, Finish
  <2>3. QED
    BY <1>3, <2>1, <2>2, ClosingElsewhere
<1>8. QED
  BY <1>4, <1>5, <1>6, <1>7, SMTT(40) DEF JNext, Producing

\* An Append under way finds its file open, deliver sends nothing on a closed channel, and
\* the one send that does, of Subscribe's backlog, panics only because of Memory.Close
\* (File.Close, Subscription.Close, deliver, Subscribe).
THEOREM ClosingDisturbsOnlySubscribeHolds == JSpec => ClosingDisturbsOnlySubscribe
<1>1. JInit => ClosingInv
  BY DEF JInit, ClosingInv, ClosingOf, NoSubscription, Shut
<1>2. JournalInv /\ ClosingInv /\ [JNext]_jvars => ClosingInv'
  BY ClosingStep DEF JournalInv, CoreInv, Numbered
<1>3. ASSUME JournalInv, JournalInv', ClosingInv, [JNext]_jvars
      PROVE  /\ Durable => \A p \in Producer : pc'[p] # "idle" => fileOpen'
             /\ \A s \in Sub : ChannelKept(s)
  <2>1. kind' = kind
    BY <1>3 DEF JNext, Producing, AppendAssigned, Deliver, Finish, Subscribing, Subscribe, SendBacklog,
                SubscribeReturn, ReceiveEvent, MarkClosed, CloseChannel, Close, CloseFile, Restart, jvars
  <2>2. Durable => \A p \in Producer : pc'[p] # "idle" => fileOpen'
    BY <1>3, <2>1 DEF JournalInv, CoreInv, Writing, Busy, Durable
  <2>3. QED
    BY <1>3, <2>2, ClosingStep, SMTT(40) DEF JournalInv, CoreInv, Numbered
<1>4. JournalInv /\ JournalInv' /\ ClosingInv /\ [JNext]_jvars =>
        [/\ Durable => \A p \in Producer : pc'[p] # "idle" => fileOpen'
         /\ \A s \in Sub :
              /\ Shut(s) /\ Shut(s)' => Len(sub'[s].ch) <= Len(sub[s].ch)
              /\ sub[s].at # "panicked" /\ sub'[s].at = "panicked" =>
                   sub[s].at = "sending" /\ s \in closing]_jvars
  BY <1>3 DEF ChannelKept
<1>5. QED
  BY <1>1, <1>2, <1>4, JournalInvariant, PTL DEF JSpec, ClosingDisturbsOnlySubscribe

\* The file implements the append-only log: a step of the journal, a restart in the
\* middle of a write included, adds a line above all others or leaves the file alone.
THEOREM FileRefinesAppendLog == JSpec => FileIsAppendLog
<1>1. JInit => Log!LogInit
  BY DEF JInit, Log!LogInit
<1>2. ASSUME JournalInv, [JNext]_jvars
      PROVE  [\E e \in Event : Log!Add(e)]_file
  <2>1. JTypeOK /\ CoreInv
    BY <1>2 DEF JournalInv
  <2>2. ASSUME NEW p \in Producer, Busy(p), Durable, file' = Append(file, ev[p])
        PROVE  \E e \in Event : Log!Add(e)
    <3>1. ev[p] \in Event /\ \A i \in DOMAIN file : file[i].seq < ev[p].seq
      BY <2>1, <2>2, BusyEvent DEF CoreInv, Writing
    <3>2. Log!Add(ev[p])
      BY <2>2, <3>1 DEF Log!Add
    <3>3. QED
      BY <3>1, <3>2
  <2>3. CASE \E p \in Producer : Finish(p)
    <3>1. PICK p \in Producer : Finish(p)
      BY <2>3
    <3>2. CASE ~Durable
      BY <3>1, <3>2 DEF Finish
    <3>3. CASE Durable
      <4>1. PICK o \in WriteOutcome(ev[p]) : file' = o.file
        BY <3>1, <3>3 DEF Finish
      <4>2. o.file = file \/ o.file = Append(file, ev[p])
        BY <2>1, WriteLeaves DEF JTypeOK
      <4>3. Busy(p)
        BY <3>1 DEF Finish, Busy
      <4>4. QED
        BY <2>2, <3>3, <4>1, <4>2, <4>3
    <3>4. QED
      BY <3>2, <3>3
  <2>4. CASE Restart
    <3>1. \/ file' = file
          \/ \E p \in Producer : Busy(p) /\ Durable /\ file' = Append(file, ev[p])
      BY <2>1, <2>4, RestartFinds, SMTT(40)
    <3>2. QED
      BY <2>2, <3>1
  <2>5. CASE ~Restart /\ ~\E p \in Producer : Finish(p)
    BY <1>2, <2>5 DEF JNext, Producing, AppendAssigned, Deliver, Subscribing, Subscribe, SendBacklog,
                SubscribeReturn, ReceiveEvent, MarkClosed, CloseChannel, Close, CloseFile, jvars, fileVars
  <2>6. QED
    BY <2>3, <2>4, <2>5
<1>3. JournalInv /\ [JNext]_jvars => [\E e \in Event : Log!Add(e)]_file
  BY <1>2
<1>4. QED
  BY <1>1, <1>3, JournalInvariant, PTL DEF JSpec, FileIsAppendLog, Log!LogSpec


----------------------------------------------------------------------------
(* Observation: one record per session.                                    *)

\* A session the host owns has an open journal, opened once; before Close the
\* others have none, and after it only journals still to be closed are open.
SessionOk(s, j) ==
    /\ DOMAIN j = {"state", "log", "lines", "opened"}
    /\ j.opened \in {0, 1} /\ (j.opened = 0 => j.state # "open")
    /\ ~host.closed => (s \in host.sessions <=> j.state = "open")
    /\ ~host.closed => (s \notin host.sessions => j.opened = 0)
    /\ host.closed => (j.state = "open" => s \in sealing)

RecordInv ==
    /\ DOMAIN host = {"closed", "sessions"} /\ host.closed \in BOOLEAN
    /\ DOMAIN journals = ObsSessions
    /\ host.sessions \subseteq ObsSessions /\ sealing \subseteq ObsSessions
    /\ host.closed <=> stopping = "journals"
    /\ ~host.closed => sealing = {}
    /\ \A s \in ObsSessions : SessionOk(s, journals[s])

\* Hello attaches, opens a journal or fails.
LEMMA HelloKeepsRecords ==
    ASSUME RecordInv, NEW s \in ObsSessions, NEW opens \in BOOLEAN, Hello(s, opens), UNCHANGED <<sealing, stopping>>
    PROVE  /\ RecordInv'
           /\ \A x \in ObsSessions : journals'[x].log = journals[x].log /\ journals'[x].lines = journals[x].lines
<1>1. CASE UNCHANGED <<host, journals>>
  BY <1>1 DEF RecordInv, SessionOk
<1>2. CASE /\ s \notin host.sessions /\ ~host.closed
           /\ host' = [host EXCEPT !.sessions = @ \cup {s}]
           /\ journals' = [journals EXCEPT ![s].state = "open", ![s].opened = @ + 1]
  <2>0. PICK j, k : j = journals[s] /\ k = [[j EXCEPT !.state = "open"] EXCEPT !.opened = @ + 1]
    OBVIOUS
  <2>1. DOMAIN j = {"state", "log", "lines", "opened"} /\ j.opened = 0
    BY <1>2, <2>0 DEF RecordInv, SessionOk
  <2>2. /\ DOMAIN k = {"state", "log", "lines", "opened"} /\ k.state = "open" /\ k.opened = 1
        /\ k.log = j.log /\ k.lines = j.lines
    BY <2>0, <2>1
  <2>3. journals' = [journals EXCEPT ![s] = k]
    BY <1>2, <2>0, ZenonT(60) DEF RecordInv
  <2>4. journals'[s] = k /\ DOMAIN journals' = ObsSessions /\ \A x \in ObsSessions : x # s => journals'[x] = journals[x]
    BY <2>3 DEF RecordInv
  <2>5. DOMAIN host' = {"closed", "sessions"} /\ host'.closed = host.closed /\ host'.sessions = host.sessions \cup {s}
    BY <1>2 DEF RecordInv
  <2>6. \A x \in ObsSessions : SessionOk(x, journals[x])'
    <3> SUFFICES ASSUME NEW x \in ObsSessions PROVE SessionOk(x, journals[x])'
      OBVIOUS
    <3>1. CASE x = s
      <4>1. ~host'.closed /\ s \in host'.sessions
        BY <1>2, <2>5
      <4>2. SessionOk(x, k)'
        BY <3>1, <4>1, <2>2 DEF SessionOk
      <4> QED
        BY <3>1, <4>2, <2>4
    <3>2. CASE x # s
      <4>1. SessionOk(x, journals[x])
        BY DEF RecordInv
      <4> QED
        BY <4>1, <3>2, <1>2, <2>4, <2>5 DEF SessionOk
    <3> QED
      BY <3>1, <3>2
  <2>7. RecordInv'
    BY <1>2, <2>4, <2>5, <2>6 DEF RecordInv
  <2> QED
    BY <2>0, <2>2, <2>4, <2>7
<1> QED
  BY <1>1, <1>2 DEF Hello

\* Appending to a journal leaves its state.
LEMMA WriteKeepsRecords ==
    ASSUME RecordInv, NEW s \in ObsSessions, UNCHANGED <<host, sealing, stopping>>,
           NEW j, journals' = [journals EXCEPT ![s] = j],
           DOMAIN j = {"state", "log", "lines", "opened"},
           j.state = journals[s].state, j.opened = journals[s].opened
    PROVE  RecordInv'
<1>1. ASSUME NEW x \in ObsSessions PROVE SessionOk(x, journals[x])'
  <2>1. SessionOk(x, journals[x])
    BY DEF RecordInv
  <2>2. journals'[x] = IF x = s THEN j ELSE journals[x]
    BY DEF RecordInv
  <2> QED
    BY <2>1, <2>2 DEF SessionOk
<1> QED
  BY <1>1 DEF RecordInv

\* Local.Close takes the sessions, and closes their journals one by one.
LEMMA CloseHostKeepsRecords ==
    ASSUME RecordInv, CloseHost PROVE RecordInv'
<1>1. /\ host' = [closed |-> TRUE, sessions |-> {}] /\ sealing' = host.sessions /\ stopping' = "journals"
      /\ journals' = journals /\ stopping = "host"
  BY DEF CloseHost
<1>2. ~host.closed
  BY <1>1 DEF RecordInv
<1>3. ASSUME NEW x \in ObsSessions PROVE SessionOk(x, journals[x])'
  <2>1. SessionOk(x, journals[x])
    BY DEF RecordInv
  <2> QED
    BY <1>1, <1>2, <2>1 DEF SessionOk
<1> QED
  BY <1>1, <1>3 DEF RecordInv

LEMMA CloseJournalKeepsRecords ==
    ASSUME RecordInv, NEW s \in ObsSessions, CloseJournal(s)
    PROVE  /\ RecordInv'
           /\ \A x \in ObsSessions : journals'[x].log = journals[x].log /\ journals'[x].lines = journals[x].lines
<1> DEFINE j == journals[s]
           k == [j EXCEPT !.state = "closed"]
<1>1. /\ journals' = [journals EXCEPT ![s] = k] /\ sealing' = sealing \ {s} /\ s \in sealing
      /\ host' = host /\ stopping' = stopping
  BY DEF CloseJournal, RecordInv
<1>2. DOMAIN j = {"state", "log", "lines", "opened"}
  BY DEF RecordInv, SessionOk
<1>3. /\ DOMAIN k = {"state", "log", "lines", "opened"} /\ k.state = "closed" /\ k.opened = j.opened
      /\ k.log = j.log /\ k.lines = j.lines
  <2> HIDE DEF j
  <2> QED
    BY <1>2
<1> HIDE DEF k
<1>4. journals'[s] = k /\ DOMAIN journals' = ObsSessions /\ \A x \in ObsSessions : x # s => journals'[x] = journals[x]
  BY <1>1 DEF RecordInv
<1>5. host.closed
  BY <1>1 DEF RecordInv
<1>6. ASSUME NEW x \in ObsSessions PROVE SessionOk(x, journals[x])'
  <2>1. SessionOk(x, journals[x])
    BY DEF RecordInv
  <2> QED
    BY <1>1, <1>3, <1>4, <1>5, <2>1 DEF SessionOk
<1>7. RecordInv'
  BY <1>1, <1>4, <1>6 DEF RecordInv
<1> QED
  BY <1>3, <1>4, <1>7

LEMMA RecordsAreOne ==
    ASSUME RecordInv PROVE OneRecordPerSession
BY DEF RecordInv, SessionOk, OneRecordPerSession

----------------------------------------------------------------------------
(* Emissions.                                                              *)

TaskFields == {"pc", "op", "session", "todo", "outcome", "accepted", "dropped", "batch", "entitled"}

\* A call answers each of its observations once; one that is under way has the
\* observation it is at, and a report has none.
TaskOk(t) ==
    /\ DOMAIN t = TaskFields
    /\ t.todo \in Seq(ObservedEvent)
    /\ t.accepted \in Nat /\ t.dropped \in Nat /\ t.batch \in Nat /\ t.entitled \in Nat
    /\ t.accepted + t.dropped + Len(t.todo) = t.batch
    /\ t.pc # "idle" => t.session \in ObsSessions
    /\ t.op = "report" => t.todo = <<>> /\ t.pc \notin {"append", "count"}
    /\ t.op # "report" /\ t.pc \in {"mark", "lookup", "append", "count"} => t.todo # <<>>
    /\ t.pc = "count" => t.outcome \in {"accepted", "dropped", "failed"}

\* The journal numbers its events from zero, and has a line for some of them.
LogOk(log, lines) ==
    /\ log \in Seq(ObservedEvent) /\ lines \in Nat /\ lines <= Len(log)
    /\ \A i \in 1 .. Len(log) : log[i].seq = i - 1

StatsOk(x) ==
    /\ DOMAIN x = {"accepted", "dropped", "failed"}
    /\ x.accepted \in Nat /\ x.dropped \in Nat /\ x.failed \in Nat

\* The goroutines that are about to count an outcome.
Counting(T, s, x) == {g \in Goroutines : T[g].pc = "count" /\ T[g].session = s /\ T[g].outcome = x}

CountOk(T, s, x, log, lines) ==
    /\ x.accepted + Cardinality(Counting(T, s, "accepted")) = lines
    /\ Len(log) - lines <= x.failed + Cardinality(Counting(T, s, "failed"))

EmitInv ==
    /\ DOMAIN task = Goroutines /\ DOMAIN stats = ObsSessions
    /\ \A g \in Goroutines : TaskOk(task[g])
    /\ \A s \in ObsSessions :
          /\ LogOk(journals[s].log, journals[s].lines) /\ StatsOk(stats[s])
          /\ CountOk(task, s, stats[s], journals[s].log, journals[s].lines)
    /\ \A g \in Goroutines : task[g].pc # "idle" => task[g].entitled <= Len(journals[task[g].session].log)
    /\ ReportsCurrent

SameLogs == \A x \in ObsSessions : journals'[x].log = journals[x].log /\ journals'[x].lines = journals[x].lines

LEMMA CountingFinite ==
    ASSUME NEW T, NEW s, NEW x
    PROVE  IsFiniteSet(Counting(T, s, x)) /\ Cardinality(Counting(T, s, x)) \in Nat
<1>1. Counting(T, s, x) \subseteq Goroutines
  BY DEF Counting
<1> QED
  BY <1>1, ObservationAssumption, FS_Subset, FS_CardinalityType

\* A step of a goroutine that is not counting, and will not count an accepted
\* observation, over journals that stay.
LEMMA TaskMoves ==
    ASSUME EmitInv, NEW g \in Goroutines, task[g].pc # "count",
           NEW y, TaskOk(y), y.pc = "count" => y.outcome # "accepted",
           y.pc # "idle" => y.entitled <= Len(journals[y.session].log),
           task' = [task EXCEPT ![g] = y], SameLogs, stats' = stats, ReportsCurrent'
    PROVE  EmitInv'
<1>1. DOMAIN task' = Goroutines /\ task'[g] = y /\ \A h \in Goroutines : h # g => task'[h] = task[h]
  BY DEF EmitInv
<1>2. \A h \in Goroutines : TaskOk(task'[h])
  BY <1>1 DEF EmitInv
<1>3. ASSUME NEW s \in ObsSessions
      PROVE  CountOk(task', s, stats[s], journals[s].log, journals[s].lines)
  <2>1. Counting(task', s, "accepted") = Counting(task, s, "accepted")
    BY <1>1 DEF Counting
  <2>2. Counting(task, s, "failed") \subseteq Counting(task', s, "failed")
    BY <1>1 DEF Counting
  <2>3. Cardinality(Counting(task, s, "failed")) <= Cardinality(Counting(task', s, "failed"))
    BY <2>2, CountingFinite, FS_Subset
  <2>4. PICK a \in Nat, b \in Nat : a = Cardinality(Counting(task, s, "failed")) /\ b = Cardinality(Counting(task', s, "failed"))
    BY CountingFinite
  <2>5. CountOk(task, s, stats[s], journals[s].log, journals[s].lines) /\ StatsOk(stats[s])
        /\ LogOk(journals[s].log, journals[s].lines)
    BY DEF EmitInv
  <2>6. PICK n \in Nat, m \in Nat, f \in Nat : n = Len(journals[s].log) /\ m = journals[s].lines /\ f = stats[s].failed
    BY <2>5 DEF LogOk, StatsOk
  <2>7. n - m <= f + b
    <3>1. n - m <= f + a
      BY <2>4, <2>5, <2>6 DEF CountOk
    <3>2. a <= b
      BY <2>3, <2>4
    <3> QED
      BY <3>1, <3>2
  <2> QED
    BY <2>1, <2>4, <2>5, <2>6, <2>7 DEF CountOk
<1>4. ASSUME NEW s \in ObsSessions
      PROVE  /\ LogOk(journals'[s].log, journals'[s].lines) /\ StatsOk(stats'[s])
             /\ CountOk(task', s, stats'[s], journals'[s].log, journals'[s].lines)
  <2>1. journals'[s].log = journals[s].log /\ journals'[s].lines = journals[s].lines
    BY DEF SameLogs
  <2>2. LogOk(journals[s].log, journals[s].lines) /\ StatsOk(stats[s])
    BY DEF EmitInv
  <2> QED
    BY <1>3, <2>1, <2>2
<1>5. ASSUME NEW h \in Goroutines, task'[h].pc # "idle"
      PROVE  task'[h].entitled <= Len(journals'[task'[h].session].log)
  <2>1. task'[h].session \in ObsSessions
    BY <1>2, <1>5 DEF TaskOk
  <2>2. journals'[task'[h].session].log = journals[task'[h].session].log
    BY <2>1 DEF SameLogs
  <2> QED
    BY <1>1, <1>5, <2>2 DEF EmitInv
<1> QED
  BY <1>1, <1>2, <1>4, <1>5 DEF EmitInv

\* A step that no goroutine of the daemon takes.
LEMMA NothingEmitted ==
    ASSUME EmitInv, UNCHANGED <<task, stats, reports>>, SameLogs
    PROVE  EmitInv'
<1>1. ASSUME NEW s \in ObsSessions
      PROVE  /\ LogOk(journals'[s].log, journals'[s].lines) /\ StatsOk(stats'[s])
             /\ CountOk(task', s, stats'[s], journals'[s].log, journals'[s].lines)
  <2>1. journals'[s].log = journals[s].log /\ journals'[s].lines = journals[s].lines
    BY DEF SameLogs
  <2>2. /\ LogOk(journals[s].log, journals[s].lines) /\ StatsOk(stats[s])
        /\ CountOk(task, s, stats[s], journals[s].log, journals[s].lines)
    BY DEF EmitInv
  <2>3. task' = task /\ stats' = stats
    OBVIOUS
  <2> QED
    BY <2>1, <2>2, <2>3
<1>2. ASSUME NEW h \in Goroutines, task'[h].pc # "idle"
      PROVE  task'[h].entitled <= Len(journals'[task'[h].session].log)
  <2>1. task[h].session \in ObsSessions
    BY <1>2 DEF EmitInv, TaskOk
  <2> QED
    BY <1>2, <2>1 DEF SameLogs, EmitInv
<1>3. ReportsCurrent'
  BY DEF EmitInv, ReportsCurrent
<1> QED
  BY <1>1, <1>2, <1>3 DEF EmitInv

\* A task whose place, or place and outcome, is changed.
LEMMA TaskAt ==
    ASSUME NEW t, DOMAIN t = TaskFields, NEW p
    PROVE  LET y == [t EXCEPT !.pc = p]
           IN  /\ DOMAIN y = TaskFields /\ y.pc = p /\ y.op = t.op /\ y.session = t.session /\ y.todo = t.todo
               /\ y.outcome = t.outcome /\ y.accepted = t.accepted /\ y.dropped = t.dropped
               /\ y.batch = t.batch /\ y.entitled = t.entitled
BY DEF TaskFields

LEMMA TaskCounts ==
    ASSUME NEW t, DOMAIN t = TaskFields, NEW x
    PROVE  LET y == [[t EXCEPT !.pc = "count"] EXCEPT !.outcome = x]
           IN  /\ DOMAIN y = TaskFields /\ y.pc = "count" /\ y.op = t.op /\ y.session = t.session /\ y.todo = t.todo
               /\ y.outcome = x /\ y.accepted = t.accepted /\ y.dropped = t.dropped
               /\ y.batch = t.batch /\ y.entitled = t.entitled
BY DEF TaskFields

LEMMA RestingOk == TaskOk(Resting) /\ Resting.pc = "idle"
BY DEF Resting, TaskOk, TaskFields

\* Where a task may go from one place to another.
LEMMA TaskGoes ==
    ASSUME NEW t, TaskOk(t), NEW p \in {"mark", "lookup", "append", "replay"}, t.pc # "idle",
           t.op # "report" => t.todo # <<>>, t.op = "report" => p # "append"
    PROVE  TaskOk([t EXCEPT !.pc = p])
<1>1. DOMAIN t = TaskFields
  BY DEF TaskOk
<1>2. PICK y : y = [t EXCEPT !.pc = p]
  OBVIOUS
<1>3. /\ DOMAIN y = TaskFields /\ y.pc = p /\ y.op = t.op /\ y.session = t.session /\ y.todo = t.todo
      /\ y.outcome = t.outcome /\ y.accepted = t.accepted /\ y.dropped = t.dropped
      /\ y.batch = t.batch /\ y.entitled = t.entitled
  BY <1>1, <1>2, TaskAt
<1>4. TaskOk(y)
  BY <1>3 DEF TaskOk
<1> QED
  BY <1>2, <1>4

LEMMA TaskWillCount ==
    ASSUME NEW t, TaskOk(t), NEW x \in {"accepted", "dropped", "failed"}, t.pc # "idle",
           t.op # "report", t.todo # <<>>
    PROVE  TaskOk([[t EXCEPT !.pc = "count"] EXCEPT !.outcome = x])
<1>1. DOMAIN t = TaskFields
  BY DEF TaskOk
<1>2. PICK y : y = [[t EXCEPT !.pc = "count"] EXCEPT !.outcome = x]
  OBVIOUS
<1>3. /\ DOMAIN y = TaskFields /\ y.pc = "count" /\ y.op = t.op /\ y.session = t.session /\ y.todo = t.todo
      /\ y.outcome = x /\ y.accepted = t.accepted /\ y.dropped = t.dropped
      /\ y.batch = t.batch /\ y.entitled = t.entitled
  BY <1>1, <1>2, TaskCounts
<1>4. TaskOk(y)
  BY <1>3 DEF TaskOk
<1> QED
  BY <1>2, <1>4

\* An observation of the call is answered: it leaves the call's list.
LEMMA TaskAnswers ==
    ASSUME NEW t, TaskOk(t), t.todo # <<>>, NEW y, DOMAIN y = TaskFields,
           y.op = t.op, y.session = t.session, y.batch = t.batch, y.entitled = t.entitled,
           y.todo = Tail(t.todo), y.pc = "ensure", t.pc # "idle",
           \/ y.accepted = t.accepted + 1 /\ y.dropped = t.dropped
           \/ y.accepted = t.accepted /\ y.dropped = t.dropped + 1
    PROVE  TaskOk(y)
<1>1. t.todo \in Seq(ObservedEvent) /\ t.op # "report"
  BY DEF TaskOk
<1>2. PICK n \in Nat : n = Len(t.todo)
  BY <1>1
<1>3. Tail(t.todo) \in Seq(ObservedEvent) /\ Len(Tail(t.todo)) = n - 1 /\ n > 0
  BY <1>1, <1>2, HeadTailProperties, EmptySeq
<1>4. PICK a \in Nat, d \in Nat, b \in Nat : a = t.accepted /\ d = t.dropped /\ b = t.batch
  BY DEF TaskOk
<1>5. a + d + n = b
  BY <1>2, <1>4 DEF TaskOk
<1>6. y.accepted \in Nat /\ y.dropped \in Nat /\ y.accepted + y.dropped + Len(y.todo) = y.batch
  <2>1. PICK k \in Nat : k = n - 1 /\ Len(y.todo) = k
    BY <1>2, <1>3
  <2>2. (y.accepted = a + 1 /\ y.dropped = d) \/ (y.accepted = a /\ y.dropped = d + 1)
    BY <1>4
  <2>3. y.batch = b
    BY <1>4
  <2> QED
    BY <2>1, <2>2, <2>3, <1>5, SMTT(40)
<1> QED
  BY <1>1, <1>3, <1>6 DEF TaskOk

AfterGiveUp(t) == IF t.todo = <<>> THEN Resting ELSE [[t EXCEPT !.todo = Tail(@)] EXCEPT !.dropped = @ + 1]

\* GiveUp of an observation, or of the report.
LEMMA GivenUp ==
    ASSUME NEW t, TaskOk(t), t.pc \in {"ensure", "lookup"}, t.pc = "lookup" => t.op = "report", NEW y,
           y = AfterGiveUp(t)
    PROVE  TaskOk(y) /\ y.pc \in {"idle", "ensure"} /\ (y.pc = "ensure" => y.entitled = t.entitled /\ y.session = t.session)
<1>1. CASE t.todo = <<>>
  BY <1>1, RestingOk DEF AfterGiveUp
<1>2. CASE t.todo # <<>>
  <2>1. DOMAIN t = TaskFields /\ t.pc = "ensure"
    BY <1>2 DEF TaskOk
  <2>2. y = [[t EXCEPT !.todo = Tail(@)] EXCEPT !.dropped = @ + 1]
    BY <1>2 DEF AfterGiveUp
  <2>3. /\ DOMAIN y = TaskFields /\ y.pc = t.pc /\ y.op = t.op /\ y.session = t.session /\ y.todo = Tail(t.todo)
        /\ y.accepted = t.accepted /\ y.dropped = t.dropped + 1
        /\ y.batch = t.batch /\ y.entitled = t.entitled
    BY <2>1, <2>2 DEF TaskFields
  <2>4. TaskOk(y)
    BY <1>2, <2>1, <2>3, TaskAnswers
  <2> QED
    BY <2>1, <2>3, <2>4
<1> QED
  BY <1>1, <1>2

\* A goroutine's steps that leave logs and counters alone.
LEMMA QuietSteps ==
    ASSUME EmitInv, NEW g \in Goroutines, SameLogs, stats' = stats, reports' = reports,
           NEW t, t = task[g],
           \/ /\ t.pc \in {"ensure", "mark", "lookup", "append"} /\ (t.op # "report" => t.todo # <<>>)
              /\ \/ \E p \in {"mark", "lookup", "append", "replay"} :
                       (t.op = "report" => p # "append") /\ task' = [task EXCEPT ![g] = [t EXCEPT !.pc = p]]
                 \/ /\ t.op # "report"
                    /\ \E x \in {"dropped", "failed"} :
                          task' = [task EXCEPT ![g] = [[t EXCEPT !.pc = "count"] EXCEPT !.outcome = x]]
           \/ /\ t.pc \in {"ensure", "lookup"} /\ (t.pc = "lookup" => t.op = "report")
              /\ task' = [task EXCEPT ![g] = AfterGiveUp(t)]
           \/ t.pc = "ensure" /\ task' = [task EXCEPT ![g] = Resting]
    PROVE  EmitInv'
<1>0. TaskOk(t) /\ t.pc \notin {"idle", "count"} /\ t.entitled <= Len(journals[t.session].log)
  BY DEF EmitInv
<1>1. ReportsCurrent'
  BY DEF EmitInv, ReportsCurrent
<1>2. ASSUME NEW p \in {"mark", "lookup", "append", "replay"}, t.op = "report" => p # "append",
             t.op # "report" => t.todo # <<>>, task' = [task EXCEPT ![g] = [t EXCEPT !.pc = p]]
      PROVE  EmitInv'
  <2>1. PICK y : y = [t EXCEPT !.pc = p]
    OBVIOUS
  <2>2. TaskOk(y)
    BY <1>0, <1>2, <2>1, TaskGoes
  <2>3. y.pc = p /\ y.session = t.session /\ y.entitled = t.entitled
    BY <1>0, <2>1, TaskAt DEF TaskOk
  <2> QED
    BY <1>0, <1>1, <1>2, <2>1, <2>2, <2>3, TaskMoves
<1>3. ASSUME NEW x \in {"dropped", "failed"}, t.op # "report", t.todo # <<>>,
             task' = [task EXCEPT ![g] = [[t EXCEPT !.pc = "count"] EXCEPT !.outcome = x]]
      PROVE  EmitInv'
  <2>1. PICK y : y = [[t EXCEPT !.pc = "count"] EXCEPT !.outcome = x]
    OBVIOUS
  <2>2. TaskOk(y)
    BY <1>0, <1>3, <2>1, TaskWillCount
  <2>3. y.outcome = x /\ y.session = t.session /\ y.entitled = t.entitled
    BY <1>0, <2>1, TaskCounts DEF TaskOk
  <2> QED
    BY <1>0, <1>1, <1>3, <2>1, <2>2, <2>3, TaskMoves
<1>4. ASSUME t.pc \in {"ensure", "lookup"}, t.pc = "lookup" => t.op = "report",
             task' = [task EXCEPT ![g] = AfterGiveUp(t)]
      PROVE  EmitInv'
  <2>1. PICK y : y = AfterGiveUp(t)
    OBVIOUS
  <2>2. TaskOk(y) /\ y.pc \in {"idle", "ensure"} /\ (y.pc = "ensure" => y.entitled = t.entitled /\ y.session = t.session)
    BY <1>0, <1>4, <2>1, GivenUp
  <2>3. task' = [task EXCEPT ![g] = y]
    BY <1>4, <2>1
  <2> QED
    BY <1>0, <1>1, <2>2, <2>3, TaskMoves
<1>5. CASE t.pc = "ensure" /\ task' = [task EXCEPT ![g] = Resting]
  BY <1>0, <1>1, <1>5, RestingOk, TaskMoves
<1> QED
  BY <1>2, <1>3, <1>4, <1>5

\* A call begins with what it is entitled to: what was accepted before.
LEMMA BeginKeeps ==
    ASSUME EmitInv, NEW g \in Goroutines, NEW op \in {"emit", "ingest", "report"}, NEW s \in ObsSessions,
           NEW todo \in Seq(ObservedEvent), op = "report" => todo = <<>>, BeginCall(g, op, s, todo)
    PROVE  EmitInv'
<1>1. PICK e : e = stats[s].accepted
  OBVIOUS
<1>2. PICK y : y = [pc |-> "ensure", op |-> op, session |-> s, todo |-> todo, outcome |-> "none",
                    accepted |-> 0, dropped |-> 0, batch |-> Len(todo), entitled |-> e]
  OBVIOUS
<1>3. task' = [task EXCEPT ![g] = y]
  BY <1>1, <1>2 DEF BeginCall
<1>4. task[g].pc # "count" /\ stats' = stats /\ reports' = reports /\ journals' = journals
  BY DEF BeginCall, At
<1>5. /\ StatsOk(stats[s]) /\ LogOk(journals[s].log, journals[s].lines)
      /\ CountOk(task, s, stats[s], journals[s].log, journals[s].lines)
  BY DEF EmitInv
<1>6. PICK l \in Nat, n \in Nat : l = journals[s].lines /\ n = Len(journals[s].log) /\ l <= n
  BY <1>5 DEF LogOk
<1>7. PICK c \in Nat : c = Cardinality(Counting(task, s, "accepted"))
  BY CountingFinite
<1>8. e \in Nat /\ e + c = l
  BY <1>1, <1>5, <1>6, <1>7 DEF StatsOk, CountOk
<1>9. e <= n
  BY <1>6, <1>8
<1>10. TaskOk(y)
  <2>1. PICK b \in Nat : b = Len(todo)
    OBVIOUS
  <2>2. 0 + 0 + b = b
    OBVIOUS
  <2>3. /\ DOMAIN y = TaskFields
        /\ y.pc = "ensure" /\ y.op = op /\ y.session = s /\ y.todo = todo /\ y.accepted = 0 /\ y.dropped = 0
        /\ y.batch = b /\ y.entitled = e
    BY <1>2, <2>1 DEF TaskFields
  <2> QED
    BY <1>8, <2>1, <2>2, <2>3 DEF TaskOk
<1>11. y.pc = "ensure" /\ y.session = s /\ y.entitled = e
  BY <1>2
<1>12. SameLogs /\ ReportsCurrent'
  BY <1>4 DEF SameLogs, EmitInv, ReportsCurrent
<1> QED
  BY <1>3, <1>4, <1>6, <1>9, <1>10, <1>11, <1>12, TaskMoves

\* What is journaled is an observation, with the sequence it was given.
LEMMA SanitizedOk ==
    ASSUME NEW o \in ObservedEvent, NEW n \in Nat
    PROVE  /\ Sanitize(o) \in ObservedEvent
           /\ [Sanitize(o) EXCEPT !.seq = n] \in ObservedEvent /\ [Sanitize(o) EXCEPT !.seq = n].seq = n
<1>1. PICK v \in BOOLEAN, k \in SUBSET STRING, y \in STRING, w \in STRING, a \in STRING, q \in Nat :
         o = [valid |-> v, keys |-> k, type |-> y, wp |-> w, actor |-> a, seq |-> q]
  BY DEF ObservedEvent
<1>2. Sanitize(o) = [valid |-> v, keys |-> k \cap Allowlist, type |-> y, wp |-> w, actor |-> a, seq |-> q]
  BY <1>1 DEF Sanitize
<1>3. [Sanitize(o) EXCEPT !.seq = n] = [valid |-> v, keys |-> k \cap Allowlist, type |-> y, wp |-> w, actor |-> a, seq |-> n]
  BY <1>2
<1>4. k \cap Allowlist \in SUBSET STRING
  OBVIOUS
<1> QED
  BY <1>2, <1>3, <1>4 DEF ObservedEvent

LEMMA LogGrows ==
    ASSUME NEW log, NEW lines, LogOk(log, lines), NEW o \in ObservedEvent, o.seq = Len(log),
           NEW more \in {0, 1}
    PROVE  /\ LogOk(Append(log, o), lines + more)
           /\ Len(Append(log, o)) = Len(log) + 1 /\ Len(log) \in Nat /\ lines \in Nat
<1>1. PICK n \in Nat : n = Len(log)
  BY DEF LogOk
<1>2. PICK p : p = Append(log, o)
  OBVIOUS
<1>3. p \in Seq(ObservedEvent) /\ Len(p) = n + 1 /\ p[n + 1] = o /\ \A i \in 1 .. n : p[i] = log[i]
  BY <1>1, <1>2 DEF LogOk
<1>4. \A i \in 1 .. n + 1 : p[i].seq = i - 1
  <2> SUFFICES ASSUME NEW i \in 1 .. n + 1 PROVE p[i].seq = i - 1
    OBVIOUS
  <2>1. i \in 1 .. n \/ i = n + 1
    OBVIOUS
  <2> QED
    BY <2>1, <1>1, <1>3 DEF LogOk
<1>5. lines + more \in Nat /\ lines + more <= n + 1 /\ lines \in Nat
  BY <1>1 DEF LogOk
<1> QED
  BY <1>1, <1>2, <1>3, <1>4, <1>5 DEF LogOk

\* Journal.Append of an observation, with or without its line.
Appends(g, t, o, more, x) ==
    /\ t = task[g] /\ t.pc = "append"
    /\ x \in {"accepted", "failed"} /\ (x = "accepted" <=> more = 1)
    /\ o.seq = Len(journals[t.session].log)
    /\ task' = [task EXCEPT ![g] = [[t EXCEPT !.pc = "count"] EXCEPT !.outcome = x]]
    /\ \A s \in ObsSessions : s # t.session => journals'[s] = journals[s]
    /\ journals'[t.session].log = Append(journals[t.session].log, o)
    /\ journals'[t.session].lines = journals[t.session].lines + more
    /\ stats' = stats /\ reports' = reports

LEMMA AppendKeeps ==
    ASSUME EmitInv, NEW g \in Goroutines, NEW o \in ObservedEvent, NEW more \in {0, 1}, NEW t, NEW x,
           Appends(g, t, o, more, x)
    PROVE  EmitInv'
<1> USE DEF Appends
<1>0. TaskOk(t) /\ t.session \in ObsSessions /\ t.op # "report" /\ t.todo # <<>>
      /\ t.entitled <= Len(journals[t.session].log)
  BY DEF EmitInv, TaskOk
<1>1. PICK y : y = [[t EXCEPT !.pc = "count"] EXCEPT !.outcome = x]
  OBVIOUS
<1>2. TaskOk(y)
  BY <1>0, <1>1, TaskWillCount
<1>3. y.pc = "count" /\ y.outcome = x /\ y.session = t.session /\ y.entitled = t.entitled
  BY <1>0, <1>1, TaskCounts DEF TaskOk
<1>4. DOMAIN task' = Goroutines /\ task'[g] = y /\ \A h \in Goroutines : h # g => task'[h] = task[h]
  BY <1>1 DEF EmitInv
<1>5. \A h \in Goroutines : TaskOk(task'[h])
  BY <1>2, <1>4 DEF EmitInv
<1>6. ASSUME NEW s \in ObsSessions
      PROVE  LogOk(journals'[s].log, journals'[s].lines) /\ Len(journals[s].log) \in Nat
             /\ Len(journals'[s].log) \in Nat /\ Len(journals[s].log) <= Len(journals'[s].log)
  <2>1. LogOk(journals[s].log, journals[s].lines)
    BY DEF EmitInv
  <2>0. PICK n \in Nat : n = Len(journals[s].log)
    <3>1. PICK log : log = journals[s].log
      OBVIOUS
    <3>2. log \in Seq(ObservedEvent)
      BY <2>1, <3>1 DEF LogOk
    <3> QED
      BY <3>1, <3>2
  <2>2. CASE s # t.session
    <3>1. journals'[s] = journals[s]
      BY <2>2
    <3> QED
      BY <2>0, <2>1, <3>1
  <2>3. CASE s = t.session
    <3>1. /\ LogOk(Append(journals[s].log, o), journals[s].lines + more)
          /\ Len(Append(journals[s].log, o)) = n + 1
      BY <2>0, <2>1, <2>3, LogGrows
    <3>2. journals'[s].log = Append(journals[s].log, o) /\ journals'[s].lines = journals[s].lines + more
      BY <2>3
    <3>3. Len(journals'[s].log) = n + 1
      BY <3>1, <3>2
    <3> QED
      BY <2>0, <3>1, <3>2, <3>3
  <2> QED
    BY <2>2, <2>3
<1>7. ASSUME NEW s \in ObsSessions
      PROVE  CountOk(task', s, stats[s], journals'[s].log, journals'[s].lines)
  <2>0. CountOk(task, s, stats[s], journals[s].log, journals[s].lines) /\ StatsOk(stats[s])
        /\ LogOk(journals[s].log, journals[s].lines)
    BY DEF EmitInv
  <2>1. CASE s # t.session
    <3>1. Counting(task', s, "accepted") = Counting(task, s, "accepted") /\ Counting(task', s, "failed") = Counting(task, s, "failed")
      BY <2>1, <1>3, <1>4 DEF Counting
    <3>2. journals'[s] = journals[s]
      BY <2>1
    <3> QED
      BY <2>0, <3>1, <3>2 DEF CountOk
  <2>2. CASE s = t.session
    <3>1. PICK a \in Nat, f \in Nat : a = Cardinality(Counting(task, s, "accepted")) /\ f = Cardinality(Counting(task, s, "failed"))
      BY CountingFinite
    <3>2. PICK n \in Nat, l \in Nat, p \in Nat, q \in Nat :
             n = Len(journals[s].log) /\ l = journals[s].lines /\ p = stats[s].accepted /\ q = stats[s].failed
      <4>1. Len(journals[s].log) \in Nat /\ journals[s].lines \in Nat
        BY <2>0 DEF LogOk
      <4>2. stats[s].accepted \in Nat /\ stats[s].failed \in Nat
        BY <2>0 DEF StatsOk
      <4> QED
        BY <4>1, <4>2
    <3>3. p + a = l /\ n - l <= q + f
      BY <2>0, <3>1, <3>2, SMTT(40) DEF CountOk
    <3>4. Len(journals'[s].log) = n + 1 /\ journals'[s].lines = l + more
      BY <2>0, <2>2, <3>2, LogGrows
    <3>5. g \notin Counting(task, s, "accepted") /\ g \notin Counting(task, s, "failed")
      BY DEF Counting
    <3>6. Counting(task', s, x) = Counting(task, s, x) \cup {g}
      BY <2>2, <1>3, <1>4 DEF Counting
    <3>7. \A z \in {"accepted", "failed"} : z # x => Counting(task', s, z) = Counting(task, s, z)
      BY <2>2, <1>3, <1>4 DEF Counting
    <3>8. CASE more = 1
      <4>1. Cardinality(Counting(task', s, "accepted")) = a + 1 /\ Cardinality(Counting(task', s, "failed")) = f
        <5>1. x = "accepted" /\ x # "failed"
          BY <3>8
        <5>2. Counting(task', s, "accepted") = Counting(task, s, "accepted") \cup {g} /\ Counting(task', s, "failed") = Counting(task, s, "failed")
          BY <5>1, <3>6, <3>7
        <5>3. Cardinality(Counting(task, s, "accepted") \cup {g}) = Cardinality(Counting(task, s, "accepted")) + 1
          BY <3>5, CountingFinite, FS_AddElement
        <5> QED
          BY <3>1, <5>2, <5>3
      <4>2. p + (a + 1) = l + more /\ (n + 1) - (l + more) <= q + f
        BY <3>3, <3>8
      <4> QED
        BY <3>2, <3>4, <4>1, <4>2 DEF CountOk
    <3>9. CASE more = 0
      <4>1. Cardinality(Counting(task', s, "accepted")) = a /\ Cardinality(Counting(task', s, "failed")) = f + 1
        <5>1. x = "failed" /\ x # "accepted"
          BY <3>9
        <5>2. Counting(task', s, "failed") = Counting(task, s, "failed") \cup {g} /\ Counting(task', s, "accepted") = Counting(task, s, "accepted")
          BY <5>1, <3>6, <3>7
        <5>3. Cardinality(Counting(task, s, "failed") \cup {g}) = Cardinality(Counting(task, s, "failed")) + 1
          BY <3>5, CountingFinite, FS_AddElement
        <5> QED
          BY <3>1, <5>2, <5>3
      <4>2. p + a = l + more /\ (n + 1) - (l + more) <= q + (f + 1)
        BY <3>3, <3>9
      <4> QED
        BY <3>2, <3>4, <4>1, <4>2 DEF CountOk
    <3> QED
      BY <3>8, <3>9
  <2> QED
    BY <2>1, <2>2
<1>8. ASSUME NEW h \in Goroutines, task'[h].pc # "idle"
      PROVE  task'[h].entitled <= Len(journals'[task'[h].session].log)
  <2>1. TaskOk(task'[h]) /\ task'[h].session \in ObsSessions
    BY <1>5, <1>8 DEF TaskOk
  <2>2. task'[h].entitled <= Len(journals[task'[h].session].log)
    BY <1>0, <1>3, <1>4, <1>8 DEF EmitInv
  <2>3. PICK e \in Nat, a \in Nat, b \in Nat :
           e = task'[h].entitled /\ a = Len(journals[task'[h].session].log) /\ b = Len(journals'[task'[h].session].log) /\ a <= b
    <3>1. task'[h].entitled \in Nat
      BY <2>1 DEF TaskOk
    <3> QED
      BY <1>6, <2>1, <3>1
  <2>4. e <= a
    BY <2>2, <2>3
  <2>5. e <= b
    <3>1. a <= b
      BY <2>3
    <3> HIDE <2>1, <2>2, <2>3
    <3> QED
      BY <3>1, <2>4
  <2> QED
    BY <2>3, <2>5
<1>9. ReportsCurrent'
  BY DEF EmitInv, ReportsCurrent
<1> QED
  BY <1>4, <1>5, <1>6, <1>7, <1>8, <1>9 DEF EmitInv

\* Emitter.Emit counts the outcome that was found.
LEMMA CountKeeps ==
    ASSUME EmitInv, NEW g \in Goroutines, Count(g)
    PROVE  EmitInv'
<1>0. PICK t, x : t = task[g] /\ x = t.outcome
  OBVIOUS
<1>1. /\ TaskOk(t) /\ t.pc = "count" /\ t.session \in ObsSessions /\ t.todo # <<>> /\ x \in {"accepted", "dropped", "failed"}
      /\ t.entitled <= Len(journals[t.session].log)
  BY <1>0 DEF EmitInv, TaskOk, Count, At
<1>2. PICK s \in ObsSessions : s = t.session
  BY <1>1
<1>3. PICK y : y = [t EXCEPT !.pc = "ensure", !.todo = Tail(@), !.outcome = "none",
                             !.accepted = IF t.outcome = "accepted" THEN @ + 1 ELSE @,
                             !.dropped = IF t.outcome = "accepted" THEN @ ELSE @ + 1]
  OBVIOUS
<1>4. task' = [task EXCEPT ![g] = y] /\ stats' = [stats EXCEPT ![s][x] = @ + 1] /\ journals' = journals /\ reports' = reports
  BY <1>0, <1>2, <1>3 DEF Count
<1>5. /\ DOMAIN y = TaskFields /\ y.pc = "ensure" /\ y.op = t.op /\ y.session = t.session /\ y.todo = Tail(t.todo)
      /\ y.accepted = (IF x = "accepted" THEN t.accepted + 1 ELSE t.accepted)
      /\ y.dropped = (IF x = "accepted" THEN t.dropped ELSE t.dropped + 1)
      /\ y.batch = t.batch /\ y.entitled = t.entitled
  BY <1>0, <1>1, <1>3 DEF TaskOk, TaskFields
<1>6. TaskOk(y)
  BY <1>1, <1>5, TaskAnswers
<1>7. DOMAIN task' = Goroutines /\ task'[g] = y /\ \A h \in Goroutines : h # g => task'[h] = task[h]
  BY <1>4 DEF EmitInv
<1>8. \A h \in Goroutines : TaskOk(task'[h])
  BY <1>6, <1>7 DEF EmitInv
<1>9. PICK u, v : u = stats[s] /\ v = [u EXCEPT ![x] = @ + 1]
  OBVIOUS
<1>10. DOMAIN stats' = ObsSessions /\ stats'[s] = v /\ \A z \in ObsSessions : z # s => stats'[z] = stats[z]
  BY <1>4, <1>9 DEF EmitInv
<1>11. StatsOk(u) /\ CountOk(task, s, u, journals[s].log, journals[s].lines) /\ LogOk(journals[s].log, journals[s].lines)
  BY <1>9 DEF EmitInv
<1>12. PICK p \in Nat, d \in Nat, q \in Nat : p = u.accepted /\ d = u.dropped /\ q = u.failed
  BY <1>11 DEF StatsOk
<1>13. /\ DOMAIN v = {"accepted", "dropped", "failed"}
       /\ v.accepted = (IF x = "accepted" THEN p + 1 ELSE p)
       /\ v.dropped = (IF x = "dropped" THEN d + 1 ELSE d)
       /\ v.failed = (IF x = "failed" THEN q + 1 ELSE q)
  <2>1. DOMAIN u = {"accepted", "dropped", "failed"}
    BY <1>11 DEF StatsOk
  <2> QED
    BY <1>1, <1>9, <1>12, <2>1
<1>14. StatsOk(v)
  BY <1>12, <1>13 DEF StatsOk
<1>15. CountOk(task', s, v, journals[s].log, journals[s].lines)
  <2>1. PICK a \in Nat, f \in Nat : a = Cardinality(Counting(task, s, "accepted")) /\ f = Cardinality(Counting(task, s, "failed"))
    BY CountingFinite
  <2>2. p + a = journals[s].lines /\ Len(journals[s].log) - journals[s].lines <= q + f
    BY <1>11, <1>12, <2>1 DEF CountOk
  <2>3. g \in Counting(task, s, x)
    BY <1>0, <1>1, <1>2 DEF Counting
  <2>4. Counting(task', s, x) = Counting(task, s, x) \ {g}
    BY <1>5, <1>7 DEF Counting
  <2>5. \A z : z # x => Counting(task', s, z) = Counting(task, s, z)
    BY <1>0, <1>5, <1>7 DEF Counting
  <2>6. Cardinality(Counting(task, s, x) \ {g}) = Cardinality(Counting(task, s, x)) - 1
    BY <2>3, CountingFinite, FS_RemoveElement
  <2>7. CASE x = "accepted"
    <3>1. Cardinality(Counting(task', s, "accepted")) = a - 1 /\ Cardinality(Counting(task', s, "failed")) = f
      BY <2>1, <2>4, <2>5, <2>6, <2>7
    <3>2. v.accepted = p + 1 /\ v.failed = q /\ (p + 1) + (a - 1) = p + a
      BY <2>7, <1>13
    <3> QED
      BY <2>2, <3>1, <3>2 DEF CountOk
  <2>8. CASE x = "failed"
    <3>1. Cardinality(Counting(task', s, "accepted")) = a /\ Cardinality(Counting(task', s, "failed")) = f - 1
      BY <2>1, <2>4, <2>5, <2>6, <2>8
    <3>2. v.accepted = p /\ v.failed = q + 1 /\ (q + 1) + (f - 1) = q + f
      BY <2>8, <1>13
    <3> QED
      BY <2>2, <3>1, <3>2 DEF CountOk
  <2>9. CASE x = "dropped"
    <3>1. Cardinality(Counting(task', s, "accepted")) = a /\ Cardinality(Counting(task', s, "failed")) = f
      BY <2>1, <2>5, <2>9
    <3>2. v.accepted = p /\ v.failed = q
      BY <2>9, <1>13
    <3> QED
      BY <2>2, <3>1, <3>2 DEF CountOk
  <2> QED
    BY <1>1, <2>7, <2>8, <2>9
<1>16. ASSUME NEW z \in ObsSessions
       PROVE  /\ LogOk(journals'[z].log, journals'[z].lines) /\ StatsOk(stats'[z])
              /\ CountOk(task', z, stats'[z], journals'[z].log, journals'[z].lines)
  <2>1. LogOk(journals[z].log, journals[z].lines) /\ StatsOk(stats[z])
        /\ CountOk(task, z, stats[z], journals[z].log, journals[z].lines)
    BY DEF EmitInv
  <2>2. CASE z = s
    BY <2>1, <2>2, <1>4, <1>10, <1>14, <1>15
  <2>3. CASE z # s
    <3>1. \A w : Counting(task', z, w) = Counting(task, z, w)
      BY <2>3, <1>0, <1>2, <1>5, <1>7 DEF Counting
    <3>2. stats'[z] = stats[z]
      BY <2>3, <1>10
    <3> QED
      BY <2>1, <3>1, <3>2, <1>4 DEF CountOk
  <2> QED
    BY <2>2, <2>3
<1>17. ASSUME NEW h \in Goroutines, task'[h].pc # "idle"
       PROVE  task'[h].entitled <= Len(journals'[task'[h].session].log)
  BY <1>1, <1>4, <1>5, <1>7, <1>17 DEF EmitInv
<1>18. ReportsCurrent'
  BY <1>4 DEF EmitInv, ReportsCurrent
<1> QED
  BY <1>7, <1>8, <1>10, <1>16, <1>17, <1>18 DEF EmitInv

\* What ReportsCurrent asks of a report whose caller is entitled to e events.
CurrentFor(r, e) ==
    /\ r.events >= Retained(e)
    /\ r.events > 0 =>
          /\ r.first >= ReportFloor
          /\ r.last >= e - 1
          /\ r.last - r.first = r.events - 1

\* The retention policy leaves the end of a log.
LEMMA PolicyKeepsTheEnd ==
    ASSUME NEW log, NEW lines, LogOk(log, lines), NEW n \in Nat, n = Len(log)
    PROVE  \E a \in Nat : /\ ApplyPolicy(log) = a .. n
                          /\ a > ReportFloor
                          /\ \A e \in 0 .. n : IF a <= n THEN Retained(e) <= n - a + 1 ELSE Retained(e) = 0
<1>1. PICK F \in Nat, R \in Nat : F = ReportFloor /\ R = ReportEvents
  BY ObservationAssumption
<1>2. PICK kept : kept = {i \in DOMAIN log : log[i].seq >= ReportFloor}
  OBVIOUS
<1>3. kept = (F + 1) .. n
  <2>1. DOMAIN log = 1 .. n /\ \A i \in 1 .. n : log[i].seq = i - 1
    BY DEF LogOk
  <2> QED
    BY <1>1, <1>2, <2>1
<1>4. ApplyPolicy(log) = {i \in kept : R = 0 \/ Cardinality({j \in kept : j > i}) < R}
  BY <1>1, <1>2 DEF ApplyPolicy
<1>5. ASSUME NEW i \in kept PROVE Cardinality({j \in kept : j > i}) = n - i
  <2>1. i \in Nat /\ i + 1 \in Nat /\ i <= n
    BY <1>3, <1>5
  <2>2. PICK later : later = {j \in kept : j > i}
    OBVIOUS
  <2>3. later = (i + 1) .. n
    BY <1>3, <1>5, <2>1, <2>2
  <2>4. Cardinality((i + 1) .. n) = n - (i + 1) + 1
    BY <2>1, IntervalSize
  <2>5. n - (i + 1) + 1 = n - i
    BY <2>1
  <2> QED
    BY <2>2, <2>3, <2>4, <2>5
<1>6. ApplyPolicy(log) = {i \in (F + 1) .. n : R = 0 \/ n - i < R}
  BY <1>3, <1>4, <1>5
<1>7. CASE R > 0 /\ n > F + R
  <2>1. n - R + 1 \in Nat /\ n - R + 1 > F /\ n - R + 1 <= n
    BY <1>7
  <2>2. ApplyPolicy(log) = (n - R + 1) .. n
    BY <1>6, <1>7
  <2>3. \A e \in 0 .. n : Retained(e) <= R
    BY <1>1, <1>7 DEF Retained
  <2> QED
    BY <1>1, <2>1, <2>2, <2>3
<1>8. CASE ~(R > 0 /\ n > F + R)
  <2>1. ApplyPolicy(log) = (F + 1) .. n
    BY <1>6, <1>8
  <2>2. \A e \in 0 .. n : IF F + 1 <= n THEN Retained(e) <= n - F ELSE Retained(e) = 0
    BY <1>1, <1>8 DEF Retained
  <2> QED
    BY <1>1, <2>1, <2>2
<1> QED
  BY <1>7, <1>8

\* A report has the latest events that the policy keeps, without a gap (Plane.Report,
\* applyPolicy, report.Build).
LEMMA ReportIsCurrent ==
    ASSUME NEW log, NEW lines, LogOk(log, lines), NEW e \in Nat, e <= Len(log)
    PROVE  CurrentFor(BuildReport(log, ApplyPolicy(log)), e)
<1>1. PICK n \in Nat : n = Len(log)
  BY DEF LogOk
<1>2. PICK a \in Nat : /\ ApplyPolicy(log) = a .. n
                       /\ a > ReportFloor
                       /\ \A k \in 0 .. n : IF a <= n THEN Retained(k) <= n - a + 1 ELSE Retained(k) = 0
  BY <1>1, PolicyKeepsTheEnd
<1>3. PICK F \in Nat : F = ReportFloor
  BY ObservationAssumption
<1>4. PICK r : r = BuildReport(log, a .. n)
  OBVIOUS
<1>5. r.events = Cardinality(a .. n)
  BY <1>4 DEF BuildReport
<1>6. e \in 0 .. n
  BY <1>1
<1>7. CASE a > n
  <2>1. a .. n = {}
    BY <1>7
  <2>2. r.events = 0
    BY <1>5, <2>1, FS_EmptySet
  <2> QED
    BY <1>1, <1>2, <1>4, <1>6, <1>7, <2>2 DEF CurrentFor
<1>8. CASE a <= n
  <2>1. Cardinality(a .. n) = n - a + 1
    BY <1>8, IntervalSize
  <2>2. a .. n # {} /\ a .. n \in SUBSET Nat /\ a \in 1 .. n /\ n \in 1 .. n
    <3>1. a \in a .. n /\ a \in 1 .. n /\ n \in 1 .. n
      BY <1>2, <1>3, <1>8
    <3>2. \A k \in a .. n : k \in Nat
      OBVIOUS
    <3> QED
      BY <3>1, <3>2
  <2>3. Min(a .. n) = a
    <3>1. Min(a .. n) \in a .. n /\ \A k \in a .. n : Min(a .. n) <= k
      BY <2>2, MinIsLeast
    <3> QED
      BY <1>8, <3>1
  <2>4. Max(a .. n) = n
    <3>1. \A k \in a .. n : k <= n
      OBVIOUS
    <3>2. Max(a .. n) \in a .. n /\ \A k \in a .. n : k <= Max(a .. n)
      BY <2>2, <3>1, MaxIsGreatest
    <3> QED
      BY <1>8, <3>2
  <2>5. r.first = log[a].seq /\ r.last = log[n].seq
    BY <1>4, <2>2, <2>3, <2>4 DEF BuildReport
  <2>6. log[a].seq = a - 1 /\ log[n].seq = n - 1
    BY <1>1, <2>2 DEF LogOk
  <2> QED
    BY <1>1, <1>2, <1>3, <1>4, <1>5, <1>6, <1>8, <2>1, <2>5, <2>6 DEF CurrentFor
<1> QED
  BY <1>7, <1>8

\* Plane.Report replays at least what its caller was entitled to.
LEMMA ReplayKeeps ==
    ASSUME EmitInv, NEW g \in Goroutines, ReplayReport(g)
    PROVE  EmitInv'
<1>1. PICK t, log : t = task[g] /\ log = journals[t.session].log
  OBVIOUS
<1>2. /\ t.pc = "replay" /\ task' = [task EXCEPT ![g] = Resting] /\ journals' = journals /\ stats' = stats
      /\ reports' = reports \cup {[session |-> t.session, entitled |-> t.entitled,
                                   report |-> BuildReport(log, ApplyPolicy(log))]}
  BY <1>1 DEF ReplayReport, At
<1>3. TaskOk(t) /\ t.session \in ObsSessions /\ t.entitled <= Len(log)
  BY <1>1, <1>2 DEF EmitInv, TaskOk
<1>4. LogOk(log, journals[t.session].lines)
  BY <1>1, <1>3 DEF EmitInv
<1>5. PICK e \in Nat : e = t.entitled
  BY <1>3 DEF TaskOk
<1>6. PICK r : r = BuildReport(log, ApplyPolicy(log))
  OBVIOUS
<1>7. CurrentFor(r, e)
  BY <1>3, <1>4, <1>5, <1>6, ReportIsCurrent
<1>8. ReportsCurrent'
  <2>1. \A z \in reports : CurrentFor(z.report, z.entitled)
    BY DEF EmitInv, ReportsCurrent, CurrentFor
  <2>2. PICK z0 : z0 = [session |-> t.session, entitled |-> e, report |-> r]
    OBVIOUS
  <2>3. z0.entitled = e /\ z0.report = r /\ reports' = reports \cup {z0}
    BY <1>2, <1>5, <1>6, <2>2
  <2>4. \A z \in reports' : CurrentFor(z.report, z.entitled)
    BY <1>7, <2>1, <2>3
  <2> QED
    BY <2>4 DEF ReportsCurrent, CurrentFor
<1>9. SameLogs
  BY <1>2 DEF SameLogs
<1> QED
  BY <1>1, <1>2, <1>8, <1>9, RestingOk, TaskMoves

----------------------------------------------------------------------------
(* The buffer.                                                             *)

BufferInv ==
    /\ DOMAIN buffer = {"events", "took", "drained"}
    /\ buffer.events \in Seq(ObservedEvent) /\ buffer.drained \in Seq(ObservedEvent)
    /\ buffer.took = buffer.drained \o buffer.events

LEMMA AppendAfter ==
    ASSUME NEW d \in Seq(ObservedEvent), NEW e \in Seq(ObservedEvent), NEW o \in ObservedEvent
    PROVE  Append(d \o e, o) = d \o Append(e, o)
OBVIOUS

LEMMA SplitBuffer ==
    ASSUME NEW d \in Seq(ObservedEvent), NEW e \in Seq(ObservedEvent), NEW n \in 0 .. Len(e)
    PROVE  /\ d \o e = (d \o SubSeq(e, 1, n)) \o SubSeq(e, n + 1, Len(e))
           /\ SubSeq(e, 1, n) \in Seq(ObservedEvent) /\ SubSeq(e, n + 1, Len(e)) \in Seq(ObservedEvent)
<1>1. PICK m \in Nat : m = Len(e)
  OBVIOUS
<1>2. n \in Nat /\ n <= m /\ \A i \in 1 .. m : e[i] \in ObservedEvent
  BY <1>1
<1>3. PICK a, b : a = SubSeq(e, 1, n) /\ b = SubSeq(e, n + 1, m)
  OBVIOUS
<1>4. a \in Seq(ObservedEvent) /\ b \in Seq(ObservedEvent)
  BY <1>2, <1>3, SubSeqProperties
<1>5. a \o b = SubSeq(e, 1, m)
  <2>1. 1 \in 1 .. Len(e) + 1 /\ n \in 1 - 1 .. Len(e) /\ m \in n .. Len(e)
    BY <1>1, <1>2
  <2>2. SubSeq(e, 1, n) \o SubSeq(e, n + 1, m) = SubSeq(e, 1, m)
    BY <2>1, ConcatAdjacentSubSeq
  <2> QED
    BY <1>3, <2>2
<1>6. SubSeq(e, 1, m) = e
  BY <1>1, SubSeqFull
<1>7. (d \o a) \o b = d \o (a \o b)
  BY <1>4, ConcatAssociative, SMTT(60)
<1> QED
  BY <1>1, <1>3, <1>4, <1>5, <1>6, <1>7

LEMMA BufferAppendKeeps ==
    ASSUME BufferInv, NEW o \in Offers, BufferAppend(o) PROVE BufferInv'
<1>1. PICK x : x = Sanitize(o)
  OBVIOUS
<1>2. x \in ObservedEvent
  BY <1>1, SanitizedOk, ObservationAssumption
<1>3. PICK e, d, k : e = buffer.events /\ d = buffer.drained /\ k = buffer.took
  OBVIOUS
<1>4. e \in Seq(ObservedEvent) /\ d \in Seq(ObservedEvent) /\ k = d \o e /\ DOMAIN buffer = {"events", "took", "drained"}
  BY <1>3 DEF BufferInv
<1>5. buffer' = [[buffer EXCEPT !.events = Append(@, x)] EXCEPT !.took = Append(@, x)]
  BY <1>1 DEF BufferAppend
<1>6. DOMAIN buffer' = {"events", "took", "drained"} /\ buffer'.events = Append(e, x) /\ buffer'.drained = d /\ buffer'.took = Append(k, x)
  BY <1>3, <1>4, <1>5
<1>7. Append(k, x) = d \o Append(e, x) /\ Append(e, x) \in Seq(ObservedEvent)
  <2>1. Append(d \o e, x) = d \o Append(e, x)
    BY <1>2, <1>4, AppendAfter
  <2>2. Append(e, x) \in Seq(ObservedEvent)
    BY <1>2, <1>4, AppendProperties
  <2> QED
    BY <1>4, <2>1, <2>2
<1> QED
  BY <1>4, <1>6, <1>7 DEF BufferInv

LEMMA DrainKeeps ==
    ASSUME BufferInv, Drain PROVE BufferInv'
<1>1. PICK e, d, k : e = buffer.events /\ d = buffer.drained /\ k = buffer.took
  OBVIOUS
<1>2. e \in Seq(ObservedEvent) /\ d \in Seq(ObservedEvent) /\ k = d \o e /\ DOMAIN buffer = {"events", "took", "drained"}
  BY <1>1 DEF BufferInv
<1>3. PICK n \in 0 .. Len(e) :
         buffer' = [[buffer EXCEPT !.drained = @ \o SubSeq(buffer.events, 1, n)] EXCEPT !.events = Remaining(@, n)]
  BY <1>1, ZenonT(60) DEF Drain
<1>4. /\ DOMAIN buffer' = {"events", "took", "drained"} /\ buffer'.took = k
      /\ buffer'.drained = d \o SubSeq(e, 1, n) /\ buffer'.events = SubSeq(e, n + 1, Len(e))
  BY <1>1, <1>2, <1>3 DEF Remaining
<1>5. /\ d \o e = (d \o SubSeq(e, 1, n)) \o SubSeq(e, n + 1, Len(e))
      /\ SubSeq(e, 1, n) \in Seq(ObservedEvent) /\ SubSeq(e, n + 1, Len(e)) \in Seq(ObservedEvent)
  BY <1>2, SplitBuffer
<1>6. d \o SubSeq(e, 1, n) \in Seq(ObservedEvent)
  BY <1>2, <1>5, ConcatProperties
<1> QED
  BY <1>2, <1>4, <1>5, <1>6 DEF BufferInv

----------------------------------------------------------------------------
(* The plane.                                                              *)

ObsInv == RecordInv /\ EmitInv /\ BufferInv

LEMMA SameRecords ==
    ASSUME RecordInv, UNCHANGED <<host, sealing, stopping, journals>>
    PROVE  RecordInv' /\ SameLogs
BY DEF RecordInv, SessionOk, SameLogs

LEMMA SameBuffer ==
    ASSUME BufferInv, buffer' = buffer PROVE BufferInv'
BY DEF BufferInv

LEMMA CloseManagerKeepsRecords ==
    ASSUME RecordInv, CloseManager PROVE RecordInv' /\ SameLogs
<1>1. /\ stopping = "no" /\ stopping' = "host" /\ host' = host /\ sealing' = sealing /\ journals' = journals
  BY DEF CloseManager
<1>2. \A s \in ObsSessions : SessionOk(s, journals[s])'
  BY <1>1 DEF RecordInv, SessionOk
<1> QED
  BY <1>1, <1>2 DEF RecordInv, SameLogs

LEMMA ObsInvInit ==
    ASSUME ObsInit PROVE ObsInv
<1>1. RecordInv
  BY DEF ObsInit, RecordInv, SessionOk
<1>2. BufferInv
  <2>1. /\ DOMAIN buffer = {"events", "took", "drained"}
        /\ buffer.events = <<>> /\ buffer.drained = <<>> /\ buffer.took = <<>>
    BY DEF ObsInit
  <2>2. <<>> \in Seq(ObservedEvent) /\ <<>> \o <<>> = <<>>
    OBVIOUS
  <2> QED
    BY <2>1, <2>2 DEF BufferInv
<1>3. EmitInv
  <2>1. task = [g \in Goroutines |-> Resting] /\ reports = {}
    BY DEF ObsInit
  <2>2. \A g \in Goroutines : task[g] = Resting /\ TaskOk(task[g]) /\ task[g].pc = "idle"
    BY <2>1, RestingOk
  <2>3. ASSUME NEW s \in ObsSessions
        PROVE  /\ LogOk(journals[s].log, journals[s].lines) /\ StatsOk(stats[s])
               /\ CountOk(task, s, stats[s], journals[s].log, journals[s].lines)
    <3>1. /\ journals[s].log = <<>> /\ journals[s].lines = 0
          /\ stats[s] = [accepted |-> 0, dropped |-> 0, failed |-> 0]
      BY DEF ObsInit
    <3>2. \A x : Counting(task, s, x) = {}
      BY <2>2 DEF Counting
    <3>3. Cardinality(Counting(task, s, "accepted")) = 0 /\ Cardinality(Counting(task, s, "failed")) = 0
      BY <3>2, FS_EmptySet
    <3>4. LogOk(<<>>, 0)
      BY DEF LogOk
    <3>5. StatsOk(stats[s])
      BY <3>1 DEF StatsOk
    <3>6. CountOk(task, s, stats[s], <<>>, 0)
      BY <3>1, <3>3 DEF CountOk
    <3> QED
      BY <3>1, <3>4, <3>5, <3>6
  <2>4. DOMAIN stats = ObsSessions
    BY DEF ObsInit
  <2> QED
    BY <2>1, <2>2, <2>3, <2>4 DEF EmitInv, ReportsCurrent
<1> QED
  BY <1>1, <1>2, <1>3 DEF ObsInv

\* The calls that begin: Emit, IngestCodex and Report.
LEMMA CallsBegin ==
    ASSUME ObsInv, NEW g \in Goroutines, NEW s \in ObsSessions,
           \/ \E o \in Offers : Emit(g, s, o)
           \/ \E f \in CodexFiles : IngestCodex(g, s, f)
           \/ AskReport(g, s)
    PROVE  ObsInv'
<1>0. EmitInv /\ RecordInv /\ BufferInv
  BY DEF ObsInv
<1>1. PICK op \in {"emit", "ingest", "report"}, todo \in Seq(ObservedEvent) :
         BeginCall(g, op, s, todo) /\ (op = "report" => todo = <<>>)
  <2>1. CASE \E o \in Offers : Emit(g, s, o)
    <3>1. PICK o \in Offers : BeginCall(g, "emit", s, <<o>>)
      BY <2>1 DEF Emit
    <3>2. <<o>> \in Seq(ObservedEvent)
      BY ObservationAssumption
    <3> QED
      BY <3>1, <3>2
  <2>2. CASE \E f \in CodexFiles : IngestCodex(g, s, f)
    <3>1. PICK f \in CodexFiles : BeginCall(g, "ingest", s, Translate(f))
      BY <2>2 DEF IngestCodex
    <3>2. PICK q \in Seq(ObservedEvent) : q = f.lines
      BY ObservationAssumption
    <3>3. PICK n \in Nat : n = Len(q) /\ DOMAIN q = 1 .. n /\ \A i \in 1 .. n : q[i] \in ObservedEvent
      OBVIOUS
    <3>4. \A i \in 1 .. n : Sanitize(q[i]) \in ObservedEvent
      BY <3>3, SanitizedOk
    <3>5. [i \in 1 .. n |-> Sanitize(q[i])] \in Seq(ObservedEvent)
      BY <3>4, IsASeq
    <3>6. Translate(f) = [i \in 1 .. n |-> Sanitize(q[i])]
      BY <3>2, <3>3 DEF Translate
    <3> QED
      BY <3>1, <3>5, <3>6
  <2>3. CASE AskReport(g, s)
    <3>1. BeginCall(g, "report", s, <<>>)
      BY <2>3 DEF AskReport
    <3>2. <<>> \in Seq(ObservedEvent)
      OBVIOUS
    <3>3. PICK q \in Seq(ObservedEvent) : q = <<>>
      BY <3>2
    <3> QED
      BY <3>1, <3>3
  <2> QED
    BY <2>1, <2>2, <2>3
<1>2. EmitInv'
  BY <1>0, <1>1, BeginKeeps
<1>3. UNCHANGED <<host, sealing, stopping, journals>> /\ buffer' = buffer
  BY <1>1 DEF BeginCall
<1> QED
  BY <1>0, <1>2, <1>3, SameRecords, SameBuffer DEF ObsInv

\* Changing the place of a task, and its place and outcome.
LEMMA TaskPlaced ==
    ASSUME EmitInv, NEW g \in Goroutines, NEW p, NEW x
    PROVE  /\ Goto(g, p) => task' = [task EXCEPT ![g] = [task[g] EXCEPT !.pc = p]]
           /\ task' = [task EXCEPT ![g].pc = p, ![g].outcome = x]
                => task' = [task EXCEPT ![g] = [[task[g] EXCEPT !.pc = p] EXCEPT !.outcome = x]]
<1>1. DOMAIN task = Goroutines
  BY DEF EmitInv
<1> QED
  BY <1>1 DEF Goto

LEMMA TaskGivesUp ==
    ASSUME EmitInv, NEW g \in Goroutines, GiveUp(g)
    PROVE  task' = [task EXCEPT ![g] = AfterGiveUp(task[g])]
BY DEF EmitInv, GiveUp, AfterGiveUp

\* The steps of Ensure, the mark and the lookup.
LEMMA EnsureKeeps ==
    ASSUME ObsInv, NEW g \in Goroutines, EnsureKnown(g) \/ EnsureNew(g) \/ EnsureRefused(g)
    PROVE  ObsInv'
<1>0. EmitInv /\ RecordInv /\ BufferInv
  BY DEF ObsInv
<1>1. PICK t : t = task[g]
  OBVIOUS
<1>2. TaskOk(t)
  BY <1>0, <1>1 DEF EmitInv
<1>3. t.pc = "ensure" /\ (t.op = "report" \/ t.todo # <<>>) /\ stats' = stats /\ reports' = reports /\ buffer' = buffer
  BY <1>1 DEF EnsureKnown, EnsureNew, EnsureRefused, At
<1>4. t.session \in ObsSessions
  BY <1>2, <1>3 DEF TaskOk
<1>5. RecordInv' /\ SameLogs
  <2>1. CASE EnsureKnown(g) \/ EnsureRefused(g)
    BY <2>1, <1>0, SameRecords DEF EnsureKnown, EnsureRefused
  <2>2. CASE EnsureNew(g)
    <3>1. PICK opens \in BOOLEAN : Hello(t.session, opens) /\ UNCHANGED <<sealing, stopping>>
      BY <2>2, <1>1 DEF EnsureNew
    <3> QED
      BY <3>1, <1>0, <1>4, HelloKeepsRecords DEF SameLogs
  <2> QED
    BY <2>1, <2>2
<1>6. CASE Goto(g, "mark")
  <2>1. task' = [task EXCEPT ![g] = [t EXCEPT !.pc = "mark"]]
    BY <1>0, <1>1, <1>6, TaskPlaced
  <2>2. EmitInv'
    BY <1>0, <1>1, <1>3, <1>5, <2>1, QuietSteps
  <2> QED
    BY <1>0, <1>3, <1>5, <2>2, SameBuffer DEF ObsInv
<1>7. CASE GiveUp(g)
  <2>1. task' = [task EXCEPT ![g] = AfterGiveUp(t)]
    BY <1>0, <1>1, <1>7, TaskGivesUp
  <2>2. EmitInv'
    BY <1>0, <1>1, <1>3, <1>5, <2>1, QuietSteps
  <2> QED
    BY <1>0, <1>3, <1>5, <2>2, SameBuffer DEF ObsInv
<1> QED
  BY <1>6, <1>7 DEF EnsureKnown, EnsureNew, EnsureRefused

LEMMA MarkKeeps ==
    ASSUME ObsInv, NEW g \in Goroutines, Mark(g) \/ Lookup(g) \/ CallReturns(g)
    PROVE  ObsInv'
<1>0. EmitInv /\ RecordInv /\ BufferInv
  BY DEF ObsInv
<1>1. PICK t : t = task[g]
  OBVIOUS
<1>2. TaskOk(t)
  BY <1>0, <1>1 DEF EmitInv
<1>3. UNCHANGED <<host, sealing, stopping, journals>> /\ stats' = stats /\ reports' = reports /\ buffer' = buffer
  BY DEF Mark, Lookup, CallReturns
<1>4. RecordInv' /\ SameLogs /\ BufferInv'
  BY <1>0, <1>3, SameRecords, SameBuffer
<1>5. CASE Mark(g)
  <2>1. t.pc = "mark" /\ (t.op # "report" => t.todo # <<>>)
    BY <1>1, <1>2, <1>5 DEF Mark, At, TaskOk
  <2>2. \/ task' = [task EXCEPT ![g] = [t EXCEPT !.pc = "lookup"]]
        \/ t.op # "report" /\ task' = [task EXCEPT ![g] = [[t EXCEPT !.pc = "count"] EXCEPT !.outcome = "dropped"]]
    BY <1>0, <1>1, <1>5, TaskPlaced, ZenonT(60) DEF Mark
  <2>3. EmitInv'
    BY <1>0, <1>1, <1>3, <1>4, <2>1, <2>2, QuietSteps
  <2> QED
    BY <1>4, <2>3 DEF ObsInv
<1>6. CASE Lookup(g)
  <2>1. t.pc = "lookup" /\ (t.op # "report" => t.todo # <<>>)
    BY <1>1, <1>2, <1>6 DEF Lookup, At, TaskOk
  <2>2. \/ t.op = "report" /\ task' = [task EXCEPT ![g] = [t EXCEPT !.pc = "replay"]]
        \/ t.op # "report" /\ task' = [task EXCEPT ![g] = [t EXCEPT !.pc = "append"]]
        \/ t.op = "report" /\ task' = [task EXCEPT ![g] = AfterGiveUp(t)]
        \/ t.op # "report" /\ task' = [task EXCEPT ![g] = [[t EXCEPT !.pc = "count"] EXCEPT !.outcome = "failed"]]
    <3>1. \/ t.op = "report" /\ Goto(g, "replay")
          \/ t.op # "report" /\ Goto(g, "append")
          \/ t.op = "report" /\ GiveUp(g)
          \/ t.op # "report" /\ task' = [task EXCEPT ![g].pc = "count", ![g].outcome = "failed"]
      BY <1>1, <1>6 DEF Lookup
    <3>2. CASE t.op = "report" /\ Goto(g, "replay")
      BY <3>2, <1>0, <1>1, TaskPlaced, ZenonT(60)
    <3>3. CASE t.op # "report" /\ Goto(g, "append")
      BY <3>3, <1>0, <1>1, TaskPlaced
    <3>4. CASE t.op = "report" /\ GiveUp(g)
      BY <3>4, <1>0, <1>1, TaskGivesUp
    <3>5. CASE t.op # "report" /\ task' = [task EXCEPT ![g].pc = "count", ![g].outcome = "failed"]
      BY <3>5, <1>0, <1>1, TaskPlaced, ZenonT(60)
    <3> QED
      BY <3>1, <3>2, <3>3, <3>4, <3>5
  <2>3. EmitInv'
    BY <1>0, <1>1, <1>3, <1>4, <2>1, <2>2, QuietSteps
  <2> QED
    BY <1>4, <2>3 DEF ObsInv
<1>7. CASE CallReturns(g)
  <2>1. t.pc = "ensure" /\ task' = [task EXCEPT ![g] = Resting]
    BY <1>1, <1>7 DEF CallReturns, At
  <2>2. EmitInv'
    BY <1>0, <1>1, <1>3, <1>4, <2>1, QuietSteps
  <2> QED
    BY <1>4, <2>2 DEF ObsInv
<1> QED
  BY <1>5, <1>6, <1>7

LEMMA AppendObservationKeeps ==
    ASSUME ObsInv, NEW g \in Goroutines, AppendObservation(g)
    PROVE  ObsInv'
<1>0. EmitInv /\ RecordInv /\ BufferInv
  BY DEF ObsInv
<1>1. PICK t : t = task[g]
  OBVIOUS
<1>2. TaskOk(t) /\ t.pc = "append"
  BY <1>0, <1>1 DEF EmitInv, AppendObservation, At
<1>3. /\ UNCHANGED <<host, sealing, stopping>> /\ stats' = stats /\ reports' = reports /\ buffer' = buffer
      /\ t.op # "report" /\ t.todo # <<>> /\ t.session \in ObsSessions
  BY <1>2 DEF AppendObservation, TaskOk
<1>4. BufferInv'
  BY <1>0, <1>3, SameBuffer
<1>5. CASE journals' = journals /\ task' = [task EXCEPT ![g].pc = "count", ![g].outcome = "failed"]
  <2>1. task' = [task EXCEPT ![g] = [[t EXCEPT !.pc = "count"] EXCEPT !.outcome = "failed"]]
    BY <1>0, <1>1, <1>5, TaskPlaced
  <2>2. RecordInv' /\ SameLogs
    BY <1>0, <1>3, <1>5, SameRecords
  <2>3. EmitInv'
    BY <1>0, <1>1, <1>2, <1>3, <2>1, <2>2, QuietSteps
  <2> QED
    BY <1>4, <2>2, <2>3 DEF ObsInv
<1>6. PICK s, j : s = t.session /\ j = journals[s] /\ s \in ObsSessions
  BY <1>3
<1>7. PICK n \in Nat, l \in Nat : n = Len(j.log) /\ l = j.lines
  <2>1. LogOk(j.log, j.lines)
    BY <1>0, <1>6 DEF EmitInv
  <2> QED
    BY <2>1 DEF LogOk
<1>8. PICK o \in ObservedEvent : o = [Sanitize(Head(t.todo)) EXCEPT !.seq = n] /\ o.seq = n
  <2>1. Head(t.todo) \in ObservedEvent
    BY <1>2, <1>3, HeadTailProperties DEF TaskOk
  <2> QED
    BY <2>1, SanitizedOk
<1>9. ASSUME NEW written \in BOOLEAN,
             journals' = [journals EXCEPT ![s] = [j EXCEPT !.log = Append(@, o), !.lines = IF written THEN @ + 1 ELSE @]],
             task' = [task EXCEPT ![g].pc = "count", ![g].outcome = WriteResult(written)]
      PROVE  ObsInv'
  <2>1. PICK more \in {0, 1} : more = IF written THEN 1 ELSE 0
    OBVIOUS
  <2>2. PICK x : x = WriteResult(written)
    OBVIOUS
  <2>3. x \in {"accepted", "failed"} /\ (x = "accepted" <=> more = 1)
    BY <2>1, <2>2 DEF WriteResult
  <2>4. task' = [task EXCEPT ![g] = [[t EXCEPT !.pc = "count"] EXCEPT !.outcome = x]]
    BY <1>0, <1>1, <1>9, <2>2, TaskPlaced
  <2>5. PICK k : k = [[j EXCEPT !.log = Append(@, o)] EXCEPT !.lines = IF written THEN @ + 1 ELSE @]
    OBVIOUS
  <2>6. journals' = [journals EXCEPT ![s] = k] /\ DOMAIN journals = ObsSessions
    <3>1. DOMAIN journals = ObsSessions
      BY <1>0 DEF RecordInv
    <3> QED
      BY <1>9, <2>5, <3>1
  <2>7. DOMAIN j = {"state", "log", "lines", "opened"}
    BY <1>0, <1>6 DEF RecordInv, SessionOk
  <2>8. /\ DOMAIN k = {"state", "log", "lines", "opened"} /\ k.state = j.state /\ k.opened = j.opened
        /\ k.log = Append(j.log, o) /\ k.lines = l + more
    BY <1>6, <1>7, <2>1, <2>5, <2>7
  <2>9. RecordInv'
    BY <1>0, <1>3, <1>6, <1>7, <2>6, <2>8, WriteKeepsRecords
  <2>10. journals'[s] = k /\ \A z \in ObsSessions : z # s => journals'[z] = journals[z]
    BY <1>6, <2>6
  <2>11. EmitInv'
    <3>1. o.seq = Len(journals[t.session].log) /\ journals'[t.session].log = Append(journals[t.session].log, o)
      BY <1>6, <1>7, <1>8, <2>8, <2>10
    <3>2. journals'[t.session].lines = journals[t.session].lines + more
      BY <1>6, <1>7, <2>8, <2>10
    <3>3. \A z \in ObsSessions : z # t.session => journals'[z] = journals[z]
      BY <1>6, <1>7, <2>10
    <3>4. Appends(g, t, o, more, x)
      BY <1>1, <1>2, <1>3, <2>3, <2>4, <3>1, <3>2, <3>3 DEF Appends
    <3> QED
      BY <1>0, <1>8, <2>1, <3>4, AppendKeeps
  <2> QED
    BY <1>4, <2>9, <2>11 DEF ObsInv
<1> QED
  BY <1>1, <1>5, <1>6, <1>7, <1>8, <1>9 DEF AppendObservation

\* Every step of the plane and of the buffer.
LEMMA ObsInvStep ==
    ASSUME ObsInv, [ObsNext]_obsVars PROVE ObsInv'
<1>0. EmitInv /\ RecordInv /\ BufferInv
  BY DEF ObsInv
<1>1. ASSUME NEW g \in Goroutines, NEW s \in ObsSessions,
             \/ \E o \in Offers : Emit(g, s, o)
             \/ \E f \in CodexFiles : IngestCodex(g, s, f)
             \/ AskReport(g, s)
      PROVE  ObsInv'
  BY <1>1, CallsBegin
<1>2. ASSUME NEW g \in Goroutines, EnsureKnown(g) \/ EnsureNew(g) \/ EnsureRefused(g) PROVE ObsInv'
  BY <1>2, EnsureKeeps
<1>3. ASSUME NEW g \in Goroutines, Mark(g) \/ Lookup(g) \/ CallReturns(g) PROVE ObsInv'
  BY <1>3, MarkKeeps
<1>4. ASSUME NEW g \in Goroutines, AppendObservation(g) PROVE ObsInv'
  BY <1>4, AppendObservationKeeps
<1>5. ASSUME NEW g \in Goroutines, Count(g) PROVE ObsInv'
  <2>1. UNCHANGED <<host, sealing, stopping, journals>> /\ buffer' = buffer
    BY <1>5 DEF Count
  <2>2. EmitInv'
    BY <1>0, <1>5, CountKeeps
  <2> QED
    BY <1>0, <2>1, <2>2, SameRecords, SameBuffer DEF ObsInv
<1>6. ASSUME NEW g \in Goroutines, ReplayReport(g) PROVE ObsInv'
  <2>1. UNCHANGED <<host, sealing, stopping, journals>> /\ buffer' = buffer
    BY <1>6 DEF ReplayReport
  <2>2. EmitInv'
    BY <1>0, <1>6, ReplayKeeps
  <2> QED
    BY <1>0, <2>1, <2>2, SameRecords, SameBuffer DEF ObsInv
<1>7. ASSUME NEW s \in ObsSessions, Dial(s) PROVE ObsInv'
  <2>1. Hello(s, TRUE) /\ UNCHANGED <<sealing, stopping>> /\ UNCHANGED <<task, stats, reports>> /\ buffer' = buffer
    BY <1>7 DEF Dial
  <2>2. RecordInv' /\ SameLogs
    BY <1>0, <2>1, HelloKeepsRecords DEF SameLogs
  <2> QED
    BY <1>0, <2>1, <2>2, NothingEmitted, SameBuffer DEF ObsInv
<1>8. ASSUME NEW s \in ObsSessions, CloseJournal(s) PROVE ObsInv'
  <2>1. UNCHANGED <<task, stats, reports>> /\ buffer' = buffer
    BY <1>8 DEF CloseJournal
  <2>2. RecordInv' /\ SameLogs
    BY <1>0, <1>8, CloseJournalKeepsRecords DEF SameLogs
  <2> QED
    BY <1>0, <2>1, <2>2, NothingEmitted, SameBuffer DEF ObsInv
<1>9. CASE CloseManager
  <2>1. UNCHANGED <<task, stats, reports>> /\ buffer' = buffer
    BY <1>9 DEF CloseManager
  <2> QED
    BY <1>0, <1>9, <2>1, CloseManagerKeepsRecords, NothingEmitted, SameBuffer DEF ObsInv
<1>10. CASE CloseHost
  <2>1. UNCHANGED <<task, stats, reports>> /\ buffer' = buffer /\ journals' = journals
    BY <1>10 DEF CloseHost
  <2>2. SameLogs
    BY <2>1 DEF SameLogs
  <2> QED
    BY <1>0, <1>10, <2>1, <2>2, CloseHostKeepsRecords, NothingEmitted, SameBuffer DEF ObsInv
<1>11. ASSUME NEW o \in Offers, BufferAppend(o) PROVE ObsInv'
  <2>1. UNCHANGED <<host, sealing, stopping, journals>> /\ UNCHANGED <<task, stats, reports>>
    BY <1>11 DEF BufferAppend
  <2> QED
    BY <1>0, <1>11, <2>1, SameRecords, NothingEmitted, BufferAppendKeeps DEF ObsInv
<1>12. CASE Drain
  <2>1. UNCHANGED <<host, sealing, stopping, journals>> /\ UNCHANGED <<task, stats, reports>>
    BY <1>12 DEF Drain
  <2> QED
    BY <1>0, <1>12, <2>1, SameRecords, NothingEmitted, DrainKeeps DEF ObsInv
<1>13. CASE UNCHANGED obsVars
  <2>1. UNCHANGED <<host, sealing, stopping, journals>> /\ UNCHANGED <<task, stats, reports>> /\ buffer' = buffer
    BY <1>13 DEF obsVars
  <2> QED
    BY <1>0, <2>1, SameRecords, NothingEmitted, SameBuffer DEF ObsInv
<1> QED
  BY <1>1, <1>2, <1>3, <1>4, <1>5, <1>6, <1>7, <1>8, <1>9, <1>10, <1>11, <1>12, <1>13 DEF ObsNext, PlaneStep, BufferStep

\* The invariant says what the run checks of the emissions.
LEMMA InvAccounts ==
    ASSUME ObsInv PROVE EmissionsAccounted
<1>0. EmitInv /\ BufferInv
  BY DEF ObsInv
<1>1. CountersTrue
  <2> SUFFICES ASSUME NEW s \in ObsSessions
               PROVE  /\ stats[s].accepted + Cardinality(Counting(task, s, "accepted")) = journals[s].lines
                      /\ Len(journals[s].log) - journals[s].lines <= stats[s].failed + Cardinality(Counting(task, s, "failed"))
    BY DEF CountersTrue, Counting, At
  <2> QED
    BY <1>0 DEF EmitInv, CountOk
<1>2. \A g \in Goroutines : task[g].accepted + task[g].dropped + Len(task[g].todo) = task[g].batch
  BY <1>0 DEF EmitInv, TaskOk
<1> QED
  BY <1>0, <1>1, <1>2 DEF EmitInv, BufferInv, EmissionsAccounted

\* The inductive invariant of the observation plane.
THEOREM ObservationInvariant == ObsSpec => []ObsInv
<1>1. ObsInit => ObsInv
  BY ObsInvInit
<1>2. ObsInv /\ [ObsNext]_obsVars => ObsInv'
  BY ObsInvStep
<1> QED
  BY <1>1, <1>2, PTL DEF ObsSpec

\* However many goroutines, Dials and Closes interleave, Local.Hello opens a
\* session's journal once, and none is open when Close has been through them.
THEOREM OneRecordHolds == ObsSpec => []OneRecordPerSession
<1>1. ObsInv => OneRecordPerSession
  BY RecordsAreOne DEF ObsInv
<1> QED
  BY <1>1, ObservationInvariant, PTL

\* The emitters' counters agree with the journals, a batch's answers with its
\* length, reports hold the latest events that retention keeps, up to the last one
\* acknowledged before them or beyond, and a drain loses nothing (Emit, IngestCodex,
\* Report, Drain).
THEOREM EmissionsAccountedHolds == ObsSpec => []EmissionsAccounted
<1>1. ObsInv => EmissionsAccounted
  BY InvAccounts
<1> QED
  BY <1>1, ObservationInvariant, PTL
----------------------------------------------------------------------------
(* Visualizer: least and greatest places *)

\* Two sets of naturals of which each element of one has one at most as great in
\* the other have the same least element.
LEMMA MinOfSame ==
  ASSUME NEW S \in SUBSET Nat, NEW T \in SUBSET Nat, S # {}, S \subseteq T,
         \A t \in T : \E s \in S : s <= t
  PROVE  Min(T) = Min(S)
<1>1. Min(S) \in S /\ \A n \in S : Min(S) <= n
  BY MinIsLeast
<1>2. Min(T) \in T /\ \A n \in T : Min(T) <= n
  BY MinIsLeast
<1>3. PICK s \in S : s <= Min(T)
  BY <1>2
<1>4. Min(S) \in Nat /\ Min(T) \in Nat /\ s \in Nat
  BY <1>1, <1>2
<1>5. Min(S) <= s /\ Min(T) <= Min(S)
  BY <1>1, <1>2
<1> QED BY <1>3, <1>4, <1>5
----------------------------------------------------------------------------
(* Visualizer: sorting and selecting *)

\* There are n places up to n.
LEMMA PlacesUpTo ==
  ASSUME NEW n \in Nat
  PROVE  IsFiniteSet(1..n) /\ Cardinality(1..n) = n
BY FS_Interval

\* A relation that orders a set totally and strictly.
Orders(before, S) ==
  /\ \A i \in S : <<i, i>> \notin before
  /\ \A i, j, k \in S : <<i, j>> \in before /\ <<j, k>> \in before => <<i, k>> \in before
  /\ \A i, j \in S : i = j \/ <<i, j>> \in before \/ <<j, i>> \in before

\* The elements before one.
Below(S, before, i) == {j \in S : <<j, i>> \in before}
Rank(S, before, i) == Cardinality(Below(S, before, i))

\* The rank of an element is less than the size of the set, and ranks grow with the
\* order.
LEMMA Ranks ==
  ASSUME NEW S, IsFiniteSet(S), NEW before, Orders(before, S)
  PROVE  /\ \A i \in S : Rank(S, before, i) \in 0..(Cardinality(S) - 1)
         /\ \A i, j \in S : <<i, j>> \in before => Rank(S, before, i) < Rank(S, before, j)
<1>0. Cardinality(S) \in Nat
  BY FS_CardinalityType
<1>1. ASSUME NEW i \in S
      PROVE  /\ IsFiniteSet(Below(S, before, i))
             /\ Rank(S, before, i) \in Nat
             /\ Rank(S, before, i) <= Cardinality(S) - 1
  <2>1. Below(S, before, i) \in SUBSET S /\ i \notin Below(S, before, i)
    BY DEF Below, Orders
  <2>2. /\ IsFiniteSet(Below(S, before, i))
        /\ Cardinality(Below(S, before, i)) <= Cardinality(S)
        /\ Cardinality(S) = Cardinality(Below(S, before, i)) => S = Below(S, before, i)
    BY <2>1, FS_Subset
  <2>3. Cardinality(Below(S, before, i)) \in Nat
    BY <2>2, FS_CardinalityType
  <2>4. Cardinality(S) # Cardinality(Below(S, before, i))
    BY <2>1, <2>2
  <2> QED BY <1>0, <2>2, <2>3, <2>4 DEF Rank
<1>2. ASSUME NEW i \in S, NEW j \in S, <<i, j>> \in before
      PROVE  Rank(S, before, i) < Rank(S, before, j)
  <2>1. Below(S, before, i) \in SUBSET Below(S, before, j)
    BY <1>2 DEF Below, Orders
  <2>2. i \in Below(S, before, j) /\ i \notin Below(S, before, i)
    BY <1>2 DEF Below, Orders
  <2>3. IsFiniteSet(Below(S, before, j))
    BY <1>1
  <2>4. /\ Cardinality(Below(S, before, i)) <= Cardinality(Below(S, before, j))
        /\ Cardinality(Below(S, before, j)) = Cardinality(Below(S, before, i))
              => Below(S, before, j) = Below(S, before, i)
    BY <2>1, <2>3, FS_Subset
  <2>5. Rank(S, before, i) # Rank(S, before, j)
    BY <2>2, <2>4 DEF Rank
  <2>6. Rank(S, before, i) \in Nat /\ Rank(S, before, j) \in Nat
    BY <1>1
  <2> QED BY <2>4, <2>5, <2>6 DEF Rank
<1> QED BY <1>0, <1>1, <1>2

\* Every rank below the size of the set is taken.
LEMMA RanksTaken ==
  ASSUME NEW S, IsFiniteSet(S), NEW before, Orders(before, S), NEW k \in 1..Cardinality(S)
  PROVE  \E i \in S : Rank(S, before, i) = k - 1
<1>0. Cardinality(S) \in Nat
  BY FS_CardinalityType
<1> DEFINE f == [i \in S |-> Rank(S, before, i) + 1]
<1>1. f \in [S -> 1..Cardinality(S)]
  BY <1>0, Ranks
<1>2. ASSUME NEW i \in S, NEW j \in S, f[i] = f[j]
      PROVE  i = j
  <2>1. Rank(S, before, i) = Rank(S, before, j)
    BY <1>2, <1>0, Ranks
  <2>2. Rank(S, before, i) \in Nat /\ Rank(S, before, j) \in Nat
    BY <1>0, Ranks
  <2>3. i = j \/ <<i, j>> \in before \/ <<j, i>> \in before
    BY DEF Orders
  <2> QED BY <2>1, <2>2, <2>3, Ranks
<1> HIDE DEF f
<1>3. f \in Injection(S, 1..Cardinality(S))
  BY <1>1, <1>2 DEF Injection, IsInjective
<1>4. IsFiniteSet(1..Cardinality(S)) /\ Cardinality(1..Cardinality(S)) = Cardinality(S)
  BY <1>0, FS_Interval
<1>5. f \in Surjection(S, 1..Cardinality(S))
  BY <1>3, <1>4, FS_Injection
<1>6. PICK i \in S : f[i] = k
  BY <1>5 DEF Surjection
<1>7. Rank(S, before, i) + 1 = k /\ Rank(S, before, i) \in Nat
  BY <1>6, <1>0, Ranks DEF f
<1> QED BY <1>7

\* InOrder lists the whole set, in order.
LEMMA InOrderLists ==
  ASSUME NEW S, IsFiniteSet(S), NEW before, Orders(before, S)
  PROVE  /\ InOrder(S, before) \in [1..Cardinality(S) -> S]
         /\ \A i \in S : \E k \in 1..Cardinality(S) : InOrder(S, before)[k] = i
         /\ \A k, l \in 1..Cardinality(S) : k < l => <<InOrder(S, before)[k], InOrder(S, before)[l]>> \in before
<1>0. Cardinality(S) \in Nat
  BY FS_CardinalityType
<1>1. InOrder(S, before) = [k \in 1..Cardinality(S) |-> CHOOSE i \in S : Rank(S, before, i) = k - 1]
  BY DEF InOrder, Rank, Below
<1>2. \A k \in 1..Cardinality(S) : InOrder(S, before)[k] \in S /\ Rank(S, before, InOrder(S, before)[k]) = k - 1
  BY <1>1, RanksTaken
<1>3. InOrder(S, before) \in [1..Cardinality(S) -> S]
  BY <1>1, <1>2
<1>4. ASSUME NEW i \in S
      PROVE  \E k \in 1..Cardinality(S) : InOrder(S, before)[k] = i
  <2>1. Rank(S, before, i) + 1 \in 1..Cardinality(S)
    BY <1>0, Ranks
  <2> DEFINE j == InOrder(S, before)[Rank(S, before, i) + 1]
  <2>2. j \in S /\ Rank(S, before, j) = Rank(S, before, i)
    BY <2>1, <1>2, <1>0, Ranks
  <2>3. i = j \/ <<i, j>> \in before \/ <<j, i>> \in before
    BY <2>2 DEF Orders
  <2>4. i = j
    BY <2>2, <2>3, <1>0, Ranks
  <2> QED BY <2>1, <2>4
<1>5. ASSUME NEW k \in 1..Cardinality(S), NEW l \in 1..Cardinality(S), k < l
      PROVE  <<InOrder(S, before)[k], InOrder(S, before)[l]>> \in before
  <2> DEFINE i == InOrder(S, before)[k]
             j == InOrder(S, before)[l]
  <2>1. i \in S /\ j \in S /\ Rank(S, before, i) = k - 1 /\ Rank(S, before, j) = l - 1
    BY <1>2
  <2>2. i = j \/ <<i, j>> \in before \/ <<j, i>> \in before
    BY <2>1 DEF Orders
  <2>3. <<j, i>> \in before => Rank(S, before, j) < Rank(S, before, i)
    BY <2>1, Ranks
  <2> QED BY <2>1, <2>2, <2>3, <1>5, <1>0
<1> QED BY <1>3, <1>4, <1>5

\* Places that are in order already stay where they are.
LEMMA InOrderStays ==
  ASSUME NEW n \in Nat, NEW before, \A i, j \in 1..n : <<i, j>> \in before <=> i < j
  PROVE  InOrder(1..n, before) = [k \in 1..n |-> k]
<1>1. Cardinality(1..n) = n
  BY FS_Interval
<1>2. ASSUME NEW i \in 1..n
      PROVE  Rank(1..n, before, i) = i - 1
  <2>1. Below(1..n, before, i) = 1..(i - 1)
    BY DEF Below
  <2>2. Cardinality(1..(i - 1)) = i - 1
    BY FS_Interval
  <2> QED BY <2>1, <2>2 DEF Rank
<1>3. ASSUME NEW k \in 1..n
      PROVE  (CHOOSE i \in 1..n : Rank(1..n, before, i) = k - 1) = k
  <2>1. \A i \in 1..n : Rank(1..n, before, i) = k - 1 <=> i = k
    BY <1>2
  <2> QED BY <2>1
<1>4. InOrder(1..n, before) = [k \in 1..n |-> CHOOSE i \in 1..n : Rank(1..n, before, i) = k - 1]
  BY <1>1 DEF InOrder, Rank, Below
<1> QED BY <1>3, <1>4

\* Lists of events whose sequences never decrease, and lists with the same events.
Ascends(o) == \A i, j \in DOMAIN o : i < j => o[i].seq <= o[j].seq
SameEvents(s, t) ==
  /\ \A i \in DOMAIN s : \E j \in DOMAIN t : t[j] = s[i]
  /\ \A j \in DOMAIN t : \E i \in DOMAIN s : s[i] = t[j]

\* orderedCopy sorts: it returns the same events with sequences that never decrease.
LEMMA OrderedCopySorts ==
  ASSUME NEW T, \A e \in T : e.seq \in Nat, NEW evs \in Seq(T)
  PROVE  /\ OrderedCopy(evs) \in Seq(T)
         /\ Len(OrderedCopy(evs)) = Len(evs)
         /\ Ascends(OrderedCopy(evs))
         /\ SameEvents(OrderedCopy(evs), evs)
<1> DEFINE n == Len(evs)
           order == InOrder(DOMAIN evs, Sooner(evs))
           o == OrderedCopy(evs)
<1>1. n \in Nat /\ DOMAIN evs = 1..n /\ \A i \in 1..n : evs[i] \in T /\ evs[i].seq \in Nat
  OBVIOUS
<1>2. IsFiniteSet(DOMAIN evs) /\ Cardinality(DOMAIN evs) = n
  <2>1. IsFiniteSet(1..n) /\ Cardinality(1..n) = n
    BY <1>1, PlacesUpTo
  <2> QED BY <1>1, <2>1
<1>3. \A i, j \in 1..n : <<i, j>> \in Sooner(evs) <=>
         evs[i].seq < evs[j].seq \/ (evs[i].seq = evs[j].seq /\ i < j)
  BY <1>1 DEF Sooner
<1>4. Orders(Sooner(evs), DOMAIN evs)
  <2>1. \A i \in 1..n : <<i, i>> \notin Sooner(evs)
    BY <1>1, <1>3
  <2>2. \A i, j, k \in 1..n : <<i, j>> \in Sooner(evs) /\ <<j, k>> \in Sooner(evs) => <<i, k>> \in Sooner(evs)
    BY <1>1, <1>3
  <2>3. ASSUME NEW i \in 1..n, NEW j \in 1..n
        PROVE  i = j \/ <<i, j>> \in Sooner(evs) \/ <<j, i>> \in Sooner(evs)
    <3>1. i \in Nat /\ j \in Nat /\ evs[i].seq \in Nat /\ evs[j].seq \in Nat
      BY <1>1
    <3> QED BY <1>3, <3>1
  <2> QED BY <1>1, <2>1, <2>2, <2>3 DEF Orders
<1>5. /\ order \in [1..n -> 1..n]
      /\ \A i \in 1..n : \E k \in 1..n : order[k] = i
      /\ \A k, l \in 1..n : k < l => <<order[k], order[l]>> \in Sooner(evs)
  BY <1>1, <1>2, <1>4, InOrderLists
<1>6. o = [k \in 1..n |-> evs[order[k]]]
  BY <1>1 DEF OrderedCopy
<1> HIDE DEF order, o
<1>7. o \in Seq(T) /\ Len(o) = n /\ DOMAIN o = 1..n
  <2>1. o \in [1..n -> T]
    BY <1>1, <1>5, <1>6
  <2> QED BY <2>1, <1>1, SeqDef, LenProperties
<1>8. Ascends(o)
  <2>1. ASSUME NEW k \in 1..n, NEW l \in 1..n, k < l
        PROVE  o[k].seq <= o[l].seq
    <3>1. order[k] \in 1..n /\ order[l] \in 1..n /\ <<order[k], order[l]>> \in Sooner(evs)
      BY <1>5, <2>1
    <3>2. evs[order[k]].seq \in Nat /\ evs[order[l]].seq \in Nat
      BY <3>1, <1>1
    <3>3. evs[order[k]].seq < evs[order[l]].seq \/ evs[order[k]].seq = evs[order[l]].seq
      BY <3>1, <1>3
    <3>4. o[k] = evs[order[k]] /\ o[l] = evs[order[l]]
      BY <1>6
    <3> QED BY <3>2, <3>3, <3>4
  <2> QED BY <2>1, <1>7 DEF Ascends
<1>9. SameEvents(o, evs)
  <2>1. \A i \in 1..n : evs[order[i]] = o[i] /\ order[i] \in 1..n
    BY <1>5, <1>6
  <2>2. \A j \in 1..n : \E i \in 1..n : o[i] = evs[j]
    BY <1>5, <2>1
  <2> QED BY <1>1, <1>7, <2>1, <2>2 DEF SameEvents
<1> QED BY <1>7, <1>8, <1>9 DEF o

\* Events in order stay as they are.
LEMMA OrderedCopyStays ==
  ASSUME NEW T, \A e \in T : e.seq \in Nat, NEW evs \in Seq(T), Ascends(evs)
  PROVE  OrderedCopy(evs) = evs
<1> DEFINE n == Len(evs)
<1>1. n \in Nat /\ DOMAIN evs = 1..n /\ \A i \in 1..n : evs[i] \in T /\ evs[i].seq \in Nat
  OBVIOUS
<1>2. \A i, j \in 1..n : <<i, j>> \in Sooner(evs) <=>
         evs[i].seq < evs[j].seq \/ (evs[i].seq = evs[j].seq /\ i < j)
  BY <1>1 DEF Sooner
<1>3. ASSUME NEW i \in 1..n, NEW j \in 1..n
      PROVE  <<i, j>> \in Sooner(evs) <=> i < j
  <2>1. i \in Nat /\ j \in Nat /\ evs[i].seq \in Nat /\ evs[j].seq \in Nat
    BY <1>1
  <2>2. (i < j => evs[i].seq <= evs[j].seq) /\ (j < i => evs[j].seq <= evs[i].seq)
    BY <1>1 DEF Ascends
  <2> QED BY <1>2, <2>1, <2>2
<1>4. InOrder(1..n, Sooner(evs)) = [k \in 1..n |-> k]
  BY <1>1, <1>3, InOrderStays
<1>5. OrderedCopy(evs) = [k \in 1..n |-> evs[k]]
  BY <1>1, <1>4 DEF OrderedCopy
<1> QED BY <1>1, <1>5

\* Sorting twice is sorting once.
LEMMA OrderedOnce ==
  ASSUME NEW T, \A e \in T : e.seq \in Nat, NEW evs \in Seq(T)
  PROVE  OrderedCopy(OrderedCopy(evs)) = OrderedCopy(evs)
<1>1. OrderedCopy(evs) \in Seq(T) /\ Ascends(OrderedCopy(evs))
  BY OrderedCopySorts
<1> QED BY <1>1, OrderedCopyStays

\* p is the list of the places of s, in increasing order, whose elements make up t.
TakenAt(t, s, p, places) ==
  /\ DOMAIN t = 1..Len(t) /\ Len(t) \in Nat
  /\ p \in [1..Len(t) -> places]
  /\ \A k \in 1..Len(t) : t[k] = s[p[k]]
  /\ \A i \in places : \E k \in 1..Len(t) : p[k] = i
  /\ \A k, l \in 1..Len(t) : k < l => p[k] < p[l]

\* Pick returns the elements at the places asked for, in the order of the list.
LEMMA PickTakes ==
  ASSUME NEW T, NEW s \in Seq(T), NEW places \in SUBSET (1..Len(s))
  PROVE  Pick(s, places) \in Seq(T) /\ \E p : TakenAt(Pick(s, places), s, p, places)
<1> DEFINE earlier == {p \in places \X places : p[1] < p[2]}
           order == InOrder(places, earlier)
           n == Cardinality(places)
           t == Pick(s, places)
<1>1. Len(s) \in Nat /\ DOMAIN s = 1..Len(s) /\ \A i \in places : i \in Nat /\ s[i] \in T
  OBVIOUS
<1>2. IsFiniteSet(places) /\ n \in Nat
  <2>1. IsFiniteSet(1..Len(s))
    BY <1>1, FS_Interval
  <2> QED BY <2>1, FS_Subset, FS_CardinalityType
<1>3. \A i, j \in places : <<i, j>> \in earlier <=> i < j
  OBVIOUS
<1> HIDE DEF earlier
<1>4. Orders(earlier, places)
  BY <1>1, <1>3 DEF Orders
<1>5. /\ order \in [1..n -> places]
      /\ \A i \in places : \E k \in 1..n : order[k] = i
      /\ \A k, l \in 1..n : k < l => <<order[k], order[l]>> \in earlier
  BY <1>2, <1>4, InOrderLists
<1>6. t = [k \in 1..n |-> s[order[k]]]
  BY DEF Pick, earlier
<1> HIDE DEF order, t, n
<1>7. t \in Seq(T) /\ Len(t) = n /\ DOMAIN t = 1..n
  <2>1. t \in [1..n -> T]
    BY <1>1, <1>5, <1>6
  <2> QED BY <2>1, <1>2, SeqDef, LenProperties
<1>8. TakenAt(t, s, order, places)
  <2>1. \A k, l \in 1..n : k < l => order[k] < order[l]
    BY <1>3, <1>5
  <2>2. \A k \in 1..n : t[k] = s[order[k]]
    BY <1>6
  <2> QED BY <1>2, <1>5, <1>7, <2>1, <2>2 DEF TakenAt
<1> QED BY <1>7, <1>8 DEF t
----------------------------------------------------------------------------
(* Visualizer: projections *)

NodesOf(o, root) == {root} \cup UNION {Touched(o[i]) : i \in DOMAIN o}
EdgesOf(o, root) == UNION {Relations(o, i, root) : i \in DOMAIN o}
SeqsOf(o, x, root) == {o[i].seq : i \in AddedAt(o, x, root)}

\* session.Project in terms of the nodes, the relations and their sequences.
LEMMA ProjectParts ==
  ASSUME NEW sid, NEW evs, NEW o, OrderedCopy(evs) = o, NEW root, root = <<"session", sid>>
  PROVE  Project(sid, evs) =
           [nodes |-> [id \in NodesOf(o, root) |->
                          [seq |-> FirstSeq(o, id, root),
                           paths |-> Annotation(o, id, "paths"), access |-> Annotation(o, id, "access")]],
            edges |-> [x \in EdgesOf(o, root) |-> EdgeSequence(SeqsOf(o, x, root))]]
BY Zenon DEF Project, NodesOf, EdgesOf, SeqsOf

\* What is read of a projected graph.
LEMMA ProjectReads ==
  ASSUME NEW sid, NEW evs, NEW o, OrderedCopy(evs) = o, NEW root, root = <<"session", sid>>
  PROVE  /\ DOMAIN Project(sid, evs).nodes = NodesOf(o, root)
         /\ \A id \in NodesOf(o, root) : Project(sid, evs).nodes[id].seq = FirstSeq(o, id, root)
         /\ DOMAIN Project(sid, evs).edges = EdgesOf(o, root)
         /\ \A x \in EdgesOf(o, root) : Project(sid, evs).edges[x] = EdgeSequence(SeqsOf(o, x, root))
BY ProjectParts

\* What an event relates depends on the events up to it only.
LEMMA RelationsOfPrefix ==
  ASSUME NEW o, NEW p, NEW i \in Nat, \A k \in 1..i : p[k] = o[k], i >= 1, NEW root
  PROVE  Relations(p, i, root) = Relations(o, i, root)
<1>1. p[i] = o[i]
  OBVIOUS
<1>2. Causes(p, i) = Causes(o, i) /\ Causes(o, i) \subseteq 1..i
  BY <1>1 DEF Causes
<1>3. Peers(p, i) = Peers(o, i) /\ Peers(o, i) \subseteq 1..i
  <2>1. \A j \in 1..(i - 1) : j \in 1..i /\ p[j] = o[j]
    OBVIOUS
  <2> QED BY <1>1, <2>1 DEF Peers
<1>4. ASSUME NEW places \in SUBSET (1..i), NEW k
      PROVE  LinksTo(p, i, places, k) = LinksTo(o, i, places, k)
  <2>1. \A j \in places : p[j] = o[j]
    OBVIOUS
  <2>2. {EdgeOf(p[j].agg, p[i].agg, k) : j \in places} = {EdgeOf(o[j].agg, o[i].agg, k) : j \in places}
    BY <1>1, <2>1
  <2> QED BY <1>1, <2>2 DEF LinksTo
<1> DEFINE c == {j \in Causes(o, i) : j = Max(Causes(o, i))}
           d == {j \in Peers(o, i) : j = Min(Peers(o, i))}
<1>5. c \in SUBSET (1..i) /\ d \in SUBSET (1..i)
  BY <1>2, <1>3
<1>6. /\ Relations(o, i, root) = OwnRelations(o[i], root) \cup LinksTo(o, i, c, "causation") \cup LinksTo(o, i, d, "correlation")
      /\ Relations(p, i, root) = OwnRelations(p[i], root) \cup LinksTo(p, i, c, "causation") \cup LinksTo(p, i, d, "correlation")
  BY <1>2, <1>3 DEF Relations
<1> HIDE DEF c, d
<1> QED BY <1>1, <1>4, <1>5, <1>6

\* A graph whose nodes and relations are in another one, with their sequences.
KeptIn(g, h) ==
  /\ \A n \in DOMAIN g.nodes : n \in DOMAIN h.nodes /\ g.nodes[n].seq = h.nodes[n].seq
  /\ \A x \in DOMAIN g.edges : x \in DOMAIN h.edges /\ g.edges[x] = h.edges[x]

\* The beginning of a list in order is in order.
LEMMA PrefixInOrder ==
  ASSUME NEW T, \A e \in T : e.seq \in Nat, NEW o \in Seq(T), Ascends(o), NEW m \in 1..Len(o)
  PROVE  /\ SubSeq(o, 1, m) \in Seq(T) /\ Len(SubSeq(o, 1, m)) = m /\ DOMAIN SubSeq(o, 1, m) = 1..m
         /\ \A k \in 1..m : SubSeq(o, 1, m)[k] = o[k]
         /\ Ascends(SubSeq(o, 1, m))
         /\ OrderedCopy(SubSeq(o, 1, m)) = SubSeq(o, 1, m)
<1>1. Len(o) \in Nat /\ DOMAIN o = 1..Len(o)
  OBVIOUS
<1>2. /\ SubSeq(o, 1, m) \in Seq(T) /\ Len(SubSeq(o, 1, m)) = m /\ DOMAIN SubSeq(o, 1, m) = 1..m
      /\ \A k \in 1..m : SubSeq(o, 1, m)[k] = o[k]
  BY <1>1, SubSeqProperties
<1>3. Ascends(SubSeq(o, 1, m))
  BY <1>1, <1>2 DEF Ascends
<1> QED BY <1>2, <1>3, OrderedCopyStays

\* The graph of the first events is kept in the graph of all of them.
LEMMA PrefixKept ==
  ASSUME NEW T, \A e \in T : e.seq \in Nat, NEW o \in Seq(T), Ascends(o), NEW m \in 1..Len(o), NEW sid
  PROVE  KeptIn(Project(sid, SubSeq(o, 1, m)), Project(sid, o))
<1> DEFINE p == SubSeq(o, 1, m)
           root == <<"session", sid>>
<1>1. /\ p \in Seq(T) /\ Len(p) = m /\ DOMAIN p = 1..m
      /\ \A k \in 1..m : p[k] = o[k]
      /\ OrderedCopy(p) = p
  BY PrefixInOrder
<1>2. OrderedCopy(o) = o
  BY OrderedCopyStays
<1>3. Len(o) \in Nat /\ DOMAIN o = 1..Len(o) /\ m \in Nat /\ m >= 1 /\ m <= Len(o)
      /\ \A i \in 1..Len(o) : o[i].seq \in Nat
  OBVIOUS
<1> HIDE DEF p, root
<1>4. \A i \in 1..m : i \in 1..Len(o) /\ Relations(p, i, root) = Relations(o, i, root) /\ p[i] = o[i]
  <2>1. ASSUME NEW i \in 1..m PROVE Relations(p, i, root) = Relations(o, i, root)
    <3>1. i \in Nat /\ i >= 1 /\ \A k \in 1..i : p[k] = o[k]
      BY <1>1, <1>3
    <3> QED BY <3>1, RelationsOfPrefix
  <2>2. \A i \in 1..m : i \in 1..Len(o)
    BY <1>3
  <2> QED BY <2>1, <2>2, <1>1
<1>5. NodesOf(p, root) \subseteq NodesOf(o, root)
  BY <1>1, <1>3, <1>4 DEF NodesOf
<1>6. EdgesOf(p, root) \subseteq EdgesOf(o, root)
  BY <1>1, <1>3, <1>4 DEF EdgesOf
<1>7. ASSUME NEW id \in NodesOf(p, root)
      PROVE  FirstSeq(p, id, root) = FirstSeq(o, id, root)
  <2>1. CASE id = root
    BY <2>1, <1>1, <1>3 DEF FirstSeq
  <2>2. CASE id # root
    <3>1. TouchedAt(p, id) # {}
      BY <2>2 DEF NodesOf, TouchedAt
    <3>2. TouchedAt(p, id) \subseteq 1..m /\ TouchedAt(p, id) \subseteq TouchedAt(o, id) /\ TouchedAt(o, id) \subseteq 1..Len(o)
      BY <1>1, <1>3, <1>4 DEF TouchedAt
    <3>3. \A i \in TouchedAt(o, id) : i \in 1..m => i \in TouchedAt(p, id)
      BY <1>1, <1>3, <1>4 DEF TouchedAt
    <3>4. \A i \in TouchedAt(o, id) : \E j \in TouchedAt(p, id) : j <= i
      BY <3>1, <3>2, <3>3, <1>3
    <3>5. Min(TouchedAt(o, id)) = Min(TouchedAt(p, id))
      <4>1. TouchedAt(p, id) \in SUBSET Nat /\ TouchedAt(o, id) \in SUBSET Nat
        BY <3>2
      <4> QED BY <4>1, <3>1, <3>2, <3>4, MinOfSame
    <3>6. Min(TouchedAt(p, id)) \in 1..m
      BY <3>1, <3>2, <1>3, MinIsLeast
    <3> QED BY <2>2, <3>5, <3>6, <1>1 DEF FirstSeq
  <2> QED BY <2>1, <2>2
<1>8. ASSUME NEW x \in EdgesOf(p, root)
      PROVE  EdgeSequence(SeqsOf(p, x, root)) = EdgeSequence(SeqsOf(o, x, root))
  <2>1. PICK i0 \in 1..m : x \in Relations(p, i0, root)
    BY <1>1 DEF EdgesOf
  <2>2. /\ AddedAt(p, x, root) \subseteq AddedAt(o, x, root) /\ AddedAt(o, x, root) \subseteq 1..Len(o)
        /\ AddedAt(p, x, root) \subseteq 1..m /\ i0 \in AddedAt(p, x, root)
        /\ \A i \in AddedAt(o, x, root) : i \in 1..m => i \in AddedAt(p, x, root)
    BY <1>1, <1>3, <1>4, <2>1 DEF AddedAt
  <2>3. SeqsOf(p, x, root) \in SUBSET Nat /\ SeqsOf(o, x, root) \in SUBSET Nat
    <3>1. \A i \in AddedAt(o, x, root) : o[i].seq \in Nat
      BY <1>3, <2>2
    <3>2. \A i \in AddedAt(p, x, root) : p[i].seq \in Nat
      BY <3>1, <1>1, <2>2
    <3> QED BY <3>1, <3>2 DEF SeqsOf
  <2>4. SeqsOf(p, x, root) \subseteq SeqsOf(o, x, root)
    BY <1>1, <1>4, <2>2 DEF SeqsOf
  <2>5. o[i0].seq \in SeqsOf(p, x, root)
    BY <1>1, <2>2 DEF SeqsOf
  <2>6. ASSUME NEW t \in SeqsOf(o, x, root)
        PROVE  \E s \in SeqsOf(p, x, root) : s <= t
    <3>1. PICK i \in AddedAt(o, x, root) : t = o[i].seq
      BY DEF SeqsOf
    <3>2. CASE i \in 1..m
      <4>1. t \in SeqsOf(p, x, root)
        BY <3>1, <3>2, <2>2, <1>1 DEF SeqsOf
      <4> QED BY <4>1, <2>3
    <3>3. CASE i \notin 1..m
      <4>1. i \in 1..Len(o) /\ i0 \in 1..Len(o) /\ i0 < i
        <5>1. i \in 1..Len(o)
          BY <2>2
        <5>2. i \in Nat /\ i > m
          BY <5>1, <3>3, <1>3
        <5>3. i0 \in Nat /\ i0 <= m /\ i0 >= 1
          BY <1>3
        <5> QED BY <5>1, <5>2, <5>3, <1>3
      <4>2. o[i0].seq <= o[i].seq
        BY <4>1, <1>3 DEF Ascends
      <4> QED BY <4>2, <2>5, <3>1
    <3> QED BY <3>2, <3>3
  <2>7. Min(SeqsOf(o, x, root)) = Min(SeqsOf(p, x, root))
    BY <2>3, <2>4, <2>5, <2>6, MinOfSame
  <2> QED BY <2>7 DEF EdgeSequence
<1>9. /\ DOMAIN Project(sid, p).nodes = NodesOf(p, root)
      /\ \A id \in NodesOf(p, root) : Project(sid, p).nodes[id].seq = FirstSeq(p, id, root)
      /\ DOMAIN Project(sid, p).edges = EdgesOf(p, root)
      /\ \A x \in EdgesOf(p, root) : Project(sid, p).edges[x] = EdgeSequence(SeqsOf(p, x, root))
  BY <1>1, ProjectReads DEF root
<1>10. /\ DOMAIN Project(sid, o).nodes = NodesOf(o, root)
       /\ \A id \in NodesOf(o, root) : Project(sid, o).nodes[id].seq = FirstSeq(o, id, root)
       /\ DOMAIN Project(sid, o).edges = EdgesOf(o, root)
       /\ \A x \in EdgesOf(o, root) : Project(sid, o).edges[x] = EdgeSequence(SeqsOf(o, x, root))
  BY <1>2, ProjectReads DEF root
<1>11. KeptIn(Project(sid, p), Project(sid, o))
  BY <1>5, <1>6, <1>7, <1>8, <1>9, <1>10 DEF KeptIn
<1> QED BY <1>11 DEF p
----------------------------------------------------------------------------
(* Visualizer: frames *)

\* Projecting events that were sorted before gives the same graph.
LEMMA ProjectOfOrdered ==
  ASSUME NEW T, \A e \in T : e.seq \in Nat, NEW evs \in Seq(T), NEW sid
  PROVE  Project(sid, OrderedCopy(evs)) = Project(sid, evs)
<1> DEFINE o == OrderedCopy(evs)
           root == <<"session", sid>>
           g == [nodes |-> [id \in NodesOf(o, root) |->
                               [seq |-> FirstSeq(o, id, root),
                                paths |-> Annotation(o, id, "paths"), access |-> Annotation(o, id, "access")]],
                 edges |-> [x \in EdgesOf(o, root) |-> EdgeSequence(SeqsOf(o, x, root))]]
<1>1. OrderedCopy(o) = o
  BY OrderedOnce
<1> HIDE DEF o
<1>2. Project(sid, o) = g
  BY <1>1, ProjectParts, Zenon
<1>3. Project(sid, evs) = g
  BY ProjectParts, Zenon DEF o
<1> QED BY <1>2, <1>3 DEF o

\* Frames grow when each graph is kept in the later ones.
LEMMA GrowsForm ==
  ASSUME NEW fs
  PROVE  Grows(fs) <=> \A i, j \in DOMAIN fs : i < j =>
           fs[i].seq <= fs[j].seq /\ KeptIn(fs[i].graph, fs[j].graph)
BY DEF Grows, KeptIn

\* The frames of a list of events: one per event, growing, the last one of all of
\* them.
LEMMA FramesGrow ==
  ASSUME NEW T, \A e \in T : e.seq \in Nat, NEW evs \in Seq(T), NEW sid,
         NEW fs, fs = BuildFrames(sid, evs)
  PROVE  /\ fs \in Seq({fs[i] : i \in DOMAIN fs}) /\ Len(fs) = Len(evs)
         /\ \A i \in DOMAIN fs : fs[i].seq \in Nat
         /\ Grows(fs)
         /\ fs # <<>> => Last(fs).seq = OrderedCopy(evs)[Len(evs)].seq /\ Last(fs).graph = Project(sid, evs)
<1> DEFINE o == OrderedCopy(evs)
           n == Len(evs)
<1>1. o \in Seq(T) /\ Len(o) = n /\ n \in Nat /\ DOMAIN o = 1..n /\ Ascends(o)
  BY OrderedCopySorts
<1>2. Project(sid, o) = Project(sid, evs)
  BY ProjectOfOrdered
<1>3. fs = [i \in 1..n |-> [seq |-> o[i].seq, id |-> o[i].id, graph |-> Project(sid, SubSeq(o, 1, i))]]
  BY <1>1 DEF BuildFrames
<1> HIDE DEF o
<1>4. DOMAIN fs = 1..n /\ \A i \in 1..n : fs[i].seq = o[i].seq /\ fs[i].graph = Project(sid, SubSeq(o, 1, i))
  BY <1>3
<1>5. \A i \in 1..n : o[i].seq \in Nat
  BY <1>1
<1>6. fs \in Seq({fs[i] : i \in DOMAIN fs}) /\ Len(fs) = n
  <2>1. fs \in [1..n -> {fs[i] : i \in DOMAIN fs}]
    BY <1>3, <1>4
  <2> QED BY <2>1, <1>1, SeqDef, LenProperties
<1>7. Grows(fs)
  <2>1. ASSUME NEW i \in 1..n, NEW j \in 1..n, i < j
        PROVE  fs[i].seq <= fs[j].seq /\ KeptIn(fs[i].graph, fs[j].graph)
    <3> DEFINE q == SubSeq(o, 1, j)
    <3>1. q \in Seq(T) /\ Len(q) = j /\ Ascends(q) /\ \A k \in 1..j : q[k] = o[k]
      BY <1>1, PrefixInOrder
    <3>2. i \in 1..Len(q)
      BY <3>1, <2>1, <1>1
    <3>3. SubSeq(q, 1, i) = SubSeq(o, 1, i)
      <4>1. \A k \in 1..i : k \in 1..j /\ k \in 1..n
        BY <2>1, <1>1
      <4>2. /\ SubSeq(q, 1, i) \in Seq(T) /\ Len(SubSeq(q, 1, i)) = i
            /\ \A k \in 1..i : SubSeq(q, 1, i)[k] = q[k]
        BY <3>1, <3>2, PrefixInOrder
      <4>3. /\ SubSeq(o, 1, i) \in Seq(T) /\ Len(SubSeq(o, 1, i)) = i
            /\ \A k \in 1..i : SubSeq(o, 1, i)[k] = o[k]
        BY <1>1, PrefixInOrder
      <4> HIDE DEF q
      <4> QED BY <4>1, <4>2, <4>3, <3>1, SeqEqual
    <3>4. KeptIn(Project(sid, SubSeq(q, 1, i)), Project(sid, q))
      BY <3>1, <3>2, PrefixKept
    <3>5. o[i].seq <= o[j].seq
      BY <2>1, <1>1 DEF Ascends
    <3> QED BY <3>3, <3>4, <3>5, <1>4
  <2> QED BY <2>1, <1>4, GrowsForm
<1>8. ASSUME fs # <<>>
      PROVE  Last(fs).seq = o[n].seq /\ Last(fs).graph = Project(sid, evs)
  <2>1. n \in 1..n
    BY <1>8, <1>1, <1>6
  <2>2. Last(fs) = fs[n]
    BY <1>6 DEF Last
  <2>3. SubSeq(o, 1, n) = o
    <3>1. SubSeq(o, 1, n) \in Seq(T) /\ Len(SubSeq(o, 1, n)) = n /\ \A k \in 1..n : SubSeq(o, 1, n)[k] = o[k]
      BY <1>1, <2>1, PrefixInOrder
    <3> QED BY <3>1, <1>1, SeqEqual
  <2> QED BY <2>1, <2>2, <2>3, <1>2, <1>4
<1> QED BY <1>4, <1>5, <1>6, <1>7, <1>8 DEF o

\* Frames taken in order from growing frames grow.
LEMMA GrowsTaken ==
  ASSUME NEW s, NEW t, Grows(s), NEW n \in Nat, DOMAIN t = 1..n,
         NEW p \in [1..n -> DOMAIN s],
         \A k \in 1..n : t[k] = s[p[k]],
         \A k, l \in 1..n : k < l => p[k] < p[l]
  PROVE  Grows(t)
<1>1. ASSUME NEW k \in 1..n, NEW l \in 1..n, k < l
      PROVE  t[k].seq <= t[l].seq /\ KeptIn(t[k].graph, t[l].graph)
  <2>1. p[k] \in DOMAIN s /\ p[l] \in DOMAIN s /\ p[k] < p[l]
    BY <1>1
  <2>2. s[p[k]].seq <= s[p[l]].seq /\ KeptIn(s[p[k]].graph, s[p[l]].graph)
    BY <2>1, GrowsForm
  <2> QED BY <2>2
<1> QED BY <1>1, GrowsForm

\* retention.Trim drops early frames: what it leaves grows and ends where the
\* frames ended, and it leaves nothing only when they all lie below the floor.
LEMMA TrimKeepsTheEnd ==
  ASSUME NEW F, NEW fs \in Seq(F), Grows(fs), \A i \in DOMAIN fs : fs[i].seq \in Nat
  PROVE  /\ Grows(Trim(fs))
         /\ Trim(fs) # <<>> => fs # <<>> /\ Last(Trim(fs)) = Last(fs)
         /\ Trim(fs) = <<>> /\ fs # <<>> => Last(fs).seq < MinSequence
<1> DEFINE n == Len(fs)
           places == {i \in DOMAIN fs : fs[i].seq >= MinSequence}
           kept == Pick(fs, places)
           m == Len(kept)
<1>0. MinSequence \in Nat /\ MaxFrames \in Nat
  BY VisualizerAssumption
<1>1. n \in Nat /\ DOMAIN fs = 1..n /\ places \in SUBSET (1..n)
  OBVIOUS
<1>2. kept \in Seq(F) /\ \E p : TakenAt(kept, fs, p, places)
  BY <1>1, PickTakes
<1>3. PICK p : TakenAt(kept, fs, p, places)
  BY <1>2
<1>4. Trim(fs) = IF MaxFrames > 0 /\ m > MaxFrames THEN SubSeq(kept, m - MaxFrames + 1, m) ELSE kept
  BY DEF Trim
<1>5. \A i \in 1..n : i \in places <=> fs[i].seq >= MinSequence
  BY <1>1
<1> HIDE DEF places, kept
<1>6. /\ m \in Nat /\ DOMAIN kept = 1..m
      /\ p \in [1..m -> places]
      /\ \A k \in 1..m : kept[k] = fs[p[k]]
      /\ \A i \in places : \E k \in 1..m : p[k] = i
      /\ \A k, l \in 1..m : k < l => p[k] < p[l]
  BY <1>3 DEF TakenAt
<1>7. p \in [1..m -> DOMAIN fs]
  BY <1>1, <1>6
<1>8. Grows(kept)
  BY <1>6, <1>7, GrowsTaken, ZenonT(60)
<1>9. ASSUME m # 0
      PROVE  n \in 1..n /\ Last(kept) = fs[n] /\ m \in 1..m
  <2>1. m \in 1..m
    BY <1>9, <1>6
  <2>2. p[m] \in places /\ p[m] \in 1..n /\ p[m] \in Nat /\ n \in 1..n
    <3>1. p[m] \in places
      BY <2>1, <1>6
    <3>2. p[m] \in 1..n
      BY <3>1, <1>1 DEF places
    <3> QED BY <3>1, <3>2, <1>1
  <2>3. fs[p[m]].seq >= MinSequence
    BY <2>2, <1>5
  <2>4. n \in places
    <3>1. CASE p[m] = n
      BY <3>1, <2>2
    <3>2. CASE p[m] < n
      <4>1. fs[p[m]].seq <= fs[n].seq
        BY <3>2, <2>2, <1>1, GrowsForm
      <4>2. fs[n].seq \in Nat /\ fs[p[m]].seq \in Nat
        BY <2>2, <1>1
      <4> QED BY <4>1, <4>2, <2>2, <2>3, <1>0, <1>5
    <3> QED BY <3>1, <3>2, <2>2, <1>1
  <2>5. PICK k \in 1..m : p[k] = n
    BY <2>4, <1>6
  <2>6. k = m
    <3>1. SUFFICES ASSUME k # m PROVE FALSE
      OBVIOUS
    <3>2. k < m
      <4>1. m \in Nat /\ k \in 1..m
        BY <1>6
      <4> QED BY <3>1, <4>1
    <3>3. p[k] < p[m]
      BY <3>2, <2>1, <1>6
    <3> QED BY <3>3, <2>2, <2>5, <1>1
  <2>7. Last(kept) = kept[m]
    BY DEF Last
  <2> QED BY <2>1, <2>2, <2>5, <2>6, <2>7, <1>6
<1>10. ASSUME m = 0, fs # <<>>
       PROVE  Last(fs).seq < MinSequence
  <2>1. n \in 1..n
    BY <1>10, <1>1
  <2>2. n \notin places
    BY <1>6, <1>10
  <2>3. ~(fs[n].seq >= MinSequence) /\ fs[n].seq \in Nat
    BY <2>1, <2>2, <1>1, <1>5
  <2>4. Last(fs) = fs[n]
    BY DEF Last
  <2> QED BY <2>3, <2>4, <1>0
<1>11. CASE MaxFrames > 0 /\ m > MaxFrames
  <2> DEFINE a == m - MaxFrames + 1
             t == SubSeq(kept, a, m)
  <2>1. Trim(fs) = t
    BY <1>4, <1>11
  <2>2. a \in 1..m /\ m \in Nat /\ MaxFrames \in Nat /\ m # 0
    BY <1>0, <1>6, <1>11
  <2>3. /\ t \in Seq(F) /\ Len(t) = MaxFrames /\ DOMAIN t = 1..MaxFrames
        /\ \A k \in 1..MaxFrames : t[k] = kept[a + k - 1]
    <3>1. SubSeq(kept, a, m) = [i \in 1..(m - a + 1) |-> kept[a + i - 1]]
      BY <1>2, <1>6, <2>2 DEF SubSeq
    <3>2. m - a + 1 = MaxFrames
      BY <2>2
    <3>3. t \in Seq(F)
      BY <1>2, <1>6, <2>2
    <3>4. t = [i \in 1..MaxFrames |-> kept[a + i - 1]]
      BY <3>1, <3>2
    <3> HIDE DEF t
    <3> QED BY <3>3, <3>4, <2>2, LenProperties
  <2> DEFINE r == [k \in 1..MaxFrames |-> a + k - 1]
  <2>4. r \in [1..MaxFrames -> DOMAIN kept]
    BY <2>2, <1>6
  <2>5. \A k \in 1..MaxFrames : t[k] = kept[r[k]]
    BY <2>3
  <2>6. \A k, l \in 1..MaxFrames : k < l => r[k] < r[l]
    BY <2>2
  <2> HIDE DEF r, t
  <2>7. Grows(t)
    <3>1. MaxFrames \in Nat /\ DOMAIN t = 1..MaxFrames
      BY <2>2, <2>3
    <3> QED BY <3>1, <2>4, <2>5, <2>6, <1>8, GrowsTaken
  <2>8. Last(t) = Last(kept)
    <3>1. Last(t) = t[MaxFrames] /\ Last(kept) = kept[m]
      BY <2>3 DEF Last
    <3>2. MaxFrames \in 1..MaxFrames /\ a + MaxFrames - 1 = m
      BY <2>2, <1>11
    <3> QED BY <3>1, <3>2, <2>3
  <2>9. t # <<>>
    BY <2>2, <2>3, <1>11
  <2>10. fs # <<>> /\ Last(fs) = fs[n]
    BY <1>1, <1>9, <2>2 DEF Last
  <2> QED BY <2>1, <2>2, <2>7, <2>8, <2>9, <2>10, <1>9
<1>12. CASE ~(MaxFrames > 0 /\ m > MaxFrames)
  <2>1. Trim(fs) = kept
    BY <1>4, <1>12
  <2>2. (kept = <<>>) <=> (m = 0)
    BY <1>2, EmptySeq
  <2>3. m # 0 => fs # <<>> /\ Last(fs) = fs[n]
    BY <1>1, <1>9 DEF Last
  <2> QED BY <2>1, <2>2, <2>3, <1>8, <1>9, <1>10
<1> QED BY <1>11, <1>12
----------------------------------------------------------------------------
(* Visualizer: a graph depends on the events, not on their delivery *)

\* Events that have a sequence of their own and link to no other event.
Plain(T) ==
  /\ \A e \in T : e.seq \in Nat /\ e.cause = <<>> /\ e.corr = Unset
  /\ \A e, f \in T : e.seq = f.seq => e = f

\* A node is first touched at least as early in a list in order that has the events
\* of another one.
LEMMA FirstAtMost ==
  ASSUME NEW T, Plain(T), NEW o \in Seq(T), NEW p \in Seq(T), Ascends(o), SameEvents(o, p), p # <<>>, NEW root,
         NEW id \in NodesOf(p, root)
  PROVE  FirstSeq(o, id, root) \in Nat /\ FirstSeq(p, id, root) \in Nat /\ FirstSeq(o, id, root) <= FirstSeq(p, id, root)
<1>1. /\ Len(o) \in Nat /\ DOMAIN o = 1..Len(o) /\ (\A i \in 1..Len(o) : o[i] \in T)
      /\ Len(p) \in Nat /\ DOMAIN p = 1..Len(p) /\ (\A i \in 1..Len(p) : p[i] \in T)
      /\ 1 \in 1..Len(p)
  OBVIOUS
<1>2. /\ \A i \in 1..Len(o) : o[i].seq \in Nat
      /\ \A i \in 1..Len(p) : p[i].seq \in Nat
  BY <1>1 DEF Plain
<1>3. ASSUME NEW k \in 1..Len(p), NEW i \in 1..Len(o), NEW j \in 1..Len(o), o[j] = p[k], i <= j
      PROVE  o[i].seq <= p[k].seq
  <2>1. CASE i = j
    BY <2>1, <1>2, <1>3
  <2>2. CASE i < j
    BY <2>2, <1>1, <1>3 DEF Ascends
  <2> QED BY <2>1, <2>2, <1>1, <1>3
<1>4. CASE id = root
  <2>1. PICK j \in 1..Len(o) : o[j] = p[1]
    BY <1>1 DEF SameEvents
  <2>2. 1 \in 1..Len(o) /\ 1 <= j
    BY <1>1
  <2>3. o[1].seq <= p[1].seq
    BY <2>1, <2>2, <1>1, <1>3
  <2> QED BY <2>2, <2>3, <1>1, <1>2, <1>4 DEF FirstSeq
<1>5. CASE id # root
  <2>1. TouchedAt(p, id) \in SUBSET Nat /\ TouchedAt(p, id) # {}
    BY <1>1, <1>5 DEF NodesOf, TouchedAt
  <2> DEFINE k == Min(TouchedAt(p, id))
             m == Min(TouchedAt(o, id))
  <2>2. k \in TouchedAt(p, id)
    BY <2>1, MinIsLeast
  <2>3. k \in 1..Len(p) /\ id \in Touched(p[k])
    BY <2>2, <1>1 DEF TouchedAt
  <2> HIDE DEF k
  <2>4. PICK j \in 1..Len(o) : o[j] = p[k]
    BY <2>3, <1>1 DEF SameEvents
  <2>5. j \in TouchedAt(o, id) /\ TouchedAt(o, id) \in SUBSET (1..Len(o))
    BY <2>3, <2>4, <1>1 DEF TouchedAt
  <2>6. m \in TouchedAt(o, id) /\ m <= j
    <3>1. TouchedAt(o, id) \in SUBSET Nat
      BY <2>5
    <3> QED BY <2>5, <3>1, MinIsLeast
  <2>7. m \in 1..Len(o)
    BY <2>5, <2>6
  <2> HIDE DEF m
  <2>8. o[m].seq <= p[k].seq
    BY <2>3, <2>4, <2>6, <2>7, <1>3
  <2>9. FirstSeq(o, id, root) = o[m].seq /\ FirstSeq(p, id, root) = p[k].seq
    BY <1>5 DEF FirstSeq, m, k
  <2> QED BY <2>3, <2>7, <2>8, <2>9, <1>2
<1> QED BY <1>4, <1>5

\* The last annotation of a node is at least as late in a list in order.
LEMMA LatestAtLeast ==
  ASSUME NEW T, Plain(T), NEW o \in Seq(T), NEW p \in Seq(T), Ascends(o), SameEvents(o, p), NEW id, NEW key,
         NotedAt(p, id, key) # {}
  PROVE  /\ NotedAt(o, id, key) # {}
         /\ Max(NotedAt(o, id, key)) \in 1..Len(o) /\ Max(NotedAt(p, id, key)) \in 1..Len(p)
         /\ o[Max(NotedAt(o, id, key))].seq >= p[Max(NotedAt(p, id, key))].seq
<1>1. /\ Len(o) \in Nat /\ DOMAIN o = 1..Len(o) /\ (\A i \in 1..Len(o) : o[i] \in T)
      /\ Len(p) \in Nat /\ DOMAIN p = 1..Len(p) /\ (\A i \in 1..Len(p) : p[i] \in T)
  OBVIOUS
<1>2. /\ \A i \in 1..Len(o) : o[i].seq \in Nat
      /\ \A i \in 1..Len(p) : p[i].seq \in Nat
  BY <1>1 DEF Plain
<1> DEFINE k == Max(NotedAt(p, id, key))
           m == Max(NotedAt(o, id, key))
<1>3. /\ NotedAt(p, id, key) \in SUBSET (1..Len(p)) /\ NotedAt(o, id, key) \in SUBSET (1..Len(o))
      /\ \A i \in NotedAt(p, id, key) : p[i].agg = id /\ p[i][key] # Unset
      /\ \A i \in 1..Len(o) : o[i].agg = id /\ o[i][key] # Unset => i \in NotedAt(o, id, key)
  BY <1>1 DEF NotedAt
<1>4. k \in NotedAt(p, id, key)
  <2>1. NotedAt(p, id, key) \in SUBSET Nat /\ \A i \in NotedAt(p, id, key) : i <= Len(p)
    BY <1>1, <1>3
  <2> QED BY <2>1, <1>1, MaxIsGreatest
<1> HIDE DEF k
<1>5. PICK j \in 1..Len(o) : o[j] = p[k]
  BY <1>1, <1>3, <1>4 DEF SameEvents
<1>6. j \in NotedAt(o, id, key)
  BY <1>3, <1>4, <1>5
<1>7. m \in NotedAt(o, id, key) /\ j <= m
  <2>1. NotedAt(o, id, key) \in SUBSET Nat /\ \A i \in NotedAt(o, id, key) : i <= Len(o)
    BY <1>1, <1>3
  <2> QED BY <2>1, <1>1, <1>6, MaxIsGreatest
<1>8. m \in 1..Len(o) /\ k \in 1..Len(p)
  BY <1>3, <1>4, <1>7
<1> HIDE DEF m
<1>9. o[m].seq >= p[k].seq
  <2>1. CASE j = m
    BY <2>1, <1>2, <1>5, <1>8
  <2>2. CASE j < m
    <3>1. o[j].seq <= o[m].seq
      BY <2>2, <1>1, <1>8 DEF Ascends
    <3>2. o[j].seq \in Nat /\ o[m].seq \in Nat
      BY <1>2, <1>8
    <3> QED BY <3>1, <3>2, <1>5
  <2> QED BY <2>1, <2>2, <1>1, <1>7, <1>8
<1> QED BY <1>6, <1>8, <1>9 DEF m, k

\* An event that links to no other one relates what it names.
LEMMA PlainRelations ==
  ASSUME NEW o, NEW i, o[i].cause = <<>>, o[i].corr = Unset, NEW root
  PROVE  Relations(o, i, root) = OwnRelations(o[i], root)
<1>1. Causes(o, i) = {} /\ Peers(o, i) = {}
  BY DEF Causes, Peers
<1>2. LinksTo(o, i, {}, "causation") = {} /\ LinksTo(o, i, {}, "correlation") = {}
  BY DEF LinksTo
<1>3. {j \in Causes(o, i) : j = Max(Causes(o, i))} = {} /\ {j \in Peers(o, i) : j = Min(Peers(o, i))} = {}
  BY <1>1
<1> QED BY <1>2, <1>3 DEF Relations

\* Two lists in order with the same events have the same graph.
LEMMA SameGraph ==
  ASSUME NEW T, Plain(T), NEW o \in Seq(T), NEW p \in Seq(T), Ascends(o), Ascends(p), SameEvents(o, p),
         o # <<>>, p # <<>>, NEW sid
  PROVE  Project(sid, o) = Project(sid, p)
<1> DEFINE root == <<"session", sid>>
<1>1. /\ Len(o) \in Nat /\ DOMAIN o = 1..Len(o) /\ (\A i \in 1..Len(o) : o[i] \in T)
      /\ Len(p) \in Nat /\ DOMAIN p = 1..Len(p) /\ (\A i \in 1..Len(p) : p[i] \in T)
  OBVIOUS
<1>2. SameEvents(p, o)
  BY DEF SameEvents
<1>3. OrderedCopy(o) = o /\ OrderedCopy(p) = p
  BY OrderedCopyStays DEF Plain
<1> HIDE DEF root
<1>4. NodesOf(o, root) = NodesOf(p, root)
  BY <1>1 DEF NodesOf, SameEvents
<1>5. ASSUME NEW id \in NodesOf(o, root)
      PROVE  FirstSeq(o, id, root) = FirstSeq(p, id, root)
  <2>1. id \in NodesOf(p, root)
    BY <1>4
  <2>2. FirstSeq(o, id, root) \in Nat /\ FirstSeq(p, id, root) \in Nat /\ FirstSeq(o, id, root) <= FirstSeq(p, id, root)
    BY <2>1, FirstAtMost
  <2>3. FirstSeq(p, id, root) <= FirstSeq(o, id, root)
    BY <1>2, FirstAtMost
  <2> QED BY <2>2, <2>3
<1>6. ASSUME NEW id, NEW key
      PROVE  Annotation(o, id, key) = Annotation(p, id, key)
  <2>1. (NotedAt(o, id, key) # {}) <=> (NotedAt(p, id, key) # {})
    BY <1>2, LatestAtLeast
  <2>2. CASE NotedAt(o, id, key) = {}
    BY <2>1, <2>2 DEF Annotation
  <2>3. CASE NotedAt(o, id, key) # {}
    <3> DEFINE m == Max(NotedAt(o, id, key))
               k == Max(NotedAt(p, id, key))
    <3>1. m \in 1..Len(o) /\ k \in 1..Len(p) /\ o[m].seq >= p[k].seq
      BY <2>1, <2>3, LatestAtLeast
    <3>2. p[k].seq >= o[m].seq
      BY <2>3, <1>2, LatestAtLeast
    <3> HIDE DEF m, k
    <3>3. o[m] \in T /\ p[k] \in T /\ o[m].seq \in Nat /\ p[k].seq \in Nat
      BY <3>1, <1>1 DEF Plain
    <3>4. o[m].seq = p[k].seq
      BY <3>1, <3>2, <3>3
    <3>5. o[m] = p[k]
      BY <3>3, <3>4 DEF Plain
    <3> QED BY <2>1, <2>3, <3>5 DEF Annotation, m, k
  <2> QED BY <2>2, <2>3
<1>7. /\ \A i \in 1..Len(o) : Relations(o, i, root) = OwnRelations(o[i], root)
      /\ \A i \in 1..Len(p) : Relations(p, i, root) = OwnRelations(p[i], root)
  <2>1. ASSUME NEW s \in Seq(T), NEW i \in 1..Len(s)
        PROVE  Relations(s, i, root) = OwnRelations(s[i], root)
    <3>1. s[i] \in T
      OBVIOUS
    <3>2. s[i].cause = <<>> /\ s[i].corr = Unset
      BY <3>1 DEF Plain
    <3> QED BY <3>2, PlainRelations
  <2> QED BY <2>1
<1>8. EdgesOf(o, root) = EdgesOf(p, root)
  BY <1>1, <1>7 DEF EdgesOf, SameEvents
<1>9. ASSUME NEW x
      PROVE  SeqsOf(o, x, root) = SeqsOf(p, x, root)
  <2>1. /\ AddedAt(o, x, root) = {i \in 1..Len(o) : x \in OwnRelations(o[i], root)}
        /\ AddedAt(p, x, root) = {i \in 1..Len(p) : x \in OwnRelations(p[i], root)}
    BY <1>1, <1>7 DEF AddedAt
  <2>2. SeqsOf(o, x, root) \subseteq SeqsOf(p, x, root)
    BY <1>1, <2>1 DEF SeqsOf, SameEvents
  <2>3. SeqsOf(p, x, root) \subseteq SeqsOf(o, x, root)
    BY <1>1, <2>1 DEF SeqsOf, SameEvents
  <2> QED BY <2>2, <2>3
<1> DEFINE node(s, id) == [seq |-> FirstSeq(s, id, root),
                           paths |-> Annotation(s, id, "paths"), access |-> Annotation(s, id, "access")]
           nodes(s) == [id \in NodesOf(s, root) |-> node(s, id)]
           edges(s) == [x \in EdgesOf(s, root) |-> EdgeSequence(SeqsOf(s, x, root))]
<1>10. nodes(o) = nodes(p)
  <2>1. \A id \in NodesOf(o, root) : node(o, id) = node(p, id)
    BY <1>5, <1>6
  <2> HIDE DEF node
  <2> QED BY <2>1, <1>4
<1>11. edges(o) = edges(p)
  BY <1>8, <1>9
<1>12. Project(sid, o) = [nodes |-> nodes(o), edges |-> edges(o)]
  BY <1>3, ProjectParts, Zenon DEF root
<1>13. Project(sid, p) = [nodes |-> nodes(p), edges |-> edges(p)]
  BY <1>3, ProjectParts, Zenon DEF root
<1> HIDE DEF nodes, edges
<1> QED BY <1>10, <1>11, <1>12, <1>13
----------------------------------------------------------------------------
(* Visualizer: the invariant *)

\* The events that the journal of the session holds.
EventsOf(log) == {ToContract(n, log[n]) : n \in DOMAIN log}

VisTypeOK ==
  /\ trail \in Seq(Observed) /\ canon \in Seq(History)
  /\ bridge \in [events : Seq(EventsOf(trail)), frames : {bridge.frames}, built : BOOLEAN]
  /\ cursor \in [frames : {cursor.frames}, index : {cursor.index}]

\* The frames of the bridge are those of its events unless one came in since.
Rebuilt == bridge.built => bridge.frames = BuildFrames(TheSession, bridge.events)

Followed ==
  /\ Grows(bridge.frames) /\ Grows(cursor.frames)
  /\ cursor.frames # <<>> => cursor.index \in DOMAIN cursor.frames

\* A timeline that was handed out.
Faithful(v) ==
  /\ Grows(v.frames)
  /\ v.frames # <<>> \/ v.end < MinSequence
  /\ v.frames # <<>> => Last(v.frames).seq = v.end /\ Last(v.frames).graph = v.graph

VisInv == VisTypeOK /\ Rebuilt /\ Followed /\ \A v \in shown : Faithful(v)

\* Each journaled event has the sequence of its place, and none links to another.
LEMMA JournaledIsPlain ==
  ASSUME NEW log \in Seq(Observed)
  PROVE  Plain(EventsOf(log)) /\ \A e \in EventsOf(log) : e.seq \in Nat
<1>1. Len(log) \in Nat /\ DOMAIN log = 1..Len(log)
  OBVIOUS
<1>2. ASSUME NEW n \in 1..Len(log)
      PROVE  /\ ToContract(n, log[n]).seq = n - 1
             /\ ToContract(n, log[n]).cause = <<>>
             /\ ToContract(n, log[n]).corr = Unset
  BY DEF ToContract
<1>3. \A e \in EventsOf(log) : \E n \in 1..Len(log) : e = ToContract(n, log[n])
  BY <1>1 DEF EventsOf
<1>4. ASSUME NEW e \in EventsOf(log)
      PROVE  e.seq \in Nat /\ e.cause = <<>> /\ e.corr = Unset
  <2>1. PICK n \in 1..Len(log) : e = ToContract(n, log[n])
    BY <1>3
  <2> QED BY <2>1, <1>2, <1>1
<1>5. ASSUME NEW e \in EventsOf(log), NEW f \in EventsOf(log), e.seq = f.seq
      PROVE  e = f
  <2>1. PICK n \in 1..Len(log) : e = ToContract(n, log[n])
    BY <1>3
  <2>2. PICK m \in 1..Len(log) : f = ToContract(m, log[m])
    BY <1>3
  <2>3. n - 1 = m - 1
    BY <2>1, <2>2, <1>2, <1>5
  <2> QED BY <2>1, <2>2, <2>3, <1>1
<1> QED BY <1>4, <1>5 DEF Plain

\* The journal replays as its events, in order.
LEMMA ReplayInOrder ==
  ASSUME NEW log \in Seq(Observed)
  PROVE  /\ ReplaySource(log) \in Seq(EventsOf(log)) /\ Len(ReplaySource(log)) = Len(log)
         /\ Ascends(ReplaySource(log))
<1>1. Len(log) \in Nat /\ DOMAIN log = 1..Len(log)
  OBVIOUS
<1>2. ReplaySource(log) = [n \in 1..Len(log) |-> ToContract(n, log[n])]
  BY <1>1 DEF ReplaySource
<1>3. \A n \in 1..Len(log) : ToContract(n, log[n]) \in EventsOf(log)
  BY <1>1 DEF EventsOf
<1>4. ReplaySource(log) \in Seq(EventsOf(log)) /\ Len(ReplaySource(log)) = Len(log)
  <2>1. ReplaySource(log) \in [1..Len(log) -> EventsOf(log)]
    BY <1>2, <1>3
  <2> QED BY <2>1, <1>1, SeqDef, LenProperties
<1>5. \A n \in 1..Len(log) : ReplaySource(log)[n].seq = n - 1
  BY <1>2 DEF ToContract
<1>6. DOMAIN ReplaySource(log) = 1..Len(log)
  BY <1>2
<1>7. Ascends(ReplaySource(log))
  BY <1>1, <1>5, <1>6 DEF Ascends
<1> QED BY <1>4, <1>7

\* Once everything was delivered, the last frame is the graph of the replay.
LEMMA DeliveredIsReplayed ==
  ASSUME VisInv
  PROVE  LiveGraphIsReplay
<1>1. SUFFICES ASSUME bridge.built, Replayable(trail), Range(bridge.events) = Range(ReplaySource(trail))
               PROVE  Last(bridge.frames).graph = Project(TheSession, ReplaySource(trail))
  BY DEF LiveGraphIsReplay
<1> DEFINE T == EventsOf(trail)
           evs == bridge.events
           r == ReplaySource(trail)
           o == OrderedCopy(evs)
<1>2. trail \in Seq(Observed) /\ evs \in Seq(T) /\ bridge.frames = BuildFrames(TheSession, evs)
  BY <1>1 DEF VisInv, VisTypeOK, Rebuilt
<1>3. Plain(T) /\ \A e \in T : e.seq \in Nat
  BY <1>2, JournaledIsPlain
<1>4. r \in Seq(T) /\ Len(r) = Len(trail) /\ Ascends(r) /\ trail # <<>>
  BY <1>1, <1>2, ReplayInOrder DEF Replayable
<1>5. o \in Seq(T) /\ Len(o) = Len(evs) /\ Ascends(o) /\ SameEvents(o, evs)
  BY <1>2, <1>3, OrderedCopySorts
<1> HIDE DEF T, evs, r, o
<1>6. r # <<>>
  BY <1>2, <1>4
<1>7. Range(evs) = Range(r)
  BY <1>1 DEF evs, r
<1>8. SameEvents(evs, r)
  BY <1>7 DEF SameEvents, Range
<1>9. SameEvents(o, r)
  BY <1>5, <1>8 DEF SameEvents
<1>10. evs # <<>> /\ o # <<>>
  <2>1. 1 \in DOMAIN r
    BY <1>4, <1>6
  <2>2. (\E i \in DOMAIN evs : TRUE) /\ (\E i \in DOMAIN o : TRUE)
    BY <2>1, <1>8, <1>9 DEF SameEvents
  <2> QED BY <2>2, <1>2, <1>5
<1>11. Project(TheSession, o) = Project(TheSession, r)
  BY <1>3, <1>4, <1>5, <1>6, <1>9, <1>10, SameGraph
<1>12. Project(TheSession, o) = Project(TheSession, evs)
  BY <1>2, <1>3, ProjectOfOrdered DEF o
<1>13. bridge.frames # <<>> => Last(bridge.frames).graph = Project(TheSession, evs)
  BY <1>2, <1>3, FramesGrow
<1>14. bridge.frames # <<>>
  <2>1. Len(bridge.frames) = Len(evs)
    BY <1>2, <1>3, FramesGrow, ZenonT(60)
  <2> QED BY <2>1, <1>2, <1>10
<1> QED BY <1>11, <1>12, <1>13, <1>14 DEF r

\* Nothing is journaled, accumulated or shown at first.
LEMMA VisInitOk == VisInit => VisInv
<1>1. SUFFICES ASSUME VisInit PROVE VisInv
  OBVIOUS
<1>2. Grows(<<>>)
  BY DEF Grows
<1>3. VisTypeOK
  BY <1>1 DEF VisInit, VisTypeOK
<1> QED BY <1>1, <1>2, <1>3 DEF VisInit, VisInv, Rebuilt, Followed

\* What rests when nothing of the visualizer moves.
LEMMA VisStutter ==
  ASSUME VisInv, UNCHANGED visVars
  PROVE  VisInv'
BY DEF VisInv, VisTypeOK, Rebuilt, Followed, visVars, liveVars

\* Subscribing and closing a subscription change what was received only.
LEMMA FollowersKeepInv ==
  ASSUME VisInv, UNCHANGED <<trail, bridge, cursor, shown, canon, views>>
  PROVE  VisInv'
BY DEF VisInv, VisTypeOK, Rebuilt, Followed

\* The journal grows, and keeps the events it had.
LEMMA JournaledKeepsInv ==
  ASSUME VisInv, NEW o \in Observed, Journaled(o)
  PROVE  VisInv'
<1>1. /\ trail' = Append(trail, o) /\ bridge' = bridge /\ cursor' = cursor /\ shown' = shown /\ canon' = canon
      /\ trail \in Seq(Observed) /\ bridge.events \in Seq(EventsOf(trail))
  BY DEF Journaled, VisInv, VisTypeOK
<1>2. trail' \in Seq(Observed) /\ \A n \in DOMAIN trail : n \in DOMAIN trail' /\ trail'[n] = trail[n]
  BY <1>1
<1>3. EventsOf(trail) \subseteq EventsOf(trail')
  BY <1>2 DEF EventsOf
<1>4. bridge.events \in Seq(EventsOf(trail'))
  BY <1>1, <1>3, SeqMonotonic
<1>5. VisTypeOK'
  BY <1>1, <1>2, <1>4 DEF VisInv, VisTypeOK
<1> QED BY <1>1, <1>5 DEF VisInv, Rebuilt, Followed

\* Bridge.Consume accumulates an event of the journal, or skips it.
LEMMA ConsumeKeepsInv ==
  ASSUME VisInv, NEW f \in Followers, NEW n \in DOMAIN trail, Consume(f, n)
  PROVE  VisInv'
<1>1. UNCHANGED <<trail, cursor, shown, canon, views>>
  BY DEF Consume
<1>2. CASE UNCHANGED bridge
  BY <1>1, <1>2, FollowersKeepInv
<1>3. CASE bridge' = ApplyEvent(bridge, ToContract(n, trail[n]))
  <2> DEFINE e == ToContract(n, trail[n])
  <2>1. e \in EventsOf(trail)
    BY DEF EventsOf
  <2> HIDE DEF e
  <2>2. bridge' = [bridge EXCEPT !.events = Append(bridge.events, e), !.built = FALSE]
    BY <1>3 DEF ApplyEvent, e
  <2>3. bridge \in [events : Seq(EventsOf(trail)), frames : {bridge.frames}, built : BOOLEAN]
    BY DEF VisInv, VisTypeOK
  <2>4. Append(bridge.events, e) \in Seq(EventsOf(trail))
    BY <2>1, <2>3
  <2>5. /\ bridge' \in [events : Seq(EventsOf(trail)), frames : {bridge.frames}, built : BOOLEAN]
        /\ bridge'.frames = bridge.frames /\ bridge'.built = FALSE
    BY <2>2, <2>3, <2>4
  <2>6. VisTypeOK'
    BY <1>1, <2>5 DEF VisInv, VisTypeOK
  <2> QED BY <1>1, <2>5, <2>6 DEF VisInv, Rebuilt, Followed
<1> QED BY <1>2, <1>3 DEF Consume

\* Bridge.Cursor builds the frames if they are not, and starts at the first one.
LEMMA OpenCursorKeepsInv ==
  ASSUME VisInv, OpenCursor
  PROVE  VisInv'
<1> DEFINE T == EventsOf(trail)
           evs == bridge.events
           fs == BuildFrames(TheSession, evs)
<1>1. /\ UNCHANGED <<trail, follow, shown, canon, views>>
      /\ bridge' = FrameList(bridge) /\ cursor' = [frames |-> FrameList(bridge).frames, index |-> 1]
      /\ bridge.events # <<>>
  BY DEF OpenCursor
<1>2. /\ bridge \in [events : Seq(T), frames : {bridge.frames}, built : BOOLEAN]
      /\ trail \in Seq(Observed) /\ bridge.events \in Seq(T)
  BY DEF VisInv, VisTypeOK
<1>3. \A e \in T : e.seq \in Nat
  BY <1>2, JournaledIsPlain
<1>4. fs \in Seq({fs[i] : i \in DOMAIN fs}) /\ Len(fs) = Len(bridge.events) /\ Grows(fs)
  <2>1. evs \in Seq(T) /\ \A e \in T : e.seq \in Nat
    BY <1>2, <1>3
  <2> HIDE DEF T, evs
  <2>2. /\ fs \in Seq({fs[i] : i \in DOMAIN fs}) /\ Len(fs) = Len(evs)
        /\ \A i \in DOMAIN fs : fs[i].seq \in Nat
        /\ Grows(fs)
        /\ fs # <<>> => Last(fs).seq = OrderedCopy(evs)[Len(evs)].seq /\ Last(fs).graph = Project(TheSession, evs)
    BY <2>1, FramesGrow
  <2> QED BY <2>2 DEF evs
<1> HIDE DEF fs
<1>5. /\ bridge' \in [events : Seq(T), frames : {bridge'.frames}, built : BOOLEAN]
      /\ bridge'.frames = fs /\ bridge'.events = bridge.events
  <2>1. CASE bridge.built
    <3>1. bridge' = bridge /\ bridge.frames = fs
      BY <1>1, <2>1 DEF FrameList, VisInv, Rebuilt, fs
    <3> QED BY <3>1, <1>2
  <2>2. CASE ~bridge.built
    <3>1. bridge' = [bridge EXCEPT !.frames = fs, !.built = TRUE]
      BY <1>1, <2>2 DEF FrameList, fs
    <3> QED BY <3>1, <1>2
  <2> QED BY <2>1, <2>2
<1>6. cursor' = [frames |-> fs, index |-> 1]
  BY <1>1, <1>5
<1>7. 1 \in DOMAIN fs
  BY <1>1, <1>2, <1>4
<1>8. VisTypeOK'
  BY <1>1, <1>5, <1>6 DEF VisInv, VisTypeOK
<1>9. Rebuilt'
  BY <1>5 DEF Rebuilt, fs
<1>10. Followed'
  BY <1>4, <1>5, <1>6, <1>7 DEF Followed
<1> QED BY <1>1, <1>8, <1>9, <1>10 DEF VisInv

\* A cursor moves within its frames.
LEMMA SeekKeepsInv ==
  ASSUME VisInv, NEW i, Seek(i)
  PROVE  VisInv'
<1>1. /\ UNCHANGED <<trail, bridge, follow, shown, canon, views>>
      /\ cursor' = [cursor EXCEPT !.index = i] /\ i \in DOMAIN cursor.frames
  BY DEF Seek
<1>2. cursor \in [frames : {cursor.frames}, index : {cursor.index}]
  BY DEF VisInv, VisTypeOK
<1>3. cursor' \in [frames : {cursor.frames}, index : {i}] /\ cursor'.frames = cursor.frames /\ cursor'.index = i
  BY <1>1, <1>2
<1>4. VisTypeOK'
  BY <1>1, <1>3 DEF VisInv, VisTypeOK
<1> QED BY <1>1, <1>3, <1>4 DEF VisInv, Rebuilt, Followed

\* A step that only hands out one more timeline.
LEMMA ShowingKeepsInv ==
  ASSUME VisInv, UNCHANGED <<liveVars, canon>>, NEW v, shown' = shown \cup {v}, Faithful(v)
  PROVE  VisInv'
BY DEF VisInv, VisTypeOK, Rebuilt, Followed, liveVars

\* Plane.Timeline hands out the trimmed frames of the replay.
LEMMA TimelineKeepsInv ==
  ASSUME VisInv, Timeline
  PROVE  VisInv'
<1> DEFINE T == EventsOf(trail)
           r == ReplaySource(trail)
           fs == BuildFrames(TheSession, r)
           v == [of |-> TheSession, end |-> ObservedSession.end, frames |-> Trim(fs), graph |-> Project(TheSession, r)]
<1>1. shown' = shown \cup {v} /\ UNCHANGED <<liveVars, canon>> /\ trail # <<>>
  BY DEF Timeline, Replayable
<1>2. trail \in Seq(Observed)
  BY DEF VisInv, VisTypeOK
<1>3. \A e \in T : e.seq \in Nat
  BY <1>2, JournaledIsPlain
<1>4. r \in Seq(T) /\ Len(r) = Len(trail)
  BY <1>2, ReplayInOrder
<1>5. ObservedSession.end = OrderedCopy(r)[Len(r)].seq
  <2>1. Len(OrderedCopy(r)) = Len(r)
    BY <1>3, <1>4, OrderedCopySorts
  <2> QED BY <2>1 DEF ObservedSession, Summarize
<1> HIDE DEF T, r
<1>6. /\ fs \in Seq({fs[i] : i \in DOMAIN fs}) /\ Len(fs) = Len(r)
      /\ \A i \in DOMAIN fs : fs[i].seq \in Nat
      /\ Grows(fs)
      /\ fs # <<>> => Last(fs).seq = OrderedCopy(r)[Len(r)].seq /\ Last(fs).graph = Project(TheSession, r)
  BY <1>3, <1>4, FramesGrow
<1> HIDE DEF fs
<1>7. fs # <<>>
  BY <1>1, <1>2, <1>4, <1>6
<1>8. /\ Grows(Trim(fs))
      /\ Trim(fs) # <<>> => fs # <<>> /\ Last(Trim(fs)) = Last(fs)
      /\ Trim(fs) = <<>> /\ fs # <<>> => Last(fs).seq < MinSequence
  BY <1>6, TrimKeepsTheEnd
<1>9. v.frames = Trim(fs) /\ v.end = OrderedCopy(r)[Len(r)].seq /\ v.graph = Project(TheSession, r)
  BY <1>5
<1> HIDE DEF v
<1>10. Faithful(v)
  BY <1>6, <1>7, <1>8, <1>9 DEF Faithful
<1> QED BY <1>1, <1>10, ShowingKeepsInv

\* Memory records one more canonical event.
LEMMA RememberKeepsInv ==
  ASSUME VisInv, NEW e \in History, Remember(e)
  PROVE  VisInv'
<1>1. canon' = Append(canon, e) /\ UNCHANGED <<liveVars, shown, views>> /\ canon \in Seq(History)
  BY DEF Remember, VisInv, VisTypeOK
<1>2. canon' \in Seq(History)
  BY <1>1
<1> QED BY <1>1, <1>2 DEF VisInv, VisTypeOK, Rebuilt, Followed, liveVars

\* browse.Timeline hands out the frames of a listed session, whose end is the one
\* that the listing gives it.
LEMMA BrowseKeepsInv ==
  ASSUME VisInv, NEW i \in DOMAIN canon, Browse(SessionKey(canon[i]))
  PROVE  VisInv'
<1> DEFINE sid == SessionKey(canon[i])
           own == InSession(sid)
           evs == LoadSession(sid)
           fs == BuildFrames(sid, evs)
           places == {j \in DOMAIN canon : SessionKey(canon[j]) = sid}
<1>1. PICK s \in Sessions :
         /\ s.id = sid
         /\ shown' = shown \cup {[of |-> sid, end |-> s.end, frames |-> fs, graph |-> Project(sid, evs)]}
  BY DEF Browse
<1>2. UNCHANGED <<liveVars, canon>>
  BY DEF Browse
<1>3. canon \in Seq(History) /\ \A e \in History : e.seq \in Nat
  BY VisualizerAssumption DEF VisInv, VisTypeOK
<1>4. own \in Seq(History) /\ Len(own) \in Nat /\ Len(own) # 0
  <2>1. places \in SUBSET (1..Len(canon)) /\ i \in places
    BY <1>3
  <2>2. own = Pick(canon, places)
    BY DEF InSession
  <2> HIDE DEF places, own
  <2>3. own \in Seq(History) /\ \E p : TakenAt(own, canon, p, places)
    BY <1>3, <2>1, <2>2, PickTakes
  <2>4. PICK p : TakenAt(own, canon, p, places)
    BY <2>3
  <2>5. \E k \in 1..Len(own) : p[k] = i
    BY <2>1, <2>4 DEF TakenAt
  <2> QED BY <2>3, <2>5
<1>5. /\ evs = OrderedCopy(own) /\ evs \in Seq(History) /\ Len(evs) = Len(own)
      /\ OrderedCopy(evs) = evs
  <2> HIDE DEF own
  <2>1. evs = OrderedCopy(own)
    BY DEF LoadSession, own
  <2> QED BY <2>1, <1>3, <1>4, OrderedCopySorts, OrderedOnce
<1>6. ASSUME NEW x
      PROVE  /\ Summarize(x, InSession(x)).id = x
             /\ Summarize(x, InSession(x)).end = OrderedCopy(InSession(x))[Len(OrderedCopy(InSession(x)))].seq
  BY DEF Summarize
<1>7. Summarize(sid, own) \in List
  BY DEF List
<1>8. s = Summarize(sid, own)
  <2>1. CASE s \in List
    <3>1. PICK x : s = Summarize(x, InSession(x))
      BY <2>1 DEF List
    <3> QED BY <3>1, <1>1, <1>6
  <2>2. CASE s \notin List
    <3> DEFINE observed == {t \in {TheSession} : trail # <<>> /\ \A x \in List : x.id # t}
    <3>1. Sessions = IF observed = {} THEN List
                     ELSE IF Replayable(trail) THEN List \cup {ObservedSession} ELSE {}
      BY DEF Sessions
    <3>2. observed # {} /\ s = ObservedSession
      BY <2>2, <3>1
    <3>3. \A x \in List : x.id # TheSession
      BY <3>2
    <3>4. s.id = TheSession
      BY <3>2 DEF ObservedSession, Summarize
    <3> QED BY <3>3, <3>4, <1>1, <1>6, <1>7
  <2> QED BY <2>1, <2>2
<1>9. s.end = evs[Len(evs)].seq
  BY <1>5, <1>6, <1>8
<1> HIDE DEF sid, own, evs
<1>10. /\ Len(fs) = Len(evs) /\ Grows(fs)
       /\ fs # <<>> => Last(fs).seq = OrderedCopy(evs)[Len(evs)].seq /\ Last(fs).graph = Project(sid, evs)
  BY <1>3, <1>5, FramesGrow
<1> HIDE DEF fs
<1>11. fs # <<>>
  BY <1>4, <1>5, <1>10
<1> DEFINE v == [of |-> sid, end |-> s.end, frames |-> fs, graph |-> Project(sid, evs)]
<1>12. v.frames = fs /\ v.end = s.end /\ v.graph = Project(sid, evs) /\ shown' = shown \cup {v}
  BY <1>1
<1> HIDE DEF v
<1>13. Faithful(v)
  BY <1>5, <1>9, <1>10, <1>11, <1>12 DEF Faithful
<1> QED BY <1>2, <1>12, <1>13, ShowingKeepsInv

\* Every step of the visualizer keeps the invariant.
LEMMA VisStep ==
  ASSUME VisInv, [VisNext]_visVars
  PROVE  VisInv'
<1>1. CASE UNCHANGED visVars
  BY <1>1, VisStutter
<1>2. CASE \E o \in Observed : Journaled(o)
  BY <1>2, JournaledKeepsInv
<1>3. CASE \E f \in Followers : Follow(f) \/ Unfollow(f)
  BY <1>3, FollowersKeepInv DEF Follow, Unfollow
<1>4. CASE \E f \in Followers : \E n \in DOMAIN trail : Consume(f, n)
  BY <1>4, ConsumeKeepsInv
<1>5. CASE \E i \in DOMAIN cursor.frames : Seek(i) \/ SeekSequence(cursor.frames[i].seq)
  BY <1>5, SeekKeepsInv DEF SeekSequence
<1>6. CASE OpenCursor
  BY <1>6, OpenCursorKeepsInv
<1>7. CASE Timeline
  BY <1>7, TimelineKeepsInv
<1>8. CASE \E e \in History : Remember(e)
  BY <1>8, RememberKeepsInv
<1>9. CASE \E i \in DOMAIN canon : Browse(SessionKey(canon[i]))
  BY <1>9, BrowseKeepsInv
<1> QED BY <1>1, <1>2, <1>3, <1>4, <1>5, <1>6, <1>7, <1>8, <1>9 DEF VisNext, LiveStep, BrowseStep

\* The visualizer keeps its invariant: the bridge holds events of the journal only,
\* its frames are those of its events unless one came in since, and every timeline
\* handed out was faithful.
THEOREM VisualizerInvariant == VisSpec => []VisInv
BY VisInitOk, VisStep, PTL DEF VisSpec

\* Following shows what replaying shows (Bridge.FrameList, Plane.Graph): whatever
\* the order, the repetitions and the number of subscriptions that delivered the
\* journal, the last frame is the graph of the replay.
THEOREM LiveGraphIsReplayHolds == VisSpec => []LiveGraphIsReplay
<1>1. VisInv => LiveGraphIsReplay
  BY DeliveredIsReplayed
<1> QED BY <1>1, VisualizerInvariant, PTL

\* A timeline grows and ends in the present (replay.Build, retention.Trim,
\* browse.Timeline), whatever retention drops and in whatever order events came.
THEOREM TimelineFaithfulHolds == VisSpec => []TimelineFaithful
<1>1. VisInv => TimelineFaithful
  BY DEF VisInv, Followed, Faithful, TimelineFaithful
<1> QED BY <1>1, VisualizerInvariant, PTL
=============================================================================
