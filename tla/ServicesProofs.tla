--------------------------- MODULE ServicesProofs ---------------------------
(***************************************************************************)
(* Proofs about Forge, JobLearn and ControlPlane.                          *)
(*                                                                         *)
(* Forge, for any managers, rpc requests, children, titles and commits,    *)
(* any number of calls and any pattern of failures: the forge answers a    *)
(* known key from its table, so entries are never replaced (Grows);        *)
(* TableInv says which objects they stand for, JobOk how far a call has    *)
(* come and what that many steps have left behind.                         *)
(*                                                                         *)
(* JobLearn, for any policies, experiences, recommenders and proposals:    *)
(* GateInv ties an enabled capability to the evidence it was enabled on,   *)
(* StoreInv what runs stored and reported to the records memory holds.     *)
(*                                                                         *)
(* ControlPlane, for any handlers, definitions, specifications and         *)
(* projects, any interleaving of requests, failed writes and restarts:     *)
(* CpInv says what each handler has checked and written so far, and that a *)
(* package depends on earlier ones only.                                   *)
(***************************************************************************)
EXTENDS Forge, JobLearn, ControlPlane, SequenceTheorems, FiniteSetTheorems,
        WellFoundedInduction, TLAPS

PhaseKey == PullKey(Phase, Main, Tracking)

\* The names issues and branches are given, and NoName for calls that use none.
Name == Titles \cup Children \cup Commits \cup {Tracking, Phase, Main, NoName} \cup {p.name : p \in RpcPosts}

IssueRecord == [title : Name, state : {"open", "closed"}]
PullRecord == [head : Name, base : Name, title : Name, state : {"open", "merged"}, draft : BOOLEAN]

ForgeType ==
    /\ issue \in Seq(IssueRecord)
    /\ pull \in Seq(PullRecord)

\* What the entries of the table stand for.
TableInv ==
    /\ \A n \in DOMAIN issue : Known(IssueKey(issue[n].title)) /\ idem[IssueKey(issue[n].title)] = n
    /\ \A n \in PhasePulls : Known(PhaseKey) /\ idem[PhaseKey] = n
    /\ Known(PhaseKey) => idem[PhaseKey] \in PhasePulls
    /\ \A p \in RpcPosts : p.method \in {"checkpoint", "release"} /\ Known(RequestedKey(p)) => idem[RequestedKey(p)] = 1

ForgeOk == ForgeType /\ TableInv /\ MergedIsRecorded

\* Nothing is taken out of the table or out of memory.
Grows ==
    /\ \A k \in DOMAIN idem : k \in DOMAIN idem' /\ idem'[k] = idem[k]
    /\ sink \subseteq sink'

-----------------------------------------------------------------------------
(* The operations of the forge.                                            *)

\* The keys of different operations differ, and so do those of different names.
LEMMA KeysDiffer ==
  ASSUME NEW t, NEW u, NEW h, NEW b, NEW h2, NEW b2
  PROVE  /\ IssueKey(t) = IssueKey(u) => t = u
         /\ PullKey(h, b, t) = PullKey(h2, b2, u) => h = h2 /\ b = b2 /\ t = u
         /\ IssueKey(t) \notin {RepoKey, BranchKey(u), MilestoneKey, PullKey(h, b, u), CheckpointKey(u), ReleaseKey(u), AuditKey}
         /\ PullKey(h, b, t) \notin {RepoKey, BranchKey(u), MilestoneKey, CheckpointKey(u), ReleaseKey(u), AuditKey}
         /\ AuditKey \notin {CheckpointKey(u), ReleaseKey(u)}
BY DEF IssueKey, PullKey, RepoKey, BranchKey, MilestoneKey, CheckpointKey, ReleaseKey, AuditKey

\* An entry is added under a new key.
LEMMA WithEntry ==
  ASSUME NEW table, NEW key, NEW value, NEW next, next = With(table, key, value)
  PROVE  /\ key \in DOMAIN next /\ next[key] = value
         /\ \A k : k # key => (k \in DOMAIN next <=> k \in DOMAIN table)
         /\ \A k \in DOMAIN table : k \in DOMAIN next /\ (k # key => next[k] = table[k])
BY DEF With

LEMMA CheckpointStays ==
  ASSUME Grows, NEW c, Known(CheckpointKey(c)) /\ <<"checkpoint", c>> \in sink
  PROVE  (Known(CheckpointKey(c)) /\ <<"checkpoint", c>> \in sink)'
BY DEF Grows, Known, CheckpointKey

\* An operation that records an object which is never updated.
LEMMA RecordKeeps ==
  ASSUME ForgeOk, NEW c, NEW key \in {RepoKey, BranchKey(c), MilestoneKey, CheckpointKey(c), ReleaseKey(c)},
         RecordUnder(key)
  PROVE  Grows /\ ForgeOk' /\ Known(key)'
<1>1. UNCHANGED <<issue, pull, sink>> /\ idem' = IF Known(key) THEN idem ELSE With(idem, key, 1)
  BY DEF RecordUnder
<1>2. Grows /\ Known(key)' /\ \A k : k # key /\ Known(k)' => Known(k) /\ idem'[k] = idem[k]
  <2>1. CASE Known(key)
    BY <1>1, <2>1 DEF Grows, Known
  <2>2. CASE ~Known(key)
    BY <1>1, <2>2, WithEntry DEF Grows, Known
  <2>3. QED
    BY <2>1, <2>2
<1>3. idem'[key] = 1 \/ (Known(key) /\ idem'[key] = idem[key])
  <2>1. CASE Known(key)
    BY <1>1, <2>1
  <2>2. CASE ~Known(key)
    BY <1>1, <2>2, WithEntry
  <2>3. QED
    BY <2>1, <2>2
<1>4. ForgeType'
  BY <1>1 DEF ForgeOk, ForgeType
<1>5. \A n \in DOMAIN issue' : Known(IssueKey(issue[n].title))' /\ idem'[IssueKey(issue'[n].title)] = n
  BY <1>1, <1>2 DEF ForgeOk, TableInv, Grows, Known, IssueKey
<1>6. PhaseKey # key
  BY KeysDiffer DEF PhaseKey
<1>7. PhasePulls' = PhasePulls
  BY <1>1 DEF PhasePulls
<1>8. (\A n \in PhasePulls' : Known(PhaseKey)' /\ idem'[PhaseKey] = n) /\ (Known(PhaseKey)' => idem'[PhaseKey] \in PhasePulls')
  BY <1>2, <1>6, <1>7 DEF ForgeOk, TableInv, Grows, Known
<1>9. ASSUME NEW p \in RpcPosts, p.method \in {"checkpoint", "release"}, Known(RequestedKey(p))'
      PROVE  idem'[RequestedKey(p)] = 1
  <2>1. Known(RequestedKey(p)) => idem[RequestedKey(p)] = 1
    BY <1>9 DEF ForgeOk, TableInv
  <2>2. QED
    BY <1>2, <1>3, <1>9, <2>1
<1>10. TableInv'
  BY <1>5, <1>8, <1>9 DEF TableInv
<1>11. MergedIsRecorded'
  BY <1>1, <1>2, <1>7, CheckpointStays DEF ForgeOk, MergedIsRecorded
<1>12. QED
  BY <1>2, <1>4, <1>10, <1>11 DEF ForgeOk

\* A step that leaves the tables alone but for what is in memory.
LEMMA DeliverKeeps ==
  ASSUME ForgeOk, UNCHANGED <<idem, issue, pull>>, sink \subseteq sink'
  PROVE  Grows /\ ForgeOk'
<1>1. Grows
  BY DEF Grows
<1>2. ForgeType' /\ TableInv'
  BY DEF ForgeOk, ForgeType, TableInv, Known, PhasePulls
<1>3. MergedIsRecorded'
  BY <1>1, CheckpointStays DEF ForgeOk, MergedIsRecorded, PhasePulls
<1>4. QED
  BY <1>1, <1>2, <1>3 DEF ForgeOk

LEMMA IssueKeeps ==
  ASSUME ForgeOk, NEW t \in Name, NEW num, CreateIssue(t, num)
  PROVE  Grows /\ ForgeOk' /\ Known(IssueKey(t))' /\ idem'[IssueKey(t)] = num
<1>1. CASE Known(IssueKey(t))
  <2>1. num = idem[IssueKey(t)] /\ UNCHANGED <<idem, issue, pull, sink>>
    BY <1>1 DEF CreateIssue, forgeState
  <2>2. QED
    BY <1>1, <2>1, DeliverKeeps DEF Known, IssueKey
<1>2. CASE ~Known(IssueKey(t))
  <2>1. /\ num = Len(issue) + 1 /\ issue' = Append(issue, [title |-> t, state |-> "open"])
        /\ idem' = With(idem, IssueKey(t), num) /\ UNCHANGED <<pull, sink>>
    BY <1>2 DEF CreateIssue
  <2>2. /\ Known(IssueKey(t))' /\ idem'[IssueKey(t)] = num
        /\ Grows /\ \A k : k # IssueKey(t) /\ Known(k)' => Known(k) /\ idem'[k] = idem[k]
    BY <1>2, <2>1, WithEntry DEF Known, Grows, IssueKey
  <2>3. ForgeType'
    BY <2>1 DEF ForgeOk, ForgeType, IssueRecord
  <2>4. /\ DOMAIN issue' = 1 .. Len(issue) + 1 /\ DOMAIN issue = 1 .. Len(issue) /\ Len(issue) \in Nat
        /\ issue'[Len(issue) + 1].title = t /\ \A n \in 1 .. Len(issue) : issue'[n] = issue[n]
    BY <2>1 DEF ForgeOk, ForgeType
  <2>5. ASSUME NEW n \in DOMAIN issue' PROVE Known(IssueKey(issue[n].title))' /\ idem'[IssueKey(issue'[n].title)] = n
    <3>1. CASE n = Len(issue) + 1
      BY <2>1, <2>2, <2>4, <3>1 DEF Known, IssueKey
    <3>2. CASE n # Len(issue) + 1
      <4>1. n \in DOMAIN issue /\ issue'[n] = issue[n]
        BY <2>4, <3>2
      <4>2. Known(IssueKey(issue[n].title)) /\ idem[IssueKey(issue[n].title)] = n
        BY <4>1 DEF ForgeOk, TableInv
      <4>3. QED
        BY <2>2, <4>1, <4>2 DEF Grows, Known, IssueKey
    <3>3. QED
      BY <3>1, <3>2
  <2>6. PhaseKey # IssueKey(t) /\ PhasePulls' = PhasePulls
    BY <2>1, KeysDiffer DEF PhaseKey, PhasePulls
  <2>7. (\A n \in PhasePulls' : Known(PhaseKey)' /\ idem'[PhaseKey] = n) /\ (Known(PhaseKey)' => idem'[PhaseKey] \in PhasePulls')
    BY <2>2, <2>6 DEF ForgeOk, TableInv, Grows, Known
  <2>8. ASSUME NEW p \in RpcPosts, p.method \in {"checkpoint", "release"}, Known(RequestedKey(p))'
        PROVE  idem'[RequestedKey(p)] = 1
    <3>1. RequestedKey(p) # IssueKey(t)
      BY <2>8, KeysDiffer DEF RequestedKey
    <3>2. QED
      BY <2>2, <2>8, <3>1 DEF ForgeOk, TableInv
  <2>9. TableInv'
    BY <2>5, <2>7, <2>8 DEF TableInv
  <2>10. MergedIsRecorded'
    BY <2>1, <2>2, <2>6, CheckpointStays DEF ForgeOk, MergedIsRecorded
  <2>11. QED
    BY <2>2, <2>3, <2>9, <2>10 DEF ForgeOk
<1>3. QED
  BY <1>1, <1>2

\* Only the phase's own pull request, a draft, is opened from its branch.
LEMMA PullKeeps ==
  ASSUME ForgeOk, NEW head \in Name, NEW base \in Name, NEW t \in Name, NEW draft \in BOOLEAN, NEW num,
         head = Phase /\ t = Tracking => base = Main /\ draft,
         OpenPullRequest(head, base, t, draft, num)
  PROVE  Grows /\ ForgeOk' /\ Known(PullKey(head, base, t))' /\ idem'[PullKey(head, base, t)] = num
<1> DEFINE key == PullKey(head, base, t)
<1>1. head = Phase /\ t = Tracking => key = PhaseKey /\ draft
  BY DEF OpenPullRequest, ValidPull, PhaseKey
<1>2. key = PhaseKey => head = Phase /\ t = Tracking
  BY KeysDiffer DEF PhaseKey
<1>3. CASE Known(key)
  <2>1. num = idem[key] /\ UNCHANGED <<idem, issue, pull, sink>>
    BY <1>3 DEF OpenPullRequest, forgeState
  <2>2. QED
    BY <1>3, <2>1, DeliverKeeps DEF Known, PullKey
<1>4. CASE ~Known(key)
  <2>1. /\ num = Len(pull) + 1 /\ pull' = Append(pull, Pull(head, base, t, "open", draft))
        /\ idem' = With(idem, key, num) /\ UNCHANGED <<issue, sink>>
    BY <1>4 DEF OpenPullRequest
  <2>2. /\ Known(key)' /\ idem'[key] = num
        /\ Grows /\ \A k : k # key /\ Known(k)' => Known(k) /\ idem'[k] = idem[k]
    BY <1>4, <2>1, WithEntry DEF Known, Grows, PullKey
  <2>3. ForgeType'
    BY <2>1 DEF ForgeOk, ForgeType, PullRecord, Pull
  <2>4. /\ DOMAIN pull' = 1 .. Len(pull) + 1 /\ DOMAIN pull = 1 .. Len(pull) /\ Len(pull) \in Nat
        /\ pull'[Len(pull) + 1] = Pull(head, base, t, "open", draft) /\ \A n \in 1 .. Len(pull) : pull'[n] = pull[n]
    BY <2>1 DEF ForgeOk, ForgeType
  <2>5. \A n \in DOMAIN issue' : Known(IssueKey(issue[n].title))' /\ idem'[IssueKey(issue'[n].title)] = n
    BY <2>1, <2>2 DEF ForgeOk, TableInv, Grows, Known, IssueKey
  <2>6. num \in DOMAIN pull' /\ pull'[num].head = head /\ pull'[num].title = t /\ pull'[num].draft = draft /\ pull'[num].state = "open"
    BY <2>1, <2>4 DEF Pull
  <2>7. \A n \in DOMAIN pull' : n # num => n \in DOMAIN pull /\ pull'[n] = pull[n]
    BY <2>1, <2>4
  <2>8. \A n \in PhasePulls' : n # num => n \in PhasePulls
    BY <2>7 DEF PhasePulls
  <2>9. ASSUME NEW n \in PhasePulls' PROVE Known(PhaseKey)' /\ idem'[PhaseKey] = n
    <3>1. CASE n = num
      <4>1. head = Phase /\ t = Tracking
        BY <2>6, <2>9, <3>1 DEF PhasePulls
      <4>2. QED
        BY <1>1, <2>2, <3>1, <4>1
    <3>2. CASE n # num
      BY <2>2, <2>8, <3>2 DEF ForgeOk, TableInv, Grows, Known
    <3>3. QED
      BY <3>1, <3>2
  <2>10. ASSUME Known(PhaseKey)' PROVE idem'[PhaseKey] \in PhasePulls'
    <3>1. CASE key = PhaseKey
      BY <1>2, <2>2, <2>6, <3>1 DEF PhasePulls
    <3>2. CASE key # PhaseKey
      <4>1. Known(PhaseKey) /\ idem'[PhaseKey] = idem[PhaseKey]
        BY <2>2, <2>10, <3>2
      <4>2. idem[PhaseKey] \in PhasePulls
        BY <4>1 DEF ForgeOk, TableInv
      <4>3. QED
        BY <2>4, <4>1, <4>2 DEF PhasePulls
    <3>3. QED
      BY <3>1, <3>2
  <2>11. ASSUME NEW p \in RpcPosts, p.method \in {"checkpoint", "release"}, Known(RequestedKey(p))'
         PROVE  idem'[RequestedKey(p)] = 1
    <3>1. RequestedKey(p) # key
      BY <2>11, KeysDiffer DEF RequestedKey
    <3>2. QED
      BY <2>2, <2>11, <3>1 DEF ForgeOk, TableInv
  <2>12. TableInv'
    BY <2>5, <2>9, <2>10, <2>11 DEF TableInv
  <2>13. MergedIsRecorded'
    <3> SUFFICES ASSUME NEW n \in PhasePulls'
                 PROVE  /\ pull'[n].state = "merged" => ~pull'[n].draft
                        /\ (pull'[n].state = "merged" \/ ~pull'[n].draft) =>
                              \E c \in Commits : (Known(CheckpointKey(c)) /\ <<"checkpoint", c>> \in sink)'
      BY DEF MergedIsRecorded
    <3>1. CASE n = num
      BY <1>1, <2>6, <3>1 DEF PhasePulls
    <3>2. CASE n # num
      BY <2>2, <2>7, <2>8, <3>2, CheckpointStays DEF ForgeOk, MergedIsRecorded, PhasePulls
    <3>3. QED
      BY <3>1, <3>2
  <2>14. QED
    BY <2>2, <2>3, <2>12, <2>13 DEF ForgeOk
<1>5. QED
  BY <1>3, <1>4

LEMMA AuditKeeps ==
  ASSUME ForgeOk, NEW findings, RecordAudit(findings)
  PROVE  Grows /\ ForgeOk'
<1>1. CASE UNCHANGED forgeState
  BY <1>1, DeliverKeeps DEF forgeState
<1>2. CASE ~Known(AuditKey) /\ idem' = With(idem, AuditKey, 1) /\ UNCHANGED <<issue, pull, sink>>
  <2>1. Grows /\ \A k : k # AuditKey /\ Known(k)' => Known(k) /\ idem'[k] = idem[k]
    BY <1>2, WithEntry DEF Known, Grows
  <2>2. ForgeType' /\ PhasePulls' = PhasePulls /\ PhaseKey # AuditKey
    BY <1>2, KeysDiffer DEF ForgeOk, ForgeType, PhasePulls, PhaseKey
  <2>3. \A n \in DOMAIN issue' : Known(IssueKey(issue[n].title))' /\ idem'[IssueKey(issue'[n].title)] = n
    BY <1>2, <2>1 DEF ForgeOk, TableInv, Grows, Known, IssueKey
  <2>4. (\A n \in PhasePulls' : Known(PhaseKey)' /\ idem'[PhaseKey] = n) /\ (Known(PhaseKey)' => idem'[PhaseKey] \in PhasePulls')
    BY <2>1, <2>2 DEF ForgeOk, TableInv, Grows, Known
  <2>5. ASSUME NEW p \in RpcPosts, p.method \in {"checkpoint", "release"}, Known(RequestedKey(p))'
        PROVE  idem'[RequestedKey(p)] = 1
    <3>1. RequestedKey(p) # AuditKey
      BY <2>5, KeysDiffer DEF RequestedKey
    <3>2. QED
      BY <2>1, <2>5, <3>1 DEF ForgeOk, TableInv
  <2>6. TableInv'
    BY <2>3, <2>4, <2>5 DEF TableInv
  <2>7. MergedIsRecorded'
    BY <1>2, <2>1, <2>2, CheckpointStays DEF ForgeOk, MergedIsRecorded
  <2>8. QED
    BY <2>1, <2>2, <2>6, <2>7 DEF ForgeOk
<1>3. QED
  BY <1>1, <1>2 DEF RecordAudit

\* Closing an issue leaves its number and title.
LEMMA UpdateIssueKeeps ==
  ASSUME ForgeOk, NEW num, UpdateIssue(num)
  PROVE  Grows /\ ForgeOk'
<1>1. num \in DOMAIN issue /\ issue' = [issue EXCEPT ![num].state = "closed"] /\ UNCHANGED <<idem, pull, sink>>
  BY DEF UpdateIssue
<1>2. PICK e \in IssueRecord : e = [issue[num] EXCEPT !.state = "closed"]
  <2>1. issue[num] \in IssueRecord
    BY <1>1 DEF ForgeOk, ForgeType
  <2>2. PICK e : e = [issue[num] EXCEPT !.state = "closed"]
    OBVIOUS
  <2>3. e \in IssueRecord
    BY <2>1, <2>2 DEF IssueRecord
  <2>4. QED
    BY <2>2, <2>3
<1>3. issue' = [issue EXCEPT ![num] = e]
  BY <1>1, <1>2
<1>4. num \in 1 .. Len(issue) /\ issue \in Seq(IssueRecord) /\ DOMAIN issue = 1 .. Len(issue)
  BY <1>1 DEF ForgeOk, ForgeType
<1>5. issue' \in Seq(IssueRecord) /\ DOMAIN issue' = DOMAIN issue /\ \A n \in DOMAIN issue : issue'[n] = IF n = num THEN e ELSE issue[n]
  BY <1>3, <1>4, ExceptSeq
<1>6. e.title = issue[num].title
  BY <1>2, <1>4 DEF IssueRecord
<1>7. ForgeType' /\ Grows /\ PhasePulls' = PhasePulls
  BY <1>1, <1>5 DEF ForgeOk, ForgeType, Grows, PhasePulls
<1>8. TableInv'
  BY <1>1, <1>5, <1>6, <1>7 DEF ForgeOk, TableInv, Known
<1>9. MergedIsRecorded'
  BY <1>1, <1>7, CheckpointStays DEF ForgeOk, MergedIsRecorded
<1>10. QED
  BY <1>7, <1>8, <1>9 DEF ForgeOk

\* A pull request is made ready or merged once a checkpoint is recorded.
LEMMA UpdatePullKeeps ==
  ASSUME ForgeOk, NEW num, NEW p, NEW c \in Commits, UpdatePullRequest(num) \/ MergePullRequest(num, p),
         Known(CheckpointKey(c)), <<"checkpoint", c>> \in sink
  PROVE  Grows /\ ForgeOk'
<1>1. num \in DOMAIN pull /\ UNCHANGED <<idem, issue, sink>>
  BY DEF UpdatePullRequest, MergePullRequest, CanUpdate
<1>2. num \in 1 .. Len(pull) /\ pull \in Seq(PullRecord) /\ DOMAIN pull = 1 .. Len(pull) /\ pull[num] \in PullRecord
  BY <1>1 DEF ForgeOk, ForgeType
<1>3. PICK e \in PullRecord : e.head = pull[num].head /\ e.title = pull[num].title /\ ~e.draft /\ pull' = [pull EXCEPT ![num] = e]
  <2>1. CASE UpdatePullRequest(num)
    <3>1. PICK e : e = [pull[num] EXCEPT !.draft = FALSE]
      OBVIOUS
    <3>2. pull' = [pull EXCEPT ![num] = e]
      BY <2>1, <3>1 DEF UpdatePullRequest
    <3>3. e \in PullRecord /\ e.head = pull[num].head /\ e.title = pull[num].title /\ ~e.draft
      BY <1>2, <3>1 DEF PullRecord
    <3>4. QED
      BY <3>2, <3>3
  <2>2. CASE MergePullRequest(num, p)
    BY <1>2, <2>2 DEF MergePullRequest, Pull, PullRecord
  <2>3. QED
    BY <2>1, <2>2
<1>4. pull' \in Seq(PullRecord) /\ DOMAIN pull' = DOMAIN pull /\ \A n \in DOMAIN pull : pull'[n] = IF n = num THEN e ELSE pull[n]
  BY <1>2, <1>3, ExceptSeq
<1>5. ForgeType' /\ Grows /\ PhasePulls' = PhasePulls
  BY <1>1, <1>3, <1>4 DEF ForgeOk, ForgeType, Grows, PhasePulls
<1>6. TableInv'
  BY <1>1, <1>5 DEF ForgeOk, TableInv, Known
<1>7. (Known(CheckpointKey(c)) /\ <<"checkpoint", c>> \in sink)'
  BY <1>5, CheckpointStays
<1>8. MergedIsRecorded'
  BY <1>3, <1>4, <1>5, <1>7 DEF ForgeOk, MergedIsRecorded, PhasePulls
<1>9. QED
  BY <1>5, <1>6, <1>8 DEF ForgeOk

-----------------------------------------------------------------------------
(* The manager.                                                            *)

Step == {"repository", "branch", "milestone", "issue", "syncIssue", "pull", "checkpoint", "syncCheckpoint", "ready", "merge"}

\* What is left of a list of steps.
Suffix(s, steps) ==
    /\ s \in Seq(Step) /\ Len(s) \in 1 .. Len(steps)
    /\ \A i \in 1 .. Len(s) : s[i] = steps[Len(steps) - Len(s) + i]

\* What StartPhase has left behind when so many of its steps are left; num is the
\* number of the tracking issue it was given.
StartDone(left, num) ==
    /\ left <= 4 => Known(BranchKey(Phase))
    /\ left <= 3 => Known(MilestoneKey)
    /\ left <= 2 => Known(IssueKey(Tracking)) /\ idem[IssueKey(Tracking)] = num
    /\ left <= 1 => <<"issue", num>> \in sink
    /\ left <= 0 => Known(PhaseKey)

CompleteDone(left, c) ==
    /\ left <= 3 => Known(CheckpointKey(c))
    /\ left <= 2 => <<"checkpoint", c>> \in sink

IsJob(j) == DOMAIN j = DOMAIN NoJob

IsStart(j) == j.call = "start" /\ Suffix(j.todo, StartSteps) /\ j.branch = Phase /\ j.base = Main /\ j.title = Tracking
IsComplete(j) == j.call = "complete" /\ Suffix(j.todo, CompleteSteps) /\ j.commit \in Commits

OtherStep == {"branch", "issue", "syncIssue", "pull", "checkpoint", "syncCheckpoint", "audit", "release"}
IsOther(j) ==
    /\ j.call # "start" /\ j.todo \in Seq(OtherStep)
    /\ j.branch \in Name /\ j.base \in Name /\ j.title \in Name
    /\ ~(j.branch = Phase /\ j.title = Tracking)

JobOk(j) ==
    /\ IsJob(j)
    /\ j.todo # <<>> => \/ IsStart(j) /\ StartDone(Len(j.todo), j.issue)
                        \/ IsComplete(j) /\ CompleteDone(Len(j.todo), j.commit)
                        \/ IsOther(j)

ManagerInv ==
    /\ DOMAIN running = Managers /\ DOMAIN told = Managers
    /\ \A m \in Managers : JobOk(running[m])
    /\ \A m \in Managers : Started(m) => StartDone(0, idem[IssueKey(Tracking)])

LEMMA DoneStays ==
  ASSUME Grows, NEW left, NEW num
  PROVE  (StartDone(left, num) => StartDone(left, num)') /\ (CompleteDone(left, num) => CompleteDone(left, num)')
BY DEF Grows, StartDone, CompleteDone, Known, BranchKey, MilestoneKey, IssueKey, PhaseKey, PullKey, CheckpointKey

LEMMA JobStays ==
  ASSUME Grows, NEW j, JobOk(j)
  PROVE  JobOk(j)'
BY DoneStays DEF JobOk, IsJob, IsStart, IsComplete, IsOther

LEMMA StartedStays ==
  ASSUME ManagerInv, Grows, NEW m \in Managers, Started(m)
  PROVE  StartDone(0, idem[IssueKey(Tracking)])'
<1>1. StartDone(0, idem[IssueKey(Tracking)])
  BY DEF ManagerInv
<1>2. PICK num : num = idem[IssueKey(Tracking)]
  OBVIOUS
<1>3. StartDone(0, num)' /\ idem'[IssueKey(Tracking)] = num
  BY <1>1, <1>2, DoneStays DEF StartDone, Grows, Known, IssueKey
<1>4. QED
  BY <1>3 DEF StartDone, IssueKey

LEMMA ManagerStays ==
  ASSUME ManagerInv, Grows, UNCHANGED <<running, told>>
  PROVE  ManagerInv'
<1>1. ASSUME NEW m \in Managers PROVE JobOk(running[m])'
  <2>1. PICK j : j = running[m] /\ j = running'[m] /\ JobOk(j)
    BY DEF ManagerInv
  <2>2. QED
    BY <2>1, JobStays DEF JobOk, IsJob, IsStart, IsComplete, IsOther, StartDone, CompleteDone, Known
<1>2. \A m \in Managers : Started(m)' => Started(m)
  BY DEF Started
<1>3. QED
  BY <1>1, <1>2, StartedStays DEF ManagerInv

\* Where a list of steps stands.
LEMMA StartPlace ==
  ASSUME NEW s, Suffix(s, StartSteps)
  PROVE  /\ Len(s) \in 1 .. 6 /\ s # <<>>
         /\ Head(s) = "repository" <=> Len(s) = 6
         /\ Head(s) = "branch" <=> Len(s) = 5
         /\ Head(s) = "milestone" <=> Len(s) = 4
         /\ Head(s) = "issue" <=> Len(s) = 3
         /\ Head(s) = "syncIssue" <=> Len(s) = 2
         /\ Head(s) = "pull" <=> Len(s) = 1
<1>1. Len(StartSteps) = 6
  BY DEF StartSteps
<1>2. Len(s) \in 1 .. 6 /\ s \in Seq(Step)
  BY <1>1 DEF Suffix
<1>3. PICK k \in 1 .. 6 : k = Len(s)
  BY <1>2
<1>4. s # <<>>
  BY <1>2, EmptySeq, SMTT(40)
<1>5. Head(s) = s[1]
  BY <1>2, <1>4
<1>6. s[1] = StartSteps[6 - k + 1]
  BY <1>1, <1>3 DEF Suffix
<1>7. /\ StartSteps[1] = "repository" /\ StartSteps[2] = "branch" /\ StartSteps[3] = "milestone"
      /\ StartSteps[4] = "issue" /\ StartSteps[5] = "syncIssue" /\ StartSteps[6] = "pull"
  BY DEF StartSteps
<1>8. PICK h : h = Head(s) /\ h = StartSteps[6 - k + 1]
  BY <1>5, <1>6
<1>9. /\ (k = 6 => h = "repository") /\ (k = 5 => h = "branch") /\ (k = 4 => h = "milestone")
      /\ (k = 3 => h = "issue") /\ (k = 2 => h = "syncIssue") /\ (k = 1 => h = "pull")
  BY <1>7, <1>8
<1>10. k \in {1, 2, 3, 4, 5, 6}
  OBVIOUS
<1>11. /\ h = "repository" <=> k = 6
       /\ h = "branch" <=> k = 5
       /\ h = "milestone" <=> k = 4
       /\ h = "issue" <=> k = 3
       /\ h = "syncIssue" <=> k = 2
       /\ h = "pull" <=> k = 1
  BY <1>9, <1>10
<1>12. QED
  BY <1>2, <1>3, <1>4, <1>8, <1>11

LEMMA CompletePlace ==
  ASSUME NEW s, Suffix(s, CompleteSteps)
  PROVE  /\ Len(s) \in 1 .. 4 /\ s # <<>>
         /\ Head(s) = "checkpoint" <=> Len(s) = 4
         /\ Head(s) = "syncCheckpoint" <=> Len(s) = 3
         /\ Head(s) = "ready" <=> Len(s) = 2
         /\ Head(s) = "merge" <=> Len(s) = 1
<1>1. Len(CompleteSteps) = 4
  BY DEF CompleteSteps
<1>2. Len(s) \in 1 .. 4 /\ s \in Seq(Step)
  BY <1>1 DEF Suffix
<1>3. PICK k \in 1 .. 4 : k = Len(s)
  BY <1>2
<1>4. s # <<>>
  BY <1>2, EmptySeq
<1>5. Head(s) = s[1]
  BY <1>2, <1>4
<1>6. s[1] = CompleteSteps[4 - k + 1]
  BY <1>1, <1>3 DEF Suffix
<1>7. /\ CompleteSteps[1] = "checkpoint" /\ CompleteSteps[2] = "syncCheckpoint"
      /\ CompleteSteps[3] = "ready" /\ CompleteSteps[4] = "merge"
  BY DEF CompleteSteps
<1>8. PICK h : h = Head(s) /\ h = CompleteSteps[4 - k + 1]
  BY <1>5, <1>6
<1>9. (k = 4 => h = "checkpoint") /\ (k = 3 => h = "syncCheckpoint") /\ (k = 2 => h = "ready") /\ (k = 1 => h = "merge")
  BY <1>7, <1>8
<1>10. k \in {1, 2, 3, 4}
  OBVIOUS
<1>11. /\ h = "checkpoint" <=> k = 4
       /\ h = "syncCheckpoint" <=> k = 3
       /\ h = "ready" <=> k = 2
       /\ h = "merge" <=> k = 1
  BY <1>9, <1>10
<1>12. QED
  BY <1>2, <1>3, <1>4, <1>8, <1>11

LEMMA TailIsSuffix ==
  ASSUME NEW steps, Len(steps) \in Nat, NEW s, Suffix(s, steps)
  PROVE  /\ Tail(s) = <<>> <=> Len(s) = 1
         /\ Tail(s) # <<>> => Suffix(Tail(s), steps) /\ Len(Tail(s)) = Len(s) - 1
<1>1. s \in Seq(Step) /\ s # <<>> /\ Len(s) \in 1 .. Len(steps)
  BY DEF Suffix
<1>2. /\ Tail(s) \in Seq(Step) /\ Len(Tail(s)) = Len(s) - 1
      /\ \A i \in 1 .. Len(Tail(s)) : Tail(s)[i] = s[i + 1]
  BY <1>1, HeadTailProperties
<1>3. Tail(s) = <<>> <=> Len(Tail(s)) = 0
  BY <1>2, EmptySeq
<1>4. PICK k \in 1 .. Len(steps) : k = Len(s)
  BY <1>1
<1>5. ASSUME k # 1 PROVE Suffix(Tail(s), steps)
  <2>1. Len(Tail(s)) = k - 1 /\ k - 1 \in 1 .. Len(steps)
    BY <1>2, <1>4, <1>5
  <2>2. \A i \in 1 .. k : s[i] = steps[Len(steps) - k + i]
    BY <1>4 DEF Suffix
  <2>3. ASSUME NEW i \in 1 .. k - 1 PROVE Tail(s)[i] = steps[Len(steps) - (k - 1) + i]
    <3>1. i + 1 \in 1 .. k /\ Len(steps) - k + (i + 1) = Len(steps) - (k - 1) + i
      BY <1>4
    <3>2. Tail(s)[i] = s[i + 1] /\ s[i + 1] = steps[Len(steps) - k + (i + 1)]
      BY <1>2, <2>1, <2>2, <3>1
    <3>3. QED
      BY <3>1, <3>2
  <2>4. QED
    BY <1>2, <2>1, <2>3 DEF Suffix
<1>6. QED
  BY <1>2, <1>3, <1>4, <1>5

\* What a step of a call leaves behind; the issue step notes the number it was given.
Leaves(step, j) ==
    /\ step = "branch" => BranchKey(j.branch) \in DOMAIN idem'
    /\ step = "milestone" => MilestoneKey \in DOMAIN idem'
    /\ step = "issue" => IssueKey(j.title) \in DOMAIN idem' /\ idem'[IssueKey(j.title)] = j.issue
    /\ step = "syncIssue" => <<"issue", j.issue>> \in sink'
    /\ step = "pull" => PullKey(j.branch, j.base, j.title) \in DOMAIN idem'
    /\ step = "checkpoint" => CheckpointKey(j.commit) \in DOMAIN idem'
    /\ step = "syncCheckpoint" => <<"checkpoint", j.commit>> \in sink'

JobAfter(m, step, j) == j = running[m] \/ (step = "issue" /\ \E num : j = [running[m] EXCEPT !.issue = num])

\* A call takes a step that has left behind what it should.
LEMMA StepTaken ==
  ASSUME ManagerInv, Grows, NEW m \in Managers, NEW step, NEW j, At(m, step), Advance(m, j), JobAfter(m, step, j), Leaves(step, j)
  PROVE  ManagerInv'
<1>1. PICK old : old = running[m]
  OBVIOUS
<1> DEFINE left == [j EXCEPT !.todo = Tail(@)]
<1>2. JobOk(old) /\ old.todo # <<>> /\ Head(old.todo) = step
  BY <1>1 DEF ManagerInv, At
<1>3. /\ IsJob(j) /\ j.call = old.call /\ j.todo = old.todo /\ j.branch = old.branch /\ j.base = old.base
      /\ j.title = old.title /\ j.commit = old.commit /\ (step # "issue" => j.issue = old.issue)
  BY <1>1, <1>2 DEF JobAfter, JobOk, IsJob, NoJob
<1>4. /\ IsJob(left) /\ left.call = j.call /\ left.todo = Tail(j.todo) /\ left.branch = j.branch /\ left.base = j.base
      /\ left.title = j.title /\ left.commit = j.commit /\ left.issue = j.issue
  BY <1>3 DEF IsJob, NoJob
<1>5. /\ running' = [running EXCEPT ![m] = IF left.todo = <<>> THEN NoJob ELSE left]
      /\ told' = IF left.todo = <<>> THEN [told EXCEPT ![m] = @ \cup {[call |-> j.call, commit |-> j.commit]}] ELSE told
  BY DEF Advance
<1> HIDE DEF left
<1>6. (left.todo # <<>> => JobOk(left)') /\ (left.todo = <<>> /\ j.call = "start" => StartDone(0, j.issue)')
  <2>1. CASE IsStart(old) /\ StartDone(Len(old.todo), old.issue)
    <3>1. Len(StartSteps) = 6
      BY DEF StartSteps
    <3>2. PICK n \in 1 .. 6 : n = Len(j.todo)
      BY <1>3, <2>1, StartPlace DEF IsStart
    <3>3. Suffix(j.todo, StartSteps) /\ j.branch = Phase /\ j.base = Main /\ j.title = Tracking /\ j.call = "start"
      BY <1>3, <2>1 DEF IsStart
    <3>4. /\ (step = "branch" <=> n = 5) /\ (step = "milestone" <=> n = 4) /\ (step = "issue" <=> n = 3)
          /\ (step = "syncIssue" <=> n = 2) /\ (step = "pull" <=> n = 1)
      BY <1>2, <1>3, <3>2, <3>3, StartPlace
    <3>5. StartDone(n, old.issue)'
      BY <1>3, <2>1, <3>2, DoneStays
    <3>6. StartDone(n - 1, j.issue)'
      <4>0. /\ n <= 4 => BranchKey(Phase) \in DOMAIN idem'
            /\ n <= 3 => MilestoneKey \in DOMAIN idem'
            /\ n <= 2 => IssueKey(Tracking) \in DOMAIN idem' /\ idem'[IssueKey(Tracking)] = old.issue
            /\ n <= 1 => <<"issue", old.issue>> \in sink'
        BY <3>5 DEF StartDone, Known, BranchKey, MilestoneKey, IssueKey
      <4>1. n <= 5 => BranchKey(Phase) \in DOMAIN idem'
        <5>1. n = 5 => BranchKey(Phase) \in DOMAIN idem'
          BY <3>3, <3>4 DEF Leaves
        <5>2. QED
          BY <4>0, <5>1
      <4>2. n <= 4 => MilestoneKey \in DOMAIN idem'
        <5>1. n = 4 => MilestoneKey \in DOMAIN idem'
          BY <3>4 DEF Leaves
        <5>2. QED
          BY <4>0, <5>1
      <4>3. n <= 3 => IssueKey(Tracking) \in DOMAIN idem' /\ idem'[IssueKey(Tracking)] = j.issue
        <5>1. n = 3 => IssueKey(Tracking) \in DOMAIN idem' /\ idem'[IssueKey(Tracking)] = j.issue
          BY <3>3, <3>4 DEF Leaves
        <5>2. n # 3 => j.issue = old.issue
          BY <1>3, <3>4
        <5>3. QED
          BY <4>0, <5>1, <5>2
      <4>4. n <= 2 => <<"issue", j.issue>> \in sink'
        <5>1. n = 2 => <<"issue", j.issue>> \in sink'
          BY <3>4 DEF Leaves
        <5>2. n # 3 => j.issue = old.issue
          BY <1>3, <3>4
        <5>3. QED
          BY <4>0, <5>1, <5>2
      <4>5. n = 1 => PhaseKey \in DOMAIN idem'
        BY <3>3, <3>4 DEF Leaves, PhaseKey
      <4>6. QED
        BY <4>1, <4>2, <4>3, <4>4, <4>5 DEF StartDone, Known, BranchKey, MilestoneKey, IssueKey, PhaseKey, PullKey
    <3>7. (left.todo = <<>> <=> n = 1) /\ (left.todo # <<>> => Suffix(left.todo, StartSteps) /\ Len(left.todo) = n - 1)
      <4>1. /\ Tail(j.todo) = <<>> <=> Len(j.todo) = 1
            /\ Tail(j.todo) # <<>> => Suffix(Tail(j.todo), StartSteps) /\ Len(Tail(j.todo)) = Len(j.todo) - 1
        BY <3>1, <3>3, TailIsSuffix
      <4>2. QED
        BY <1>4, <3>2, <4>1
    <3>8. left.todo = <<>> => StartDone(0, j.issue)'
      BY <3>6, <3>7
    <3>9. left.todo # <<>> => IsStart(left) /\ StartDone(Len(left.todo), left.issue)'
      BY <1>4, <3>3, <3>6, <3>7 DEF IsStart
    <3>10. QED
      BY <1>4, <3>8, <3>9 DEF JobOk, IsJob, IsStart
  <2>2. CASE IsComplete(old) /\ CompleteDone(Len(old.todo), old.commit)
    <3>1. Len(CompleteSteps) = 4
      BY DEF CompleteSteps
    <3>2. PICK n \in 1 .. 4 : n = Len(j.todo)
      BY <1>3, <2>2, CompletePlace DEF IsComplete
    <3>3. Suffix(j.todo, CompleteSteps) /\ j.call = "complete" /\ j.commit \in Commits
      BY <1>3, <2>2 DEF IsComplete
    <3>4. (step = "checkpoint" <=> n = 4) /\ (step = "syncCheckpoint" <=> n = 3)
      BY <1>2, <1>3, <3>2, <3>3, CompletePlace
    <3>5. CompleteDone(n, j.commit)'
      BY <1>3, <2>2, <3>2, DoneStays
    <3>6. CompleteDone(n - 1, j.commit)'
      BY <3>4, <3>5 DEF Leaves, CompleteDone, Known, CheckpointKey
    <3>7. left.todo # <<>> => Suffix(left.todo, CompleteSteps) /\ Len(left.todo) = n - 1
      BY <1>4, <3>1, <3>2, <3>3, TailIsSuffix
    <3>8. left.todo # <<>> => IsComplete(left) /\ CompleteDone(Len(left.todo), left.commit)'
      BY <1>4, <3>3, <3>6, <3>7 DEF IsComplete
    <3>9. QED
      BY <1>4, <3>3, <3>8 DEF JobOk, IsJob, IsComplete
  <2>3. CASE IsOther(old)
    <3>1. left.todo \in Seq(OtherStep)
      BY <1>2, <1>3, <1>4, <2>3, HeadTailProperties DEF IsOther
    <3>2. IsOther(left) /\ j.call # "start"
      BY <1>3, <1>4, <2>3, <3>1 DEF IsOther
    <3>3. QED
      BY <1>4, <3>2 DEF JobOk, IsJob, IsOther
  <2>4. QED
    BY <1>2, <2>1, <2>2, <2>3 DEF JobOk
<1>7. JobOk(NoJob)'
  BY DEF JobOk, IsJob, NoJob
<1>8. DOMAIN running' = Managers /\ DOMAIN told' = Managers
  BY <1>5 DEF ManagerInv
<1>9. ASSUME NEW a \in Managers PROVE JobOk(running[a])'
  <2>1. CASE a # m
    <3>1. PICK o : o = running[a] /\ o = running'[a] /\ JobOk(o)
      BY <1>5, <2>1 DEF ManagerInv
    <3>2. QED
      BY <3>1, JobStays DEF JobOk, IsJob, IsStart, IsComplete, IsOther, StartDone, CompleteDone, Known
  <2>2. CASE a = m
    <3>1. PICK o : o = running'[a] /\ JobOk(o)'
      BY <1>5, <1>6, <1>7, <2>2 DEF ManagerInv
    <3>2. QED
      BY <3>1 DEF JobOk, IsJob, IsStart, IsComplete, IsOther, StartDone, CompleteDone, Known
  <2>3. QED
    BY <2>1, <2>2
<1>10. ASSUME NEW a \in Managers, Started(a)' PROVE StartDone(0, idem[IssueKey(Tracking)])'
  <2>1. CASE Started(a)
    BY <2>1, StartedStays
  <2>2. CASE ~Started(a)
    <3>1. left.todo = <<>> /\ j.call = "start"
      BY <1>5, <1>10, <2>2 DEF Started, ManagerInv
    <3>2. StartDone(0, j.issue)'
      BY <1>6, <3>1
    <3>3. idem'[IssueKey(Tracking)] = j.issue
      BY <3>2 DEF StartDone, IssueKey
    <3>4. QED
      BY <3>2, <3>3 DEF StartDone, IssueKey
  <2>3. QED
    BY <2>1, <2>2
<1>11. QED
  BY <1>8, <1>9, <1>10 DEF ManagerInv

\* The objects of a call at a step: a pull request from the branch of the phase
\* under the phase's title is a draft against main, and one is made ready or
\* merged only by a call that has recorded its checkpoint.
LEMMA WhichJob ==
  ASSUME ManagerInv, NEW m \in Managers, NEW step, At(m, step), NEW j, j = running[m]
  PROVE  /\ step \in {"issue", "pull"} => j.title \in Name
         /\ step = "pull" => /\ j.branch \in Name /\ j.base \in Name
                             /\ j.branch = Phase /\ j.title = Tracking => j.base = Main /\ j.call = "start"
         /\ step \in {"ready", "merge"} => j.commit \in Commits /\ Known(CheckpointKey(j.commit)) /\ <<"checkpoint", j.commit>> \in sink
<1>1. JobOk(j) /\ j.todo # <<>> /\ Head(j.todo) = step
  BY DEF ManagerInv, At
<1>2. CASE IsStart(j)
  <2>1. step \in {"repository", "branch", "milestone", "issue", "syncIssue", "pull"}
    <3>1. Suffix(j.todo, StartSteps)
      BY <1>2 DEF IsStart
    <3>2. QED
      BY <1>1, <3>1, StartPlace
  <2>2. QED
    BY <1>2, <2>1 DEF IsStart, Name, Phase, Main, Tracking
<1>3. CASE IsComplete(j) /\ CompleteDone(Len(j.todo), j.commit)
  <2>1. PICK n \in 1 .. 4 : n = Len(j.todo) /\ (step = "checkpoint" <=> n = 4) /\ (step = "syncCheckpoint" <=> n = 3)
                            /\ (step = "ready" <=> n = 2) /\ (step = "merge" <=> n = 1)
    BY <1>1, <1>3, CompletePlace DEF IsComplete
  <2>2. step \notin {"issue", "pull"}
    <3>1. n \in {1, 2, 3, 4}
      OBVIOUS
    <3>2. QED
      BY <2>1, <3>1
  <2>3. step \in {"ready", "merge"} => n <= 2
    BY <2>1
  <2>4. QED
    BY <1>3, <2>1, <2>2, <2>3 DEF IsComplete, CompleteDone
<1>4. CASE IsOther(j)
  <2>1. step \in OtherStep
    BY <1>1, <1>4, HeadTailProperties DEF IsOther
  <2>2. QED
    BY <1>4, <2>1 DEF IsOther, OtherStep
<1>5. QED
  BY <1>1, <1>2, <1>3, <1>4 DEF JobOk

\* A new call has all its steps before it.
LEMMA NewCall ==
  ASSUME NEW m, NEW j \in ManagerCalls(m)
  PROVE  JobOk(j)
<1>1. CASE j = StartPhase
  <2>1. DOMAIN j = DOMAIN NoJob /\ j.call = "start" /\ j.todo = StartSteps /\ j.branch = Phase /\ j.base = Main /\ j.title = Tracking
    BY <1>1 DEF StartPhase, NoJob
  <2>2. Len(StartSteps) = 6 /\ StartSteps \in Seq(Step) /\ StartSteps # <<>>
    <3>1. Len(StartSteps) = 6
      BY DEF StartSteps
    <3>2. StartSteps \in Seq(Step)
      BY DEF StartSteps, Step
    <3>3. StartSteps # <<>>
      BY DEF StartSteps
    <3>4. QED
      BY <3>1, <3>2, <3>3
  <2>3. Suffix(StartSteps, StartSteps)
    <3>1. \A i \in 1 .. 6 : 6 - 6 + i = i
      OBVIOUS
    <3>2. QED
      BY <2>2, <3>1 DEF Suffix
  <2>4. StartDone(6, j.issue)
    BY DEF StartDone
  <2>5. QED
    BY <2>1, <2>2, <2>3, <2>4 DEF JobOk, IsJob, IsStart
<1>2. CASE \E c \in Commits, a \in BOOLEAN : j = CompletePhase(c, a, idem[PullKey(Phase, Main, Tracking)])
  <2>1. DOMAIN j = DOMAIN NoJob /\ j.call = "complete" /\ j.todo = CompleteSteps /\ j.commit \in Commits
    BY <1>2 DEF CompletePhase, NoJob
  <2>2. Len(CompleteSteps) = 4 /\ CompleteSteps \in Seq(Step) /\ CompleteSteps # <<>>
    <3>1. Len(CompleteSteps) = 4
      BY DEF CompleteSteps
    <3>2. CompleteSteps \in Seq(Step)
      BY DEF CompleteSteps, Step
    <3>3. CompleteSteps # <<>>
      BY DEF CompleteSteps
    <3>4. QED
      BY <3>1, <3>2, <3>3
  <2>3. Suffix(CompleteSteps, CompleteSteps)
    <3>1. \A i \in 1 .. 4 : 4 - 4 + i = i
      OBVIOUS
    <3>2. QED
      BY <2>2, <3>1 DEF Suffix
  <2>4. CompleteDone(4, j.commit)
    BY DEF CompleteDone
  <2>5. QED
    BY <2>1, <2>2, <2>3, <2>4 DEF JobOk, IsJob, IsComplete
<1>3. CASE \E t \in Titles : j = CreateChildIssue(t)
  BY <1>3 DEF CreateChildIssue, JobOk, IsJob, NoJob, IsOther, OtherStep, Name, NoName, Phase
<1>4. CASE \E b \in Children \cup {Phase} : j = OpenChildPR(b)
  BY <1>4 DEF OpenChildPR, JobOk, IsJob, NoJob, IsOther, OtherStep, Name, NoName, Phase, Tracking
<1>5. CASE \E c \in Commits : j = Checkpoint(c)
  BY <1>5 DEF Checkpoint, JobOk, IsJob, NoJob, IsOther, OtherStep, Name, NoName, Phase
<1>6. CASE \E c \in Commits : j = Release(c)
  BY <1>6 DEF Release, JobOk, IsJob, NoJob, IsOther, OtherStep, Name, NoName, Phase
<1>7. CASE \E findings : j = Audit(findings)
  BY <1>7 DEF Audit, JobOk, IsJob, NoJob, IsOther, OtherStep, Name, NoName, Phase
<1>8. \/ j = StartPhase
      \/ j \in {CreateChildIssue(t) : t \in Titles} \cup {OpenChildPR(b) : b \in Children \cup {Phase}}
      \/ j \in {Checkpoint(c) : c \in Commits} \cup {Release(c) : c \in Commits}
      \/ j \in {Audit(f) : f \in {{"P1", "P3"}, {"P2"}, {}}}
      \/ j \in {CompletePhase(c, a, idem[PullKey(Phase, Main, Tracking)]) : c \in Commits, a \in BOOLEAN}
  BY DEF ManagerCalls
<1>9. QED
  BY <1>1, <1>2, <1>3, <1>4, <1>5, <1>6, <1>7, <1>8

\* A manager takes up a call, or its call ends.
LEMMA JobSet ==
  ASSUME ManagerInv, Grows, NEW m \in Managers, NEW j, JobOk(j), told' = told,
         running' = [running EXCEPT ![m] = j]
  PROVE  ManagerInv'
<1>1. ASSUME NEW a \in Managers PROVE JobOk(running[a])'
  <2>1. PICK o : o = running'[a] /\ JobOk(o)
    BY DEF ManagerInv
  <2>2. JobOk(o)'
    BY <2>1, JobStays
  <2>3. QED
    BY <2>1, <2>2 DEF JobOk, IsJob, IsStart, IsComplete, IsOther, StartDone, CompleteDone, Known
<1>2. \A a \in Managers : Started(a)' => Started(a)
  BY DEF Started
<1>3. QED
  BY <1>1, <1>2, StartedStays DEF ManagerInv

-----------------------------------------------------------------------------
(* The rpc service.                                                        *)

Methods == {"createIssue", "openPullRequest", "checkpoint", "release"}

\* The answer names the object the forge keeps for what was asked.
AnswerOf(p, answer) == RequestedKey(p) \in DOMAIN idem /\ answer = <<RequestedKey(p), idem[RequestedKey(p)]>>

RequestOk(q) ==
    /\ q.at = "dispatch" => q.post \in RpcPosts /\ q.post.method \in Methods
    /\ q.at \in {"store", "answered"} => /\ DOMAIN q = {"at", "post", "answer"}
                                         /\ q.post \in RpcPosts /\ AnswerOf(q.post, q.answer)
    /\ q.at = "store" => q.post.key # NoKey

RpcInv ==
    /\ DOMAIN req = Requests
    /\ \A r \in Requests : RequestOk(req[r])
    /\ \A p \in RpcPosts : Cached(p) => AnswerOf(p, rpcCache[CacheKey(p)])

\* The inductive invariant: the tables and what they stand for, how far the calls
\* of the managers have come, and the answers given and cached.
ForgeInv == ForgeOk /\ ManagerInv /\ RpcInv

LEMMA AnswerStays ==
  ASSUME Grows, NEW p, NEW answer, AnswerOf(p, answer)
  PROVE  AnswerOf(p, answer)'
<1>1. PICK key : key = RequestedKey(p)
  OBVIOUS
<1>2. key \in DOMAIN idem' /\ answer = <<key, idem'[key]>>
  BY <1>1 DEF Grows, AnswerOf
<1>3. QED
  BY <1>1, <1>2 DEF AnswerOf, RequestedKey, IssueKey, PullKey, CheckpointKey, ReleaseKey, Main

LEMMA RequestStays ==
  ASSUME Grows, NEW q, RequestOk(q)
  PROVE  RequestOk(q)'
<1>1. q.at \in {"store", "answered"} => AnswerOf(q.post, q.answer)'
  <2>1. PICK p, a : p = q.post /\ a = q.answer
    OBVIOUS
  <2>2. AnswerOf(p, a) => AnswerOf(p, a)'
    BY AnswerStays
  <2>3. QED
    BY <2>1, <2>2 DEF RequestOk, AnswerOf, RequestedKey, IssueKey, PullKey, CheckpointKey, ReleaseKey, Main
<1>2. QED
  BY <1>1 DEF RequestOk, NoKey, Methods

\* A request moves on, or none; the cache is left alone.
LEMMA RequestSet ==
  ASSUME RpcInv, Grows, rpcCache' = rpcCache, NEW r \in Requests, NEW q,
         req' = req \/ (req' = [req EXCEPT ![r] = q] /\ RequestOk(q)')
  PROVE  RpcInv'
<1>1. DOMAIN req' = Requests
  BY DEF RpcInv
<1>2. ASSUME NEW s \in Requests PROVE RequestOk(req[s])'
  <2>1. PICK o : o = req'[s] /\ RequestOk(o)'
    <3>1. RequestOk(req[s])
      BY DEF RpcInv
    <3>2. PICK o : o = req[s] /\ RequestOk(o)
      BY <3>1
    <3>3. RequestOk(o)'
      BY <3>2, RequestStays
    <3>4. req'[s] = o \/ (req'[s] = q /\ RequestOk(q)')
      BY <3>2 DEF RpcInv
    <3>5. QED
      BY <3>3, <3>4
  <2>2. QED
    BY <2>1 DEF RequestOk, AnswerOf, RequestedKey, IssueKey, PullKey, CheckpointKey, ReleaseKey, Main, NoKey, Methods
<1>3. ASSUME NEW p \in RpcPosts, Cached(p)' PROVE AnswerOf(p, rpcCache[CacheKey(p)])'
  <2>1. PICK a : a = rpcCache[CacheKey(p)] /\ AnswerOf(p, a)
    BY <1>3 DEF RpcInv, Cached, CacheKey, NoKey
  <2>2. AnswerOf(p, a)'
    BY <2>1, AnswerStays
  <2>3. QED
    BY <2>1, <2>2 DEF AnswerOf, RequestedKey, IssueKey, PullKey, CheckpointKey, ReleaseKey, Main, CacheKey
<1>4. QED
  BY <1>1, <1>2, <1>3 DEF RpcInv

LEMMA RpcStays ==
  ASSUME RpcInv, Grows, UNCHANGED rpcState
  PROVE  RpcInv'
<1>1. CASE Requests = {}
  <2>1. ASSUME NEW p \in RpcPosts, Cached(p)' PROVE AnswerOf(p, rpcCache[CacheKey(p)])'
    <3>1. PICK a : a = rpcCache[CacheKey(p)] /\ a = rpcCache'[CacheKey(p)] /\ AnswerOf(p, a)
      BY <2>1 DEF RpcInv, Cached, CacheKey, NoKey, rpcState
    <3>2. AnswerOf(p, a)'
      BY <3>1, AnswerStays
    <3>3. QED
      BY <3>1, <3>2 DEF AnswerOf, RequestedKey, IssueKey, PullKey, CheckpointKey, ReleaseKey, Main, CacheKey
  <2>2. QED
    BY <1>1, <2>1 DEF RpcInv, rpcState
<1>2. CASE Requests # {}
  BY <1>2, RequestSet DEF rpcState
<1>3. QED
  BY <1>1, <1>2

LEMMA HandleKeeps ==
  ASSUME ForgeInv, NEW r \in Requests, NEW post \in RpcPosts, RpcHandle(r, post)
  PROVE  ForgeInv'
<1>1. Grows /\ ForgeOk'
  BY DeliverKeeps DEF ForgeInv, RpcHandle, forgeState
<1>2. ManagerInv'
  BY <1>1, ManagerStays DEF ForgeInv, RpcHandle, RpcKeep, managerState
<1>3. PICK q : req' = [req EXCEPT ![r] = q] /\ RequestOk(q)
  <2>1. Cached(post) => AnswerOf(post, rpcCache[CacheKey(post)])
    BY DEF ForgeInv, RpcInv
  <2>2. PICK q : /\ req' = [req EXCEPT ![r] = q]
                 /\ \/ q = [at |-> "error", post |-> post]
                    \/ Cached(post) /\ q = [at |-> "answered", post |-> post, answer |-> rpcCache[CacheKey(post)]]
                    \/ post.method \in Methods /\ q = [at |-> "dispatch", post |-> post]
    BY DEF RpcHandle, Methods
  <2>3. CASE Cached(post) /\ q = [at |-> "answered", post |-> post, answer |-> rpcCache[CacheKey(post)]]
    <3>1. q.at = "answered" /\ q.post = post /\ q.answer = rpcCache[CacheKey(post)] /\ DOMAIN q = {"at", "post", "answer"}
      BY <2>3
    <3>2. QED
      BY <2>1, <2>2, <2>3, <3>1 DEF RequestOk
  <2>4. CASE q = [at |-> "error", post |-> post] \/ (post.method \in Methods /\ q = [at |-> "dispatch", post |-> post])
    <3>1. q.at \in {"error", "dispatch"} /\ q.post = post /\ (q.at = "dispatch" => post.method \in Methods)
      BY <2>4
    <3>2. RequestOk(q)
      BY <3>1 DEF RequestOk
    <3>3. QED
      BY <2>2, <3>2
  <2>5. QED
    BY <2>2, <2>3, <2>4
<1>4. RequestOk(q)'
  BY <1>1, <1>3, RequestStays
<1>5. RpcInv'
  BY <1>1, <1>3, <1>4, RequestSet DEF ForgeInv, RpcHandle
<1>6. QED
  BY <1>1, <1>2, <1>5 DEF ForgeInv

LEMMA DispatchKeeps ==
  ASSUME ForgeInv, NEW r \in Requests, RpcDispatch(r)
  PROVE  ForgeInv'
<1>1. PICK p \in RpcPosts : p = req[r].post /\ p.method \in Methods
  BY DEF ForgeInv, RpcInv, RequestOk, RpcDispatch
<1>2. UNCHANGED <<rpcCache, running, told>>
  BY DEF RpcDispatch, RpcKeep, managerState
<1>3. CASE RpcFails(p) /\ req' = [req EXCEPT ![r] = [at |-> "error", post |-> p]]
  <2>1. Grows /\ ForgeOk'
    BY <1>3, DeliverKeeps DEF ForgeInv, RpcFails, forgeState
  <2>2. ManagerInv'
    BY <1>2, <2>1, ManagerStays DEF ForgeInv
  <2>3. RequestOk([at |-> "error", post |-> p])'
    BY DEF RequestOk
  <2>4. RpcInv'
    BY <1>2, <1>3, <2>1, <2>3, RequestSet DEF ForgeInv
  <2>5. QED
    BY <2>1, <2>2, <2>4 DEF ForgeInv
<1>4. ASSUME NEW num, RpcCreateIssue(p, num) \/ RpcOpenPullRequest(p, num) \/ RpcCheckpoint(p, num) \/ RpcRelease(p, num),
             req' = [req EXCEPT ![r] = [at |-> IF p.key = NoKey THEN "answered" ELSE "store",
                                        post |-> p, answer |-> <<RequestedKey(p), num>>]]
      PROVE  ForgeInv'
  <2>1. p.name \in Name /\ Main \in Name
    BY DEF Name
  <2>2. Grows /\ ForgeOk' /\ RequestedKey(p) \in DOMAIN idem' /\ idem'[RequestedKey(p)] = num
    <3>1. CASE RpcCreateIssue(p, num)
      BY <2>1, <3>1, IssueKeeps DEF ForgeInv, RpcCreateIssue, RequestedKey, Known, IssueKey
    <3>2. CASE RpcOpenPullRequest(p, num)
      <4>1. ~(p.name = Phase /\ p.name = Tracking)
        BY DEF Phase, Tracking
      <4>2. OpenPullRequest(p.name, Main, p.name, FALSE, num)
        BY <3>2 DEF RpcOpenPullRequest
      <4>3. Grows /\ ForgeOk' /\ Known(PullKey(p.name, Main, p.name))' /\ idem'[PullKey(p.name, Main, p.name)] = num
        BY <2>1, <4>1, <4>2, PullKeeps DEF ForgeInv
      <4>4. QED
        BY <3>2, <4>3 DEF RpcOpenPullRequest, RequestedKey, Known, PullKey
    <3>3. CASE RpcCheckpoint(p, num)
      <4>1. RecordUnder(CheckpointKey(p.name)) /\ RequestedKey(p) = CheckpointKey(p.name) /\ num = 1
        BY <3>3 DEF RpcCheckpoint, CreateCheckpoint, RequestedKey
      <4>2. Grows /\ ForgeOk' /\ Known(CheckpointKey(p.name))'
        BY <4>1, RecordKeeps DEF ForgeInv
      <4>3. RequestedKey(p) \in DOMAIN idem'
        BY <4>1, <4>2 DEF Known, CheckpointKey
      <4>4. idem'[RequestedKey(p)] = 1
        BY <3>3, <4>2, <4>3 DEF RpcCheckpoint, ForgeOk, TableInv, Known, RequestedKey, CheckpointKey
      <4>5. QED
        BY <4>1, <4>2, <4>3, <4>4
    <3>4. CASE RpcRelease(p, num)
      <4>1. RecordUnder(ReleaseKey(p.name)) /\ RequestedKey(p) = ReleaseKey(p.name) /\ num = 1
        BY <3>4 DEF RpcRelease, CreateRelease, RequestedKey
      <4>2. Grows /\ ForgeOk' /\ Known(ReleaseKey(p.name))'
        BY <4>1, RecordKeeps DEF ForgeInv
      <4>3. RequestedKey(p) \in DOMAIN idem'
        BY <4>1, <4>2 DEF Known, ReleaseKey
      <4>4. idem'[RequestedKey(p)] = 1
        BY <3>4, <4>2, <4>3 DEF RpcRelease, ForgeOk, TableInv, Known, RequestedKey, ReleaseKey
      <4>5. QED
        BY <4>1, <4>2, <4>3, <4>4
    <3>5. QED
      BY <1>4, <3>1, <3>2, <3>3, <3>4
  <2>3. ManagerInv'
    BY <1>2, <2>2, ManagerStays DEF ForgeInv
  <2>4. PICK q : q = [at |-> IF p.key = NoKey THEN "answered" ELSE "store", post |-> p, answer |-> <<RequestedKey(p), num>>]
    OBVIOUS
  <2>5. AnswerOf(p, q.answer)'
    BY <2>2, <2>4 DEF AnswerOf, RequestedKey, IssueKey, PullKey, CheckpointKey, ReleaseKey, Main
  <2>6. q.post = p /\ q.at \in {"answered", "store"} /\ (q.at = "store" => p.key # NoKey) /\ DOMAIN q = {"at", "post", "answer"}
    BY <2>4
  <2>7. RequestOk(q)'
    BY <2>5, <2>6 DEF RequestOk, NoKey, AnswerOf, RequestedKey, IssueKey, PullKey, CheckpointKey, ReleaseKey, Main
  <2>8. RpcInv'
    BY <1>2, <1>4, <2>2, <2>4, <2>7, RequestSet DEF ForgeInv
  <2>9. QED
    BY <2>2, <2>3, <2>8 DEF ForgeInv
<1>5. QED
  BY <1>1, <1>3, <1>4 DEF RpcDispatch

LEMMA StoreKeeps ==
  ASSUME ForgeInv, NEW r \in Requests, RpcStore(r)
  PROVE  ForgeInv'
<1>1. Grows /\ ForgeOk' /\ UNCHANGED <<idem, running, told>>
  BY DeliverKeeps DEF ForgeInv, RpcStore, RpcKeep, forgeState, managerState
<1>2. ManagerInv'
  BY <1>1, ManagerStays DEF ForgeInv
<1>3. PICK q : q = req[r] /\ RequestOk(q) /\ q.at = "store"
  BY DEF ForgeInv, RpcInv, RpcStore
<1>4. PICK p \in RpcPosts : p = q.post /\ p.key # NoKey /\ AnswerOf(p, q.answer) /\ DOMAIN q = {"at", "post", "answer"}
  BY <1>3 DEF RequestOk
<1>5. PICK n : n = [q EXCEPT !.at = "answered"]
  OBVIOUS
<1>6. n.at = "answered" /\ n.post = p /\ n.answer = q.answer /\ DOMAIN n = {"at", "post", "answer"}
  BY <1>4, <1>5
<1>7. req' = [req EXCEPT ![r] = n] /\ DOMAIN req = Requests
  BY <1>3, <1>5 DEF RpcStore, ForgeInv, RpcInv
<1>8. RequestOk(n)
  BY <1>4, <1>6 DEF RequestOk
<1>9. ASSUME NEW s \in Requests PROVE RequestOk(req[s])'
  <2>1. PICK o : o = req'[s] /\ RequestOk(o)
    BY <1>7, <1>8 DEF ForgeInv, RpcInv
  <2>2. RequestOk(o)'
    BY <1>1, <2>1, RequestStays
  <2>3. QED
    BY <2>1, <2>2 DEF RequestOk, AnswerOf, RequestedKey, IssueKey, PullKey, CheckpointKey, ReleaseKey, Main, NoKey, Methods
<1>10. rpcCache' = With(rpcCache, CacheKey(p), q.answer)
  BY <1>3, <1>4 DEF RpcStore
<1>11. ASSUME NEW o \in RpcPosts, Cached(o)' PROVE AnswerOf(o, rpcCache[CacheKey(o)])'
  <2>1. AnswerOf(o, rpcCache'[CacheKey(o)])
    <3>1. CASE CacheKey(o) = CacheKey(p)
      <4>1. o.method = p.method /\ o.key = p.key
        BY <3>1 DEF CacheKey
      <4>2. RequestedKey(o) = RequestedKey(p)
        <5>1. o.name = p.name
          BY <1>4, <4>1, PostsAssumption DEF NoKey
        <5>2. QED
          BY <4>1, <5>1 DEF RequestedKey
      <4>3. rpcCache'[CacheKey(o)] = q.answer
        BY <1>10, <3>1, WithEntry
      <4>4. QED
        BY <1>4, <4>2, <4>3 DEF AnswerOf
    <3>2. CASE CacheKey(o) # CacheKey(p)
      <4>1. Cached(o) /\ rpcCache'[CacheKey(o)] = rpcCache[CacheKey(o)]
        <5>1. PICK k : k = CacheKey(o) /\ k \in DOMAIN rpcCache' /\ o.key # NoKey
          BY <1>11 DEF Cached, CacheKey, NoKey
        <5>2. k \in DOMAIN rpcCache /\ rpcCache'[k] = rpcCache[k]
          BY <1>10, <3>2, <5>1, WithEntry
        <5>3. QED
          BY <5>1, <5>2 DEF Cached
      <4>2. QED
        BY <4>1 DEF ForgeInv, RpcInv
    <3>3. QED
      BY <3>1, <3>2
  <2>2. QED
    BY <1>1, <2>1 DEF AnswerOf, RequestedKey, IssueKey, PullKey, CheckpointKey, ReleaseKey, Main, CacheKey
<1>12. RpcInv'
  BY <1>7, <1>9, <1>11 DEF RpcInv
<1>13. QED
  BY <1>1, <1>2, <1>12 DEF ForgeInv

-----------------------------------------------------------------------------
(* The steps of a call.                                                    *)

\* A step that records, delivers or audits.
LEMMA RecordStepKeeps ==
  ASSUME ForgeInv, NEW m \in Managers,
         \/ RepositoryStep(m) \/ BranchStep(m) \/ MilestoneStep(m) \/ CheckpointStep(m) \/ ReleaseStep(m)
         \/ SyncIssueStep(m) \/ SyncCheckpointStep(m) \/ AuditStep(m)
  PROVE  ForgeInv'
<1>1. PICK j : j = running[m]
  OBVIOUS
<1>2. ForgeOk /\ ManagerInv
  BY DEF ForgeInv
<1>3. CASE RepositoryStep(m)
  <2>1. At(m, "repository") /\ RecordUnder(RepoKey) /\ Advance(m, j)
    BY <1>1, <1>3 DEF RepositoryStep, CreateRepository
  <2>2. Grows /\ ForgeOk'
    BY <1>2, <2>1, RecordKeeps
  <2>3. ManagerInv'
    <3>1. JobAfter(m, "repository", j) /\ Leaves("repository", j)
      BY <1>1, <2>2 DEF JobAfter, Leaves, Known, BranchKey, MilestoneKey, CheckpointKey
    <3>2. QED
      BY <1>2, <2>1, <2>2, <3>1, StepTaken
  <2>4. RpcInv'
    BY <2>1, <2>2, RpcStays DEF ForgeInv, Advance
  <2>5. QED
    BY <2>2, <2>3, <2>4 DEF ForgeInv
<1>4. CASE BranchStep(m)
  <2>1. At(m, "branch") /\ RecordUnder(BranchKey(j.branch)) /\ Advance(m, j)
    BY <1>1, <1>4 DEF BranchStep, CreateBranch
  <2>2. Grows /\ ForgeOk' /\ Known(BranchKey(j.branch))'
    BY <1>2, <2>1, RecordKeeps
  <2>3. ManagerInv'
    <3>1. JobAfter(m, "branch", j) /\ Leaves("branch", j)
      BY <1>1, <2>2 DEF JobAfter, Leaves, Known, BranchKey, MilestoneKey, CheckpointKey
    <3>2. QED
      BY <1>2, <2>1, <2>2, <3>1, StepTaken
  <2>4. RpcInv'
    BY <2>1, <2>2, RpcStays DEF ForgeInv, Advance
  <2>5. QED
    BY <2>2, <2>3, <2>4 DEF ForgeInv
<1>5. CASE MilestoneStep(m)
  <2>1. At(m, "milestone") /\ RecordUnder(MilestoneKey) /\ Advance(m, j)
    BY <1>1, <1>5 DEF MilestoneStep, CreateMilestone
  <2>2. Grows /\ ForgeOk' /\ Known(MilestoneKey)'
    BY <1>2, <2>1, RecordKeeps
  <2>3. ManagerInv'
    <3>1. JobAfter(m, "milestone", j) /\ Leaves("milestone", j)
      BY <1>1, <2>2 DEF JobAfter, Leaves, Known, BranchKey, MilestoneKey, CheckpointKey
    <3>2. QED
      BY <1>2, <2>1, <2>2, <3>1, StepTaken
  <2>4. RpcInv'
    BY <2>1, <2>2, RpcStays DEF ForgeInv, Advance
  <2>5. QED
    BY <2>2, <2>3, <2>4 DEF ForgeInv
<1>6. CASE CheckpointStep(m)
  <2>1. At(m, "checkpoint") /\ RecordUnder(CheckpointKey(j.commit)) /\ Advance(m, j)
    BY <1>1, <1>6 DEF CheckpointStep, CreateCheckpoint
  <2>2. Grows /\ ForgeOk' /\ Known(CheckpointKey(j.commit))'
    BY <1>2, <2>1, RecordKeeps
  <2>3. ManagerInv'
    <3>1. JobAfter(m, "checkpoint", j) /\ Leaves("checkpoint", j)
      BY <1>1, <2>2 DEF JobAfter, Leaves, Known, BranchKey, MilestoneKey, CheckpointKey
    <3>2. QED
      BY <1>2, <2>1, <2>2, <3>1, StepTaken
  <2>4. RpcInv'
    BY <2>1, <2>2, RpcStays DEF ForgeInv, Advance
  <2>5. QED
    BY <2>2, <2>3, <2>4 DEF ForgeInv
<1>7. CASE ReleaseStep(m)
  <2>1. At(m, "release") /\ RecordUnder(ReleaseKey(j.commit)) /\ Advance(m, j)
    BY <1>1, <1>7 DEF ReleaseStep, CreateRelease
  <2>2. Grows /\ ForgeOk'
    BY <1>2, <2>1, RecordKeeps
  <2>3. ManagerInv'
    <3>1. JobAfter(m, "release", j) /\ Leaves("release", j)
      BY <1>1, <2>2 DEF JobAfter, Leaves, Known, BranchKey, MilestoneKey, CheckpointKey
    <3>2. QED
      BY <1>2, <2>1, <2>2, <3>1, StepTaken
  <2>4. RpcInv'
    BY <2>1, <2>2, RpcStays DEF ForgeInv, Advance
  <2>5. QED
    BY <2>2, <2>3, <2>4 DEF ForgeInv
<1>8. CASE SyncIssueStep(m)
  <2>1. At(m, "syncIssue") /\ Deliver(<<"issue", j.issue>>) /\ Advance(m, j)
    BY <1>1, <1>8 DEF SyncIssueStep
  <2>2. Grows /\ ForgeOk' /\ <<"issue", j.issue>> \in sink'
    BY <1>2, <2>1, DeliverKeeps DEF Deliver
  <2>3. ManagerInv'
    <3>1. JobAfter(m, "syncIssue", j) /\ Leaves("syncIssue", j)
      BY <1>1, <2>2 DEF JobAfter, Leaves, Known, BranchKey, MilestoneKey, CheckpointKey
    <3>2. QED
      BY <1>2, <2>1, <2>2, <3>1, StepTaken
  <2>4. RpcInv'
    BY <2>1, <2>2, RpcStays DEF ForgeInv, Advance
  <2>5. QED
    BY <2>2, <2>3, <2>4 DEF ForgeInv
<1>9. CASE SyncCheckpointStep(m)
  <2>1. At(m, "syncCheckpoint") /\ Deliver(<<"checkpoint", j.commit>>) /\ Advance(m, j)
    BY <1>1, <1>9 DEF SyncCheckpointStep
  <2>2. Grows /\ ForgeOk' /\ <<"checkpoint", j.commit>> \in sink'
    BY <1>2, <2>1, DeliverKeeps DEF Deliver
  <2>3. ManagerInv'
    <3>1. JobAfter(m, "syncCheckpoint", j) /\ Leaves("syncCheckpoint", j)
      BY <1>1, <2>2 DEF JobAfter, Leaves, Known, BranchKey, MilestoneKey, CheckpointKey
    <3>2. QED
      BY <1>2, <2>1, <2>2, <3>1, StepTaken
  <2>4. RpcInv'
    BY <2>1, <2>2, RpcStays DEF ForgeInv, Advance
  <2>5. QED
    BY <2>2, <2>3, <2>4 DEF ForgeInv
<1>10. CASE AuditStep(m)
  <2>1. At(m, "audit") /\ RecordAudit(j.findings) /\ Advance(m, j)
    BY <1>1, <1>10 DEF AuditStep
  <2>2. Grows /\ ForgeOk'
    BY <1>2, <2>1, AuditKeeps
  <2>3. ManagerInv'
    <3>1. JobAfter(m, "audit", j) /\ Leaves("audit", j)
      BY <1>1, <2>2 DEF JobAfter, Leaves, Known, BranchKey, MilestoneKey, CheckpointKey
    <3>2. QED
      BY <1>2, <2>1, <2>2, <3>1, StepTaken
  <2>4. RpcInv'
    BY <2>1, <2>2, RpcStays DEF ForgeInv, Advance
  <2>5. QED
    BY <2>2, <2>3, <2>4 DEF ForgeInv
<1>11. QED
  BY <1>3, <1>4, <1>5, <1>6, <1>7, <1>8, <1>9, <1>10

LEMMA IssueStepKeeps ==
  ASSUME ForgeInv, NEW m \in Managers, IssueStep(m)
  PROVE  ForgeInv'
<1>1. PICK o : o = running[m]
  OBVIOUS
<1>2. ForgeOk /\ ManagerInv /\ At(m, "issue")
  BY DEF ForgeInv, IssueStep
<1>3. PICK num : CreateIssue(o.title, num) /\ Advance(m, [o EXCEPT !.issue = num])
  BY <1>1 DEF IssueStep
<1>4. PICK j : j = [o EXCEPT !.issue = num]
  OBVIOUS
<1>5. IsJob(o) /\ o.title \in Name
  BY <1>1, <1>2, WhichJob DEF ManagerInv, JobOk
<1>6. j.issue = num /\ j.title = o.title
  BY <1>4, <1>5 DEF IsJob, NoJob
<1>7. Grows /\ ForgeOk' /\ Known(IssueKey(o.title))' /\ idem'[IssueKey(o.title)] = num
  BY <1>2, <1>3, <1>5, IssueKeeps
<1>8. Leaves("issue", j)
  BY <1>6, <1>7 DEF Leaves, Known, IssueKey
<1>9. JobAfter(m, "issue", j)
  BY <1>1, <1>4 DEF JobAfter
<1>10. ManagerInv'
  BY <1>2, <1>3, <1>4, <1>7, <1>8, <1>9, StepTaken
<1>11. RpcInv'
  BY <1>3, <1>7, RpcStays DEF ForgeInv, Advance
<1>12. QED
  BY <1>7, <1>10, <1>11 DEF ForgeInv

LEMMA PullStepKeeps ==
  ASSUME ForgeInv, NEW m \in Managers, PullStep(m)
  PROVE  ForgeInv'
<1>1. PICK j : j = running[m]
  OBVIOUS
<1>2. ForgeOk /\ ManagerInv /\ At(m, "pull") /\ Advance(m, j)
  BY <1>1 DEF ForgeInv, PullStep
<1>3. PICK draft \in BOOLEAN : draft = (j.call = "start")
  OBVIOUS
<1>4. PICK num : OpenPullRequest(j.branch, j.base, j.title, draft, num)
  BY <1>1, <1>3 DEF PullStep
<1>5. /\ j.title \in Name /\ j.branch \in Name /\ j.base \in Name
      /\ j.branch = Phase /\ j.title = Tracking => j.base = Main /\ draft
  BY <1>1, <1>2, <1>3, WhichJob
<1>6. Grows /\ ForgeOk' /\ Known(PullKey(j.branch, j.base, j.title))'
  BY <1>2, <1>4, <1>5, PullKeeps
<1>7. Leaves("pull", j) /\ JobAfter(m, "pull", j)
  BY <1>1, <1>6 DEF Leaves, JobAfter, Known, PullKey
<1>8. ManagerInv'
  BY <1>2, <1>6, <1>7, StepTaken
<1>9. RpcInv'
  BY <1>2, <1>6, RpcStays DEF ForgeInv, Advance
<1>10. QED
  BY <1>6, <1>8, <1>9 DEF ForgeInv

LEMMA PullUpdated ==
  ASSUME ForgeInv, NEW m \in Managers, NEW step \in {"ready", "merge"}, At(m, step),
         NEW num, NEW p, UpdatePullRequest(num) \/ MergePullRequest(num, p)
  PROVE  Grows /\ ForgeOk'
<1>1. PICK j : j = running[m]
  OBVIOUS
<1>2. j.commit \in Commits /\ Known(CheckpointKey(j.commit)) /\ <<"checkpoint", j.commit>> \in sink
  BY <1>1, WhichJob DEF ForgeInv
<1>3. QED
  BY <1>2, UpdatePullKeeps DEF ForgeInv

LEMMA CompletionKeeps ==
  ASSUME ForgeInv, NEW m \in Managers, ReadyStep(m) \/ MergeStep(m)
  PROVE  ForgeInv'
<1>1. PICK j : j = running[m]
  OBVIOUS
<1>2. PICK step \in {"ready", "merge"}, p \in {j.actor} : At(m, step) /\ (UpdatePullRequest(j.pr) \/ MergePullRequest(j.pr, p)) /\ Advance(m, j)
  BY <1>1 DEF ReadyStep, MergeStep
<1>3. Grows /\ ForgeOk'
  BY <1>2, PullUpdated
<1>4. Leaves(step, j) /\ JobAfter(m, step, j)
  BY <1>1, <1>2 DEF Leaves, JobAfter
<1>5. ManagerInv'
  BY <1>2, <1>3, <1>4, StepTaken DEF ForgeInv
<1>6. RpcInv'
  BY <1>2, <1>3, RpcStays DEF ForgeInv, Advance
<1>7. QED
  BY <1>3, <1>5, <1>6 DEF ForgeInv

\* A call begins, is refused, fails or loses its answer.
LEMMA CallKeeps ==
  ASSUME ForgeInv, NEW m \in Managers,
         (\E j \in ManagerCalls(m) : ManagerCall(m, j)) \/ Refused(m) \/ Fails(m) \/ AnswerLost(m)
  PROVE  ForgeInv'
<1>1. JobOk(NoJob)
  BY DEF JobOk, IsJob, NoJob
<1>2. CASE \E j \in ManagerCalls(m) : ManagerCall(m, j)
  <2>1. PICK j \in ManagerCalls(m) : ManagerCall(m, j)
    BY <1>2
  <2>2. UNCHANGED <<forgeState, rpcState, told>>
    BY <2>1 DEF ManagerCall
  <2>3. Grows /\ ForgeOk'
    BY <2>2, DeliverKeeps DEF ForgeInv, forgeState
  <2>4. running' = running \/ running' = [running EXCEPT ![m] = j]
    BY <2>1 DEF ManagerCall
  <2>5. ManagerInv'
    BY <2>2, <2>3, <2>4, NewCall, JobSet, ManagerStays DEF ForgeInv
  <2>6. RpcInv'
    BY <2>2, <2>3, RpcStays DEF ForgeInv
  <2>7. QED
    BY <2>3, <2>5, <2>6 DEF ForgeInv
<1>3. CASE Refused(m) \/ Fails(m)
  <2>1. UNCHANGED <<forgeState, rpcState, told>> /\ running' = [running EXCEPT ![m] = NoJob]
    BY <1>3 DEF Refused, Fails
  <2>2. Grows /\ ForgeOk'
    BY <2>1, DeliverKeeps DEF ForgeInv, forgeState
  <2>3. ManagerInv'
    BY <1>1, <2>1, <2>2, JobSet DEF ForgeInv
  <2>4. RpcInv'
    BY <2>1, <2>2, RpcStays DEF ForgeInv
  <2>5. QED
    BY <2>2, <2>3, <2>4 DEF ForgeInv
<1>4. CASE AnswerLost(m)
  <2>1. UNCHANGED <<rpcState, told>> /\ running' = [running EXCEPT ![m] = NoJob]
    BY <1>4 DEF AnswerLost
  <2>2. PICK num, p : At(m, "merge") /\ MergePullRequest(num, p)
    BY <1>4 DEF AnswerLost
  <2>3. Grows /\ ForgeOk'
    BY <2>2, PullUpdated
  <2>4. ManagerInv'
    BY <1>1, <2>1, <2>3, JobSet DEF ForgeInv
  <2>5. RpcInv'
    BY <2>1, <2>3, RpcStays DEF ForgeInv
  <2>6. QED
    BY <2>3, <2>4, <2>5 DEF ForgeInv
<1>5. QED
  BY <1>2, <1>3, <1>4

LEMMA ForgeInitially == ForgeInit => ForgeInv
<1> SUFFICES ASSUME ForgeInit PROVE ForgeInv
  OBVIOUS
<1>1. idem = <<>> /\ issue = <<>> /\ pull = <<>> /\ DOMAIN idem = {} /\ DOMAIN issue = {} /\ DOMAIN pull = {}
  BY DEF ForgeInit
<1>2. ForgeType
  BY <1>1, EmptySeq DEF ForgeType
<1>3. TableInv /\ MergedIsRecorded
  BY <1>1 DEF TableInv, MergedIsRecorded, Known, PhasePulls
<1>4. ManagerInv
  <2>1. JobOk(NoJob)
    BY DEF JobOk, IsJob, NoJob
  <2>2. DOMAIN running = Managers /\ DOMAIN told = Managers /\ \A m \in Managers : running[m] = NoJob /\ told[m] = {}
    BY DEF ForgeInit
  <2>3. \A m \in Managers : ~Started(m)
    BY <2>2 DEF Started
  <2>4. QED
    BY <2>1, <2>2, <2>3 DEF ManagerInv
<1>5. RpcInv
  <2>1. RequestOk(NoRequest)
    BY DEF RequestOk, NoRequest
  <2>2. DOMAIN req = Requests /\ (\A r \in Requests : req[r] = NoRequest) /\ DOMAIN rpcCache = {}
    BY DEF ForgeInit
  <2>3. QED
    BY <2>1, <2>2 DEF RpcInv, Cached
<1>6. QED
  BY <1>2, <1>3, <1>4, <1>5 DEF ForgeInv, ForgeOk

LEMMA ForgeStep == ForgeInv /\ [ForgeNext]_fvars => ForgeInv'
<1> SUFFICES ASSUME ForgeInv, [ForgeNext]_fvars PROVE ForgeInv'
  OBVIOUS
<1>1. ASSUME NEW m \in Managers, ManagerNext(m) PROVE ForgeInv'
  BY <1>1, CallKeeps, RecordStepKeeps, IssueStepKeeps, PullStepKeeps, CompletionKeeps DEF ManagerNext
<1>2. ASSUME NEW r \in Requests, RpcNext(r) PROVE ForgeInv'
  BY <1>2, HandleKeeps, DispatchKeeps, StoreKeeps DEF RpcNext
<1>3. CASE CloseIssue
  <2>1. PICK num : UpdateIssue(num)
    BY <1>3 DEF CloseIssue
  <2>2. Grows /\ ForgeOk'
    BY <2>1, UpdateIssueKeeps DEF ForgeInv
  <2>3. UNCHANGED <<running, told, rpcState>>
    BY <1>3 DEF CloseIssue, managerState
  <2>4. QED
    BY <2>2, <2>3, ManagerStays, RpcStays DEF ForgeInv
<1>4. CASE UNCHANGED fvars
  <2>1. UNCHANGED <<idem, issue, pull, sink, running, told, rpcState>>
    BY <1>4 DEF fvars, forgeState, managerState
  <2>2. Grows /\ ForgeOk'
    BY <2>1, DeliverKeeps DEF ForgeInv
  <2>3. QED
    BY <2>1, <2>2, ManagerStays, RpcStays DEF ForgeInv
<1>5. QED
  BY <1>1, <1>2, <1>3, <1>4 DEF ForgeNext

-----------------------------------------------------------------------------
LEMMA AtMostOne ==
  ASSUME NEW S, NEW k, \A n \in S : n = k
  PROVE  Cardinality(S) <= 1
<1>1. IsFiniteSet({k}) /\ Cardinality({k}) = 1 /\ S \subseteq {k}
  BY FS_Singleton
<1>2. Cardinality(S) <= Cardinality({k})
  BY <1>1, FS_Subset
<1>3. QED
  BY <1>1, <1>2

\* However often, by whomever and after whatever failure StartPhase is repeated,
\* there is one tracking issue and one pull request of the phase, and who was told
\* that it started finds branch, milestone, pull request and the issue in memory
\* (Manager.StartPhase over the idempotent operations of the forge).
THEOREM StartedOnceHolds == ForgeSpec => []StartedOnce
<1>1. ForgeInv => StartedOnce
  <2> SUFFICES ASSUME ForgeInv PROVE StartedOnce
    OBVIOUS
  <2>1. Cardinality({n \in DOMAIN issue : issue[n].title = Tracking}) <= 1
    <3>1. \A n \in {i \in DOMAIN issue : issue[i].title = Tracking} : n = idem[IssueKey(Tracking)]
      BY DEF ForgeInv, ForgeOk, TableInv
    <3>2. QED
      BY <3>1, AtMostOne
  <2>2. Cardinality(PhasePulls) <= 1
    <3>1. \A n \in PhasePulls : n = idem[PhaseKey]
      BY DEF ForgeInv, ForgeOk, TableInv
    <3>2. QED
      BY <3>1, AtMostOne
  <2>3. ASSUME NEW m \in Managers, Started(m)
        PROVE  Known(BranchKey(Phase)) /\ Known(MilestoneKey) /\ PhasePulls # {} /\ <<"issue", idem[IssueKey(Tracking)]>> \in sink
    <3>1. StartDone(0, idem[IssueKey(Tracking)])
      BY <2>3 DEF ForgeInv, ManagerInv
    <3>2. Known(BranchKey(Phase)) /\ Known(MilestoneKey) /\ Known(PhaseKey) /\ <<"issue", idem[IssueKey(Tracking)]>> \in sink
      BY <3>1 DEF StartDone
    <3>3. QED
      BY <3>2 DEF ForgeInv, ForgeOk, TableInv
  <2>4. QED
    BY <2>1, <2>2, <2>3 DEF StartedOnce
<1>2. QED
  BY <1>1, ForgeInitially, ForgeStep, PTL DEF ForgeSpec

\* The pull request of a phase leaves the draft state, and is merged, only after a
\* checkpoint that the forge and memory both hold (the order of the steps of
\* Manager.CompletePhase, with calls that overlap, fail and are repeated).
THEOREM MergedIsRecordedHolds == ForgeSpec => []MergedIsRecorded
<1>1. ForgeInv => MergedIsRecorded
  BY DEF ForgeInv, ForgeOk
<1>2. QED
  BY <1>1, ForgeInitially, ForgeStep, PTL DEF ForgeSpec

\* Every answer of the rpc service names the object the forge keeps for what was
\* asked, and the answers under one method and key agree, although Service.Handle
\* asks and fills its cache in separate critical sections.
THEOREM OneAnswerPerKeyHolds == ForgeSpec => []OneAnswerPerKey
<1>1. ForgeInv => OneAnswerPerKey
  <2> SUFFICES ASSUME ForgeInv, NEW r \in Requests, NEW s \in Requests, req[r].at = "answered", req[s].at = "answered"
               PROVE  /\ req[r].answer = <<RequestedKey(req[r].post), idem[RequestedKey(req[r].post)]>>
                      /\ req[r].post.key # NoKey /\ CacheKey(req[r].post) = CacheKey(req[s].post) => req[r].answer = req[s].answer
    BY DEF OneAnswerPerKey
  <2>1. PICK p \in RpcPosts : p = req[r].post /\ req[r].answer = <<RequestedKey(p), idem[RequestedKey(p)]>>
    BY DEF ForgeInv, RpcInv, RequestOk, AnswerOf
  <2>2. PICK q \in RpcPosts : q = req[s].post /\ req[s].answer = <<RequestedKey(q), idem[RequestedKey(q)]>>
    BY DEF ForgeInv, RpcInv, RequestOk, AnswerOf
  <2>3. ASSUME p.key # NoKey, CacheKey(p) = CacheKey(q) PROVE RequestedKey(p) = RequestedKey(q)
    <3>1. p.method = q.method /\ p.key = q.key
      BY <2>3 DEF CacheKey
    <3>2. p.name = q.name
      BY <2>3, <3>1, PostsAssumption DEF NoKey
    <3>3. QED
      BY <3>1, <3>2 DEF RequestedKey
  <2>4. QED
    BY <2>1, <2>2, <2>3
<1>2. QED
  BY <1>1, ForgeInitially, ForgeStep, PTL DEF ForgeSpec

----------------------------------------------------------------------------
(* Tables.                                                                 *)

\* What a table holds once a key has been given a value.
LEMMA PutProperties ==
    ASSUME NEW f, NEW k, NEW v
    PROVE  /\ DOMAIN Put(f, k, v) = DOMAIN f \cup {k} /\ Put(f, k, v)[k] = v
           /\ \A x \in DOMAIN f : x # k => Put(f, k, v)[x] = f[x]
BY DEF Put

----------------------------------------------------------------------------
(* Learning: the gate of learned routing.                                  *)

\* The evidence a capability is enabled on, against its policy and what is kept.
Earned(e, p) ==
    /\ e.outcomes \in Nat /\ e.outcomes >= p.minOutcomes
    /\ e.outcomes <= Cardinality(DOMAIN history)
    /\ p.minImprovement > 0 => e.answered
    /\ p.requireFallback => e.fallback

GateInv ==
    /\ IsFiniteSet(DOMAIN history)
    /\ gatePolicy \in GatePolicies
    /\ decision.enabled => Earned(decision.evidence, gatePolicy)

\* What is loaded is no more than what is kept, and every result is of one trace.
LEMMA LoadedIsKept ==
    ASSUME IsFiniteSet(DOMAIN history)
    PROVE  /\ IsFiniteSet(Bound) /\ Cardinality(Bound) \in Nat /\ Cardinality(Bound) <= Cardinality(DOMAIN history)
           /\ IsFiniteSet(ResultsOf(Bound)) /\ Cardinality(ResultsOf(Bound)) \in Nat
           /\ Cardinality(ResultsOf(Bound)) <= Cardinality(DOMAIN history)
<1>1. Bound \subseteq DOMAIN history
  BY DEF Bound
<1>2. IsFiniteSet(Bound) /\ Cardinality(Bound) <= Cardinality(DOMAIN history)
  BY <1>1, FS_Subset
<1>3. PICK f : f = [n \in Bound |-> ResultOf(n)]
  OBVIOUS
<1>4. f \in Surjection(Bound, ResultsOf(Bound))
  BY <1>3 DEF ResultsOf, Surjection
<1>5. IsFiniteSet(ResultsOf(Bound)) /\ Cardinality(ResultsOf(Bound)) <= Cardinality(Bound)
  BY <1>2, <1>4, FS_Surjection
<1>6. PICK a \in Nat, b \in Nat, c \in Nat :
         a = Cardinality(ResultsOf(Bound)) /\ b = Cardinality(Bound) /\ c = Cardinality(DOMAIN history)
  BY <1>2, <1>5, FS_CardinalityType
<1> QED
  BY <1>2, <1>5, <1>6

Silent(says) == \A p \in DOMAIN says : says[p] = ""

\* InferencePredictor falls back to the baseline: a recommender that answers
\* nothing is right exactly as often, and improves nothing.
LEMMA SilenceImprovesNothing ==
    ASSUME NEW S, IsFiniteSet(S), S # {}, NEW says \in Recommenders(S), Silent(says)
    PROVE  Improvement(says, S) = 0
<1>1. PICK m : m = MajorityBaseline(S)
  OBVIOUS
<1>2. ASSUME NEW r \in S PROVE Predict(says, S, r.package) = m
  <2>1. r.package \in DOMAIN says
    BY Zenon DEF Recommenders, PackagesOf
  <2> QED
    BY <1>1, <2>1, Zenon DEF Predict, Silent
<1>3. {r \in S : Predict(says, S, r.package) = r.outcome} = {r \in S : r.outcome = m}
  BY <1>2
<1>4. PICK n \in Nat : n = Cardinality({r \in S : r.outcome = m})
  <2>1. {r \in S : r.outcome = m} \subseteq S
    OBVIOUS
  <2> QED
    BY <2>1, FS_Subset, FS_CardinalityType
<1>5. Count(S, MajorityBaseline(S)) = n
  BY <1>1, <1>4 DEF Count
<1>6. PICK k \in Nat : k = Cardinality(S) /\ k > 0
  BY FS_EmptySet, FS_CardinalityType
<1>7. ((n - n) * 1000) \div k = 0
  <2>1. (n - n) * 1000 = 0
    OBVIOUS
  <2>2. 0 \div k = 0
    BY <1>6
  <2> QED
    BY <2>1, <2>2
<1> QED
  <2>1. Cardinality({r \in S : Predict(says, S, r.package) = r.outcome}) = n
    BY <1>3, <1>4
  <2>2. Improvement(says, S) = ((n - n) * 1000) \div k
    BY <2>1, <1>5, <1>6 DEF Improvement
  <2> QED
    BY <1>7, <2>2

\* Evaluate records what the evidence earns.
LEMMA DecideKeeps ==
    ASSUME GateInv, NEW e, Decide(e), e.outcomes \in Nat, e.outcomes <= Cardinality(DOMAIN history),
           ~e.answered => e.improvement = 0
    PROVE  GateInv'
<1>1. history' = history /\ gatePolicy' = gatePolicy
  BY DEF Decide
<1>2. CASE ~Meets(e, gatePolicy)
  <2>1. ~decision'.enabled
    BY <1>2 DEF Decide, Disabled
  <2> QED
    BY <1>1, <2>1 DEF GateInv
<1>3. CASE Meets(e, gatePolicy)
  <2>1. decision'.evidence = e
    BY <1>3 DEF Decide
  <2>2. e.outcomes >= gatePolicy.minOutcomes /\ (gatePolicy.requireFallback => e.fallback)
    BY <1>3 DEF Meets
  <2>3. gatePolicy.minImprovement > 0 => e.improvement >= gatePolicy.minImprovement
    BY <1>3 DEF Meets
  <2>4. gatePolicy.minImprovement > 0 => e.answered
    <3>1. gatePolicy.minImprovement \in 0 .. 1000
      BY LearnAssumption DEF GateInv
    <3>2. ASSUME gatePolicy.minImprovement > 0, e.improvement = 0 PROVE FALSE
      <4>1. PICK floor : floor = gatePolicy.minImprovement
        OBVIOUS
      <4>2. 0 >= floor
        BY <2>3, <3>2, <4>1
      <4> QED
        BY <3>1, <3>2, <4>1, <4>2
    <3> QED
      BY <3>2
  <2>5. Earned(e, gatePolicy)
    BY <2>2, <2>4 DEF Earned
  <2>6. Earned(decision.evidence, gatePolicy)'
    BY <1>1, <2>1, <2>5 DEF Earned
  <2> QED
    BY <1>1, <2>6 DEF GateInv
<1> QED
  BY <1>2, <1>3

\* Backtest enables a capability on the evidence it has just gathered.
LEMMA BacktestKeeps ==
    ASSUME GateInv, NEW says \in Recommenders(ResultsOf(Bound)), NEW f \in BOOLEAN, NEW b \in BOOLEAN,
           EvaluateBacktest(says, f, b)
    PROVE  GateInv'
<1>1. PICK S : S = ResultsOf(Bound)
  OBVIOUS
<1>2. PICK e : e = [outcomes |-> Cardinality(S), baseline |-> TRUE, improvement |-> Improvement(says, S),
                    fallback |-> f, noBypass |-> b, answered |-> \E p \in DOMAIN says : says[p] # ""]
  OBVIOUS
<1>3. Decide(e) /\ S # {}
  BY <1>1, <1>2 DEF EvaluateBacktest
<1>4. e.outcomes = Cardinality(S) /\ e.improvement = Improvement(says, S) /\ (~e.answered => Silent(says))
  BY <1>2, Zenon DEF Silent
<1>5. IsFiniteSet(S) /\ Cardinality(S) \in Nat /\ Cardinality(S) <= Cardinality(DOMAIN history)
  BY <1>1, LoadedIsKept DEF GateInv
<1>6. ~e.answered => e.improvement = 0
  BY <1>1, <1>3, <1>4, <1>5, SilenceImprovesNothing
<1> QED
  BY <1>3, <1>4, <1>5, <1>6, DecideKeeps

\* An evaluation of the counts alone claims no improvement.
LEMMA CountsKeep ==
    ASSUME GateInv, NEW f \in BOOLEAN, NEW b \in BOOLEAN, EvaluateCounts(f, b)
    PROVE  GateInv'
<1>1. PICK e : e = [NoEvidence EXCEPT !.outcomes = Cardinality(Bound), !.fallback = f, !.noBypass = b]
  OBVIOUS
<1>2. Decide(e)
  BY <1>1 DEF EvaluateCounts
<1>3. e.outcomes = Cardinality(Bound) /\ e.improvement = 0
  BY <1>1 DEF NoEvidence
<1>4. Cardinality(Bound) \in Nat /\ Cardinality(Bound) <= Cardinality(DOMAIN history)
  BY LoadedIsKept DEF GateInv
<1> QED
  BY <1>2, <1>3, <1>4, DecideKeeps

\* A trace more: evidence that was enough stays enough.
LEMMA TraceKeeps ==
    ASSUME GateInv, NEW n, NEW t, TraceKept(n, t) PROVE GateInv'
<1>1. /\ n \notin DOMAIN history /\ DOMAIN history' = DOMAIN history \cup {n}
      /\ gatePolicy' = gatePolicy /\ decision' = decision
  BY PutProperties DEF TraceKept
<1>2. IsFiniteSet(DOMAIN history') /\ Cardinality(DOMAIN history') = Cardinality(DOMAIN history) + 1
  BY <1>1, FS_AddElement DEF GateInv
<1>3. PICK a \in Nat : a = Cardinality(DOMAIN history)
  BY FS_CardinalityType DEF GateInv
<1>4. ASSUME decision.enabled PROVE Earned(decision.evidence, gatePolicy)'
  <2>1. Earned(decision.evidence, gatePolicy)
    BY <1>4 DEF GateInv
  <2>2. PICK o \in Nat : o = decision.evidence.outcomes
    BY <2>1 DEF Earned
  <2>3. o <= a
    BY <1>3, <2>1, <2>2 DEF Earned
  <2>4. o <= a + 1
    BY <2>3
  <2>5. decision'.evidence.outcomes <= Cardinality(DOMAIN history')
    BY <1>1, <1>2, <1>3, <2>2, <2>4
  <2> QED
    BY <1>1, <2>1, <2>5 DEF Earned
<1> QED
  BY <1>1, <1>2, <1>4 DEF GateInv

\* Every step of learning keeps GateInv.
LEMMA GateInvStep ==
    ASSUME GateInv, [LearnNext]_lvars PROVE GateInv'
<1>1. CASE UNCHANGED <<history, gatePolicy, decision>>
  BY <1>1 DEF GateInv, Earned
<1>2. ASSUME NEW p \in GatePolicies, SetPolicy(p) PROVE GateInv'
  <2>1. history' = history /\ gatePolicy' = p /\ ~decision'.enabled
    BY <1>2 DEF SetPolicy, Disabled
  <2> QED
    BY <2>1 DEF GateInv
<1>3. ASSUME NEW n \in TraceNos, NEW t \in TraceChoices, TraceKept(n, t) PROVE GateInv'
  BY <1>3, TraceKeeps
<1>4. ASSUME NEW says \in Recommenders(ResultsOf(Bound)), NEW f \in BOOLEAN, NEW b \in BOOLEAN, EvaluateBacktest(says, f, b) PROVE GateInv'
  BY <1>4, BacktestKeeps
<1>5. ASSUME NEW f \in BOOLEAN, NEW b \in BOOLEAN, EvaluateCounts(f, b) PROVE GateInv'
  BY <1>5, CountsKeep
<1>6. ASSUME NEW c, Learn(c) PROVE UNCHANGED <<history, gatePolicy, decision>>
  BY <1>6 DEF Learn
<1>7. ASSUME ProposeNext \/ SinkFails \/ Tick PROVE UNCHANGED <<history, gatePolicy, decision>>
  BY <1>7 DEF ProposeNext, SinkFails, Tick
<1>8. ASSUME NEW id, Promote(id) PROVE UNCHANGED <<history, gatePolicy, decision>>
  BY <1>8 DEF Promote
<1>9. ASSUME NEW a, Route(a) PROVE UNCHANGED <<history, gatePolicy, decision>>
  BY <1>9 DEF Route
<1>10. CASE UNCHANGED lvars
  BY <1>1, <1>10 DEF lvars
<1> QED
  BY <1>1, <1>2, <1>3, <1>4, <1>5, <1>6, <1>7, <1>8, <1>9, <1>10 DEF LearnNext

\* Learned routing is enabled only on evidence that satisfies the policy in
\* force, and never by a recommender that answers nothing (Registry.Evaluate,
\* Registry.SetPolicy, InferencePredictor).
THEOREM EnabledIsEarnedHolds == LearnSpec => []EnabledIsEarned
<1>1. LearnInit => GateInv
  <2> SUFFICES ASSUME LearnInit PROVE GateInv
    OBVIOUS
  <2>1. DOMAIN history = {} /\ gatePolicy \in GatePolicies /\ ~decision.enabled
    BY DEF LearnInit, Disabled
  <2> QED
    BY <2>1, FS_EmptySet DEF GateInv
<1>2. GateInv /\ [LearnNext]_lvars => GateInv'
  BY GateInvStep
<1>3. GateInv => EnabledIsEarned
  BY DEF GateInv, Earned, EnabledIsEarned
<1> QED
  BY <1>1, <1>2, <1>3, PTL DEF LearnSpec

----------------------------------------------------------------------------
(* Learning: what was promoted stands.                                     *)

RecordFields == {"rev", "life", "content", "at"}
Held(x) == x[1] \in DOMAIN records /\ records[x[1]].content = x[2]

\* What a run has stored so far, and what runs reported, is in memory.
StoreInv ==
    /\ DOMAIN learner = {"batch", "stored", "produced"}
    /\ \A id \in DOMAIN records : DOMAIN records[id] = RecordFields
    /\ \A x \in learner.stored \cup reported : Held(x)

\* What a step may do to the records.
RecordsStand ==
    \A id \in DOMAIN records :
        /\ id \in DOMAIN records'
        /\ records'[id] # records[id] =>
              /\ records'[id].rev = records[id].rev + 1
              /\ records'[id].content = records[id].content
              /\ records'[id].life # "CANDIDATE"

\* A step that keeps the records, and starts or ends a run without a report.
LEMMA NothingProposed ==
    ASSUME StoreInv, records' = records, reported' = reported,
           learner' = learner \/ (DOMAIN learner' = {"batch", "stored", "produced"} /\ learner'.stored = {})
    PROVE  StoreInv' /\ RecordsStand
<1>1. \A x \in learner'.stored \cup reported' : Held(x)'
  BY DEF StoreInv, Held
<1> QED
  BY <1>1 DEF StoreInv, RecordsStand

\* A candidate that memory holds is taken into what the run has stored.
LEMMA ProposedKeeps ==
    ASSUME StoreInv, NEW c, Proposed(c),
           \A id \in DOMAIN records' : DOMAIN records'[id] = RecordFields,
           \A id \in DOMAIN records : id \in DOMAIN records' /\ records'[id] = records[id],
           Identity(c) \in DOMAIN records', records'[Identity(c)].content = c.content
    PROVE  StoreInv' /\ RecordsStand
<1>1. PICK rest : rest = [[learner EXCEPT !.batch = @ \ {c}] EXCEPT !.stored = @ \cup {<<Identity(c), c.content>>}]
  OBVIOUS
<1>2. DOMAIN rest = {"batch", "stored", "produced"} /\ rest.stored = learner.stored \cup {<<Identity(c), c.content>>}
  BY <1>1 DEF StoreInv
<1>3. ASSUME NEW x \in learner.stored \cup reported PROVE Held(x)'
  <2>1. x[1] \in DOMAIN records /\ records[x[1]].content = x[2]
    BY DEF StoreInv, Held
  <2> QED
    BY <2>1 DEF Held
<1>4. Held(<<Identity(c), c.content>>)'
  BY DEF Held
<1>5. \A x \in rest.stored \cup reported : Held(x)'
  BY <1>2, <1>3, <1>4
<1>6. \/ learner' = NoRun /\ reported' = reported \cup rest.stored
      \/ learner' = rest /\ reported' = reported
  BY <1>1 DEF Proposed
<1>7. DOMAIN NoRun = {"batch", "stored", "produced"} /\ NoRun.stored = {}
  BY DEF NoRun
<1>8. DOMAIN learner' = {"batch", "stored", "produced"} /\ \A x \in learner'.stored \cup reported' : Held(x)'
  BY <1>2, <1>5, <1>6, <1>7
<1> QED
  BY <1>8 DEF StoreInv, RecordsStand

\* Propose stores a new record, or finds the one it proposed before.
LEMMA ProposeKeeps ==
    ASSUME StoreInv, ProposeNext PROVE StoreInv' /\ RecordsStand
<1>1. PICK c, id, new : c = First(learner.batch) /\ id = Identity(c) /\ new = RecordOf(c)
  OBVIOUS
<1>2. DOMAIN new = RecordFields /\ new.content = c.content
  BY <1>1 DEF RecordOf, RecordFields
<1>3. CASE id \notin DOMAIN records
  <2>1. records' = Put(records, id, new) /\ Proposed(c)
    BY <1>1, <1>3 DEF ProposeNext
  <2>2. /\ DOMAIN records' = DOMAIN records \cup {id} /\ records'[id] = new
        /\ \A x \in DOMAIN records : x # id => records'[x] = records[x]
    BY <2>1 DEF Put
  <2>3. \A x \in DOMAIN records' : DOMAIN records'[x] = RecordFields
    BY <1>2, <2>2 DEF StoreInv
  <2>4. \A x \in DOMAIN records : x \in DOMAIN records' /\ records'[x] = records[x]
    BY <1>3, <2>2
  <2>5. Identity(c) \in DOMAIN records' /\ records'[Identity(c)].content = c.content
    BY <1>1, <1>2, <2>2
  <2> QED
    BY <2>1, <2>3, <2>4, <2>5, ProposedKeeps
<1>4. CASE id \in DOMAIN records /\ records[id] = new
  <2>1. records' = records /\ Proposed(c)
    BY <1>1, <1>4 DEF ProposeNext
  <2>2. \A x \in DOMAIN records' : DOMAIN records'[x] = RecordFields
    BY <2>1 DEF StoreInv
  <2>3. Identity(c) \in DOMAIN records' /\ records'[Identity(c)].content = c.content
    BY <1>1, <1>2, <1>4, <2>1
  <2> QED
    BY <2>1, <2>2, <2>3, ProposedKeeps
<1>5. CASE id \in DOMAIN records /\ records[id] # new
  <2>1. records' = records /\ reported' = reported /\ learner' = NoRun
    BY <1>1, <1>5 DEF ProposeNext
  <2> QED
    BY <2>1, NothingProposed DEF NoRun
<1> QED
  BY <1>3, <1>4, <1>5

\* Promote moves one record by one revision and keeps its content.
LEMMA PromoteKeeps ==
    ASSUME StoreInv, NEW id, Promote(id) PROVE StoreInv' /\ RecordsStand
<1>1. PICK life \in {"VALIDATED", "ACTIVE"} : records' = [records EXCEPT ![id].life = life, ![id].rev = @ + 1]
  <2>1. PICK move \in {<<"CANDIDATE", "VALIDATED">>, <<"VALIDATED", "ACTIVE">>} :
           records' = [records EXCEPT ![id].life = move[2], ![id].rev = @ + 1]
    BY Zenon DEF Promote
  <2>2. move[2] \in {"VALIDATED", "ACTIVE"}
    BY <2>1
  <2> QED
    BY <2>1, <2>2, Zenon
<1>2. PICK r, q : r = records[id] /\ q = [[r EXCEPT !.life = life] EXCEPT !.rev = @ + 1]
  OBVIOUS
<1>3. id \in DOMAIN records /\ learner' = learner /\ reported' = reported
  BY DEF Promote
<1>4. DOMAIN r = RecordFields
  BY <1>2, <1>3 DEF StoreInv
<1>5. DOMAIN q = RecordFields /\ q.content = r.content /\ q.rev = r.rev + 1 /\ q.life = life
  BY <1>2, <1>4 DEF RecordFields
<1>6. records' = [records EXCEPT ![id] = q]
  BY <1>1, <1>2, <1>3
<1>7. DOMAIN records' = DOMAIN records /\ records'[id] = q /\ \A x \in DOMAIN records : x # id => records'[x] = records[x]
  BY <1>3, <1>6
<1>8. \A x \in DOMAIN records : records'[x].content = records[x].content /\ DOMAIN records'[x] = RecordFields
  BY <1>2, <1>5, <1>7 DEF StoreInv
<1>9. ASSUME NEW x \in learner.stored \cup reported PROVE Held(x)'
  <2>1. x[1] \in DOMAIN records /\ records[x[1]].content = x[2]
    BY DEF StoreInv, Held
  <2> QED
    BY <1>7, <1>8, <2>1 DEF Held
<1>10. StoreInv'
  BY <1>3, <1>7, <1>8, <1>9 DEF StoreInv
<1>11. q.life # "CANDIDATE"
  BY <1>1, <1>5
<1>12. RecordsStand
  BY <1>2, <1>5, <1>7, <1>11 DEF RecordsStand
<1> QED
  BY <1>10, <1>12

\* Every step of learning keeps StoreInv and lets the records stand.
LEMMA StoreInvStep ==
    ASSUME StoreInv, [LearnNext]_lvars PROVE StoreInv' /\ RecordsStand
<1>1. ASSUME UNCHANGED <<records, reported, learner>> PROVE StoreInv' /\ RecordsStand
  BY <1>1, NothingProposed
<1>2. ASSUME NEW n, NEW t, TraceKept(n, t) PROVE UNCHANGED <<records, reported, learner>>
  BY <1>2 DEF TraceKept
<1>3. ASSUME NEW c, Learn(c) PROVE StoreInv' /\ RecordsStand
  <2>1. records' = records /\ reported' = reported
    BY <1>3 DEF Learn
  <2>2. DOMAIN learner' = {"batch", "stored", "produced"} /\ learner'.stored = {}
    BY <1>3 DEF Learn, NoRun
  <2> QED
    BY <2>1, <2>2, NothingProposed
<1>4. CASE ProposeNext
  BY <1>4, ProposeKeeps
<1>5. CASE SinkFails
  BY <1>5, NothingProposed DEF SinkFails, NoRun
<1>6. CASE Tick
  BY <1>1, <1>6 DEF Tick
<1>7. ASSUME NEW id, Promote(id) PROVE StoreInv' /\ RecordsStand
  BY <1>7, PromoteKeeps
<1>8. ASSUME NEW says, NEW f, NEW b, EvaluateBacktest(says, f, b) PROVE UNCHANGED <<records, reported, learner>>
  BY <1>8 DEF EvaluateBacktest, Decide
<1>9. ASSUME NEW f, NEW b, EvaluateCounts(f, b) PROVE UNCHANGED <<records, reported, learner>>
  BY <1>9 DEF EvaluateCounts, Decide
<1>10. ASSUME NEW p, SetPolicy(p) PROVE UNCHANGED <<records, reported, learner>>
  BY <1>10 DEF SetPolicy
<1>11. ASSUME NEW a, Route(a) PROVE UNCHANGED <<records, reported, learner>>
  BY <1>11 DEF Route
<1>12. CASE UNCHANGED lvars
  BY <1>1, <1>12 DEF lvars
<1> QED
  BY <1>1, <1>2, <1>3, <1>4, <1>5, <1>6, <1>7, <1>8, <1>9, <1>10, <1>11, <1>12 DEF LearnNext

\* What Propose reported as stored stays, and a record moves only by Promote,
\* one lifecycle step and one revision at a time (promote.Promoter, Sink.Propose).
THEOREM PromotionStandsHolds == LearnSpec => PromotionStands
<1>1. LearnInit => StoreInv
  <2> SUFFICES ASSUME LearnInit PROVE StoreInv
    OBVIOUS
  <2>1. DOMAIN records = {} /\ reported = {} /\ learner = NoRun
    BY DEF LearnInit
  <2> QED
    BY <2>1 DEF StoreInv, NoRun
<1>2. StoreInv /\ [LearnNext]_lvars => StoreInv'
  BY StoreInvStep
<1>3. StoreInv /\ StoreInv' /\ [LearnNext]_lvars
      => /\ ReportedIsStored'
         /\ \A id \in DOMAIN records :
               /\ id \in DOMAIN records'
               /\ records'[id] # records[id] =>
                     /\ records'[id].rev = records[id].rev + 1
                     /\ records'[id].content = records[id].content
                     /\ records'[id].life # "CANDIDATE"
  <2> SUFFICES ASSUME StoreInv, StoreInv', [LearnNext]_lvars PROVE ReportedIsStored' /\ RecordsStand
    BY DEF RecordsStand
  <2>1. RecordsStand
    BY StoreInvStep
  <2>2. ReportedIsStored'
    BY DEF StoreInv, Held, ReportedIsStored
  <2> QED
    BY <2>1, <2>2
<1> QED
  BY <1>1, <1>2, <1>3, PTL DEF LearnSpec, PromotionStands

----------------------------------------------------------------------------
(* Control plane.                                                          *)

Adopting == {"adoptProject", "adoptWork"}

DefPost(c) ==
    c.op = "define" /\ c.key \in {"team_spec", "routine", "policy_definition"} \X DefIds /\ c.spec \in Specs

\* A handler is idle or at a step of the request it accepted.
Form(x) ==
    \/ x = IdleHandler
    \/ /\ DOMAIN x = {"at", "post", "id", "late"}
       /\ \/ x.at \in {"define", "put", "rename", "add", "store"} /\ DefPost(x.post)
          \/ x.at \in {"project", "adoptProject"} /\ x.post.op = "project"
          \/ x.at \in {"work", "submit", "adoptWork"} /\ x.post.op = "work"

HandlersInv ==
    /\ serving \in BOOLEAN
    /\ DOMAIN handler = Handlers
    /\ \A h \in Handlers : Form(handler[h])
    /\ ~serving => \A h \in Handlers : handler[h] = IdleHandler

\* A definition is on disk, as it was posted unless a handler replaced it, and served.
DefStored(c) == c.key \in DOMAIN defFile /\ (~Overwritten(c.key) => defFile[c.key] = c.spec)
DefServed(c) == c.key \in DOMAIN catalog /\ (~Overwritten(c.key) => catalog[c.key] = c.spec)

\* The same of a request of this process, which was written while it ran.
DefHere(c) == c.key \in DOMAIN defFile /\ (<<c.key, boots>> \notin overwritten => defFile[c.key] = c.spec)

\* What is known of a request for a definition: past the persist, its record is there; and
\* a request that came too late does not get past the first look.
DefAt(x) ==
    /\ x.at \in {"add", "store"} => DefHere(x.post)
    /\ x.at = "define" /\ x.late => \E c \in created : c.op = "define" /\ c.key = x.post.key
    /\ x.at \in {"put", "rename", "add", "store"} => ~x.late

DefInv ==
    /\ \A k \in DOMAIN defFile : defFile[k] \in Specs
    /\ \A k \in DOMAIN catalog :
          /\ catalog[k] \in Specs /\ k \in DOMAIN defFile
          /\ <<k, boots>> \notin overwritten => catalog[k] = defFile[k]
    /\ \A h \in Handlers : DefAt(handler[h])
    /\ \A c \in created : c.op = "define" => DefPost(c) /\ DefStored(c) /\ (serving => DefServed(c))

\* What handlers have written and not yet adopted.
Pending == {handler[h].id : h \in {g \in Handlers : handler[g].at = "adoptWork"}}

WorkOk(n) ==
    /\ workFile[n].project \in projectFile
    /\ \A d \in workFile[n].deps : d \in DOMAIN workFile /\ d < n /\ workFile[d].project = workFile[n].project

\* What is known of a handler's request at each of its steps.
WorkAt(h, x) ==
    /\ x.at \in Adopting <=> stateMu = h
    /\ x.at = "adoptProject" => x.post.id \in projectFile /\ WorkOf(x.post.id) = {}
    /\ x.at \in {"submit", "adoptWork"} => x.post.project \in DOMAIN projects
    /\ x.at = "adoptWork" => x.id \in DOMAIN workFile /\ workFile[x.id] = WorkRecord(x.post)

WorkCreated(c) ==
    /\ c.op = "project" => c.id \in projectFile /\ (serving => c.id \in DOMAIN projects)
    /\ c.op = "work" =>
          /\ c.id \in DOMAIN workFile /\ workFile[c.id] = [project |-> c.project, deps |-> c.deps]
          /\ serving => c.project \in DOMAIN projects /\ c.id \in projects[c.project]

WorkInv ==
    /\ "default" \in projectFile
    /\ \E n \in Nat : DOMAIN workFile = 1 .. n
    /\ \A n \in DOMAIN workFile : WorkOk(n)
    /\ stateMu \in Handlers \cup {NoHandler}
    /\ DOMAIN projects \subseteq projectFile
    /\ \A p \in DOMAIN projects : projects[p] = WorkOf(p) \ Pending
    /\ \A h \in Handlers : WorkAt(h, handler[h])
    /\ \A c \in created : WorkCreated(c)

CpInv == HandlersInv /\ DefInv /\ WorkInv

\* An idle handler has the form of one.
LEMMA IdleAt == Form(IdleHandler) /\ IdleHandler.at = "idle"
BY DEF Form, IdleHandler

\* A handler that moves leaves the others where they were.
LEMMA HandlerMoves ==
    ASSUME HandlersInv, NEW h \in Handlers, serving, serving' = serving, NEW y, Form(y),
           handler' = [handler EXCEPT ![h] = y]
    PROVE  /\ HandlersInv'
           /\ handler'[h] = y /\ \A g \in Handlers : g # h => handler'[g] = handler[g]
BY DEF HandlersInv

\* A busy handler belongs to a process that is serving.
LEMMA BusyServes ==
    ASSUME HandlersInv, NEW h \in Handlers, handler[h].at # "idle" PROVE serving
BY IdleAt DEF HandlersInv

\* An idle handler knows nothing.
LEMMA IdleKnows == DefAt(IdleHandler) /\ DefAt(IdleHandler)'
BY IdleAt DEF DefAt

\* What is known of a request stays as long as the record it wrote does.
LEMMA DefAtStays ==
    ASSUME NEW x, DefAt(x), created \subseteq created', UNCHANGED <<defFile, overwritten, boots>>
    PROVE  DefAt(x)'
BY DEF DefAt, DefHere

\* Steps that change neither the registries nor the records.
LEMMA DefinitionsStay ==
    ASSUME DefInv, NEW h \in Handlers, NEW y, DefAt(y)', serving' = serving,
           handler'[h] = y, \A g \in Handlers : g # h => handler'[g] = handler[g],
           UNCHANGED <<catalog, defFile, overwritten, boots>>, created \subseteq created',
           \A c \in created' : c \in created \/ c.op # "define"
    PROVE  DefInv'
<1>1. ASSUME NEW g \in Handlers PROVE DefAt(handler[g])'
  <2>1. CASE g = h
    BY <2>1
  <2>2. CASE g # h
    <3>1. PICK x : x = handler[g]
      OBVIOUS
    <3>2. DefAt(x)'
      BY <3>1, DefAtStays DEF DefInv
    <3> QED
      BY <2>2, <3>1, <3>2
  <2> QED
    BY <2>1, <2>2
<1>2. \A c \in created' : c.op = "define" => c \in created
  OBVIOUS
<1>3. \A c \in created' : c.op = "define" => DefPost(c) /\ DefStored(c)' /\ (serving' => DefServed(c)')
  BY <1>2 DEF DefInv, DefStored, DefServed, Overwritten
<1> QED
  BY <1>1, <1>3 DEF DefInv, DefPost

\* Steps that neither write a record nor adopt one.
LEMMA WorkStays ==
    ASSUME WorkInv, NEW h \in Handlers, NEW y, serving' = serving,
           handler'[h] = y, \A g \in Handlers : g # h => handler'[g] = handler[g],
           handler[h].at \notin Adopting, y.at \notin Adopting,
           y.at = "submit" => y.post.project \in DOMAIN projects,
           UNCHANGED <<projects, stateMu, projectFile, workFile>>,
           \A c \in created' : c \in created \/ c.op = "define"
    PROVE  WorkInv'
<1>1. \A p : WorkOf(p)' = WorkOf(p)
  BY DEF WorkOf
<1>2. Pending' = Pending
  BY DEF Pending, Adopting
<1>3. \A g \in Handlers : WorkAt(g, handler[g])
  BY DEF WorkInv
<1>4. \A g \in Handlers : WorkAt(g, handler[g])'
  BY <1>1, <1>3 DEF WorkAt, Adopting, WorkRecord
<1>5. \A c \in created' : WorkCreated(c)'
  <2> SUFFICES ASSUME NEW c \in created' PROVE WorkCreated(c)'
    OBVIOUS
  <2>1. CASE c \in created
    BY <2>1 DEF WorkInv, WorkCreated
  <2>2. CASE c.op = "define"
    BY <2>2 DEF WorkCreated
  <2> QED
    BY <2>1, <2>2
<1>6. \A n \in DOMAIN workFile' : WorkOk(n)'
  BY DEF WorkInv, WorkOk
<1>7. \A p \in DOMAIN projects' : projects'[p] = WorkOf(p)' \ Pending'
  BY <1>1, <1>2 DEF WorkInv
<1> QED
  BY <1>4, <1>5, <1>6, <1>7 DEF WorkInv

\* Changing the place of a request.
LEMMA Gone ==
    ASSUME HandlersInv, NEW h \in Handlers, handler[h].at # "idle", NEW place, Goto(h, place)
    PROVE  \E y : /\ handler' = [handler EXCEPT ![h] = y] /\ DOMAIN y = {"at", "post", "id", "late"} /\ y.at = place
                  /\ y.post = handler[h].post /\ y.id = handler[h].id /\ y.late = handler[h].late
<1>1. PICK x, y : x = handler[h] /\ y = [x EXCEPT !.at = place]
  OBVIOUS
<1>2. DOMAIN x = {"at", "post", "id", "late"}
  BY <1>1, IdleAt DEF HandlersInv, Form
<1>3. DOMAIN y = {"at", "post", "id", "late"} /\ y.at = place /\ y.post = x.post /\ y.id = x.id /\ y.late = x.late
  BY <1>1, <1>2
<1>4. handler' = [handler EXCEPT ![h] = y]
  BY <1>1 DEF Goto, HandlersInv
<1> QED
  BY <1>1, <1>3, <1>4

\* Requests that are turned down, of either sort.
LEMMA TurnedDown ==
    ASSUME CpInv, NEW h \in Handlers, handler[h].at \notin Adopting \cup {"idle"}, TurnDown(h),
           UNCHANGED <<serving, catalog, defFile, overwritten, boots>>, UNCHANGED <<projects, stateMu, projectFile, workFile>>
    PROVE  CpInv'
<1>0. HandlersInv /\ DefInv /\ WorkInv
  BY DEF CpInv
<1>1. handler' = [handler EXCEPT ![h] = IdleHandler] /\ created' = created
  BY DEF TurnDown
<1>2. serving
  BY <1>0, BusyServes
<1>3. HandlersInv' /\ handler'[h] = IdleHandler /\ \A g \in Handlers : g # h => handler'[g] = handler[g]
  BY <1>0, <1>1, <1>2, IdleAt, HandlerMoves
<1>4. DefInv'
  BY <1>0, <1>1, <1>3, IdleKnows, DefinitionsStay
<1>5. WorkInv'
  BY <1>0, <1>1, <1>3, IdleAt, WorkStays DEF Adopting
<1> QED
  BY <1>3, <1>4, <1>5 DEF CpInv

\* Requests that go on, with nothing written.
LEMMA GoneOn ==
    ASSUME CpInv, NEW h \in Handlers, NEW place, handler[h].at \notin Adopting \cup {"idle"}, Goto(h, place), created' = created,
           \/ handler[h].at \in {"define", "put", "rename", "add"} /\ place \in {"put", "rename", "add", "store"}
           \/ handler[h].at = "work" /\ place = "submit" /\ handler[h].post.project \in DOMAIN projects,
           place \in {"put", "rename", "add", "store"} => ~handler[h].late,
           place \in {"add", "store"} => DefHere(handler[h].post),
           UNCHANGED <<serving, catalog, defFile, overwritten, boots>>, UNCHANGED <<projects, stateMu, projectFile, workFile>>
    PROVE  CpInv'
<1>0. HandlersInv /\ DefInv /\ WorkInv
  BY DEF CpInv
<1>1. PICK y : /\ handler' = [handler EXCEPT ![h] = y] /\ DOMAIN y = {"at", "post", "id", "late"} /\ y.at = place
               /\ y.post = handler[h].post /\ y.id = handler[h].id /\ y.late = handler[h].late
  BY <1>0, Gone
<1>2. serving
  BY <1>0, BusyServes
<1>3. Form(handler[h])
  BY <1>0 DEF HandlersInv
<1>4. Form(y)
  BY <1>1, <1>3, IdleAt DEF Form
<1>5. HandlersInv' /\ handler'[h] = y /\ \A g \in Handlers : g # h => handler'[g] = handler[g]
  BY <1>0, <1>1, <1>2, <1>4, HandlerMoves
<1>6. WorkInv'
  BY <1>0, <1>1, <1>5, WorkStays DEF Adopting
<1>7. DefAt(y)'
  BY <1>1 DEF DefAt, DefHere
<1>8. DefInv'
  BY <1>0, <1>5, <1>7, DefinitionsStay
<1> QED
  BY <1>5, <1>6, <1>8 DEF CpInv

----------------------------------------------------------------------------
(* Definitions.                                                            *)

\* The looks at the registry and at the record change nothing; a request whose id was
\* given away before it came finds it in the registry.
LEMMA LookUpKeeps ==
    ASSUME CpInv, NEW h \in Handlers, LookUpDefinition(h) \/ PutDefinition(h) \/ AddDefinition(h) PROVE CpInv'
<1>0. HandlersInv /\ DefInv /\ WorkInv
  BY DEF CpInv
<1>1. /\ UNCHANGED <<serving, catalog, defFile, overwritten, boots>> /\ UNCHANGED <<projects, stateMu, projectFile, workFile>>
      /\ handler[h].at \in {"define", "put", "add"}
  BY DEF LookUpDefinition, PutDefinition, AddDefinition, KeepRest
<1>2. handler[h].at \notin Adopting \cup {"idle"}
  BY <1>1 DEF Adopting
<1>3. DefAt(handler[h]) /\ serving
  BY <1>0, <1>2, BusyServes DEF DefInv
<1>4. CASE TurnDown(h)
  BY <1>1, <1>2, <1>4, TurnedDown
<1>5. CASE handler[h].at = "define" /\ handler[h].post.key \notin DOMAIN catalog /\ Goto(h, "put") /\ created' = created
  <2>1. ~handler[h].late
    BY <1>0, <1>3, <1>5 DEF DefAt, DefInv, DefServed
  <2> QED
    BY <1>1, <1>2, <1>5, <2>1, GoneOn
<1>6. CASE handler[h].at = "put" /\ Goto(h, "rename") /\ created' = created
  <2>1. ~handler[h].late
    BY <1>3, <1>6 DEF DefAt
  <2> QED
    BY <1>1, <1>2, <1>6, <2>1, GoneOn
<1>7. CASE /\ handler[h].at = "put" /\ Goto(h, "add") /\ created' = created
           /\ handler[h].post.key \in DOMAIN defFile /\ defFile[handler[h].post.key] = handler[h].post.spec
  <2>1. ~handler[h].late /\ DefHere(handler[h].post)
    BY <1>3, <1>7 DEF DefAt, DefHere
  <2> QED
    BY <1>1, <1>2, <1>7, <2>1, GoneOn
<1>8. CASE handler[h].at = "add" /\ Goto(h, "store") /\ created' = created
  <2>1. ~handler[h].late /\ DefHere(handler[h].post)
    BY <1>3, <1>8 DEF DefAt
  <2> QED
    BY <1>1, <1>2, <1>8, <2>1, GoneOn
<1> QED
  BY <1>4, <1>5, <1>6, <1>7, <1>8 DEF LookUpDefinition, PutDefinition, AddDefinition

\* The rename puts the posted definition in place of what was there.
LEMMA RenameKeeps ==
    ASSUME CpInv, NEW h \in Handlers, RenameDefinition(h) PROVE CpInv'
<1>0. HandlersInv /\ DefInv /\ WorkInv
  BY DEF CpInv
<1>1. PICK post : post = handler[h].post
  OBVIOUS
<1>2. /\ UNCHANGED <<serving, catalog, boots>> /\ UNCHANGED <<projects, stateMu, projectFile, workFile>>
      /\ handler[h].at = "rename" /\ handler[h].at \notin Adopting \cup {"idle"}
  BY DEF RenameDefinition, KeepRest, Adopting
<1>3. CASE TurnDown(h) /\ UNCHANGED <<defFile, overwritten>>
  BY <1>2, <1>3, TurnedDown
<1>4. CASE /\ defFile' = Put(defFile, post.key, post.spec) /\ overwritten' = Replacing(post.key)
           /\ Goto(h, "add") /\ created' = created
  <2>1. PICK y : /\ handler' = [handler EXCEPT ![h] = y] /\ DOMAIN y = {"at", "post", "id", "late"} /\ y.at = "add"
                 /\ y.post = handler[h].post /\ y.id = handler[h].id /\ y.late = handler[h].late
    BY <1>0, <1>2, <1>4, Gone
  <2>2. serving
    BY <1>0, <1>2, BusyServes
  <2>3. Form(handler[h]) /\ DefAt(handler[h])
    BY <1>0 DEF HandlersInv, DefInv
  <2>4. Form(y) /\ DefPost(post)
    BY <1>1, <1>2, <2>1, <2>3, IdleAt DEF Form
  <2>5. HandlersInv' /\ handler'[h] = y /\ \A g \in Handlers : g # h => handler'[g] = handler[g]
    BY <1>0, <1>2, <2>1, <2>2, <2>4, HandlerMoves
  <2>6. WorkInv'
    BY <1>0, <1>2, <1>4, <2>1, <2>5, WorkStays DEF Adopting
  <2>7. /\ DOMAIN defFile' = DOMAIN defFile \cup {post.key} /\ defFile'[post.key] = post.spec
        /\ \A k \in DOMAIN defFile : k # post.key => defFile'[k] = defFile[k]
    BY <1>4 DEF Put
  <2>8. overwritten \subseteq overwritten' /\ (post.key \in DOMAIN defFile => <<post.key, boots>> \in overwritten')
    BY <1>4 DEF Replacing
  <2>9. /\ \A k : Overwritten(k) => Overwritten(k)'
        /\ post.key \in DOMAIN defFile => Overwritten(post.key)'
    <3>1. <<post.key, boots>>[1] = post.key
      OBVIOUS
    <3> QED
      BY <2>8, <3>1 DEF Overwritten
  <2>10. ASSUME NEW c, DefStored(c) PROVE DefStored(c)'
    BY <2>7, <2>9, <2>10 DEF DefStored
  <2>11. ASSUME NEW c, DefServed(c) PROVE DefServed(c)'
    BY <1>2, <2>9, <2>11 DEF DefServed
  <2>12. ASSUME NEW c, DefHere(c) PROVE DefHere(c)'
    BY <1>2, <2>7, <2>8, <2>12 DEF DefHere
  <2>13. DefHere(post)'
    BY <2>7 DEF DefHere
  <2>14. ASSUME NEW g \in Handlers PROVE DefAt(handler[g])'
    <3>1. CASE g = h
      BY <1>1, <1>2, <2>1, <2>3, <2>5, <2>13, <3>1 DEF DefAt
    <3>2. CASE g # h
      <4>1. PICK x : x = handler[g]
        OBVIOUS
      <4>2. DefAt(x)
        BY <1>0, <4>1 DEF DefInv
      <4>3. DefAt(x)'
        BY <1>4, <2>12, <4>2 DEF DefAt
      <4> QED
        BY <2>5, <3>2, <4>1, <4>3
    <3> QED
      BY <3>1, <3>2
  <2>15. \A k \in DOMAIN defFile' : defFile'[k] \in Specs
    BY <1>0, <2>4, <2>7 DEF DefInv, DefPost
  <2>16. \A c \in created : c.op = "define" => DefPost(c) /\ DefStored(c)' /\ (serving => DefServed(c)')
    BY <1>0, <2>10, <2>11 DEF DefInv
  <2>17. ASSUME NEW k \in DOMAIN catalog
         PROVE  /\ catalog[k] \in Specs /\ k \in DOMAIN defFile'
                /\ <<k, boots>> \notin overwritten' => catalog[k] = defFile'[k]
    BY <1>0, <2>7, <2>8 DEF DefInv
  <2>18. DefInv'
    BY <1>2, <1>4, <2>14, <2>15, <2>16, <2>17 DEF DefInv, DefPost
  <2> QED
    BY <2>5, <2>6, <2>18 DEF CpInv
<1> QED
  BY <1>1, <1>3, <1>4 DEF RenameDefinition

\* The registry's map gets the definition, and the client is told.
LEMMA StoreDefinitionKeeps ==
    ASSUME CpInv, NEW h \in Handlers, StoreDefinition(h) PROVE CpInv'
<1>0. HandlersInv /\ DefInv /\ WorkInv
  BY DEF CpInv
<1>1. PICK post : post = handler[h].post
  OBVIOUS
<1>2. /\ UNCHANGED <<serving, defFile, overwritten, boots>> /\ UNCHANGED <<projects, stateMu, projectFile, workFile>>
      /\ handler[h].at = "store" /\ handler[h].at \notin Adopting \cup {"idle"}
  BY DEF StoreDefinition, KeepRest, Adopting
<1>3. catalog' = Put(catalog, post.key, post.spec) /\ Confirm(h, post)
  BY <1>1 DEF StoreDefinition
<1>4. handler' = [handler EXCEPT ![h] = IdleHandler] /\ created' = created \cup {post}
  BY <1>3 DEF Confirm
<1>5. serving
  BY <1>0, <1>2, BusyServes
<1>6. Form(handler[h]) /\ DefAt(handler[h])
  BY <1>0 DEF HandlersInv, DefInv
<1>7. DefPost(post) /\ post.op = "define" /\ DefHere(post)
  BY <1>1, <1>2, <1>6, IdleAt DEF Form, DefPost, DefAt
<1>8. HandlersInv' /\ handler'[h] = IdleHandler /\ \A g \in Handlers : g # h => handler'[g] = handler[g]
  BY <1>0, <1>2, <1>4, <1>5, IdleAt, HandlerMoves
<1>9. WorkInv'
  <2>1. \A c \in created' : c \in created \/ c.op = "define"
    BY <1>4, <1>7
  <2> QED
    BY <2>1, <1>0, <1>2, <1>8, IdleAt, WorkStays DEF Adopting
<1>10. /\ DOMAIN catalog' = DOMAIN catalog \cup {post.key} /\ catalog'[post.key] = post.spec
       /\ \A k \in DOMAIN catalog : k # post.key => catalog'[k] = catalog[k]
  BY <1>3 DEF Put
<1>11. DefStored(post)
  <2>1. <<post.key, boots>>[1] = post.key
    OBVIOUS
  <2> QED
    BY <2>1, <1>7 DEF DefHere, DefStored, Overwritten
<1>12. \A c : DefStored(c) <=> DefStored(c)'
  BY <1>2 DEF DefStored, Overwritten
<1>13. \A k : Overwritten(k)' <=> Overwritten(k)
  BY <1>2 DEF Overwritten
<1>14. ASSUME NEW c, DefStored(c), DefServed(c) \/ c = post PROVE DefServed(c)'
  <2>1. CASE c.key = post.key
    BY <1>10, <1>11, <1>13, <1>14, <2>1 DEF DefServed, DefStored
  <2>2. CASE c.key # post.key
    BY <1>10, <1>13, <1>14, <2>2 DEF DefServed
  <2> QED
    BY <2>1, <2>2
<1>15. \A c \in created' : c.op = "define" => DefPost(c) /\ DefStored(c)' /\ DefServed(c)'
  <2>1. \A c \in created : c.op = "define" => DefPost(c) /\ DefStored(c) /\ DefServed(c)
    BY <1>0, <1>5 DEF DefInv
  <2> QED
    BY <2>1, <1>4, <1>7, <1>11, <1>12, <1>14
<1>16. ASSUME NEW k \in DOMAIN catalog'
       PROVE  /\ catalog'[k] \in Specs /\ k \in DOMAIN defFile
              /\ <<k, boots>> \notin overwritten => catalog'[k] = defFile[k]
  <2>1. CASE k = post.key
    BY <1>7, <1>10, <2>1 DEF DefHere, DefPost
  <2>2. CASE k # post.key
    BY <1>0, <1>10, <2>2 DEF DefInv
  <2> QED
    BY <2>1, <2>2
<1>17. ASSUME NEW g \in Handlers PROVE DefAt(handler[g])'
  <2>1. CASE g = h
    BY <1>8, <2>1, IdleAt DEF DefAt
  <2>2. CASE g # h
    <3>1. PICK x : x = handler[g]
      OBVIOUS
    <3>2. DefAt(x)
      BY <1>0, <3>1 DEF DefInv
    <3>3. DefAt(x)'
      BY <1>2, <1>4, <3>2, DefAtStays
    <3> QED
      BY <1>8, <2>2, <3>1, <3>3
  <2> QED
    BY <2>1, <2>2
<1>18. DefInv'
  BY <1>0, <1>2, <1>15, <1>16, <1>17 DEF DefInv, DefPost
<1> QED
  BY <1>8, <1>9, <1>18 DEF CpInv

----------------------------------------------------------------------------
(* Projects and work packages.                                             *)

\* While nobody holds the mutex nothing is pending; its holder is the only one.
LEMMA Holder ==
    ASSUME WorkInv, ControlPlaneBounds
    PROVE  /\ stateMu = NoHandler => Pending = {} /\ \A g \in Handlers : handler[g].at \notin Adopting
           /\ \A h \in Handlers : handler[h].at \in Adopting => \A g \in Handlers : g # h => handler[g].at \notin Adopting
<1>1. NoHandler \notin Handlers
  BY DEF ControlPlaneBounds, NoHandler
<1>2. \A g \in Handlers : handler[g].at \in Adopting <=> stateMu = g
  BY DEF WorkInv, WorkAt
<1> QED
  BY <1>1, <1>2 DEF Pending, Adopting

\* A project is written under the mutex, before it is adopted.
LEMMA CreateProjectKeeps ==
    ASSUME CpInv, NEW h \in Handlers, CreateProject(h) PROVE CpInv'
<1>0. HandlersInv /\ DefInv /\ WorkInv
  BY DEF CpInv
<1>1. PICK id : id = handler[h].post.id
  OBVIOUS
<1>2. /\ UNCHANGED <<serving, catalog, defFile, overwritten, boots>> /\ projects' = projects /\ workFile' = workFile
      /\ handler[h].at = "project" /\ stateMu = NoHandler
  BY DEF CreateProject, KeepDefinitions
<1>3. handler[h].at \notin Adopting \cup {"idle"}
  BY <1>2 DEF Adopting
<1>4. CASE TurnDown(h) /\ UNCHANGED <<projectFile, stateMu>>
  BY <1>2, <1>3, <1>4, TurnedDown
<1>5. CASE /\ id \notin projectFile /\ projectFile' = projectFile \cup {id} /\ stateMu' = h
           /\ Goto(h, "adoptProject") /\ created' = created
  <2>1. PICK y : /\ handler' = [handler EXCEPT ![h] = y] /\ DOMAIN y = {"at", "post", "id", "late"} /\ y.at = "adoptProject"
                 /\ y.post = handler[h].post /\ y.id = handler[h].id
    BY <1>0, <1>2, <1>5, Gone
  <2>2. serving
    BY <1>0, <1>2, BusyServes
  <2>3. Form(handler[h])
    BY <1>0 DEF HandlersInv
  <2>4. Form(y)
    BY <1>2, <2>1, <2>3, IdleAt DEF Form
  <2>5. HandlersInv' /\ handler'[h] = y /\ \A g \in Handlers : g # h => handler'[g] = handler[g]
    BY <1>0, <1>2, <2>1, <2>2, <2>4, HandlerMoves
  <2>6. DefInv'
    BY <1>0, <1>2, <1>5, <2>1, <2>5, DefinitionsStay DEF DefAt
  <2>7. \A p : WorkOf(p)' = WorkOf(p)
    BY <1>2 DEF WorkOf
  <2>8. WorkOf(id) = {}
    BY <1>0, <1>5 DEF WorkOf, WorkInv, WorkOk
  <2>9. \A g \in Handlers : handler[g].at \notin Adopting
    BY <1>0, <1>2, Holder, ControlPlaneBounds
  <2>10. Pending' = Pending
    BY <2>1, <2>5, <2>9 DEF Pending, Adopting
  <2>11. \A g \in Handlers : WorkAt(g, handler[g])
    BY <1>0 DEF WorkInv
  <2>12. ASSUME NEW g \in Handlers PROVE WorkAt(g, handler[g])'
    <3>1. CASE g = h
      BY <3>1, <1>1, <1>5, <2>1, <2>5, <2>7, <2>8 DEF WorkAt, Adopting
    <3>2. CASE g # h
      BY <3>2, <1>2, <1>5, <2>5, <2>7, <2>9, <2>11 DEF WorkAt, Adopting, WorkRecord
    <3> QED
      BY <3>1, <3>2
  <2>13. \A n \in DOMAIN workFile' : WorkOk(n)'
    BY <1>0, <1>2, <1>5 DEF WorkInv, WorkOk
  <2>14. \A c \in created' : WorkCreated(c)'
    BY <1>0, <1>2, <1>5 DEF WorkInv, WorkCreated
  <2>15. WorkInv'
    <3>1. \A p \in DOMAIN projects' : projects'[p] = WorkOf(p)' \ Pending'
      BY <1>0, <1>2, <2>7, <2>10 DEF WorkInv
    <3> QED
      BY <1>0, <1>2, <1>5, <2>12, <2>13, <2>14, <3>1 DEF WorkInv
  <2> QED
    BY <2>5, <2>6, <2>15 DEF CpInv
<1> QED
  BY <1>1, <1>4, <1>5 DEF CreateProject, OnDisk

\* A written project is adopted, and the client is told.
LEMMA AdoptProjectKeeps ==
    ASSUME CpInv, NEW h \in Handlers, AdoptProject(h) PROVE CpInv'
<1>0. HandlersInv /\ DefInv /\ WorkInv
  BY DEF CpInv
<1>1. PICK post, id : post = handler[h].post /\ id = post.id
  OBVIOUS
<1>2. /\ UNCHANGED <<serving, catalog, defFile, overwritten, boots>> /\ projectFile' = projectFile /\ workFile' = workFile
      /\ handler[h].at = "adoptProject" /\ stateMu' = NoHandler /\ projects' = Put(projects, id, {})
      /\ handler' = [handler EXCEPT ![h] = IdleHandler] /\ created' = created \cup {post}
  BY <1>1 DEF AdoptProject, KeepDefinitions, Confirm
<1>3. serving /\ Form(handler[h])
  BY <1>0, <1>2, BusyServes DEF HandlersInv
<1>4. post.op = "project"
  BY <1>1, <1>2, <1>3, IdleAt DEF Form
<1>5. HandlersInv' /\ handler'[h] = IdleHandler /\ \A g \in Handlers : g # h => handler'[g] = handler[g]
  BY <1>0, <1>2, <1>3, IdleAt, HandlerMoves
<1>6. DefInv'
  <2>1. \A c \in created' : c \in created \/ c.op # "define"
    BY <1>2, <1>4
  <2> QED
    BY <2>1, <1>0, <1>2, <1>5, IdleKnows, DefinitionsStay
<1>7. \A p : WorkOf(p)' = WorkOf(p)
  BY <1>2 DEF WorkOf
<1>8. id \in projectFile /\ WorkOf(id) = {}
  BY <1>0, <1>1, <1>2 DEF WorkInv, WorkAt
<1>9. \A g \in Handlers : g # h => handler[g].at \notin Adopting
  BY <1>0, <1>2, Holder, ControlPlaneBounds DEF Adopting
<1>10. Pending = {} /\ Pending' = {}
  BY <1>2, <1>5, <1>9, IdleAt DEF Pending, Adopting
<1>11. /\ DOMAIN projects' = DOMAIN projects \cup {id} /\ projects'[id] = {}
       /\ \A p \in DOMAIN projects : p # id => projects'[p] = projects[p]
  BY <1>2 DEF Put
<1>12. \A p \in DOMAIN projects' : projects'[p] = WorkOf(p)' \ Pending'
  BY <1>0, <1>7, <1>8, <1>10, <1>11 DEF WorkInv
<1>13. ASSUME NEW g \in Handlers PROVE WorkAt(g, handler[g])'
  <2>0. WorkAt(g, handler[g]) /\ NoHandler # g
    BY <1>0, ControlPlaneBounds DEF WorkInv, NoHandler
  <2>1. CASE g = h
    BY <2>0, <2>1, <1>2, <1>5, IdleAt DEF WorkAt, Adopting
  <2>2. CASE g # h
    BY <2>0, <2>2, <1>2, <1>5, <1>7, <1>9, <1>11 DEF WorkAt, Adopting, WorkRecord
  <2> QED
    BY <2>1, <2>2
<1>14. ASSUME NEW c \in created' PROVE WorkCreated(c)'
  <2>1. CASE c = post
    BY <2>1, <1>1, <1>2, <1>4, <1>8, <1>11 DEF WorkCreated
  <2>2. CASE c \in created
    <3>1. WorkCreated(c)
      BY <2>2, <1>0 DEF WorkInv
    <3>2. ASSUME c.op = "work" PROVE c.id \in projects'[c.project] /\ c.project \in DOMAIN projects'
      <4>1. c.project \in DOMAIN projects /\ c.id \in projects[c.project]
        BY <3>1, <3>2, <1>3 DEF WorkCreated
      <4>2. c.id \in WorkOf(c.project)
        BY <4>1, <1>0 DEF WorkInv
      <4>3. c.project # id
        BY <4>2, <1>8
      <4> QED
        BY <4>1, <4>3, <1>11
    <3> QED
      BY <3>1, <3>2, <1>2, <1>3, <1>11 DEF WorkCreated
  <2> QED
    BY <2>1, <2>2, <1>2
<1>15. \A n \in DOMAIN workFile' : WorkOk(n)'
  BY <1>0, <1>2 DEF WorkInv, WorkOk
<1>16. WorkInv'
  BY <1>0, <1>2, <1>8, <1>11, <1>12, <1>13, <1>14, <1>15 DEF WorkInv
<1> QED
  BY <1>5, <1>6, <1>16 DEF CpInv

\* A handler finds the project of its work package, or answers that there is none.
LEMMA FindKeeps ==
    ASSUME CpInv, NEW h \in Handlers, FindProject(h) PROVE CpInv'
<1>1. /\ UNCHANGED <<serving, catalog, defFile, overwritten, boots>> /\ UNCHANGED <<projects, stateMu, projectFile, workFile>>
      /\ handler[h].at = "work"
  BY DEF FindProject, KeepDefinitions
<1>2. handler[h].at \notin Adopting \cup {"idle"}
  BY <1>1 DEF Adopting
<1>3. CASE TurnDown(h)
  BY <1>1, <1>2, <1>3, TurnedDown
<1>4. CASE handler[h].post.project \in DOMAIN projects /\ Goto(h, "submit") /\ created' = created
  BY <1>1, <1>2, <1>4, GoneOn
<1> QED
  BY <1>3, <1>4 DEF FindProject

\* A work package is written under the mutex with the next id.
LEMMA SubmitKeeps ==
    ASSUME CpInv, NEW h \in Handlers, SubmitWorkPackage(h) PROVE CpInv'
<1>0. HandlersInv /\ DefInv /\ WorkInv
  BY DEF CpInv
<1>1. PICK post, id : post = handler[h].post /\ id = Cardinality(DOMAIN workFile) + 1
  OBVIOUS
<1>2. /\ UNCHANGED <<serving, catalog, defFile, overwritten, boots>> /\ projects' = projects /\ projectFile' = projectFile
      /\ handler[h].at = "submit" /\ stateMu = NoHandler
  BY DEF SubmitWorkPackage, KeepDefinitions
<1>3. handler[h].at \notin Adopting \cup {"idle"}
  BY <1>2 DEF Adopting
<1>4. CASE TurnDown(h) /\ UNCHANGED <<workFile, stateMu>>
  BY <1>2, <1>3, <1>4, TurnedDown
<1>5. CASE /\ KnownDependencies(post) /\ workFile' = Put(workFile, id, WorkRecord(post)) /\ stateMu' = h
           /\ handler' = [handler EXCEPT ![h].at = "adoptWork", ![h].id = id] /\ created' = created
  <2>1. serving /\ Form(handler[h])
    BY <1>0, <1>2, BusyServes DEF HandlersInv
  <2>2. PICK x, y : x = handler[h] /\ y = [[x EXCEPT !.at = "adoptWork"] EXCEPT !.id = id]
    OBVIOUS
  <2>3. DOMAIN x = {"at", "post", "id", "late"} /\ x.post.op = "work"
    BY <1>2, <2>1, <2>2, IdleAt DEF Form
  <2>4. DOMAIN y = {"at", "post", "id", "late"} /\ y.at = "adoptWork" /\ y.post = post /\ y.id = id
    BY <1>1, <2>2, <2>3
  <2>5. handler' = [handler EXCEPT ![h] = y]
    BY <1>0, <1>5, <2>2 DEF HandlersInv
  <2>6. Form(y)
    BY <1>1, <2>2, <2>3, <2>4 DEF Form
  <2>7. HandlersInv' /\ handler'[h] = y /\ \A g \in Handlers : g # h => handler'[g] = handler[g]
    BY <1>0, <1>2, <2>1, <2>5, <2>6, HandlerMoves
  <2>8. DefInv'
    BY <1>0, <1>2, <1>5, <2>4, <2>7, DefinitionsStay DEF DefAt
  <2>9. PICK n \in Nat : DOMAIN workFile = 1 .. n
    BY <1>0 DEF WorkInv
  <2>10. id = n + 1 /\ id \notin DOMAIN workFile /\ \A d \in DOMAIN workFile : d < id
    <3>1. Cardinality(1 .. n) = n
      BY FS_Interval
    <3> QED
      BY <1>1, <2>9, <3>1
  <2>11. /\ DOMAIN workFile' = DOMAIN workFile \cup {id} /\ workFile'[id] = WorkRecord(post)
         /\ \A d \in DOMAIN workFile : workFile'[d] = workFile[d]
    BY <1>5, <2>10 DEF Put
  <2>12. WorkRecord(post).project = post.project /\ WorkRecord(post).deps = post.deps
    BY DEF WorkRecord
  <2>13. \A p : WorkOf(p)' = IF p = post.project THEN WorkOf(p) \cup {id} ELSE WorkOf(p)
    BY <2>10, <2>11, <2>12 DEF WorkOf
  <2>14. post.project \in DOMAIN projects
    BY <1>0, <1>1, <1>2 DEF WorkInv, WorkAt
  <2>15. Pending = {} /\ \A g \in Handlers : handler[g].at \notin Adopting
    BY <1>0, <1>2, Holder, ControlPlaneBounds
  <2>16. Pending' = {id}
    BY <2>4, <2>7, <2>15 DEF Pending, Adopting
  <2>17. \A p \in DOMAIN projects : projects[p] = WorkOf(p) /\ id \notin WorkOf(p)
    BY <1>0, <2>10, <2>15 DEF WorkInv, WorkOf
  <2>18. \A p \in DOMAIN projects' : projects'[p] = WorkOf(p)' \ Pending'
    BY <1>2, <2>13, <2>16, <2>17
  <2>19. \A d \in post.deps : d \in DOMAIN workFile /\ workFile[d].project = post.project
    BY <1>5, <2>14, <2>17 DEF KnownDependencies, WorkOf
  <2>20. post.project \in projectFile
    BY <1>0, <2>14 DEF WorkInv
  <2>21. ASSUME NEW d \in DOMAIN workFile' PROVE WorkOk(d)'
    <3>1. CASE d = id
      BY <3>1, <1>2, <2>10, <2>11, <2>12, <2>19, <2>20 DEF WorkOk
    <3>2. CASE d \in DOMAIN workFile
      <4>1. WorkOk(d)
        BY <3>2, <1>0 DEF WorkInv
      <4> QED
        BY <4>1, <3>2, <1>2, <2>11 DEF WorkOk
    <3> QED
      BY <3>1, <3>2, <2>11
  <2>22. ASSUME NEW g \in Handlers PROVE WorkAt(g, handler[g])'
    <3>1. CASE g = h
      BY <3>1, <1>2, <1>5, <2>4, <2>7, <2>11, <2>14 DEF WorkAt, Adopting, WorkRecord
    <3>2. CASE g # h
      <4>1. handler'[g] = handler[g] /\ handler[g].at \notin Adopting /\ WorkAt(g, handler[g])
        BY <3>2, <1>0, <2>7, <2>15 DEF WorkInv
      <4> QED
        BY <3>2, <4>1, <1>2, <1>5 DEF WorkAt, Adopting
    <3> QED
      BY <3>1, <3>2
  <2>23. ASSUME NEW c \in created' PROVE WorkCreated(c)'
    <3>1. WorkCreated(c)
      BY <1>0, <1>5 DEF WorkInv
    <3> QED
      BY <3>1, <1>2, <2>11 DEF WorkCreated
  <2>24. \E m \in Nat : DOMAIN workFile' = 1 .. m
    <3>1. DOMAIN workFile' = 1 .. (n + 1)
      BY <2>9, <2>10, <2>11
    <3> QED
      BY <3>1
  <2>25. WorkInv'
    BY <1>0, <1>2, <1>5, <2>18, <2>21, <2>22, <2>23, <2>24, <2>20, <2>14 DEF WorkInv
  <2> QED
    BY <2>7, <2>8, <2>25 DEF CpInv
<1> QED
  BY <1>1, <1>4, <1>5 DEF SubmitWorkPackage

\* A written work package is adopted, and the client is told.
LEMMA AdoptWorkKeeps ==
    ASSUME CpInv, NEW h \in Handlers, AdoptWork(h) PROVE CpInv'
<1>0. HandlersInv /\ DefInv /\ WorkInv
  BY DEF CpInv
<1>1. PICK post, id, p : post = handler[h].post /\ id = handler[h].id /\ p = post.project
  OBVIOUS
<1>2. PICK new : new = [op |-> "work", project |-> p, deps |-> post.deps, id |-> id]
  OBVIOUS
<1>3. /\ UNCHANGED <<serving, catalog, defFile, overwritten, boots>> /\ projectFile' = projectFile /\ workFile' = workFile
      /\ handler[h].at = "adoptWork" /\ stateMu' = NoHandler /\ projects' = [projects EXCEPT ![p] = @ \cup {id}]
      /\ handler' = [handler EXCEPT ![h] = IdleHandler] /\ created' = created \cup {new}
  BY <1>1, <1>2 DEF AdoptWork, KeepDefinitions, Confirm, ExtendGraph
<1>4. new.op = "work" /\ new.project = p /\ new.deps = post.deps /\ new.id = id
  BY <1>2
<1>5. serving
  BY <1>0, <1>3, BusyServes
<1>6. HandlersInv' /\ handler'[h] = IdleHandler /\ \A g \in Handlers : g # h => handler'[g] = handler[g]
  BY <1>0, <1>3, <1>5, IdleAt, HandlerMoves
<1>7. DefInv'
  <2>1. \A c \in created' : c \in created \/ c.op # "define"
    BY <1>3, <1>4
  <2> QED
    BY <2>1, <1>0, <1>3, <1>6, IdleKnows, DefinitionsStay
<1>8. \A q : WorkOf(q)' = WorkOf(q)
  BY <1>3 DEF WorkOf
<1>9. p \in DOMAIN projects /\ id \in DOMAIN workFile /\ workFile[id] = WorkRecord(post)
  BY <1>0, <1>1, <1>3 DEF WorkInv, WorkAt
<1>10. workFile[id].project = p /\ workFile[id] = [project |-> p, deps |-> post.deps]
  BY <1>1, <1>9 DEF WorkRecord
<1>11. \A g \in Handlers : g # h => handler[g].at \notin Adopting
  BY <1>0, <1>3, Holder, ControlPlaneBounds DEF Adopting
<1>12. Pending = {id} /\ Pending' = {}
  BY <1>1, <1>3, <1>6, <1>11, IdleAt DEF Pending, Adopting
<1>13. /\ DOMAIN projects' = DOMAIN projects /\ projects'[p] = projects[p] \cup {id}
       /\ \A q \in DOMAIN projects : q # p => projects'[q] = projects[q]
  BY <1>3, <1>9
<1>14. \A q : id \in WorkOf(q) <=> q = p
  BY <1>9, <1>10 DEF WorkOf
<1>15. ASSUME NEW q \in DOMAIN projects' PROVE projects'[q] = WorkOf(q)' \ Pending'
  <2>1. projects[q] = WorkOf(q) \ {id}
    BY <1>0, <1>12, <1>13 DEF WorkInv
  <2> QED
    BY <2>1, <1>8, <1>12, <1>13, <1>14
<1>16. ASSUME NEW g \in Handlers PROVE WorkAt(g, handler[g])'
  <2>0. WorkAt(g, handler[g]) /\ NoHandler # g
    BY <1>0, ControlPlaneBounds DEF WorkInv, NoHandler
  <2>1. CASE g = h
    BY <2>0, <2>1, <1>3, <1>6, IdleAt DEF WorkAt, Adopting
  <2>2. CASE g # h
    BY <2>0, <2>2, <1>3, <1>6, <1>8, <1>11, <1>13 DEF WorkAt, Adopting, WorkRecord
  <2> QED
    BY <2>1, <2>2
<1>17. ASSUME NEW c \in created' PROVE WorkCreated(c)'
  <2>1. CASE c = new
    BY <2>1, <1>3, <1>4, <1>9, <1>10, <1>13 DEF WorkCreated
  <2>2. CASE c \in created
    <3>1. WorkCreated(c)
      BY <2>2, <1>0 DEF WorkInv
    <3> QED
      BY <3>1, <1>3, <1>13 DEF WorkCreated
  <2> QED
    BY <2>1, <2>2, <1>3
<1>18. \A n \in DOMAIN workFile' : WorkOk(n)'
  BY <1>0, <1>3 DEF WorkInv, WorkOk
<1>19. WorkInv'
  BY <1>0, <1>3, <1>13, <1>15, <1>16, <1>17, <1>18 DEF WorkInv
<1> QED
  BY <1>6, <1>7, <1>19 DEF CpInv

----------------------------------------------------------------------------
(* The process.                                                            *)

\* A step that changes no variable of the control plane.
LEMMA NothingHappens ==
    ASSUME CpInv, UNCHANGED <<serving, catalog, projects, stateMu, defFile, projectFile, workFile, handler, created, overwritten, boots>>
    PROVE  CpInv'
<1>2. HandlersInv'
  BY DEF CpInv, HandlersInv
<1>3. DefInv'
  BY DEF CpInv, DefInv, DefStored, DefServed, DefPost, DefAt, DefHere, Overwritten
<1>4. /\ \A p : WorkOf(p)' = WorkOf(p) 
      /\ Pending' = Pending
  BY DEF WorkOf, Pending
<1>5. \A h \in Handlers : WorkAt(h, handler[h])'
  BY <1>4 DEF CpInv, WorkInv, WorkAt, WorkRecord
<1>6. \A c \in created' : WorkCreated(c)'
  BY DEF CpInv, WorkInv, WorkCreated
<1>7. \A n \in DOMAIN workFile' : WorkOk(n)'
  BY DEF CpInv, WorkInv, WorkOk
<1>8. WorkInv'
  BY <1>4, <1>5, <1>6, <1>7 DEF CpInv, WorkInv
<1> QED
  BY <1>2, <1>3, <1>8 DEF CpInv

\* Accepting a request moves one idle handler.
LEMMA AcceptKeeps ==
    ASSUME CpInv, NEW h \in Handlers,
           NEW post \in TeamPosts \cup RoutinePosts \cup PolicyPosts \cup ProjectPosts \cup WorkPosts, Accept(h, post)
    PROVE  CpInv'
<1>0. HandlersInv /\ DefInv /\ WorkInv
  BY DEF CpInv
<1>1. /\ UNCHANGED <<serving, catalog, defFile, overwritten, boots>> /\ UNCHANGED <<projects, stateMu, projectFile, workFile>>
      /\ created' = created /\ serving /\ handler[h] = IdleHandler
  BY DEF Accept, memoryOfProcess, filesOfProcess
<1>2. CASE handler' = handler
  BY <1>1, <1>2, NothingHappens
<1>3. CASE handler' = [handler EXCEPT ![h] = [at |-> post.op, post |-> post, id |-> 0, late |-> Late(post)]]
  <2>0. PICK late : late = Late(post)
    OBVIOUS
  <2>1. PICK y : y = [at |-> post.op, post |-> post, id |-> 0, late |-> late]
    OBVIOUS
  <2>2. DOMAIN y = {"at", "post", "id", "late"} /\ y.at = post.op /\ y.post = post /\ y.late = late
    BY <2>1
  <2>3. DefPost(post) \/ post.op = "project" \/ post.op = "work"
    BY DEF TeamPosts, RoutinePosts, PolicyPosts, ProjectPosts, WorkPosts, DefPost
  <2>4. Form(y) /\ y.at \in {"define", "project", "work"}
    BY <2>2, <2>3 DEF Form, DefPost
  <2>5. HandlersInv' /\ handler'[h] = y /\ \A g \in Handlers : g # h => handler'[g] = handler[g]
    BY <1>0, <1>1, <1>3, <2>0, <2>1, <2>4, HandlerMoves
  <2>6. DefInv'
    <3>1. DefAt(y)'
      BY <1>1, <2>0, <2>2, <2>4 DEF DefAt, Late, CreatedDefinitions
    <3> QED
      BY <1>0, <1>1, <2>5, <3>1, DefinitionsStay
  <2>7. WorkInv'
    BY <1>0, <1>1, <2>4, <2>5, IdleAt, WorkStays DEF Adopting
  <2> QED
    BY <2>5, <2>6, <2>7 DEF CpInv
<1> QED
  BY <1>2, <1>3 DEF Accept

\* The process stops: its handlers and its memory are gone, its files stay.
LEMMA StopKeeps ==
    ASSUME CpInv, Stop PROVE CpInv'
<1>0. HandlersInv /\ DefInv /\ WorkInv
  BY DEF CpInv
<1>1. /\ serving' = FALSE /\ stateMu' = NoHandler /\ DOMAIN catalog' = {} /\ DOMAIN projects' = {}
      /\ handler' = [h \in Handlers |-> IdleHandler]
      /\ UNCHANGED <<defFile, projectFile, workFile, created, overwritten>>
  BY DEF Stop, filesOfProcess
<1>2. HandlersInv'
  BY <1>1, IdleAt DEF HandlersInv
<1>3. \A h \in Handlers : handler'[h] = IdleHandler /\ handler'[h].at = "idle"
  BY <1>1, IdleAt
<1>4. DefInv'
  <2>1. \A c : DefStored(c)' <=> DefStored(c)
    BY <1>1 DEF DefStored, Overwritten
  <2> QED
    BY <1>0, <1>1, <1>3, <2>1 DEF DefInv, DefPost, DefAt
<1>5. \A h \in Handlers : WorkAt(h, handler[h])'
  BY <1>1, <1>3, ControlPlaneBounds DEF WorkAt, Adopting, NoHandler
<1>6. \A c \in created' : WorkCreated(c)'
  BY <1>0, <1>1 DEF WorkInv, WorkCreated
<1>7. \A n \in DOMAIN workFile' : WorkOk(n)'
  BY <1>0, <1>1 DEF WorkInv, WorkOk
<1>8. WorkInv'
  BY <1>0, <1>1, <1>5, <1>6, <1>7 DEF WorkInv
<1> QED
  BY <1>2, <1>4, <1>8 DEF CpInv

\* The process is built from its files.
LEMMA BuildKeeps ==
    ASSUME CpInv, Build PROVE CpInv'
<1>0. HandlersInv /\ DefInv /\ WorkInv
  BY DEF CpInv
<1>1. /\ ~serving /\ serving' = TRUE /\ catalog' = defFile /\ projectFile' = projectFile \cup {"default"}
      /\ projects' = [p \in projectFile' |-> WorkOf(p)]
      /\ UNCHANGED <<stateMu, defFile, workFile, handler, created, overwritten, boots>>
  BY DEF Build, LoadDefinitions, EnsureProject, cpBounds
<1>2. projectFile' = projectFile
  BY <1>0, <1>1 DEF WorkInv
<1>3. \A h \in Handlers : handler[h] = IdleHandler /\ handler[h].at = "idle"
  BY <1>0, <1>1, IdleAt DEF HandlersInv
<1>4. HandlersInv'
  BY <1>0, <1>1 DEF HandlersInv
<1>5. DefInv'
  <2>1. \A c : DefStored(c) => DefStored(c)' /\ DefServed(c)'
    BY <1>1 DEF DefStored, DefServed, Overwritten
  <2> QED
    BY <1>0, <1>1, <1>3, <2>1 DEF DefInv, DefPost, DefAt
<1>6. DOMAIN projects' = projectFile /\ \A p \in projectFile : projects'[p] = WorkOf(p)
  BY <1>1, <1>2
<1>7. \A p : WorkOf(p)' = WorkOf(p)
  BY <1>1 DEF WorkOf
<1>8. Pending' = {}
  BY <1>1, <1>3 DEF Pending
<1>9. \A h \in Handlers : WorkAt(h, handler[h])'
  <2>1. \A h \in Handlers : stateMu # h
    BY <1>0, <1>3 DEF WorkInv, WorkAt, Adopting
  <2> QED
    BY <2>1, <1>1, <1>3 DEF WorkAt, Adopting
<1>10. ASSUME NEW c \in created' PROVE WorkCreated(c)'
  <2>1. WorkCreated(c)
    BY <1>0, <1>1 DEF WorkInv
  <2>2. ASSUME c.op = "work" PROVE c.project \in projectFile /\ c.id \in WorkOf(c.project)
    <3>1. c.id \in DOMAIN workFile /\ workFile[c.id] = [project |-> c.project, deps |-> c.deps]
      BY <2>1, <2>2 DEF WorkCreated
    <3>2. workFile[c.id].project = c.project
      BY <3>1
    <3>3. WorkOk(c.id)
      BY <3>1, <1>0 DEF WorkInv
    <3> QED
      BY <3>1, <3>2, <3>3 DEF WorkOk, WorkOf
  <2> QED
    BY <2>1, <2>2, <1>1, <1>2, <1>6 DEF WorkCreated
<1>11. \A n \in DOMAIN workFile' : WorkOk(n)'
  BY <1>0, <1>1, <1>2 DEF WorkInv, WorkOk
<1>12. \A p \in DOMAIN projects' : projects'[p] = WorkOf(p)' \ Pending'
  BY <1>6, <1>7, <1>8
<1>13. WorkInv'
  BY <1>0, <1>1, <1>2, <1>6, <1>9, <1>10, <1>11, <1>12 DEF WorkInv
<1> QED
  BY <1>4, <1>5, <1>13 DEF CpInv

\* The invariant holds at the start.
LEMMA CpInvInit ==
    ASSUME ControlPlaneInit PROVE CpInv
<1>1. /\ serving = TRUE /\ stateMu = NoHandler /\ DOMAIN catalog = {} /\ DOMAIN defFile = {} /\ created = {}
      /\ projects = [p \in {"default"} |-> {}] /\ projectFile = {"default"} /\ DOMAIN workFile = {}
      /\ handler = [h \in Handlers |-> IdleHandler]
  BY DEF ControlPlaneInit
<1>2. \A h \in Handlers : handler[h] = IdleHandler /\ handler[h].at = "idle"
  BY <1>1, IdleAt
<1>3. HandlersInv
  BY <1>1, <1>2, IdleAt DEF HandlersInv
<1>4. DefInv
  BY <1>1, <1>2 DEF DefInv, DefAt
<1>5. \A p : WorkOf(p) = {}
  BY <1>1 DEF WorkOf
<1>6. \A h \in Handlers : WorkAt(h, handler[h])
  BY <1>1, <1>2, ControlPlaneBounds DEF WorkAt, Adopting, NoHandler
<1>7. \E n \in Nat : DOMAIN workFile = 1 .. n
  <2>1. DOMAIN workFile = 1 .. 0
    BY <1>1
  <2> QED
    BY <2>1
<1>8. WorkInv
  BY <1>1, <1>5, <1>6, <1>7 DEF WorkInv
<1> QED
  BY <1>3, <1>4, <1>8 DEF CpInv

\* Every step of the control plane keeps the invariant.
LEMMA CpInvStep ==
    ASSUME CpInv, [ControlPlaneNext]_cpvars PROVE CpInv'
<1>1. ASSUME NEW h \in Handlers, NEW post \in TeamPosts \cup RoutinePosts \cup PolicyPosts \cup ProjectPosts \cup WorkPosts, Accept(h, post)
      PROVE  CpInv'
  BY <1>1, AcceptKeeps
<1>2. ASSUME NEW h \in Handlers, LookUpDefinition(h) \/ PutDefinition(h) \/ AddDefinition(h) PROVE CpInv'
  BY <1>2, LookUpKeeps
<1>3. ASSUME NEW h \in Handlers, RenameDefinition(h) PROVE CpInv'
  BY <1>3, RenameKeeps
<1>4. ASSUME NEW h \in Handlers, StoreDefinition(h) PROVE CpInv'
  BY <1>4, StoreDefinitionKeeps
<1>5. ASSUME NEW h \in Handlers, CreateProject(h) PROVE CpInv'
  BY <1>5, CreateProjectKeeps
<1>6. ASSUME NEW h \in Handlers, AdoptProject(h) PROVE CpInv'
  BY <1>6, AdoptProjectKeeps
<1>7. ASSUME NEW h \in Handlers, FindProject(h) PROVE CpInv'
  BY <1>7, FindKeeps
<1>8. ASSUME NEW h \in Handlers, SubmitWorkPackage(h) PROVE CpInv'
  BY <1>8, SubmitKeeps
<1>9. ASSUME NEW h \in Handlers, AdoptWork(h) PROVE CpInv'
  BY <1>9, AdoptWorkKeeps
<1>10. CASE Stop
  BY <1>10, StopKeeps
<1>11. CASE Build
  BY <1>11, BuildKeeps
<1>12. CASE UNCHANGED cpvars
  BY <1>12, NothingHappens DEF cpvars, memoryOfProcess, filesOfProcess, cpBounds
<1> QED
  BY <1>1, <1>2, <1>3, <1>4, <1>5, <1>6, <1>7, <1>8, <1>9, <1>10, <1>11, <1>12 DEF ControlPlaneNext

----------------------------------------------------------------------------
(* What the invariant says of a client's view.                             *)

\* Every set of naturals that is not empty has a least element.
LEMMA Least ==
    ASSUME NEW S \in SUBSET Nat, S # {}
    PROVE  \E n \in S : \A m \in S : n <= m
<1>1. PICK n \in S : \A m \in S : ~(<<m, n>> \in OpToRel(<, Nat))
  BY NatLessThanWellFounded, WFMin
<1>2. \A m \in S : ~(m < n)
  BY <1>1 DEF OpToRel
<1> QED
  BY <1>2

\* A package depends on earlier ones of its project only, so that the graph of
\* every project has no cycle and no missing node.
LEMMA DiskLoads ==
    ASSUME WorkInv PROVE Loadable
<1>1. \A n \in DOMAIN workFile : WorkOk(n) /\ n \in Nat
  BY DEF WorkInv
<1>2. ASSUME NEW p \in projectFile PROVE ValidGraph(WorkOf(p))
  <2>1. ASSUME NEW n \in WorkOf(p) PROVE workFile[n].deps \subseteq WorkOf(p) \ {n} /\ n \in Nat
    BY <1>1 DEF WorkOf, WorkOk
  <2>2. ASSUME NEW loop \in (SUBSET WorkOf(p)) \ {{}} PROVE \E n \in loop : workFile[n].deps \cap loop = {}
    <3>1. loop \in SUBSET Nat /\ loop # {}
      BY <2>1
    <3>2. PICK n \in loop : \A m \in loop : n <= m
      BY <3>1, Least
    <3>3. \A d \in workFile[n].deps : d \in Nat /\ d < n
      BY <1>1 DEF WorkOf, WorkOk
    <3>4. n \in Nat
      BY <3>1
    <3>5. \A d \in workFile[n].deps : d \notin loop
      BY <3>2, <3>3, <3>4
    <3> QED
      BY <3>5
  <2> QED
    BY <2>1, <2>2 DEF ValidGraph
<1> QED
  BY <1>1, <1>2 DEF Loadable, WorkOk

\* The invariant implies what clients rely on.
LEMMA InvKeepsCreated ==
    ASSUME CpInv PROVE CreatedIsKept
<1>0. HandlersInv /\ DefInv /\ WorkInv
  BY DEF CpInv
<1>1. Loadable
  BY <1>0, DiskLoads
<1>2. ASSUME NEW c \in CreatedDefinitions, NEW d \in CreatedDefinitions, c.key = d.key, c.spec # d.spec
      PROVE  Overwritten(c.key)
  BY <1>0, <1>2 DEF DefInv, CreatedDefinitions, DefStored
<1>3. ASSUME serving, NEW c \in CreatedDefinitions
      PROVE  /\ ServedAs(c.key) # "not found"
             /\ ~Overwritten(c.key) => ServedAs(c.key) = c.spec /\ defFile[c.key] = c.spec
             /\ ServedAs(c.key) # defFile[c.key] => <<c.key, boots>> \in overwritten
  <2>1. DefPost(c) /\ DefStored(c) /\ DefServed(c)
    BY <1>0, <1>3 DEF DefInv, CreatedDefinitions
  <2>2. PICK kind \in {"team_spec", "routine", "policy_definition"}, id \in DefIds : c.key = <<kind, id>>
    BY <2>1 DEF DefPost
  <2>3. ServedAs(c.key) = Lookup(c.key)
    <3>1. c.key[1] = kind /\ c.key[2] = id
      BY <2>2
    <3> QED
      BY <2>2, <3>1 DEF ServedAs, Team, Routine, Policy
  <2>4. Lookup(c.key) = catalog[c.key] /\ catalog[c.key] \in Specs
    BY <1>0, <2>1 DEF Lookup, DefServed, DefInv
  <2>5. catalog[c.key] # "not found"
    BY <2>4, ControlPlaneBounds
  <2>6. <<c.key, boots>> \notin overwritten => catalog[c.key] = defFile[c.key]
    BY <1>0, <2>1 DEF DefServed, DefInv
  <2> QED
    BY <2>1, <2>3, <2>4, <2>5, <2>6 DEF DefStored, DefServed
<1>6. DefinitionsKept
  <2>1. \A h \in Handlers : handler[h].at \in {"rename", "store"} => ~handler[h].late
    BY <1>0 DEF DefInv, DefAt
  <2>2. \A c \in CreatedDefinitions : c.key \in DOMAIN defFile
    BY <1>0 DEF DefInv, CreatedDefinitions, DefStored
  <2> QED
    BY <1>2, <1>3, <2>1, <2>2 DEF DefinitionsKept
<1>4. ASSUME serving
      PROVE  /\ \A c \in created : c.op = "project" => c.id \in DOMAIN projects
             /\ \A c \in created : c.op = "work" =>
                   c.id \in Graph(c.project) /\ workFile[c.id] = [project |-> c.project, deps |-> c.deps]
  BY <1>0, <1>4 DEF WorkInv, WorkCreated, Graph
<1>5. stateMu = NoHandler => \A p \in DOMAIN projects : Graph(p) = WorkList(p)
  <2>1. stateMu = NoHandler => Pending = {}
    BY <1>0, Holder, ControlPlaneBounds
  <2> QED
    BY <1>0, <2>1 DEF WorkInv, Graph, WorkList
<1> QED
  BY <1>1, <1>4, <1>5, <1>6 DEF CreatedIsKept

\* What a client was told exists stays served and on disk, through concurrent
\* handlers, failing writes and restarts, and the process can always be built from
\* its files; where requests for one id overlapped and both were told 201, a record
\* was renamed over another one (LookUpDefinition to StoreDefinition, Build).
THEOREM CreatedIsKeptHolds == ControlPlaneSpec => []CreatedIsKept
<1>1. ControlPlaneInit => CpInv
  BY CpInvInit
<1>2. CpInv /\ [ControlPlaneNext]_cpvars => CpInv'
  BY CpInvStep
<1>3. CpInv => CreatedIsKept
  BY InvKeepsCreated
<1> QED
  BY <1>1, <1>2, <1>3, PTL DEF ControlPlaneSpec

============================================================================
