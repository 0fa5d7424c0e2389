------------------------------- MODULE Forge -------------------------------
(***************************************************************************)
(* A development phase driven over a forge: the Manager of                 *)
(* src/forge/lifecycle (StartPhase, CreateChildIssue, OpenChildPR,         *)
(* Checkpoint, Audit, Release, CompletePhase), the forge itself with its   *)
(* idempotency table (src/forge/fake), the records a phase leaves in       *)
(* memory (src/forge/memsync) and the rpc service beside the manager       *)
(* (src/forge/rpc).                                                        *)
(*                                                                         *)
(* A call of the manager is a list of steps.  Each step is one operation   *)
(* of the forge, atomic under its mutex, or one delivery to memory; any of *)
(* them may fail, and the caller may stop between two.  Whoever called may *)
(* call again, and so may somebody else at the same time.                  *)
(*                                                                         *)
(* One repository, one phase.  Branches, titles, commits and tags are      *)
(* names; a key of the idempotency table is the operation with the names   *)
(* it is derived from.  Objects that are never updated are their entry in  *)
(* the table; issues and pull requests live in tables of their own, and    *)
(* the entry keeps the number they were given.                             *)
(***************************************************************************)
EXTENDS Integers, Sequences, FiniteSets

CONSTANTS
    Managers,     \* callers of the lifecycle manager
    Requests,     \* requests under way at the rpc service
    RpcPosts,     \* what a request may say: method, idempotency key, name and version
    Children,     \* branches of child pull requests
    Titles,       \* titles of child issues
    Commits,      \* commits a phase is completed at
    MaxForgeCalls,  \* bound on calls of the manager
    MaxForgeFaults  \* bound on failing operations, failing deliveries and stops

ASSUME ForgeBounds == MaxForgeCalls \in Nat /\ MaxForgeFaults \in Nat

\* A caller of the rpc service uses an idempotency key again only to repeat its
\* request.
ASSUME PostsAssumption ==
    \A p, q \in RpcPosts : p.key # "" /\ p.key = q.key /\ p.method = q.method => p.name = q.name

VARIABLES
    idem,       \* Fake.idem: key -> the object first created under it
    issue,      \* Fake.issues by number
    pull,       \* Fake.pulls by number
    audit,      \* Fake.audits: the result recorded for the phase, or NoName
    sink,       \* what memory holds: issues and checkpoints
    running,        \* the calls under way
    told,       \* the calls each manager was told have succeeded
    req,        \* the rpc requests
    rpcCache,   \* Service.cache: method and idempotency key -> answer
    fcalls, ffaults

forgeState == <<idem, issue, pull, audit, sink>>
managerState == <<running, told, fcalls>>
rpcState == <<req, rpcCache>>
fvars == <<forgeState, managerState, rpcState, ffaults>>

NoName == "none"
Phase == "phase"          \* the phase branch ph{N}-{scope}; also its folder
Main == "main"            \* Repository.DefaultBranch
Tracking == "tracking"    \* the title of the tracking issue and the phase PR

NoJob == [call |-> NoName, todo |-> <<>>, branch |-> NoName, base |-> NoName, title |-> NoName,
          commit |-> NoName, findings |-> {}, actor |-> FALSE, issue |-> 0, pr |-> 0]

NoRequest == [at |-> "new"]

ForgeInit ==
    /\ idem = <<>> /\ issue = <<>> /\ pull = <<>> /\ audit = NoName /\ sink = {}
    /\ running = [m \in Managers |-> NoJob] /\ told = [m \in Managers |-> {}]
    /\ req = [r \in Requests |-> NoRequest]
    /\ rpcCache = <<>>
    /\ fcalls = 0 /\ ffaults = 0

----------------------------------------------------------------------------
(* The forge.  An operation whose key is known returns the object it       *)
(* created the first time.                                                 *)

RepoKey == <<"repository.create">>
BranchKey(b) == <<"branch.create", b>>
MilestoneKey == <<"milestone.create", Phase>>
IssueKey(t) == <<"issue.create", t>>
PullKey(head, base, t) == <<"pull.open", head, base, t>>
CheckpointKey(commit) == <<"checkpoint.create", Phase, commit>>
ReleaseKey(tag) == <<"release.create", tag>>
AuditKey == <<"audit.record", Phase>>

Known(key) == key \in DOMAIN idem

\* A table with one more entry.
With(table, key, value) == [k \in DOMAIN table \cup {key} |-> IF k = key THEN value ELSE table[k]]

RepoExists == Known(RepoKey)

\* CreateRepository, CreateBranch, CreateMilestone, CreateCheckpoint,
\* CreateRelease: replay, or record the object under its key.
RecordUnder(key) ==
    /\ idem' = IF Known(key) THEN idem ELSE With(idem, key, 1)
    /\ UNCHANGED <<issue, pull, audit, sink>>

CreateRepository == RecordUnder(RepoKey)
CreateBranch(b) == RepoExists /\ RecordUnder(BranchKey(b))
CreateMilestone == RepoExists /\ RecordUnder(MilestoneKey)
CreateCheckpoint(commit) == RecordUnder(CheckpointKey(commit))
CreateRelease(tag) == RecordUnder(ReleaseKey(tag))

\* CreateIssue without the lookup of its key.
CreateIssue_Anew(t, num) ==
    /\ RepoExists
    /\ num = Len(issue) + 1
    /\ issue' = Append(issue, [title |-> t, state |-> "open"])
    /\ idem' = With(idem, IssueKey(t), num)
    /\ UNCHANGED <<pull, audit, sink>>

\* CreateIssue, idempotent by title; num is the number it answers.
CreateIssue(t, num) ==
    /\ RepoExists
    /\ IF Known(IssueKey(t))
       THEN num = idem[IssueKey(t)] /\ UNCHANGED forgeState
       ELSE /\ num = Len(issue) + 1
            /\ issue' = Append(issue, [title |-> t, state |-> "open"])
            /\ idem' = With(idem, IssueKey(t), num)
            /\ UNCHANGED <<pull, audit, sink>>

\* UpdateIssue: the mutable fields, here the state.
UpdateIssue(num) ==
    /\ num \in DOMAIN issue
    /\ issue' = [issue EXCEPT ![num].state = "closed"]
    /\ UNCHANGED <<idem, pull, audit, sink>>

Pull(head, base, t, state, draft) == [head |-> head, base |-> base, title |-> t, state |-> state, draft |-> draft]

\* PullRequest.Validate: a title, a head and a base, and the two differ.
ValidPull(head, base) == head # base

\* OpenPullRequest without the lookup of its key.
OpenPullRequest_Anew(head, base, t, draft, num) ==
    /\ RepoExists
    /\ ValidPull(head, base)
    /\ num = Len(pull) + 1
    /\ pull' = Append(pull, Pull(head, base, t, "open", draft))
    /\ idem' = With(idem, PullKey(head, base, t), num)
    /\ UNCHANGED <<issue, audit, sink>>

\* OpenPullRequest, idempotent by head, base and title.
OpenPullRequest(head, base, t, draft, num) ==
    LET key == PullKey(head, base, t)
    IN  /\ RepoExists
        /\ ValidPull(head, base)
        /\ IF Known(key)
           THEN num = idem[key] /\ UNCHANGED forgeState
           ELSE /\ num = Len(pull) + 1
                /\ pull' = Append(pull, Pull(head, base, t, "open", draft))
                /\ idem' = With(idem, key, num)
                /\ UNCHANGED <<issue, audit, sink>>

\* UpdatePullRequest with Draft: false; a merged pull request is refused.
CanUpdate(num) == num \in DOMAIN pull /\ pull[num].state # "merged"
UpdatePullRequest(num) ==
    /\ CanUpdate(num)
    /\ pull' = [pull EXCEPT ![num].draft = FALSE]
    /\ UNCHANGED <<idem, issue, audit, sink>>

\* MergePullRequest: fails closed without an approving actor; merging what is
\* merged answers the same.
MergePullRequest(num, approved) ==
    /\ num \in DOMAIN pull
    /\ approved
    /\ pull' = [pull EXCEPT ![num] = Pull(@.head, @.base, @.title, "merged", FALSE)]
    /\ UNCHANGED <<idem, issue, audit, sink>>

\* SeverityRank: lower is more severe.
SeverityRank(s) == CASE s = "P0" -> 0 [] s = "P1" -> 1 [] s = "P2" -> 2 [] s = "P3" -> 3 [] OTHER -> 4

\* deriveResult over the severities of the findings.
deriveResult(findings) ==
    IF \E s \in findings : SeverityRank(s) <= 1 THEN "not_ready"
    ELSE IF \E s \in findings : SeverityRank(s) = 2 THEN "ready_with_conditions" ELSE "ready"

\* RecordAudit, idempotent by phase: a second audit answers the first.
RecordAudit(findings) ==
    /\ RepoExists
    /\ IF Known(AuditKey) THEN UNCHANGED forgeState
       ELSE /\ audit' = deriveResult(findings)
            /\ idem' = With(idem, AuditKey, 1)
            /\ UNCHANGED <<issue, pull, sink>>

\* SyncIssue and SyncCheckpoint: the mapped record is put into memory.
Deliver(record) == sink' = sink \cup {record} /\ UNCHANGED <<idem, issue, pull, audit>>

----------------------------------------------------------------------------
(* The manager.                                                            *)

StartSteps == <<"repository", "branch", "milestone", "issue", "syncIssue", "pull">>

\* CompletePhase that merges before it records the checkpoint.
CompleteSteps_MergeFirst == <<"ready", "merge", "checkpoint", "syncCheckpoint">>

CompleteSteps == <<"checkpoint", "syncCheckpoint", "ready", "merge">>

StartPhase == [NoJob EXCEPT !.call = "start", !.todo = StartSteps, !.branch = Phase, !.base = Main, !.title = Tracking]
CreateChildIssue(t) == [NoJob EXCEPT !.call = "childIssue", !.todo = <<"issue", "syncIssue">>, !.title = t]
OpenChildPR(b) == [NoJob EXCEPT !.call = "childPR", !.todo = <<"branch", "pull">>, !.branch = b, !.base = Phase, !.title = b]
Checkpoint(commit) == [NoJob EXCEPT !.call = "checkpoint", !.todo = <<"checkpoint", "syncCheckpoint">>, !.commit = commit]
Audit(findings) == [NoJob EXCEPT !.call = "audit", !.todo = <<"audit">>, !.findings = findings]
Release(tag) == [NoJob EXCEPT !.call = "release", !.todo = <<"release">>, !.commit = tag]
CompletePhase(commit, actor, pr) ==
    [NoJob EXCEPT !.call = "complete", !.todo = CompleteSteps, !.commit = commit, !.actor = actor, !.pr = pr]

Started(m) == "start" \in {c.call : c \in told[m]}

\* What a manager may call: everything but StartPhase takes the phase that
\* StartPhase returned.  CompletePhase returns at once without an actor.
ManagerCalls(m) ==
    {StartPhase} \cup
    (IF ~Started(m) THEN {}
     ELSE {CreateChildIssue(t) : t \in Titles} \cup {OpenChildPR(b) : b \in Children \cup {Phase}}
          \cup {Checkpoint(c) : c \in Commits} \cup {Release(c) : c \in Commits}
          \cup {Audit(f) : f \in {{"P1", "P3"}, {"P2"}, {}}}
          \cup {CompletePhase(c, a, idem[PullKey(Phase, Main, Tracking)]) : c \in Commits, a \in BOOLEAN})

ManagerCall(m, j) ==
    /\ running[m] = NoJob
    /\ fcalls < MaxForgeCalls
    /\ fcalls' = fcalls + 1
    /\ running' = IF j.call = "complete" /\ ~j.actor THEN running ELSE [running EXCEPT ![m] = j]
    /\ UNCHANGED <<forgeState, told, rpcState, ffaults>>

At(m, step) == running[m].todo # <<>> /\ Head(running[m].todo) = step

\* A step is done; the call that has no more of them returns its result.
Advance(m, j) ==
    LET left == [j EXCEPT !.todo = Tail(@)]
    IN  /\ running' = [running EXCEPT ![m] = IF left.todo = <<>> THEN NoJob ELSE left]
        /\ told' = IF left.todo = <<>> THEN [told EXCEPT ![m] = @ \cup {[call |-> j.call, commit |-> j.commit]}] ELSE told
        /\ UNCHANGED <<fcalls, rpcState, ffaults>>

RepositoryStep(m) == At(m, "repository") /\ CreateRepository /\ Advance(m, running[m])
BranchStep(m) == At(m, "branch") /\ CreateBranch(running[m].branch) /\ Advance(m, running[m])
MilestoneStep(m) == At(m, "milestone") /\ CreateMilestone /\ Advance(m, running[m])
IssueStep(m) ==
    /\ At(m, "issue")
    /\ \E num \in 1 .. Len(issue) + 1 :
          CreateIssue(running[m].title, num) /\ Advance(m, [running[m] EXCEPT !.issue = num])
SyncIssueStep(m) == At(m, "syncIssue") /\ Deliver(<<"issue", running[m].issue>>) /\ Advance(m, running[m])
PullStep(m) ==
    /\ At(m, "pull")
    /\ \E num \in 1 .. Len(pull) + 1 :
          OpenPullRequest(running[m].branch, running[m].base, running[m].title, running[m].call = "start", num) /\ Advance(m, running[m])
CheckpointStep(m) == At(m, "checkpoint") /\ CreateCheckpoint(running[m].commit) /\ Advance(m, running[m])
SyncCheckpointStep(m) == At(m, "syncCheckpoint") /\ Deliver(<<"checkpoint", running[m].commit>>) /\ Advance(m, running[m])
ReadyStep(m) == At(m, "ready") /\ UpdatePullRequest(running[m].pr) /\ Advance(m, running[m])
MergeStep(m) == At(m, "merge") /\ MergePullRequest(running[m].pr, running[m].actor) /\ Advance(m, running[m])
AuditStep(m) == At(m, "audit") /\ RecordAudit(running[m].findings) /\ Advance(m, running[m])
ReleaseStep(m) == At(m, "release") /\ CreateRelease(running[m].commit) /\ Advance(m, running[m])

\* An operation that its precondition refuses ends the call with an error.
Refused(m) ==
    /\ \/ At(m, "ready") /\ ~CanUpdate(running[m].pr)
       \/ At(m, "pull") /\ ~ValidPull(running[m].branch, running[m].base)
    /\ running' = [running EXCEPT ![m] = NoJob]
    /\ UNCHANGED <<forgeState, told, fcalls, rpcState, ffaults>>

\* An operation or a delivery fails (Inject, a sink that is not there), the
\* context is cancelled or the caller stops: the call ends, what it did stays.
Fails(m) ==
    /\ running[m] # NoJob
    /\ ffaults < MaxForgeFaults
    /\ ffaults' = ffaults + 1
    /\ running' = [running EXCEPT ![m] = NoJob]
    /\ UNCHANGED <<forgeState, told, fcalls, rpcState>>

\* The last operation of a call took effect and its answer never arrived.
AnswerLost(m) ==
    /\ ffaults < MaxForgeFaults
    /\ At(m, "merge")
    /\ MergePullRequest(running[m].pr, running[m].actor)
    /\ ffaults' = ffaults + 1
    /\ running' = [running EXCEPT ![m] = NoJob]
    /\ UNCHANGED <<told, fcalls, rpcState>>

\* The tracking issue is closed on the forge.
CloseIssue ==
    /\ \E num \in DOMAIN issue : issue[num].state = "open" /\ issue[num].title = Tracking /\ UpdateIssue(num)
    /\ UNCHANGED <<managerState, rpcState, ffaults>>

----------------------------------------------------------------------------
(* The rpc service: createIssue, openPullRequest, checkpoint and release.  *)

RpcKeep == UNCHANGED <<managerState, ffaults>>

\* A supported major of the RPC and of the contract.
compatible(post) == post.major = 1

\* The cache is kept by method and key; a request without a key is not cached.
NoKey == ""
CacheKey(post) == <<post.method, post.key>>
Cached(post) == post.key # NoKey /\ CacheKey(post) \in DOMAIN rpcCache

\* Handle: an incompatible request and an unknown method are refused; a known
\* key is answered from the cache; other requests go on without the mutex.
RpcHandle(r, post) ==
    /\ req[r] = NoRequest
    /\ req' = [req EXCEPT ![r] =
           IF ~compatible(post) THEN [at |-> "error", post |-> post]
           ELSE IF Cached(post) THEN [at |-> "answered", post |-> post, answer |-> rpcCache[CacheKey(post)]]
           ELSE IF post.method \notin {"createIssue", "openPullRequest", "checkpoint", "release"}
                THEN [at |-> "error", post |-> post]
           ELSE [at |-> "dispatch", post |-> post]]
    /\ UNCHANGED <<rpcCache, forgeState>> /\ RpcKeep

\* The entry of the forge's table that a request is about.
RequestedKey(post) ==
    IF post.method = "createIssue" THEN IssueKey(post.name)
    ELSE IF post.method = "openPullRequest" THEN PullKey(post.name, Main, post.name)
    ELSE IF post.method = "checkpoint" THEN CheckpointKey(post.name) ELSE ReleaseKey(post.name)

\* The four operations; num is the number of the object they return.
RpcCreateIssue(post, num) == post.method = "createIssue" /\ CreateIssue(post.name, num)
RpcOpenPullRequest(post, num) == post.method = "openPullRequest" /\ OpenPullRequest(post.name, Main, post.name, FALSE, num)
RpcCheckpoint(post, num) == post.method = "checkpoint" /\ num = 1 /\ CreateCheckpoint(post.name)
RpcRelease(post, num) == post.method = "release" /\ num = 1 /\ CreateRelease(post.name)

\* errResponseFrom: the operation failed, here for want of the repository; the
\* error is not cached.
RpcFails(post) == post.method \in {"createIssue", "openPullRequest"} /\ ~RepoExists /\ UNCHANGED forgeState

RpcDispatch(r) ==
    LET post == req[r].post
    IN  /\ req[r].at = "dispatch"
        /\ \/ \E num \in 1 .. Len(issue) + Len(pull) + 1 :
                 /\ \/ RpcCreateIssue(post, num) \/ RpcOpenPullRequest(post, num)
                    \/ RpcCheckpoint(post, num) \/ RpcRelease(post, num)
                 /\ req' = [req EXCEPT ![r] = [at |-> IF post.key = NoKey THEN "answered" ELSE "store",
                                               post |-> post, answer |-> <<RequestedKey(post), num>>]]
           \/ RpcFails(post) /\ req' = [req EXCEPT ![r] = [at |-> "error", post |-> post]]
        /\ UNCHANGED rpcCache /\ RpcKeep

\* The answer is cached under the key and returned.
RpcStore(r) ==
    /\ req[r].at = "store"
    /\ rpcCache' = With(rpcCache, CacheKey(req[r].post), req[r].answer)
    /\ req' = [req EXCEPT ![r].at = "answered"]
    /\ UNCHANGED forgeState /\ RpcKeep

ManagerNext(m) ==
    \/ \E j \in ManagerCalls(m) : ManagerCall(m, j)
    \/ RepositoryStep(m) \/ BranchStep(m) \/ MilestoneStep(m)
    \/ IssueStep(m) \/ SyncIssueStep(m) \/ PullStep(m)
    \/ CheckpointStep(m) \/ SyncCheckpointStep(m) \/ ReadyStep(m) \/ MergeStep(m)
    \/ AuditStep(m) \/ ReleaseStep(m)
    \/ Refused(m) \/ Fails(m) \/ AnswerLost(m)

RpcNext(r) == (\E post \in RpcPosts : RpcHandle(r, post)) \/ RpcDispatch(r) \/ RpcStore(r)

ForgeNext ==
    \/ \E m \in Managers : ManagerNext(m)
    \/ CloseIssue
    \/ \E r \in Requests : RpcNext(r)

ForgeSpec == ForgeInit /\ [][ForgeNext]_fvars

----------------------------------------------------------------------------
PhasePulls == {n \in DOMAIN pull : pull[n].head = Phase /\ pull[n].title = Tracking}

\* However often, by whomever and after whatever failure StartPhase is
\* repeated, the phase has one tracking issue and one pull request, and who was
\* told that it started finds all it promises: branch, milestone, the issue in
\* memory too, and the pull request ("Every step is idempotent").
StartedOnce ==
    /\ Cardinality({n \in DOMAIN issue : issue[n].title = Tracking}) <= 1
    /\ Cardinality(PhasePulls) <= 1
    /\ (\E m \in Managers : Started(m)) =>
          /\ Known(BranchKey(Phase)) /\ Known(MilestoneKey)
          /\ PhasePulls # {}
          /\ <<"issue", idem[IssueKey(Tracking)]>> \in sink

\* The phase pull request stays a draft until a phase is completed, and is
\* merged only by somebody, after a checkpoint that memory knows of
\* (CompletePhase: "merges it through the human gate").
MergedIsRecorded ==
    \A n \in PhasePulls :
        /\ pull[n].state = "merged" => ~pull[n].draft
        /\ (pull[n].state = "merged" \/ ~pull[n].draft) =>
              \E c \in Commits : Known(CheckpointKey(c)) /\ <<"checkpoint", c>> \in sink

\* An answer names the object the forge keeps for what was asked, and all answers
\* to requests of one method under one key name the same one, although the cache is
\* asked and filled in separate critical sections and managers work on the same
\* forge meanwhile (Service.Handle; "the callee returns the original result").
OneAnswerPerKey ==
    \A r, s \in Requests : req[r].at = "answered" /\ req[s].at = "answered" =>
        /\ req[r].answer = <<RequestedKey(req[r].post), idem[RequestedKey(req[r].post)]>>
        /\ req[r].post.key # NoKey /\ CacheKey(req[r].post) = CacheKey(req[s].post) => req[r].answer = req[s].answer
============================================================================
