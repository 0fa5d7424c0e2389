# Verification of aa

TLA+ models of the core of aa, the TLC runs that check them on small instances
and the TLAPS proofs that hold for every instance. Paths are relative to the
repository root (`src/`). Each definition that models code is tied to its lines
in `PROJECT.json` (`map`), which also lists every component (`components`), what
is hard to test in the code (`hazards`) and where code and documentation
disagree (`findings`).

Contents: [inventory](#1-inventory) · [modules](#2-modules-and-the-code) ·
[runs](#3-runs) · [bounds](#4-bounds) · [fairness](#5-fairness) ·
[proofs](#6-proofs) · [not modelled](#7-not-modelled) · [plan](#8-plan).

## 1. Inventory

aa is one Go process (`app`) that composes independent modules, plus a Python
inference service. The parts that carry logic of their own:

| Component | State | Operations | Hard behaviour | What makes it correct |
|---|---|---|---|---|
| `kernel/scheduler` with `kernel/allocator/planner`, `kernel/gate`, `runtime/intake` | project graph, attempts, assignments, results, gate decisions, intake ledger, durable records | `Dispatch`, `Run`, `dispatchOne`, `Approve`, `Reject`, `Resolve`, `Restore` | the lock is released between picking a package and starting it and while the adapter runs; one goroutine per package of a batch; cancellation; failing durable writes; retries | dependency order; accepted work was judged by every gate on its own result; a retry follows a failure only; the report tells the truth; `Run` returns |
| `app/internal/projectstate` | the same on disk, and approvals | `SubmitWork`, `RecordApproval`, `New` | a stop between any two durable steps; restart | nothing is accepted without a recorded approval of the attempt that was waiting; a decision takes effect; a restart keeps the work |
| control plane and `app` (`build`, handlers, definitions) with `registry/teams`, `routines`, `policies` | registries without a mutex, projects and graphs in memory, record files | posts of definitions, projects, work packages; `build` from disk | overlapping requests, writes that fail, a stop between file and memory | what was answered as created is served, before and after restarts; the disk always loads |
| `obsv/journal` | event index, subscriptions with bounded channels, JSONL file | `Append`, `Subscribe`, `Close`, `OpenFile` | delivery outside the lock, slow subscribers, a close that races with sends, failed and torn writes, reopening | each event once, drops counted, producers never wait, nothing acknowledged is lost or renumbered |
| `obsv` runtime, `transport`, `emit`, `codex`, `report` and obsplane | runtimes and journals per session, emitter counters, a bounded buffer | `Ensure`, `Dial`, `Emit`, `IngestCodex`, `Report`, `Drain`, `Close` | two lock domains for one session table; `Close` in the middle of a call; a batch that fails half way | one journal per session, none left open; counters agree with the journals |
| `visualizer` and visplane | a bridge's events and frames, cursors, timelines | `Follow`, `Timeline`, `Sessions`, `Browse`, `Seek` | deliveries out of order, lost or repeated; retention | the live graph equals the replay; timelines only grow and end in the present |
| `runtime/lifecycle` | worker records, controls, bounded event log | `Run`, `Begin`, `End`, `Stop`, `Terminate` | requests race with the adapter's return | an accepted request decides the end and brings it about |
| `sync/distribute`, `sync/transfer`, `sync/transport`, `sync/rpc` | receipts, stored payloads, idempotency cache, one inbox per node | `Handle`, `Distribute`, `FetchArtifact`, `Publish`, `Serve`, chunked transfer | dropped and refused sends, expiry, sessions that share an inbox, equal requests at once | only whole payloads are kept, under the right id; an undisturbed call delivers |
| `sync/queue`, `sync/revision`, syncplane | queued changes, revision sets | `Publish`, `Pending`, `Reconcile`, `Diff`, `Apply` | changes late, repeated, reordered; deletions | the newest record wins at every replica, whatever the order; a replica never goes back |
| `memory/store`, `memory/repo`, `memory/projection` | record files with revisions, event log, projection | `PutRecord`, `AppendEvent`, `Propose`, `Transition`, `Supersede`, `Rebuild` | crash between file and projection or between two files; writes cut short | lifecycle followed, no revision goes back, projection equals records, acknowledged events are kept once |
| `toolbox/host`, `toolbox/rpc`, `toolbox/workflow` | invocation cache, in-flight table, saved run state | `Invoke`, `Handle`, `Compile`, `Run`, resume | callers joining a call, eviction, revocation, resume after a stop | one effect per key; answers belong to their request; a resumed run repeats nothing that was done |
| `forge/lifecycle`, `forge/fake`, `forge/memsync`, `forge/rpc` | issues, pull requests, audits, the forge's and the service's idempotency tables | `StartPhase`, `CreateChildIssue`, `OpenChildPR`, `Checkpoint`, `Audit`, `Release`, `CompletePhase`, `Handle` | a step fails or its answer is lost and the phase is repeated, by two callers at once | a repeated phase ends as if done once; nothing is merged without its record |
| `kernel/joblearn` | traces, candidates, proposed records, the evidence gate | learning runs, `Propose`, `Promote`, `Evaluate`, `SetPolicy`, `Route` | runs repeated over growing evidence, a sink that fails half way, an outage of the predictor | nothing is replaced or promoted by itself; learned routing is enabled on evidence only |
| allocators, context compiler, `contracts`, `registry/models` and `roles` | tables | pure functions and validation | boundaries of scores and limits | agreement with a reference definition |
| `ui`, sandbox, inference | views, HTTP, child processes | rendering and I/O | — | — |

How they interact: the control plane's HTTP handlers call `projectstate`, which
owns a scheduler for each project and is its durable sink (every state change of
a package or assignment is written through `memory/repo`). The scheduler calls
the planner graph and the gates under its mutex, the adapter outside it, the
intake service with each result, and the lifecycle manager as begin/end hook.
Lifecycle events, tool calls and session events are emitted into the journals of
the observation plane; the visualizer subscribes to them. `sync` moves packages
and artifacts between nodes over a wire with one inbox per node, and lists of
changes by any road. The forge manager delivers issues and checkpoints to memory,
and learning runs read traces from memory and propose records to it.

## 2. Modules and the code

| Module | Models | State and steps |
|---|---|---|
| `Scheduler` | `kernel/scheduler`, planner `Ready`, gates, intake | A goroutine in `dispatchOne` is `picked` (chosen, lock free), `running` (adapter, outside the lock) or `returned` (outcome in `Run`'s channel). One action is one critical section of the scheduler mutex: `Dispatch`, `RunStart`, `RunBatch`, `RunReceive`, `RunReturn` for the callers; `Refuse`, `Start`, `AdapterError`, `CollectInvalid`, `Collect` for the exits of `dispatchOne`; `Approve`, `Reject`, `Resolve`. Durable writes happen in the action that makes them and may fail for the packages in `Unreliable`. |
| `ProjectState` | `app/internal/projectstate` composed with `Scheduler` (EXTENDS) | `SubmitWork`; `RecordApproval` in its three steps `SaveDecision`, `ApplyDecision`, `ResolveDecision`; `Restart` rebuilds memory from the records as `New` does, between any two steps. |
| `ControlPlane` | `app/main.go`, `app/definitions.go`, `controlplane`, `registry` | a request of a handler as its steps: for a definition the registry lookup, the check of `PutRecord`, `RenameDefinition`, and the look (`AddDefinition`) and the write (`StoreDefinition`) of `Registry.Add`, which no mutex joins; for a project or package the file and its adoption, under the mutex of `projectstate`. `Stop` anywhere, `Build` reads the files back and refuses a graph that does not validate. |
| `Journal` | `obsv/journal` (`Memory` and `File`) | `Append` as assign, one non-blocking delivery per subscriber, write and return; `Subscribe` as registration and one step per backlog send; `Subscription.Close` and `Close` with the flag and the channel in separate steps; `OpenFile` in `Restart`. |
| `AppendLog` | the promise of a durable journal | an abstract append-only log under increasing sequences; `Journal` implements it through `FileIsAppendLog` (`log <- file`). |
| `Observation` | `obsv` runtime, `transport`, `emit`, `protocol`, `codex`, `report`, obsplane | one step per critical section of the manager, the transport, the plane, the emitter or a journal, for goroutines in `Emit`, `IngestCodex` and `Report`; `Dial`; `CloseManager`, `CloseHost`, `CloseJournal` for `Close`; `BufferAppend` and `Drain` for the buffer. |
| `Visualizer` | `visualizer/adapter`, `source`, `session`, `replay`, `bridge`, `browse`, `retention`, visplane | pure operators from observations to contract events (`ToContract`), graphs (`Project`), frames (`BuildFrames`, `Trim`) and summaries; steps `Journaled`, `Follow`, `Consume`, `Unfollow`, `OpenCursor`, `Seek`, `Timeline`, `Remember`, `Browse`. |
| `WorkerLifecycle` | `runtime/lifecycle` | the path of a run (`Instantiate` … `LastTransition`) with the adapter's return, and the two halves of `Stop`/`Terminate`: flags under the lock (`Signal`), cancellation after it (`Cancel`). |
| `Distribution` | `sync/distribute`, `sync/transfer`, `sync/transport`, `sync/rpc` | one step per `Send`, `Receive` or critical section, for requests of `Handle` with and without a key, for callers of `Distribute` and `FetchArtifact` and for sessions of `Peer.Serve`. |
| `Replica` | `sync/queue`, `sync/revision`, syncplane | `PublishRecord`, `HandOut` (`Pending`) and `Reconcile` of any union of lists handed out so far. |
| `MemoryStore` | `memory/store`, `memory/repo`, `memory/projection` | a call is: reads up to the check of `PutRecord`, `Rename`, `Project`; `Supersede` goes through this twice. Proposals carry what their caller says they supersede (`Pointers`); `IngestRecords` writes records of any kind as they come (`Incoming`), to the store only. `AppendEvent` is one step under the store's mutex with four outcomes of the write. `Crash` and `Open` at any point. |
| `Forge` | `forge/lifecycle`, `forge/fake`, `forge/memsync`, `forge/rpc` | a call of the manager is a list of steps, each one operation of the forge or one delivery to memory; each may be refused, fail, or be done with its answer lost. A request of the rpc service is lookup, dispatch and store. |
| `JobLearn` | `kernel/joblearn` | `TraceKept`; a learning run loads, scores and derives candidates (`Generate`, `Distill`) in one step and proposes them one by one (`ProposeNext`, `SinkFails`); `Promote`; `EvaluateBacktest`, `EvaluateCounts`, `SetPolicy`, `Route`; `Tick` for the second the records are stamped with. |
| `ToolHost` | `toolbox/host`, policy and registry as one grant per tool | one activation of `Invoke` per call: `Deny`, `RunUnkeyed`, `Replay`, `Join`, `Conflict`, `Lead` for the outcomes of policy and lookup, `ProviderReturns` with `StoreLocked`, `JoinReturns`/`JoinExpires` for the select of a joined call; `Revoke`. |
| `ToolRpc` | `toolbox/rpc` over `ToolHost` (EXTENDS) | `Handle` in its arrivals (`HandleIncompatible`, `HandleLeads`, `HandleJoins`, `HandleConflict`, `HandleSingle`), the goroutine's end (`Publish`) and the two ways out of `waitForResponse`; `DirectInvoke` for Go callers beside it. |
| `Workflow` | `toolbox/workflow` | `Compile`; `RunBegin` from the caller's state, one step per runner, gate or compensator call, the returns, `Panics`, a stop within `Run` (`RunStops`) and an edited workflow (`Edit`). |
| `MCScheduler`, `MCProjectState`, `MCJournal`, `MCDistribution`, `MCMemoryStore`, `MCWorkflow`, `MCJobLearn` | — | values for TLC. |
| `MCCore`, `MCPlanes`, `MCServices`, `MCViews`, `MCTransport` | parts of the application that share no state | a behaviour is one of a single part, chosen by the variable `plane` at the start, while the others rest: state spaces add up instead of multiplying. |
| `Tables` | Go maps and directories of records | `Put`, shared by `JobLearn` and `ControlPlane`. |
| `SchedulerProofs`, `ProjectStateProofs`, `MemoryStoreProofs`, `RuntimeProofs` (tools, workers), `SyncProofs` (distribution, replicas), `ServicesProofs` (forge, learning, control plane), `ObservationProofs` (journal, observation, visualizer), `WorkflowProofs` | — | theorems, section 6. |

Definitions named `X_Something` beside a definition `X` are variants of it with a
plausible bug; no specification uses them. `PROJECT.json` (`mutants`) pairs each
checked property with the variant that breaks it.

Data are abstracted to what the properties tell apart. Package ids are numbers
because the planner orders ready packages by id; an assignment is its package and
attempt, as its id is; a result is its attempt and whether the tests passed; a
journal event is its sequence and the append it came from; a payload chunk is its
object and index, and its hash matches a manifest exactly when the object does; a
record file is revision, state, pointer and a body, and two hashes are equal when
these are; a key of the forge's table is the operation with the names it is derived
from; scores are thousandths and means are compared by cross-multiplication; node
and worker ids are numbers where their order breaks ties.

Assumptions about callers, as the code has them:

* `Scheduler.Overlap = FALSE`: nobody starts `Run` or `Dispatch` while goroutines
  of an earlier call are in flight. `kernel/api` guarantees it by holding its
  mutex over a call. With `Overlap = TRUE` (in `services`) the scheduler is used as
  a bare library.
* `MemoryStore.Free`: one record is written by one call at a time, which
  `projectstate` guarantees with its mutex. The store itself takes no lock; the
  definitions of the control plane, whose writers may meet, are in `ControlPlane`.
* `ControlPlane`: accesses to a registry's map that overlap in time stop the
  process (Go's runtime detects them), which `Stop` covers; accesses one after the
  other do not. So two posts of one id whose looks both come before either write are
  both answered 201, perhaps for different specifications: each passes the check of
  `PutRecord` (`memory/store/store.go:85`) before the other's rename and the look of
  `Registry.Add` before the other's write. From then on memory and disk may differ;
  the next start serves the record. `overwritten` is the history of records that were
  renamed over, with the process that did it, and `CreatedIsKept` says that none of
  this happens without such a rename, nor to a request that comes after an answer.
* `MemoryStore.Incoming`: nobody checks what is ingested, so it may be in any
  lifecycle, in none (`None`), and under the id of a record the repositories keep.
  `LifecycleKept` asks of ingested records only that revisions go up, and of the
  repositories that they move on from whatever is there; `RetiredFirst` leaves out
  pointers at records that were ever ingested, and what a proposal says that it
  supersedes, which `Propose` stores as it is given.
* A worker instance is one run: the scheduler never reuses an assignment id
  (`OverlapIsSafe`).
* Clients of the forge leave ids, numbers and states to it, as the manager and the
  rpc service do, and use an idempotency key again only to repeat a request
  (`PostsAssumption`): the service's cache is asked by method and key alone.
* The observation plane's `Close` is called by the daemon's self-check and by tests;
  the daemon itself ends without it (`app/main.go:693`).
* A work package requested by id over `sync/rpc` has the payload of an earlier
  request of that id: `Register` and the table it fills are not kept as state.

## 3. Runs

| Run | Checks | Shows |
|---|---|---|
| `core` | `DependencyOrder`, `AcceptedOnOwnEvidence`, `AttemptsAccountedFor`, `DurableNotAhead`, `RunReportFaithful`, `RunReturns` | Scheduler plane: three packages, one dependent on another, two goroutines, a retry, cancellation, refused results, failing writes of one package: `Run` and `Dispatch` keep order and evidence, never overtake a cancelled or pending attempt, report each package they tried once and as it ended, and return. |
| | `RetiredFirst`, `ProjectionCurrent`, `EventsKept`, `LifecycleKept` | Memory plane: two goroutines over stored, new and ingested records, with two faults among failed writes, writes cut short and crashes. No revision goes back, the repositories write candidates and moves along the lifecycle only, and `Supersede` retires the old record before the new one points at it. A log with a fragment is reported as corrupt, never silently short. |
| `scheduler_partial` (violation) | `PartialFailureContinues` | `run.go` promises that a failing package does not abort independent work; a package whose dispatch returns an error, such as a result intake refuses, makes `Run` return while independent packages are ready. |
| `projectstate_decision` (violation) | `DecisionTakesEffect` | A stop between saving the approval and `Resolve` leaves the package awaiting its gate: `New` puts the decision into the gate and nothing resolves it, and a second decision is refused. |
| `views` | `AcceptedOnlyIfApproved`, `AcceptedIsReviewed`, `RestartKeepsWork` | Project plane: a human gate, one restart anywhere, failing writes. Only what a reviewer approved is accepted, it is the attempt the reviewer saw, and after a restart an attempt that waits for its decision still does and nothing was attempted before its dependencies were accepted. |
| | `NewestWins` | Replica plane: three nodes, changes and tombstones in lists that arrive late, twice, joined or never. A replica never goes back, and a node goes by the newest record it saw unless it saw the path deleted twice. |
| | `OneRecordPerSession`, `EmissionsAccounted` | Observation plane and buffer: two goroutines that emit, import and report while the plane closes, files that do not open, writes that fail. Reports may leave out acknowledged events, by the sequence floor and by number, but hold the latest of them without a gap. |
| | `LiveGraphIsReplay`, `TimelineFaithful` | Live and browse planes: two followers whose deliveries are lost or out of order, retention of one frame, recorded sessions in any order of storage. |
| `transport` | `AckedIsReplayable`, `DeliveredOrCounted`, `ClosingDisturbsOnlySubscribe`, `AppendReturns`, `FileIsAppendLog` | Journal plane: two producers, a slow subscriber, `Close` anywhere, failed and torn writes, a reopen. Nothing is delivered twice, lost uncounted or renumbered, no producer waits, an `Append` under way finds its file open, and `deliver` never sends on a closed channel. `Subscribe` can: `Memory.Close` in the middle of its backlog makes it panic (`journal.go:177`), which the run reaches and the property confines to that case. The file refines `AppendLog`. |
| | `StoredIsWhole`, `CleanDelivery` | Distribution plane: two requests with and without a key, payloads as long as the inbox, two versions, one dropped send or expiry. Only whole payloads are kept; a call that nothing disturbs delivers and leaves both inboxes empty. |
| `journal_order` (violation) | `DeliveredInSequence` | An event appended while `Subscribe` sends its backlog overtakes older events. |
| `distribution_fetch` (violation) | `FetchedIsRequested` | Two overlapping fetches read one inbox; one takes the other's hello and keeps the wrong artifact under its id, hash-verified and cached. |
| `replica_deletion` (violation) | `DeletionHolds` | `Apply` skips a tombstone for a record that is already deleted, so its higher revision is lost and a live record between the two is put back when it arrives later. |
| `services` | `StartedOnce`, `MergedIsRecorded`, `OneAnswerPerKey` | Forge and rpc: two managers, or one manager beside two requests of the service, and a step that fails or loses its answer. A repeated phase has one issue and one pull request, is merged only with its checkpoint in memory, and one key has one answer. |
| | `EnabledIsEarned`, `PromotionStands` | Learning: runs over growing evidence, a failing sink, promotions, policies and an outage of the predictor. |
| | `CreatedIsKept` | Control plane: three requests by two handlers, one failing write, one stop. An id that was given away is closed to later requests and always served; two requests for one id that overlap may both be answered 201, which the property confines to the case in which one renamed its record over the other's. |
| | `OverlapIsSafe` | Scheduler under overlapping callers with both gates. One package can then run twice (so `AcceptedOnOwnEvidence` is not claimed), but attempt numbers and result ids stay unique and completion still needs every gate. |
| `learn_repropose` (violation) | `ReproposingSucceeds` | The same candidate proposed in a later second is another body under revision 1, which the store refuses as stale; the rest of the batch is not proposed. |
| `planes` | `SignalHonoured`, `StopTakesEffect` | Worker plane: a `Run` and a `Begin`/`End` pair with requests and cancellation anywhere, and a log shorter than their events. |
| | `EffectOnce`, `AnswerIsOwn`, `AnswerAuthorised`, `RequestsAnswered` | Tool plane: three requests by rpc and directly, one key with two inputs and callers, a second key that evicts it, one request without a key, one of another major version, a revocation, deadlines and failing or hanging providers: a key has one effect until it is evicted, answers belong to the request, no cached answer survives a revocation, and every request is answered in time. |
| | `CompileAgrees`, `PlanFollowed` | Workflow plane: all 512 declarations of dependencies among three steps. `Compile` agrees with a reference definition of cycles; over two runs with stops and edits, nothing runs before its dependencies, more often than its policy says, or again after it was done. |
| `workflow_resume` (violation) | `ResumeContinues` | A failed run whose step used up its attempts is resumed: `runWithPolicy` has no error to report and panics, though `Run` says its state can be resumed. |

Every run checks all reachable states. Deadlock checking is off everywhere: the
modelled code may come to rest (all packages done, the journal closed, no calls
left within the bound), and states in which something is owed are covered by the
liveness properties instead.

## 4. Bounds

* `AttemptBound`, `MaxAttempts` 2: the first attempt, its retry, and the refusal
  of a third; for overlapping callers, in `services`, with `MaxAttempts` 1, two
  attempts of one package at once.
* Two goroutines: the races are between one holder of a package and one other.
  Three packages: one dependency and one independent package.
* `CrashBound`, `RestartBound`, `MaxBoots` 1: what a restart finds is what one
  uninterrupted life wrote; a second restart starts from states the first one
  reached.
* `Room` 1 for 64 and `EventBound` 3: a backlog event, a live one that fills the
  spare room and one that has to be dropped, or a failed write between two good
  ones.
* `Retain` 3 of the eight events two runs make: the log drops some of each run.
* `Capacity` 2 for 1024 with `Chunks` 2: a payload and its close frame do not fit
  at once, so the full inbox happens. `MaxCalls` 2 and `MaxFaults` 1: a disturbed
  call and the call that meets what it left behind.
* `MaxRevision` 3, `MaxCalls` 3, `MaxFaults` 2 in `MemoryStore`: a write that
  fails or is cut short, its repetition, and a restart. The store starts with an
  active and a validated record, so that `Supersede` takes one call, and
  without a third one, so that it may name a record that is not there. A proposal
  may point at the active record. What may be ingested (`MCIncoming`): the active
  record once more, below and above the revision its supersession has; records at
  revision 0, over which a proposal still writes, one with a pointer; a strategy of
  an unknown lifecycle, an issue without status, a trace.
* `MaxRevision`, `MaxPublishes`, `MaxLists` 3 over three nodes in `Replica`: a live
  record and two tombstones around it, which is what tells orders of arrival apart.
* `MaxForgeCalls` 4, `MaxForgeFaults` 1, two managers: a call that stops half way,
  its repetition and two calls of another caller or of another operation; beside
  the rpc service two calls of one manager (`CallsBesideRpc`).
* Three traces, `MaxTraces` 3, `MaxSteps` 4, `MinOutcomes` 2, `MaxLearnCalls` 3,
  `MaxTicks` 1: evidence below, at and above the minimum, traces that exceed the
  steps of a run, and a run before and after the clock moves.
* Two handlers, `MaxHttp` 3, `MaxHttpFaults` 1: two requests that overlap and one
  that depends on them or comes too late, for one id of each kind and two valid specifications.
* `MaxObsCalls` 3, `MaxObsFaults` 1, `BufferCap` 2, `ReportEvents` 2 (1000 in the
  application), `ReportFloor` 1: a session opened twice, a batch that fails half way,
  a full buffer, and reports cut at both ends, in some the one and in some the other.
* `MaxObserved` 2, `MaxApplied` 3, two followers, `MaxFrames` 1 (500 in the
  application): every order of two events, one handed over twice, and retention
  that drops frames.
* `CacheLimit` 1 for 10000 and three calls: a result, the one that evicts it, and a
  repetition; or a leader, one that joins it, and one that comes after. What each
  call may ask (`Asks`) leaves out permutations of the same mix.
* Three steps, `MaxRetries` 1 and `MaxRuns` 2: every shape of graph a longer one is
  made of, a retry, and a resumed run. Two mixes of gate, fail, skip and compensate
  meet every position through the graphs.

## 5. Fairness

* `Scheduler.Fairness`, as `MCCore.CoreFairness` on the scheduler's plane: a started `Run` keeps going and goroutines are scheduled;
  adapters return. No caller has to call.
* `ProjectState.PSFairSpec`: the live process ends the `RecordApproval` it is in;
  fairness of scheduler steps is granted beyond what the code promises, so that
  the violation does not rest on an idle scheduler.
* `MCTransport.TransportFairness`: on the journal plane a goroutine inside `Append`
  keeps running, and no consumer has to read: that is the point of `AppendReturns`.
  On the distribution plane goroutines are scheduled and the peer keeps serving; no
  context has to expire.
* `MCPlanes.PlanesFairness`: on the worker plane goroutines are scheduled, and an
  adapter returns once its context is done, which is its contract (it need not
  return otherwise); on the tool plane a `Handle` is scheduled and its deadline
  passes (`context.WithTimeout` bounds every request). Providers and execution
  goroutines need not get anywhere.

All of it is weak fairness of steps that stay enabled until they are taken.
`views` and `services` check safety only and assume none.

## 6. Proofs

The proofs hold for any constants that satisfy the assumptions in the modules:
any number of packages, dependencies (cycles included), goroutines, attempts,
callers, records, events and faults; the bounds of section 4 play no part. Each theorem is
shown by an inductive invariant that says what is known between the steps of a
call; the runs' invariants speak of the state between calls and are not inductive.

**Scheduler** (`SchedulerProofs`).

* `TypeCorrect`: `Spec => []TypeOK`, overlapping callers included. A step of a
  goroutine writes at the package and attempt it holds, so `TypeInv` adds that a
  busy goroutine holds a package and that a running or returned one, where it needs
  it, has an attempt number in range.
* `DependencyOrderHolds`, for callers that do not overlap. `dispatchOne` does not
  check readiness again after the lock was released, so what was ready when it was
  picked has to stay ready until it starts. `OrderInv` says why it does: goroutines
  are at work only while a call is (`QuietRun`), no two hold one package
  (`OneJobEach`), a picked package is still ready (`PickedIsReady`), a running one
  is held with its last attempt or shows why not (`RunningIsHeld`,
  `FailureIsShown`, `AwaitingIsRunning`), hence nobody moves a completed dependency.
* `AcceptedOnOwnEvidenceHolds`, `AttemptsAccountedForHolds`, `DurableNotAheadHolds`,
  for callers that do not overlap. `EvidenceInv` adds to `OrderInv` that only the
  last attempt of a package can be other than failed (`LastAttemptStands`), that an
  accepted or waiting attempt has its own result in the graph (`EvidenceIsOwn`),
  that records lag behind memory in one direction only (`RecordsBehind`), and that
  a goroutine runs the last attempt (`RunsLast`).
* `OverlapIsSafeHolds`, for callers that do overlap: attempt numbers are drawn
  under the lock, so no two executions share one and none was collected before
  (`IdsInv`), and no step completes a package except under the gates.
* `RunReportFaithfulHolds`, for callers that do not overlap. The numbers of a report
  grow by one when `Run` lets go of a package, while the graph moves in other steps
  and, under a human gate, by a reviewer's hand. `ReportInv` counts the packages that
  were tried and that `Run` holds no more (`Left`): the three numbers add up to them,
  those counted as accepted or failed are so in the graph, and without a human gate
  the numbers are exact. `RunReturn` holds nothing, so `Left` is then all that was
  tried.

**Project plane** (`ProjectStateProofs`), with the human gate configured and any
number of restarts and failing writes.

* `AcceptedOnlyIfApprovedHolds`, overlapping callers included, from `GateInv`: the
  gate knows only decisions that are on disk.
* `AcceptedIsReviewedHolds` and `RestartKeepsWorkHolds`, for callers that do not
  overlap. A restart rebuilds memory from records that were written one by one,
  which breaks `OrderInv` for the packages whose writes may fail. `RestartInv` says
  what is left: for a package whose records reach the disk, memory and records tell
  the same story (`Recorded`), only its last attempt stands (`Standing`), once a
  decision is recorded that attempt is the one reviewed (`Decided`), and goroutines
  hold what they picked (`Held`).

Without the human gate, gates accept on collection with no decision on disk: the
statements are about a configured gate.

**Memory** (`MemoryStoreProofs`): `ProjectionCurrentHolds`, `LifecycleIsKept` and
`RetiredComesFirst` (every step) from `StoreInv`: one call at a time has a record
(`HeldOnce`), what it is about to write follows what is on disk and what it is about
to project is on disk (`CallsInv`), and a call in the second half of `Supersede` is
about to point at a record that is retired or was ingested (`Settled`), which the
repositories cannot undo. `EventsKeptHolds` from `EventsInv`: lines are distinct, hold
what was acknowledged, and are all known to a store that has loaded them. The files of
an earlier session may be any (`ExistingAssumption`; one at revision 0 was ingested,
as the repositories start at 1, `FilesInv`), and so may proposals and what is
ingested (`PointersAssumption`, `IncomingAssumption`, which give their types); the
kinds have directories of their own (`KindsAssumption`).

**Toolbox** (`RuntimeProofs`): `AnswerIsOwnHolds`, `AnswerAuthorisedHolds`,
`EffectOnceHolds` from `ToolInv`. A result passes through the host's cache or a
joined call, the published response and the waiting `Handle`; `HostInv` and
`RpcInv` say what is known of it at each place. That a key has one effect within
the cache's reach rests on `OrderOk`: the order of the cache is the tail of the
order in which results were stored.

**Distribution** (`SyncProofs`): `StoredIsWholeHolds` from `SessionsInv`. All
sessions of a node read one inbox, so any frame can reach any session; the parts a
session holds are of the object of its manifest all the same, and nothing is kept
before `Complete`'s checks.

**Replicas** (`SyncProofs`): `ReplicaInvariant`, and from it `NewestWinsHolds` (every
step) and `ReplicasConverge`. `ReplicaInv` says that the lists a node handed out
have one record per path and revision (`OneRecordEach`), that finitely many nodes
handed out any, so that a list has a highest node to break ties (`NodesBounded`), and
that what was given to a node is no newer than what its replica or queue has
(`Holding`). `Apply`
skips a tombstone of a record that is deleted already, so the newest record wins
unless the node saw the path deleted twice: with two tombstones it need not, which
`replica_deletion` shows. Nodes that have seen the same changes then agree, whatever
order, repetition and grouping of lists brought them.

**Journal** (`ObservationProofs`): `JournalInvariant`, `AppendedIsReplayable`,
`NothingLostSilently`, `ClosingDisturbsOnlySubscribeHolds` (every step) and
`FileRefinesAppendLog`.
`JournalInv` has one part for the numbers given and the lines written between the
steps of `Append` (`CoreInv`), one for what a subscription registered for
(`Subscribed`) and one for where each of those events is: read, in the channel, about
to be sent or counted as dropped (`Delivery`). Reopening a file and `Replay` are loops
over data, written as recursive functions. On lines with increasing sequences each has
a closed form, and the least index at which the function and the closed form could
differ shows that they do not.

**Observation plane** (`ObservationProofs`): `ObservationInvariant`, `OneRecordHolds`,
`EmissionsAccountedHolds` from `ObsInv`: `RecordInv` ties a session's journal to the
manager, the host and what `Close` has still to seal; `EmitInv` says what a goroutine
has appended and not yet counted, so that counters and journals differ by exactly the
goroutines about to count; `BufferInv` that what was drained and what is buffered is
what was taken, in order. What a report may leave out is arithmetic: a journal's
sequences are consecutive, so the events from the floor on are an interval, and the
most recent of them are its end (`PolicyKeepsTheEnd`, `ReportIsCurrent`).

**Visualizer** (`ObservationProofs`): `VisualizerInvariant`, `LiveGraphIsReplayHolds`,
`TimelineFaithfulHolds`. The sort of `orderedCopy` puts an event where its rank says
(`InOrder`); ranks of a strict order are distinct, so counting shows that the sort is
onto and in order (`InOrderLists`) and that sorted lists stay as they are, with no
induction over the list. Selecting by a condition (`Pick`) is the same with places in
order. A graph of the first events is kept in the graph of all of them (`PrefixKept`),
so frames grow; `Trim` leaves an end of them. Two sorted lists with the same events
have one graph when events have sequences of their own and link to no others, as
journaled events do (`SameGraph`), so the order and repetition of deliveries is
forgotten. `VisInv` adds that a bridge holds only events of the journal, and that its
frames are those of its events unless one came in since. Assumption: sequences of
canonical events are naturals.

**Workflow** (`WorkflowProofs`): `FlowInvariant`, `CompileAgreesHolds`,
`PlanFollowedHolds` (every step), for any finite set of steps. The rounds of `Compile`
are a recursive function; its equation has a solution and only one, by the least round
at which two could differ (`RoundsExist`, `RoundsUnique`), and a graph without a cycle
leaves a step to take in every round. `FlowInv` adds that the order has each step
after its dependencies and that results and attempts on record are those of the
calls made (`Planned`, `Counted`).

**Learning** (`ServicesProofs`): `EnabledIsEarnedHolds` from an invariant on the gate
alone: a decision to enable follows an evaluation that met the policy, and a
recommender that answers nothing improves nothing (`SilenceImprovesNothing`).
`PromotionStandsHolds` (every step): what a run has reported is in the records, with
its body, at that revision or later.

**Control plane** (`ServicesProofs`): `CreatedIsKeptHolds` from `CpInv`. It says what a
handler between two of its steps may still write and that one handler at a time has
the mutex of `projectstate` (`HandlersInv`), that what clients were told is in the
files and in the tables, as far as nobody renamed a record over another's, that a
request for an id given away does not get past its first look (`DefInv`, `WorkInv`),
and that packages depend on earlier ones only, so that the graph read back at the next
start always validates. The names the model keeps for "no handler" and "no record" are not handlers or specifications
(`ControlPlaneBounds`).

**Forge** (`ServicesProofs`): `StartedOnceHolds`, `MergedIsRecordedHolds`,
`OneAnswerPerKeyHolds` from `ForgeInv`. Every operation leaves the entries of the
idempotency table as they were (`Grows`) and `TableInv` says which object each
stands for; `ManagerInv` says of each call what the steps behind it have left
(`StartDone`, `CompleteDone`), facts that stay because the tables only grow;
`RpcInv` that answers, stored and cached, name the table's entry. Clients repeat a
key only with its request (`PostsAssumption`).

**Worker lifecycle** (`RuntimeProofs`): `SignalHonouredHolds`. `SignalInv` adds
where `Run` is when a control is in the table, that flags are set before a request
is reported as accepted, and that a verdict once taken agrees with flags that
nobody can set any more.

Only model-checked: `RunReturns`, `StopTakesEffect`, `RequestsAnswered`,
`AppendReturns` and `CleanDelivery`, which are liveness under fairness, outside the
prover's reach. The properties of the runs that expect a violation are false.

## 7. Not modelled

* Pure I/O and presentation: `ui`, health, status, console and command line of
  `app`, rendering of lists, the sandbox's command runner, the Python inference
  service, `toolbox/computeruse` and metrics, the geometry of `visualizer/layout`.
* Tables filled once and looked up (`registry/models`, `registry/roles`), field
  validation (`contracts`), text templates and naming rules (`forge/template`,
  `forge/validate`), envelopes and identifiers.
* Pure selection and construction: allocators, context and contract builders,
  telemetry, `sync/parallel`, `memory/retrieval` and `memory/retention`, clustering
  and experience of `kernel/joblearn`, which nothing in the application calls yet.
* Cryptography in `sync/identity`: a hash is modelled as equality, signatures not
  at all.
* In modelled components: structured events and telemetry of the scheduler, the
  mutex of `kernel/api` (it is the assumption `Overlap = FALSE`), the retention
  floor of the store, overlapping writers of one record outside `ControlPlane`,
  resuming a transfer (the distributor never does), titles of submitted work,
  several roles, gates and durations in the scores of `kernel/joblearn`.
* Known limits: `New` picks the newest assignment in the string order of ids
  (`asg_x_10` before `asg_x_2`), the model by attempt number; the two agree up to
  nine attempts. `Subscribe` sends its backlog with blocking sends before the caller
  holds the subscription (`obsv/journal/journal.go:177`), so that live events
  filling the channel can leave it waiting for good; the model has those states and
  no property speaks about them. The same send panics when `Close` has closed the
  channel: that it happens is in the model, that nothing else panics is
  `ClosingDisturbsOnlySubscribe`, and no line of the repository says that it does not. Following a session twice gives the bridge
  duplicate frames; `LiveGraphIsReplay` speaks about the last graph only.

## 8. Plan

The core and the services around it are modelled, and every safety property that a
run expects to hold is a theorem. What is left, in order of importance:

1. Pure algorithms over bounded inputs against reference definitions: the
   assignment of `sync/parallel`, allocator selection. Recursive
   operators stay in a module of their own, outside the ones that are proved about.
2. The retention floor and overlapping writers in `MemoryStore`; an abstract
   last-writer map that `Replica` implements once lists are exchanged and no
   tombstone is skipped.
