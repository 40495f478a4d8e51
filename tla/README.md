# TLA+ models of Tracecat

Tracecat runs security automations: a workflow is a graph of actions, executed
durably on Temporal, with scatter / gather fan-out, do-while loops, error paths,
child workflows, AI agents with human approvals, and case management around it.
This directory holds TLA+ models of the parts whose correctness depends on
interleaving, failure and order, the TLC configurations that check them, and
TLAPS proofs. Paths below are relative to the repository root; line numbers are
in `PROJECT.json`.

## The system

| Component | State it keeps | Operations | What is hard |
|---|---|---|---|
| Workflow scheduler, `tracecat/dsl/scheduler.py` | queue, indegrees, edge markers, streams, gather results, loop indices, exceptions | schedule, skip, success, error, scatter, gather, loop, cancel | coroutines share all of it and give way at every activity; loops reset part of it |
| Definition graph, `tracecat/dsl/common.py` | none (validation) | scopes, loop and gather validation | what it accepts is what the scheduler relies on |
| Run driver, `tracecat/dsl/workflow.py`, `action.py` | Temporal workflow state | run, child workflows, retries, wait strategies, permits | timers, cancellation, detached cleanup |
| Concurrency permits, `tracecat/tiers/semaphore.py`, `permits.py` | Redis sorted sets of holders by age | acquire, heartbeat, release, prune | late heartbeats, lost acquire replies, stale limits |
| Case durations, `tracecat/cases/durations/` | Redis stream of cases to recompute, consumer group | publish, read, claim idle, sync, retry, acknowledge | at-least-once work, claims of entries still in work |
| Case triggers, `tracecat/cases/triggers/` | Redis stream and consumer group, a lock and a marker per event and workflow | publish, read, claim, lock, start workflow, mark, acknowledge | redelivery, a marker checked before its lock, crash between start and acknowledge |
| Agent sessions and approvals, `tracecat/agent/session`, `packages/tracecat-ee/.../agent` | turn pointers, approval rows, dedup keys, the durable workflow | run turn, request approval, submit, cancel | approvals that race with cancellation, submitted twice, in part or in contradiction |
| Agent executor and stream, `tracecat/agent/executor`, `stream` | subprocess, Redis stream | run, emit, resume | reconnects, ordering |
| Registry, `tracecat/registry/` | versions, artifacts, current version | sync, promote | concurrent syncs |
| Workflow executions, schedules, webhooks | in Temporal | start, cancel, list | little of their own |
| Cases, tables, workspaces, secrets, settings, auth, storage, API, MCP | database rows | single transactions | nothing a model of this kind reaches |
| Frontend, deployments, registry packages, tools | - | - | out of scope |

The driver creates one scheduler per run and hands it a callback that executes
an action (an activity or a child workflow). Everything the scheduler does
between two awaits is atomic: Temporal runs one coroutine of a workflow at a
time. Its awaits are activities, timers and the `cooperative` checkpoints.
Permits surround the run and each action; case triggers, schedules and webhooks
start runs; agent workflows run as child workflows of actions. Every case event
feeds two Redis streams after its commit, one for durations and one for
triggers; both have consumer groups in every API process.

What makes each correct: the scheduler dispatches every task once, after all its
parents, never strands one, waits for every stream before a gather, keeps loop
iterations apart, and always ends. A semaphore admits nobody at or above every
limit in force, and a running holder is counted. A tool call runs only when it
was approved, gets exactly one result, and no approval outlives its run. A
committed change of a case reaches its duration rows. An event is acknowledged
only when every workflow it has to start was dispatched, and is acknowledged in
the end.

`PROJECT.json` lists the hazards, each at its line.

## Modules

* `DSLGraph` - the static graph: refs, `depends_on` edges, the scopes that
  scatters and loops open (`_assign_action_scopes`), loop regions
  (`_build_loop_regions`), and `ValidGraph`, the graph conditions of
  `DSLInput.validate_structure`.
* `DSLScheduler` - class `DSLScheduler`. Every variable is one attribute of the
  class, or a local that lives across an await (`storedItems`, `currentIndex`).
* `DSLSchedulerProofs` - theorems about the scheduler on every graph.
  `DSLGraphProofs` - lemmas about the static graph. `DispatchProofs` - theorems
  about dispatch and loops on every graph without scatters. `ScatterProofs` -
  theorems about streams, gathers and dispatch on graphs with scatters.
* `MCDSLScheduler` - graphs for TLC, and what the documentation says of the
  scheduler where the code does something else.
* `Semaphore` - what an organisation's semaphore promises, without scripts,
  clocks, caches or activities.
* `TierPermits` - the Redis scripts, the limits cache, the permit activities and
  the workflow code around them, shown to implement two `Semaphore`s.
  `MCTierPermits` instantiates it, `TierPermitsProofs` proves it.
* `AgentApprovals` - the durable agent workflow, its approval manager, the
  requests that submit decisions, and the state they share. `MCAgentApprovals`,
  `AgentApprovalsProofs`.
* `DurationSync` - after-commit publishing, the stream, its consumers, and the
  locked sync of a case. `MCDurationSync`, `DurationSyncProofs`.
* `CaseTriggers` - publishing of one case event, its consumers, locks, markers
  and dispatches. `MCCaseTriggers`, `CaseTriggersProofs`.

## How code becomes actions

### The scheduler

A task is `<<ref, stream>>`. `pc[t]` names the await its coroutine stands at; an
action is the code from there to the next await, so a handler with two
activities is three actions (`_handle_gather`: `GatherReached`, `GatherItem`,
`GatherFinalize`, `GatherExec`). The result of an activity or expression is a
nondeterministic choice: it holds or not (`RunIfHolds`, `RunIfSkips`), returns
or raises (`Execute`, `ExecuteFails`), and scatter collections have any size in
`Sizes`. An exception raised anywhere in `_schedule_task` is `Fail`, the whole
of `_handle_error_path`.

| Code | Definition |
|---|---|
| `start` | `Spawn`, `ReturnNone`, `CancelPending`, `Cancelled`, `CancelledAsError`, `ReturnExceptions` |
| `_schedule_task` | `Schedule`, `RunIf*`, `CheckReachable`, `Delay`, `Dispatch`, `Execute*` |
| `_queue_tasks` | `QueueTasksIn`, `Ready` |
| `_handle_success_path`, `_handle_error_path`, `_handle_skip_path` | `SuccessPath`, `ErrorPath`, `SkipPath` |
| `_handle_scatter`, `_handle_scatter_skip_stream` | `Scatter`, `ScatterFails`, `ScatterSkipStream` |
| `_handle_gather`, `_handle_gather_skip_stream`, `_handle_gather_result` | `Gather*`, `CloseStream` |
| `_handle_loop_start`, `_handle_loop_end`, `_reset_loop_iteration_state`, `_cleanup_loop_descendant_streams` | `Loop*`, `NextIteration`, `LoopStreams` |

Abstractions:

* a stream id is the sequence of its `<<scatter, index>>` pairs, index -1 for
  `:skip`;
* a gather's result is a list of slots: unset, a stored item, a stored error, or
  the raw values that `finalize_gather_activity` leaves; with
  `Externalize` it is a collection whose items cannot be read in the workflow;
* default-dict entries that are absent are written as their defaults;
* the order of the queue is free. The code's queue is FIFO, but the model's runs
  include the FIFO ones and activities complete in any order anyway;
* expressions have no value beyond the outcome the handler branches on;
* the fan-out of `_handle_scatter` is one step: its checkpoints yield within a
  workflow activation, in which no activity of a new stream can complete.

### The other modules

**`TierPermits`.** `age` is the sorted set of each scope, with the age of a
score instead of the score; `cache`, `limit` and `invalidating` are the limits
cache, the tier row and the invalidations still to come. A permit activity is a
request in `inflight` that goes through the code's steps (read the cache or the
database, write the cache, run the script), carries the time since it started
(`lag`), and may have read its clock at any moment since. `pc`, `waited`,
`acquired` and `heartbeat` are the workflow code of each holder. A request whose
workflow stopped waiting (`live = FALSE`) is lost or still executed. `Tick` ages
everything. `missed` and `recent` are history for the properties.
A run that ends cancels its heartbeat task and awaits it: a task that sleeps is
gone, one that is in its activity takes the cancel for a failed heartbeat and goes
on (`CancelSwallowed`), and the run stays in `stopping`.
`WorkflowSem` and `ActionSem` are `Semaphore` under the mapping holders = entries
of the scope, lapsed = entries at or above the TTL, leaving = releases in flight,
limits in force = the current one and those replaced within `Window`.

| Code | Definition |
|---|---|
| `_ACQUIRE_SCRIPT`, `_HEARTBEAT_SCRIPT`, `release` | `AcquireScript`, `HeartbeatScript`, `RunRelease` |
| `permits.py` limits, `limits_cache.py` | `ReadLimits`, `SetLimitsCache`, `InvalidateCache`, `AgedCache` |
| `_acquire_*_permit`, backoff, `_release_*`, heartbeat loop | `Start`, `RunAcquire`, `Retry`, `AcquireFails`, `Finish`, `StopHeartbeat`, `CancelSwallowed`, `Beat`, `*Fails` |

**`AgentApprovals`.** `wpc` names the await of `DurableAgentWorkflow`;
`expected` and `decisions` are the manager's maps, `payload` what
`handle_decisions` captured for its activity, `rows` the approval table,
`currRun` and `activeStream` the session's pointers, `updates` Temporal's record
of update results, with the decisions each one handled (`given`, history for the
properties). A submission runs through `_continue_with_approvals`:
`ReadSession`, `Validate`, `Claim`, `Install` (compare and swap) or `Reuse`,
`Update`, `Rollback`, `Unclaim`, `Apply`. A newer turn is its pointers.

The run may be stopped in two ways besides ending. A user's cancel is the update
`request_cancel`, which the workflow looks at (`SendCancel`, `DeliverCancel`). And
Temporal may cancel it, as the agent is a child of the workflow that uses it, or
terminate it or time it out. A Temporal cancellation is raised where the run
waits; `run` has no handler for it beyond its `finally`, which only clears the
pointers (`CancelRun`), and some awaits swallow it. A termination runs nothing
(`TerminateRun`). `stop` says whether it happened and whether it cut an open
round; an activity that the run awaited is in `orphans` and may still be executed
(`OrphanRecord`, `OrphanApply`, `OrphanFinalize`).

**`DurationSync`.** The content of a duration row is a version; a sync reads
the version under the case's advisory lock and writes it at its commit. Stream
entries are jobs with a copy number in place of the message id. A consumer's
record is what its coroutine keeps across awaits: the batch, the entries it will
acknowledge, the coalesced event types, the page still to publish, attempts.

**`CaseTriggers`.** One event; `msg` is the state of its stream entries, `lock`
and `done` the keys per workflow, `con` the consumers. `explicit` is the workflow
a comment names. Steps are Redis calls, commits and dispatches, in code order;
`Error` is an exception at any of them and ends the trigger, the message or the
consumer as the code's handlers have it.

### Variants

Definitions marked "variant" are plausible mistakes in the definition that
follows them. Nothing uses them; putting one in place of its original is how
each property is shown to depend on the code it is about.

## What TLC checks

| Run | Instance | States | Shows |
|---|---|---|---|
| `scatter` | 0 or 2 streams with error handlers, staggered, a join with another branch, then a fork with join-all and join-any, platform failures, cancellation | 8k | `TypeOK`, `IndegreeAccounting`, `SingleDispatch`, `StaysReachable`, `NoStrandedTask`, `StreamErrorsReported`, `GatherBarrier`, `PendingCapped`, `RunsOnce`, `Termination` |
| `loops` | a loop around a scatter with a loop in each stream, then a loop over the platform cap | 42k | `IndegreeAccounting`, `LoopIterationsDisjoint`, `LoopIterationFresh`, `LoopBounded`, `ScattersResume`, `Termination` |
| `loop_faults` | a scatter with an error handler in a loop; scatter, items, gather and loop end fail, the scatter is skipped or empty | 39k | `SingleDispatch`, `GatherBarrier`, `StreamTreeWhole`, `Termination` |
| `permits` | a workflow, an action in it that runs twice, the child workflow the action executes | 172k | `TypeOK`, `RunningHoldsPermit`, the refinement `SemaphoreSpec`, `NoResurrection`, `EveryRunEnds`, `SlotsFree` |
| `approvals` | two tool calls, two submitters, a cancel, a newer turn, one fault or stop | 1.5M | `TypeOK`, `RunsOnlyApproved`, `AnsweredOnce`, `NoOrphanPending`, `AcceptedIsRecorded`, `NewerTurnKept`, `CancelEnds` |
| `duration_sync` | two cases, two consumers, two event types | 450k | `TypeOK`, `NoLostChange`, `EventuallySynced` |
| `triggers` | two consumers, two workflows, two entries of the event | 379k | `TypeOK`, `AckedIsHandled`, `OncePerConsumer`, `EventuallyHandled` |

`gather_error_edge`, `skipped_scatter_join`, `loop_regather`, `late_approval` and
`heartbeat_stop` expect a violation; see below.

### Bounds

*Scheduler.* Two streams are the fewest with an order between them and with a
first, a last and an unfinished one; two or three iterations the fewest with a
reset, a re-used stream id and an exhausted loop; a loop in the streams of a
scatter in a loop makes regions, scopes and streams nest. Scatters in scatters are
left to the theorems of `ScatterProofs`. `MaxPending` 2 in `scatter` is below the number of ready tasks, so throttling happens, and
`SpawnYieldEvery` 2 makes the main coroutine yield in the middle of spawning.
`IterationCap` 3 is above one loop's `max_iterations` and below another's.

*Permits.* The code's settings are a TTL of 300 s, heartbeats every 60 s,
activity timeouts of 30 s, a limits cache of 30 s and waits of 300 s (workflow)
and 120 s (action). The run has TTL 6, heartbeat interval 1, `MaxLag` 1, cache 1,
which keeps the order of these times. `RunningHoldsPermit` covers a holder as long
as `(missed + 1) * (HeartbeatInterval + MaxLag) + MaxLag < TTL`: here 5 < 6 for
one lost heartbeat, so the run covers none and one, and two are outside, as with
the code's settings (sleeps of up to 66 s with their jitter: 222 < 300 for one).
One fault or limit change, limits of 1, none and (refused) 0; the
child workflow competes with its own ancestor, and the action's second round
with what is left of its first.

*Approvals.* Two calls asked together or in two rounds and three submissions that
repeat, overlap or contradict one another. One fault, stops by Temporal included
(none in `late_approval`); with two, the safety properties hold as well, on 2.4M
states up to the symmetry of the submitters, and the theorems have no bound.
The dedup key may expire at any moment, where the code has 300 s.

*Durations.* Pages of one case so that a backfill needs a cursor; two consumers;
`MaxEvents` 2 changes and faults together, a rollout that is not done counting
as a change. Failed publishes, inline errors and failed requeues are free of
charge. Attempts are 2 where the code has 3 (consumer) and 4 (inline). The first
definitions are fixed: the two event types are interchangeable. `MaxCopies`
bounds equal jobs in the stream and is not reached.

*Triggers.* One repeated publish or claim from a slow consumer (`MaxExtra`) and
one error, crash or expiry (`MaxFaults`): with two consumers and two entries
every pair of handlings of the event overlaps in every way. The definitions are
valid, missing or invalid for the workflow a comment may name; that it is also a
configured trigger when no comment names it covers disabling.

### Fairness

*Scheduler.* Weak fairness of the main coroutine and of each task's coroutine.
Activities and child workflows end because they have timeouts and Temporal
reports those as failures, timers fire, and Temporal runs every coroutine that is
ready. A failing step counts as a step: no success is assumed. One await of the
driver is left out by this: an action whose permit heartbeat cannot be stopped
(`heartbeat_stop`) does not come back, and `Termination` is about runs where that
does not happen. Runs stop in `Terminated`, so deadlock is checked.

*Permits.* Weak fairness of activities, cache invalidation, the clock, the
holders' timers and the end of their work. `Tick` waits until nothing is
overdue: an activity ends within `MaxLag`, its start-to-close timeout, and a
timer that fired is handled before the next unit. The second is an assumption on
the workers; a stalled worker is a late heartbeat, which is a fault. Nothing is
assumed of a run in `stopping`: `EveryRunEnds` excepts a run that is in it, or has
one inside it. Workflows have no execution timeout by default that would end it,
and an operator who terminates it is not modelled.

*Approvals.* Weak fairness of the workflow: workers execute it and its activities.
No request has to be sent or to go on, Temporal does not have to stop a run, and
an activity that outlives its run need not be executed.

*Durations and triggers.* Weak fairness of callbacks and consumers, and of a
lapsing lease or lock. Strong fairness of `ClaimIdle`: a consumer that keeps
coming back to an idle stream looks for idle entries once per interval. Nothing
restarts a trigger consumer that an error of its loop has stopped, so
`EventuallyHandled` holds as long as one is left.

Deadlock is not checked in `approvals`, `duration_sync` and `triggers`: a session
that is over and a queue without work stop.

### Where the code and its documentation disagree

* `gather_error_edge`: a gather that succeeds also takes its error edge.
* `skipped_scatter_join`: if a scatter is skipped by `run_if`, a task behind its
  gather that joins another branch is never run, and the run reports success.
* `loop_regather`: with externalised results, a gather in a loop fails on its
  own earlier result in the second iteration, in a stream, so the workflow stops
  there and reports success. With inline results the same happens if the first
  iteration dropped an error item: the next one writes past the end of the list.
* `late_approval`: the decisions are persisted from one reading of the approval
  manager and executed from another, after the activity. A second submitter whose
  decision arrives in between turns a denied call into an approved one in memory
  only: the tool runs and its row says rejected.
* `heartbeat_stop`: a run, of a workflow or an action, that ends while its permit
  heartbeat is in its activity cancels a task that does not end. The activity's
  `ActivityError` is caught by the loop's `except Exception` and logged, the loop
  sleeps and beats again, the cleanup waits for it, the release is not reached,
  and the heartbeats keep the slot.

Met while modelling, and the reason some properties are checked only on runs
without the case (the hazards say which):

* a gather whose item expression or activity fails never closes its stream;
* a join-all gather with a skipped branch counts as unreachable and never closes
  its stream;
* a skipped inner scatter takes the rest of its outer stream with it;
* the skip stream of an empty scatter is not cleaned up between the iterations
  of a loop, so its indegrees and markers drift apart there;
* a loop end turns an error in its body, inside a stream, into success, so the
  gather records an item for that stream;
* `depends_on` may list a dependency twice, which the indegree counts twice and
  the adjacency once;
* a join-any task does not go on after its first branch, as
  `docs/automations/actions.mdx` has it: every branch has to be processed first,
  and `any` only decides whether the task then runs;
* `validate_structure` looks for cycles only in a graph with a scatter or a loop.
  On another graph the tasks of a cycle wait for one another, nothing else is
  disturbed, and the run reports success: `NothingStranded` below assumes an
  acyclic graph, where the other theorems do not.

Permits: a release given up and executed late removes the permit of the action's
next round; a workflow whose acquisition fails after the script ran leaves its
permit to the TTL; a child workflow that waits for its ancestor's permit is freed
only by the bound of its wait.

Agents: updates of two continuations may be handled in the other order than
their pointers were installed; a new turn may take the pointers of a run that
asks for approval later, which then waits for ever; a run that Temporal cancels or
terminates in an open round leaves its rows pending, which
`NoOrphanPending` excepts; a duplicate submission with
the opposite decision is silently skipped while the first one's key lives.

Durations: with Redis down, inline attempts that are exhausted or a process that
dies lose the change until the next one (`lost` in the model).

Triggers: the marker is checked before the lock is taken, so two consumers may
each start a trigger; a comment's workflow whose stored definition no longer
validates raises each time, so its entry is redelivered for ever, the event's
triggers never start and the comment stays `running`; a group that is recreated
starts behind the last entry, and what was undelivered is lost; a start in the
background that fails is only logged, after the marker was set.


## What is proved

The proofs assume what the modules' named `ASSUME`s say and nothing else: the
graph is finite and passed validation (`GraphAssumption`, `GraphIsValid`), sets
and times are what their names say, a heartbeat interval and the bounds on cases
and changes are not zero, and `None` is not a member of the sets it is put beside.
TLC evaluates all of them on the instances it runs. Sets of tasks, holders, tool
calls, requests, consumers and cases, and every bound, are arbitrary.

### `DSLSchedulerProofs`: every graph

* `TypeCorrect`: `Spec => []TypeOK`. TypeOK alone is not inductive: that
  `gather_item` has a parent stream to close, or that `loop_cond` has a loop key,
  follows only from which tasks can reach those awaits. The inductive invariant
  is `TypeOK /\ PcFits`; `PcFits` says that a coroutine stands only at awaits of
  its own kind and in a stream where its continuation is defined. The proof
  splits it by groups of variables, one lemma per handler.
* `LoopsBounded`: `Spec => []LoopBounded`. Only a loop's own end raises its
  index, and only when the next one is below `max_iterations`; the index is kept
  per loop start, so this needs that no two loop ends share a start, which is
  part of `ValidLoops`. `LoopIndexSteps` says what a step may do to an index.
* `SchedulerThrottles`: `Spec => []PendingCapped`. `StepMovesOne` says that a
  coroutine's step never starts another coroutine; the main coroutine discards
  those that are done and adds at most `Room`.

### `DispatchProofs`: every graph of actions and nested do-while loops

These theorems assume `Scatters = {}`. With scatters in loops some of them are
false of the code (a skipped scatter strands a join, the skip stream of an empty
scatter keeps its markers through a loop's reset).

The invariant is about edge markers. A task is *fed* when every edge into it is
marked. `CoreInv` says that counters equal unmarked edges, that an edge is marked
only if its source was fed (`MarkedInOrder`), and that a task that waits or runs
is queued or running once, is fed and has marked none of its own edges. By the
definition of `Upstream` as a least closed set, everything upstream of a fed task
is then fed and has marked an edge, so it is quiet (`UpstreamQuiet`).

Every step of a coroutine has one of four shapes (`StepShape`): it publishes, it
ends and the workflow fails, it moves to its next await, or it starts a loop's
next iteration. For the last one the static graph has to be right, and
`DSLGraphProofs` shows that it is: `ScopeChain` is a recursive function, so first
that its equation has a solution, from the graph being acyclic (`ChainSolves`);
then that only the start of a loop depends on what is outside of it, that only
its end is depended on from outside, and that its start is upstream of all of it
(`RegionEntered`, `RegionLeft`, `RegionUpstream`). So when the end runs, all of
the loop is fed and quiet, and the reset may forget its markers.

* `CountersExact`, `DispatchedOnce`: `IndegreeAccounting` and `SingleDispatch`,
  parts of `CoreInv`.
* `ReachabilityKept`: `StaysReachable`. No step moves a marker into an active
  task, because they are all set.
* `IterationsApart`, `IterationsFresh`: `LoopIterationsDisjoint` and
  `LoopIterationFresh`. While a loop's start is active it has marked nothing, so
  nothing in the loop is fed; only fed loop starts have an index.
* `NothingStranded`: `NoStrandedTask`, for acyclic graphs. A fed task with
  unmarked edges is active unless the workflow is failing, so when the run is
  done every fed task has marked its edges, and then every task is fed.

### `ScatterProofs`: graphs with scatters

Two theorems hold for every graph whose loops contain no scatter
(`NoScatterLooped`), whatever fails or is skipped:

* `TreeStaysWhole`: `StreamTreeWhole`. A scatter opens its streams when it ends,
  and it never runs again. `TreeInv` says why: a task outside of loops that ran,
  or that opened streams, has a counter that is not positive, and `_queue_tasks`
  queues a task only when it takes the counter from a positive number to zero.
* `NeverRerun`: `RunsOnce`, from the same invariant.

The others assume that the graph has no loops and is `Contained`: a scatter or
gather that may fail (by an activity, by `error_strategy` RAISE, or because it
joins all of several dependencies) is outermost and has no error edge, and no two
gathers close one scatter. Actions may fail, be skipped, join and handle errors
anywhere, scatters may be empty, skipped and nested. The assumption is what the
code needs: a gather that fails takes its error edges in the stream of the item
although its scope says that they belong to the parent stream (the run
`gather_error_edge` shows the other half of this), and two gathers of one scatter
count its streams down twice. The graph of the run `scatter` is
`Contained`; the theorems are what covers scatters in scatters.

* `BarrierHolds`: `GatherBarrier`.
* `ScatteredCounters`, `ScatteredDispatch`, `ScatteredReachability`:
  `IndegreeAccounting`, `SingleDispatch` and `StaysReachable`, in every stream.

The argument is again about edge markers, now per stream. The first half of the
invariant, `MarkInv`, says where a marker can be. A marked edge is in a stream
that went through the scatters around its source, or in a deeper one where
everything is skipped (`Placed`); its source was fed there, opened that stream, or
is a gather all of whose streams are past it (`Sourced`); along a line of nested
streams below the root an edge is marked once (`Line`), and nothing above a marked
edge is left to run there or further in (`Settled`). A step that marks edges does
so in the task's own stream, in the streams a scatter opens, or in the stream a
gather goes back up to; `OwnSound`, `SplitSound` and `LiftSound` show that the new
markers are where they belong, `SpreadInv` that this keeps `MarkInv`. For the
gather this is circular without its barrier: that all streams of its scatter are
at it (`AllAt`) has to hold when it goes up.

The second half, `WorkInv`, supplies that. `Counted` says that `open_streams` is
never below the number of streams whose gather has not closed them, so a gather
that sees the counter reach zero is the last (`CollectAllAt`); `Finals` that it is
the only one to put the result together; `Clean` that the list its streams write
to is one they can write to, so that no close fails half way. With `AllAt` and
`Settled` follows the barrier (`AllAtQuiet`).

Every step of a coroutine has one of six shapes (`ResumeWork`), each of which
keeps `WorkInv`. Once the workflow is cancelled `WorkInv` is not kept: a gather
that is cancelled may fail where its scope does not allow it. `Always` is what
remains, and enough: a newly fed task lies downstream of one that was running in
the same stream, so what was quiet because of a barrier stays so.

### `TierPermitsProofs`

* `PermitTypes`: `Spec => []TypeOK`, with the form of requests (`WellFormed`) and
  that a change whose invalidation is due was counted.
* `PermitsImplementSemaphore`: `Spec => SemaphoreSpec`, the refinement of the two
  abstract semaphores. `LimitsKnown` ties the limits a request or the cache
  carries to the database: they are current, or were replaced within the age of
  the cache entry and the time the request is under way. `AcquireHeld` says what
  the acquire script does to the holders of a scope.
* `RunningCounted`: `Spec => []RunningHoldsPermit`. `RunInv` says which activity
  a holder awaits and how old its permit may be: an interval and an activity's
  time for each heartbeat lost, and what has passed since the last one. A run in
  `stopping` is covered too: its heartbeat task beats on.
* `OverStaysOut`: `Spec => NoResurrection`.

### `AgentApprovalsProofs`

The inductive invariant has three parts. `RequestInv`: an attempt that a request
uses was installed by a submission of the same calls to the same run, and every
dedup key belongs to a request that claimed it. `RoundInv`: what of a round is
expected, decided, answered and in the table at each await of the workflow, and
(`StopFits`) that only a run that was stopped leaves activities behind, those of a
round only if it was cut there. `UpdateInv`: every decision in memory, in a
payload or in the table goes back to one that was made, and every approval to an
update that was handled (`Traced`); the decisions of a handled update are in the
table or in the open round, unless the round was cut (`HandledOnce`).

From these follow `ApprovalTypes`, `OnlyApprovedRun`, `OneResultPerCall`,
`NothingLeftPending` and `AcceptedKept`; `NewerKept` is an action property.
`AcceptedKept` needs both halves of `UpdateInv`: `HandledOnce` says that the call
is decided, `Traced` by whom. It does not say that the accepted decision always
wins: another submission on the same call or a cancel may override it, and then
the one that stands is among these (`Made`). `late_approval` shows such a case.

### `CaseTriggersProofs`

* `TriggerTypes`: `Spec => []TypeOK`.
* `AckedOnlyHandled`: `Spec => []AckedIsHandled`, from `HandledInv`: a marker means
  a dispatch, and a consumer that may still acknowledge has handled all but the
  workflows it has yet to do (`Vouches`).
* `StartedOncePerFault`: `Spec => []OncePerConsumer`, from `StartsInv`: a dispatch
  for which no marker, and no consumer on its way to the marker, stands was paid
  for by a fault.

### `DurationSyncProofs`

* `SyncTypes`: `Spec => []TypeOK`, with what a consumer's entries have to do with
  its work, and that whoever computed a case holds its lock.
* `NoChangeLost`: `Spec => []NoLostChange`, from `KeptInv`. The property alone is
  not inductive: an entry may be in the hands of a consumer that read an older
  version and is about to acknowledge it. `KeptInv` counts only entries and
  callbacks that nobody is about to spend, and says of a worker that computed that
  it read the current version or that something else keeps the case.

### TLC only

The liveness properties (`Termination`, `EveryRunEnds`, `SlotsFree`, `CancelEnds`,
`EventuallySynced`, `EventuallyHandled`), which are outside the prover;
the dispatch and stream properties on graphs with scatters in loops, and on graphs
that are not `Contained`; and two invariants:

* `StreamErrorsReported` holds where a stream is one path with its handlers, as in
  the run `scatter`. It is false where a stream has two branches: if one fails and
  the other reaches the gather, the gather stores an item and the exception of the
  stream stays. A theorem would have to describe the single path.
* `ScattersResume` says what a finished run has done, so it needs an invariant of
  progress (a fed task that is quiet has marked its edges, and `open_streams` is
  exact, not only large enough), which none of the theorems above needs. It is
  false if a scatter inside another is skipped, and for some scatters in loops
  (`loop_regather`).

That a set of numbers has a least element is cited from the library
(`WFMin`); nothing is proved by induction over data.

## Plan

Done: the five models with their runs; the theorems above.

Next:

1. `ScattersResume`, under the assumption that no scatter inside another is
   skipped and that gathers do not fail.
2. Graphs with loops and scatters, under the assumption that no scatter in a loop
   is empty or skipped.

## Not modelled

Expressions (a pure interpreter, whose results are choices here), the executor,
sandbox and agent subprocesses (process and file I/O), database services (one
transaction per request), auth, storage, API, MCP, frontend and deployment.
The driver's retries and wait strategies are inside the awaits of the model.
Of the modelled parts: the contents of agent streams and which one the workflow
writes to, subagents and tokens; deletions, entitlement changes, malformed
entries and the organisation-wide backfill of durations; payloads, audit records
and the background start of a triggered workflow. `CaseTriggers.Add` leaves out
that the stream is trimmed to a maximal length, and `DurationSync.RequiresSync`
asks whether a definition uses an event's type, without the cases of the types
themselves. The inbox dismisses approvals by a submission that denies them, which
is modelled; that it deletes the rows when this fails is not.
