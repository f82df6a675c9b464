# in-concert: formal model

TLA+ modules, TLC runs and TLAPS proofs for in-concert, a BPMN engine that runs
on MongoDB. Paths are relative to the root of the repository; the engine is
under `src/`.

## The system

A deployed process is a graph of nodes and sequence flows. An **instance** of it
is one state document (tokens, scopes, waits, join arrivals, multi-instance
entries, a version) and an append-only event log. Everything that happens to an
instance is a **continuation**, a durable message in a MongoDB collection.
Workers claim continuations one at a time, read the state document, compute the
next state with a pure function and write it back in one transaction, guarded by
the version they read. The same transaction inserts the follow-up continuations
and the callbacks (outbox rows) that tell the host application what to do. The
host answers through the REST API or the SDK, which insert further continuations.

| Component | State it keeps | Operations | What makes it hard |
| --- | --- | --- | --- |
| Continuation queue, workers, sweeper (`workers/processor.ts`, `workers/sweeper.ts`, `server/index.ts`) | continuation status and lease; state version, lastEventSeq, event log | claim, read, commit, conflict, release, sweep | several workers; a read outside the transaction; leases nobody renews; `release` by `_id` whoever holds the continuation; crashes between any two writes |
| Transition function (`engine/transition.ts`) | tokens, scopes, waits, joinArrivals, multiInstancePending, status | one branch per continuation kind and node type | any order of continuations, duplicates, scopes and counters that must agree with the tokens |
| Host answers (`sdk/client.ts` 594-727, `api/routes.ts` 336-455) | none, inserts continuations | completeWorkItem, submitDecision, submitMultiInstanceData | duplicates and late answers |
| Graph (`model/parser.ts`, `model/types.ts`, `model/validator.ts`) | nodes, flows, start nodes | parse, validate | shapes that pass validation and the transition function does not handle |
| Outbox and broadcast (`workers/outbox-dispatcher.ts`, `ws/*`) | outbox status; handlers under way | broadcast, markOutboxSent, dispatch | handlers nobody awaits, a dispatcher racing the worker that is about to mark a row |
| Worklist (`worklist/projection.ts`, `worklist/routes.ts`) | human tasks | upsert from callbacks, activate, unclaim, complete | a projection replayed over user actions; read-then-write routes |
| Engine worker (`sdk/engineWorker.ts`, `recover` of `sdk/client.ts`) | inFlight, waiters, change stream | start, stop, awaitQuiescent, recover | stream, poll and callers asking for one instance at once; a full pool; missed events; an exit that races a new continuation; a crash with continuations in hand |
| Trigger scheduler (`workers/trigger-scheduler.ts`, `workers/fire-reporter.ts`) | schedule lease, cursor, nextFireAt, retries | claim, fire, advance, pause, error | two schedulers on one schedule, exactly-once start with an idempotency key |
| Trigger plugins (`triggers/*`) | none / external cursors | fire, create instances | a crash between starting an instance and inserting its START; cursors that run ahead of what was started |
| Instance service (`instance/service.ts`) | instances, state documents, START continuations | start with an idempotency key, deferred start, purge | racing starts; deletions from seven collections beside workers that hold what is deleted |
| Model service (`model/service.ts`), activation (`sdk/client.ts`, `api/routes.ts`) | definitions, trigger schedules by start event and tenant | deploy, activate, deactivate, pause, resume, credentials | no transaction anywhere: deployments that fail halfway, activations that race each other and a deployment |
| Timer expressions (`timers/expressions.ts`, `triggers/timer`) | none | parse, next fire time | a pure calculation with boundary cases |
| History, database, facade, demo server and UI | a projection, indexes, none | read | thin, or external |

How they interact: start (`instance/service.ts`) inserts the instance, the state
and START; the workers drain the continuations through the transition function;
each commit may insert continuations and outbox rows; the rows are broadcast by
the worker at once and by the dispatcher later; a broadcast feeds the worklist
projection and the host; the host's answers are continuations again. The trigger
scheduler starts instances. All of them share MongoDB and nothing else.

What makes each correct:

* queue: nothing is applied twice, lost, or written over; the log has no gap;
  every continuation is dealt with in the end;
* transition function: it plays the token game of the graph; waits and counters
  agree with the tokens; a scope lives as long as what is in it; the instance is
  COMPLETED exactly when nothing is left;
* outbox and worklist: each callback is broadcast, a task a user has claimed
  stays his until it is completed, what is listed is what is open;
* engine worker: one worker per instance, no continuation forgotten, a caller
  answered when the handlers are through and not before, quiet after stop();
* scheduler: each due time starts one instance, a schedule is neither stuck nor
  fired by two schedulers to two effects;
* plugins: every item starts one instance, whatever fails halfway;
* instance service: an idempotency key stands for one instance, a purge leaves
  nothing, and nothing comes back;
* model service: a deployment that returns has made the schedules those of the
  graph, also after one that failed; tenants do not share a schedule;
* timer expressions: the next date is the next date.

## The modules

| Module | Models | Builds on |
| --- | --- | --- |
| `AtomicInstance` | what an instance promises to whoever reads its documents: one thing applied at a time, its events appended in the same instant | |
| `ContinuationQueue` | the queue, the worker loop, the transaction, the sweeper, duplicate submissions | refines `AtomicInstance` |
| `ContinuationQueueProofs` | the theorems about it | `ContinuationQueue`, TLAPS |
| `ProcessGraph` | the normalised graph, with the assumptions the parser guarantees | |
| `TokenGame` | the token game of a graph: what the engine promises of a deployed process | `ProcessGraph` |
| `TokenFlow` | `applyTransition`, every branch, and the host's answers | `ProcessGraph`, refines `TokenGame` |
| `TokenFlowProofs` | the theorems about it, and that it implements `TokenGame` | `TokenFlow`, TLAPS |
| `TriggerScheduler` | the loops that fire trigger schedules, the timer, a feed, pause, resume and redeployment | |
| `TriggerSchedulerProofs` | the theorems about it | `TriggerScheduler`, TLAPS |
| `Worklist` | the outbox, the broadcast, the dispatcher, the projection to human tasks and the users' routes | |
| `WorklistProofs` | the theorems about it | `Worklist`, TLAPS |
| `EngineWorker` | the SDK's worker: change stream, poll, pool, waiters, stop | |
| `EngineWorkerProofs` | the theorems about it | `EngineWorker`, TLAPS |
| `TimerExpressions` | the next date of cron expressions, recurrence rules, cycles, durations and dates, and the chain of dates a timer fires for | |
| `TimerExpressionsProofs` | the theorems about it | `TimerExpressions`, TLAPS |
| `InstanceLifecycle` | startInstance, insertStartContinuation, purgeInstance, beside the workers and the projection | |
| `InstanceLifecycleProofs` | the theorems about it | `InstanceLifecycle`, TLAPS |
| `TenantSchedules` | deployDefinition and activateSchedules on the rows of several tenants, beside the calls of hosts | |
| `TenantSchedulesProofs` | the theorems about it | `TenantSchedules`, TLAPS |
| `MC…` (one for each module with runs) | model values, symmetry and the small processes, feeds, expressions and graphs the runs use | |

The first two detailed modules divide the program where the program itself does.
`TriggerScheduler` stands beside them: all it does to an instance is create it,
with or without its START continuation. `Worklist` begins where a commit ends, with
the callbacks and events it returned. `EngineWorker` is the other place, besides
`workerLoop`, that drains the queue.

`TimerExpressions` is the calculation `TriggerScheduler` takes for granted: there a
cycle's next date is one interval on, a rule is a set of dates (`RuleDates`), and the
calculation throws when there is none left (`NextScheduleThrows`). `InstanceLifecycle` and `TenantSchedules` are about the documents
before and after the time the queue is about: how an instance comes and goes, and
how a schedule comes to be ACTIVE.

`ContinuationQueue` has all of the concurrency and none of BPMN: a continuation
is *about* a subject (a token, a work item, a decision, a multi-instance entry,
or the start), and what the transition function does with the state is abstracted
to "the subject goes, others come". `TokenFlow` has all of BPMN and applies one
continuation per step. `ContinuationQueue` implements `AtomicInstance`, whose
only step is to apply one continuation to the state as it is; that is what
allows `TokenFlow` to be read as a sequence of such steps.

### ContinuationQueue and the code

| Model | Code |
| --- | --- |
| `status`, `lease` | `Continuations.status`, `leaseUntil` compared with the clock |
| `open`, `version`, `lastEventSeq` | the state document; `open` is what `applyTransition` tests before it does anything |
| `events` | `ProcessInstanceEvents` |
| `pc`, `job`, `snap` | where a worker is in `workerLoop`, the continuation it holds, the state document it has read |
| `Claim` | `claimContinuation` (findOneAndUpdate) |
| `ReadState` | the `findOne` before the transaction |
| `MarkNoOp` | the empty result: DONE by `_id`, in no transaction |
| `Commit` | `withTransaction`: numbers reserved with `$inc` under the version filter, events inserted, state overwritten by the patch of the snapshot, continuations inserted, the claimed one DONE |
| `Conflict` | the `Version conflict` thrown when the filter matches nothing |
| `Fail`, `Release` | anything that throws, the catch block that puts the continuation back by its `_id` |
| `Crash` | the process dies, or the catch block's own write throws |
| `ExpireLease`, `Sweep` | 30 seconds pass; `sweepExpiredLeases` |
| `HostSubmits` | a REST or SDK call that inserts a continuation about something it has seen, any number of times |

Some subjects are *sticky*: they may stay open when a continuation about them is
processed. A token parked at a join, a multi-instance entry whose items are not
all done, a token at a node the engine does nothing for. `Commit` is one step
because MongoDB's transaction is: its conflicts show up as the version check
failing, or as a thrown error, which is `Fail`.

### TokenFlow and the code

Each continuation kind and node type of `applyTransition` is an action, in the
order of the source: `Start`, `StartEvent`, `EndEvent`/`EndSubProcess`/
`EndInSubProcess` (the three outcomes of the end event), `EnterSubProcess`,
`CreateWorkItem`, `AskForItems` (multi-instance), `RequestDecision`,
`PassThrough`, `Fork`, `Park`/`Join`, `CompleteWork`, `FanOut`, `TakeDecision`;
`NothingToDo` and `TooLate` are its empty results. The variables are the fields
of the state document. Ids are numbers in the order in which they are minted; a
scope, a work item or a decision is named by the token it belongs to, since the
code mints one of them for each. Two history variables, `minted` and `via`,
remember which tokens there have been and on which flow each was put; the
refinement to `TokenGame` reads them and no action's guard depends on `via`.

The host answers what it has been asked. About items it is asked once for each token
that comes to a multi-instance node (`Asked`), in every round of a loop anew, and it may
answer at any time after; the engine finds the entry by node and scope alone
(`engine/transition.ts:726`), under which every round has its own. An answer whose kind
is `Repeatable` may be given again, and differently; a continuation of such a kind may
be applied again.

Three details of the code are kept because properties depend on them: START and
subprocess entry patch the same token array in each turn of the loop
(`PlaceAtStarts` stores the last one only); the pass-through gateway names an
incoming flow in the continuation it inserts (`PassThrough`); the end event
looks at tokens only, not at entries or nested scopes (`OthersIn`).

### TriggerScheduler and the code

| Model | Code |
| --- | --- |
| `now` | the clock, in seconds: the resolution of the timer's dedup key |
| `row` | a `TriggerSchedules` document: status, nextFireAt, lastFiredAt, cursor, consecutiveFailures, retryAfter |
| `instance` | `ProcessInstances` by schedule and dedup key (the unique index), with the START continuations each was given |
| `published` | what a folder, mailbox or rss feed holds |
| `read` | the mails that are marked as read |
| `passed` | history: what a cursor was moved past on purpose |
| `Claim` | `claimDueSchedule`: its filter is `Due`, its sort `Before` |
| `FireTimer` | `TimerTrigger.fire` |
| `PollFolder`, `DeltaExpires`, `PollMailbox`, `PollRss` | what each plugin lists, and the cursor it will give |
| `LookUp`, `CreateInstance`, `InsertStart`, `TerminateInstance`, `MarkAsRead`, `ItemsDone` | the loop of `fire()` over the items, call by call |
| `Persist` | the transaction of `persistFireResult` |
| `PersistThrows` | `nextSchedule` throws before that, whenever a rule has no date left |
| `PersistFails`, `FireFails` | the catch blocks of `fireClaimedSchedule`, for a transaction or a fire that fails now and then; only the second calls `recordFireError` |
| `Crash` | the process dies |
| `Pause`, `Resume`, `Deploy` | the routes, and `syncTriggerSchedules` on a row that exists |

`job` is the document as it was when it was claimed, and `fire` the locals of the
plugin; both grow stale while others write the row. `slot` is a history variable:
the due time for which a timer's instance was created. `ownerId` and
`leaseUntil` are left out: they are written, unset and swept, but no filter reads
them. A timer is a cycle `R<n>/PT<i>S`, or a rule, of which the scheduler sees its
dates; what those are is `TimerExpressions`' concern.

The three feeds differ in how they know what not to look at twice. A folder asks
for what is new since the delta link in its cursor; a mailbox lists what is
unread and marks it, each mail after its instance; an rss feed lists everything,
every time, and it is the unique index on instances alone that makes the second
time harmless. `skip-existing` primes the cursor of a folder, or of an rss feed,
at the first poll, and an expired delta link primes that of a folder again. What
is skipped so goes to `passed`, and `NoItemIsSkipped` is about the rest.

### Worklist and the code

| Model | Code |
| --- | --- |
| `workItem`, `ended`, `answered` | what the engine knows: work items of the state document, INSTANCE_COMPLETED, WORK_COMPLETED continuations |
| `outbox` | `Outbox.status` of the CALLBACK_WORK row of a work item; STALE is READY for longer than `stalenessMs` |
| `task` | `HumanTasks`: status and assignee |
| `worker` | what `workerLoop` holds between the commit and the end of `markOutboxSent` |
| `dispatcher` | the stragglers `dispatchOutboxBatch` holds between its read and its write |
| `handlers` | the calls of `createProjectionHandler`'s function that are under way: `void notifyHandlers` |
| `CreateWorkItems`, `CompleteWorkItem`, `EndInstance` | a commit of `processContinuation` that concerns user tasks |
| `BroadcastAll`, `MarkOutboxSent`, `MarkFails` | the rest of `workerLoop`'s body and its catch block |
| `FindStragglers`, `BroadcastOutbox`, `MarkStragglersSent` | `dispatchOutboxBatch` |
| `Project`, `ProjectFails` | one database write of a projection call; it throws and `notifyHandlers` logs it |
| `ActivateTask`, `UnclaimTask`, `ReadTask`/`InsertCompletion` | the routes; complete is two steps, for it reads and then inserts |
| `AnswerDirectly` | a host that answers the callback through `completeWorkItem` |

A projection call goes through its payload one write at a time, beside all other
calls. The database keeps the order in which each call writes and no other.

### EngineWorker and the code

| Model | Code |
| --- | --- |
| `ready`, `status`, `events` | READY continuations and status of an instance; inserts the change stream has yet to deliver |
| `inFlight`, `waiter`, `stopped` | the fields of those names |
| `worker` | a promise of `runWithOwnership`: its instance, the await it is at, the callbacks left to make |
| `Run`, `ChangeEvent`, `PollFinds`/`PollSpawns` | the three callers of `ensureInstanceWorker`; the poll is two steps because it awaits its query |
| `Decide` … `Leave` | `runWithOwnership` and `runInstanceWorker`, from await to await |
| `Fail` | anything in the loop that throws: `rejectWaiters` |
| `StreamGap` | inserts missed while the stream is reopened |
| `Stop`, `StreamClosed`, `StopReturns` | `stop()` |
| `held`, `lapsed` | continuations that are IN_PROGRESS with nobody at them, and those of them whose lease has run out |
| `Crash`, `LeaseExpires` | the process of the host dies; 30 seconds pass |
| `SweepExpiredLeases`, `RecoverClaims`, `StartEngineWorker` | `recover()` of the process that follows it, and the start of its engine worker |

A step is what runs between two awaits. The check and the reservation in
`ensureInstanceWorker` are one step for that reason, which is what its comment
claims for it; the mutant takes the reservation out and has it fail.
`recover()` has a loop of its own over whatever is READY, through the same
`processContinuation`; it goes without the map of instances in flight.

### TimerExpressions and the code

An expression is what the parsers make of its text, and an instant a number of
seconds. Days have two hours of two minutes of two seconds: a scale, which keeps
the arithmetic of dates (months of 28 to 31 days, leap years, weeks) and has few
instants. `ComputeNextFire`, `ComputeNextFireAfter`, `NextCronFire` and
`NextRRuleFire` are the functions of those names, with the jump ahead, the
limits of the search and the errors they throw (`Throws`). The state is that of
one timer: when it is asked, its last fire, its next date. `Deploy` and `Fire`
are the two callers, `syncTriggerSchedules` and the timer plugin with
`persistFireResult`. A deployment may come at any time, before the date, after it or
when there is none, for the code sets the row ACTIVE whatever it was
(`model/service.ts:167-227`); `revived`, a history variable, counts those that found
the schedule exhausted.

The reference is `IsOccurrence`: whether a day is in a rule, by
`docs/sdk/usage.md`'s RRULE reference, day by day. `Agrees` says for which rules
it is what the code aims at; the differences below are the others.

### InstanceLifecycle and the code

| Model | Code |
| --- | --- |
| `instance`, `state`, `cont`, `rows` | the documents: `ProcessInstances`, the version of `ProcessInstanceState`, `Continuations`, and whether the other collections have rows of an instance |
| `FindByKey`, `WriteStartInstance`, `FindWinner` | `startInstance`: the look-up, the transaction under the unique index, the look for the winner |
| `InsertStart` | `insertStartContinuation`, for a deferred start |
| `Claim` … `Release`, `Sweep` | a worker, from claim to commit, with its two reads outside the transaction and the two early returns |
| `Project` | `createProjectionHandler`: an upsert |
| `FindRoot`, `Walk` | the breadth-first search for descendants, one query a level |
| `Delete`, `DeleteFails` | one of the `deleteMany` under `Promise.all`, in any order; the first that throws makes the call throw and the others go on |

An instance has two continuations, START and a token, and three versions: what is
between them is `TokenFlow`'s. Nothing under `src/` writes `parentInstanceId`; the
purge reads it, and `Adopt` is the host that sets it.

### TenantSchedules and the code

| Model | Code |
| --- | --- |
| `row` | `TriggerSchedules` by start event and tenant: type, status, configuration (the number of the deployment), whose credentials and whose cursor |
| `ReplaceDefinition`, `ClaimsRefused`, `DeleteOrphans`, `UpsertSchedule`, `UpsertCollides` | `deployDefinition` and `syncTriggerSchedules`, write by write |
| `ReadExisting`, `ReadSources`, `CloneRow`, `CloneFails` | `_ensureTenantRowsExist`: two reads and an insertion for each row that is missing |
| `ActivateConnectors`, `ActivateTimers` | the two updates of `activateSchedules` |
| `ActivateByRoute` | the REST route, which clones nothing |
| `Deactivate`, `Pause`, `Resume`, `SetConnectorCredentials`, `Fire` | what else writes a row |
| `DeployFails`, `ActivateFails` | an error or a crash between any two writes |

## The runs

| Run | Question | Result |
| --- | --- | --- |
| `QueuePlain` | With a crash, a thrown error or a stalled worker, and duplicate submissions: do the documents behave as one atomic applier, is the log gapless, is a subject's effect applied once, is no open subject without work, is what is READY DONE in the end? | holds |
| `FlowBlocks` | Loop, fork, join, choice, merge; every kind of continuation may be applied a second time: is each step a move of the token game, does no token get stranded, does a join record what is there, does the instance end COMPLETED? | holds |
| `FlowScopes` | A loop around two levels of subprocess, an external one, two multi-instance nodes: do waits, counters and scopes agree with the tokens, is the host asked anew in a second round and does its answer reach the entry of that round, and is nothing left when the instance is COMPLETED? | holds |
| `FlowMergeIntoJoin` | Does a join hold the tokens of its own flows, with a merging gateway right before it? | violated |
| `SchedulerAlone` | One loop, with errors, crashes, expired links, pauses and a redeployment, on a cycle beside a rule, on a folder, on a mailbox, on an rss feed: does a due time, and an item, start one instance, are repetitions counted, is no item skipped and no mail marked before its instance, does a pause hold; and, the clock going on for ever, does every item that is published come to have an instance, and every such mail to be marked? | holds |
| `SchedulerOverlap` | Does a due time start one instance when two loops are at it? | violated |
| `TimerDates` | 29 expressions, deployed at six instants and once more at any time, fired up to four times, late by anything from nothing to ten weeks: is the next date of a rule the first of its dates to come, does nothing but a `date` fire twice for one, does no bounded expression fire more often than it says but for a deployment that revives it, does a deployment before the date leave it alone? | holds |
| `WorklistUsers` | One server, two tasks, two users, a host that answers one of them by itself, a crash, an error or a stall: is every callback broadcast, does only a repeated broadcast take a claimed task from its user, does the worklist agree with the engine when nothing went wrong? | holds |
| `WorklistLost` | Does it agree when something did? | violated |
| `WorkerDrain` | Two instances, a pool of one, a caller, a gap of the stream, an error or a crash, a stop at any time: one worker per instance, no answer before the handlers are through, no continuation forgotten, what has lost its lease recovered, nothing claimed after stop()? | holds |
| `Lifecycle` | Two starts with one key, one deferred; a family whose root is purged while a worker and a projection are at it, a child comes late and a deletion may fail: is there one instance for a key, does a returned purge leave nothing of what it found, does no worker bring an instance back? | holds |
| `Tenants` | An owner that deploys twice, failing anywhere, a second tenant, two calls of activateSchedules: do the owner's rows match the graph when a deployment returns, do tenants leave each other alone, has an activation left no row behind? | holds |

The violated ones are disagreements between the code and what its documents say;
PROJECT.json quotes them under `findings`. The process of `FlowMergeIntoJoin` is as
small as it can be, and the two passing Flow runs do not contain its shape: they
show that everything else works, together. `SchedulerAlone` has one loop.
`WorklistUsers` asks for agreement in behaviours without a mishap, and for
everything else in all of them. The type invariants are a conjunct of another
invariant in most runs, where the mutant of that invariant breaks it.

### Bounds, and why they are enough

* Queue (`QueuePlain`): two workers, two copies of each continuation, a start, one token and
  one host-answered subject. Two workers are what a stale snapshot takes; one
  copy more than needed is what a duplicate takes; a token has a continuation
  inserted by a commit, the other kind one inserted by the host, and there is no
  third kind. `MaxMishaps` counts crashes, thrown errors and leases that expire
  under a live worker: one of them lets a second worker in while the first may
  still be at it. A commit emits two events, so that the numbers within one commit
  matter too. No subject of the run is sticky; the theorems are about those as
  well, and need none of these bounds.
* Flow: the graphs are chosen so that every branch of `applyTransition` is
  taken, nested two deep where it is about nesting. `MaxTokens` is checked before a
  continuation is applied. It cuts the loop of `Blocks` in the second round, before the
  join fires again: that a join records and fires anew in every round is what `JoinsHold`
  and `ActiveMove` prove without a bound. The loop of `Scopes` it cuts
  in the second round too, after the multi-instance task: the host has been asked about it
  twice under the same key, and has answered twice. `MaxRepeats` is how often something already applied is applied
  again. One or two items per multi-instance node: the last one, and one that is
  not the last. The theorems need none of these bounds, and are about every graph
  that has the properties they name.
* `ItemCounts` leaves 0 out of the runs' values: a host that resolves to no items
  has its continuation ignored (`TooLate`), and the entry remains for it to
  answer again.

* Scheduler: an interval of one second, a clock that stops after four and two
  repetitions: the cycle is exhausted with time left for a redeployment to fire
  again. Two mishaps, so that a retry can fail too and the second backoff be
  longer than the first. Schedules share nothing but the loop, so that
  `Deployments` has them one or two at a time: the cycle beside a rule, for the
  choice between two that are due, and a folder and a mailbox alone, with two
  items, for a list that fails halfway. The folder skips what it
  finds at first. `NoItemIsSkipped` is proved for any number, and the invariants of a
  single loop for any clock, interval, repetitions, schedules and items. Where there are only feeds the clock
  has no end (`ClockSpec`): what they do depends on how long ago something was, so that in
  `MCTriggerScheduler` the dates in a row grow older instead of `now`, down to where it makes
  no difference any more. Feeds are there one at a time, because two that are always due keep
  each other waiting (see below). A rule of two dates has a date with and one without a next.

* Worklist: two tasks, so that one transaction writes two rows and a projection
  call two documents; two users, for a claim to be taken away or raced; one
  server, which still has its worker, its dispatcher and any number of projection
  calls side by side. One mishap: a row that is broadcast twice takes a stall or a
  crash, and a third broadcast does what the second does.
  Both safety properties are proved for any number of each.
* Engine worker: two instances and a pool of one, so that the pool is full
  whenever an instance is drained and the other must wait for the poll; two
  promises, so that the pool could be exceeded. Two continuations, inserted by the
  host, by a transition or by a handler; one callback to a transition. A pool of one
  that is full has its one instance in flight, so that in this run the look into the map
  and the look at its size come to the same for that instance; `OneWorkerEach` is
  proved for any pool.
* Timer expressions: the rules take every frequency with and without an interval,
  a count and an end, days that a month does not have, positions from both ends, a
  DTSTART on a Monday and not; the years have a 29 February. `MaxPeriods` and
  `CronYears` are the code's own limits. Dates are compared up to `Horizon`, which
  is past the last that four fires, each ten weeks late, ask for.
* Lifecycle: a chain of two, so that a purge has a level to go down, and an instance
  that may become the child's child before the purge starts or while it walks. One worker and two
  claims: START and the token, or one of them twice. One purge, of the root; a
  purge of another instance is a part of this one. One collection stands for the
  three that only commits insert into. All of it is proved for any numbers of these.
* Tenants: one tenant that is not the owner, for those have nothing to do with one
  another; two start events, for a list of two; three graphs, which between them keep,
  drop, add and change the trigger of a start event and have one claimed twice. Every
  call brings credentials, which is the more disturbing case; one action of the
  scheduler or of another call beside the deployments and activations.

Deadlock is not an error in any but the Scheduler runs: an instance that is
COMPLETED, or whose host or users do not answer, has nothing to do, and the calls of
a bounded behaviour come to an end.

### Fairness

`QueuePlain` assumes weak fairness of each worker's step and of lease expiry and
the sweep. The code justifies it by loops that run as long as their process does
(`workerLoop`, the sweeper's interval in `server/index.ts`) and by the clock.
Nothing is assumed of the host: it may never answer. Mishaps are bounded, which
says that crashes and stalls stop; without that no continuation need ever be
done. It starts no continuation by fairness: the property is about those
that are READY.

`SchedulerAlone` assumes weak fairness of each loop's next
step, `triggerLoop` being a `while (true)` around calls that return, and that the clock
goes on. The host and the feed are under no obligation, and `ItemsAreTakenUp` is about
schedules that the host leaves ACTIVE in the end; crashes and errors are bounded. What
throws by itself every time is no mishap (`PersistThrows`).

`WorklistUsers` assumes weak fairness of each loop of each server, and that rows
grow stale. Users, hosts and the projection are under no obligation:
`EveryCallbackIsBroadcast` is about the broadcast.

`WorkerDrain` assumes weak fairness of each promise (every await returns or
throws, those of the handlers too), of the poll's timer and of `stop()`, and that a
host that went down is started again and its `recover()` goes on (`Restart`). It assumes
nothing of the change stream, which may deliver nothing at all: the fallback poll
is there for that.

## What is proved

`ContinuationQueueProofs` proves, for any sets of workers, subjects and copies,
any event counts and any bound on the mishaps:

| Theorem | States |
| --- | --- |
| `QueueInvariance` | `[]QueueInv` |
| `EventLogIsContiguous` | event numbers are 1..lastEventSeq, each once |
| `EffectAtMostOnce` | at most one commit takes effect for a subject that is not sticky |
| `NoLostWork` | an open token has a continuation that can be claimed, now or after a sweep |
| `LogOnlyGrows` | a step only appends to the log |
| `NoUpdateIsLost` | a commit neither revives a closed subject nor drops one it is not about |
| `Refinement` | `Spec` implements `AtomicInstance!Spec` |

They rest on the four named assumptions of `ContinuationQueue`: tokens and sticky
subjects are subjects, START is neither, the engine's copy is a copy, and a
transition that is not empty emits at least one event. TLC evaluates them in
every run of the module.

`QueueInv` is the inductive invariant. At-most-once does not follow from the
continuation's status, for `Release` puts a continuation back to READY that is
DONE already, and two workers can hold the same one. It follows from the state
document: what the log says was applied is no longer open (`AppliedIsClosed`), a
snapshot whose version is still current *is* the current state
(`SnapshotsAreVersioned`), so a commit that passes the version check applies
something that is open now. The third part of `SnapshotsAreVersioned`, a worker
that did not see its subject will not see it come back, and
`QueueIsAboutBornSubjects`, which says that ids are never reused, are what makes
`MarkNoOp` harmless, and with it `DoneIsClosed` and `NoLostWork`.
`ClaimsHaveLeases` is what makes a crash recoverable.

`TokenFlowProofs` proves, for any graph, any answers of the host and any number of
continuations that are applied again:

| Theorem | States | Provided |
| --- | --- | --- |
| `Invariance` | the inductive invariant `IInv` | |
| `TypesHold` | `[]TypeOK` | |
| `WaitsMatch` | `[]WaitsMatchTokens`: the tokens that wait are exactly those that an item or a decision releases | |
| `JoinsHold` | `[]JoinsHoldTheirTokens`: what a join has recorded is ACTIVE, in its scope and under the flow it came by | no merging gateway leads straight into a join |
| `ActiveTokensAreAccounted` | an ACTIVE token without a continuation is at a join, or at a node the engine does nothing for | |
| `ActiveMove` | `[]ActiveTokensMove`: every ACTIVE token has a continuation or is recorded at its join | the same, no node the engine does nothing for, and `[]OneTokenPerFlow` |
| `CountersAgree` | `[]MultiInstanceCount`: counters agree with open items, and an answer that was applied has given the entry of its own token its items, in whatever round | the host answers each question about items once, its answer is not applied twice, and `[]NoEntryIsMet` |
| `ScopesLast` | `[]LiveTokensHaveScopes`: a scope is there as long as a token in it | `[]NothingOverlooked` |
| `CompletedIsDone` | `[]CompletedMeansNothingLeft` | every node but an end event has a way on, and `[]NothingOverlooked` |
| `PlaysTheTokenGame` | `ImplementsTokenGame` | see below |
| `StallsAtJoins` | `[]StallsOnlyWhenCompleted`: what has nothing left to do is COMPLETED | there is a start event, every node but an end event has a way on, as for `ActiveMove`, and `[]NotAllParked` |
| `SequentialProcesses` | `ImplementsTokenGame`, and `[]` of `StallsOnlyWhenCompleted`, `CompletedMeansNothingLeft`, `ActiveTokensMove`, `LiveTokensHaveScopes` and `MultiInstanceCount` | the graph has no parallel branches, and is one as described below; the host answers each question about items once, and its answer is not applied twice |

`IInv` is the types, part by part, that a continuation and the token it is about
agree (`NamesAgree`), that who waits is waited for (`WaitsMatchTokens`), and that
what a join has recorded has been there by that flow (`JoinsHoldParked`). It is the
second of these that makes it harmless that a continuation is applied again: it
finds its token as the document has it, CONSUMED or WAITING or where it was, and no
other continuation is about that token. A transition is met in a few shapes, whatever the node:
tokens are consumed and others put on flows (`SendAlong`), or at start nodes
(`PlaceAtStarts`). A lemma for each says what becomes of tokens, continuations and
flows, and a lemma for each action which shape it has.

The hypotheses are where the code is known to do something else, and are as weak as
that. A merging gateway before a join is `FlowMergeIntoJoin`. A node the engine does
nothing for swallows its token. If a second token comes to a join by a flow that is
recorded already (`OneTokenPerFlow` fails), the join forgets the first of them, and
`ActiveTokensMove` fails one step later. If a token arrives at a multi-instance node
that has its entry already (`NoEntryIsMet` fails), the entry is overwritten, and the next answer
for either token goes to the second. If an end event's
look at tokens does not see an entry or a scope inside its own (`NothingOverlooked`
fails), it ends what still runs. In each of these cases some order of the next
steps violates the property itself, so that a run that finds the property to hold finds
the hypothesis to hold of its graph: `FlowBlocks` for the joins, `FlowScopes` for the
others. That every node has a way on is asked by the rule NO_ORPHANED_NODES
(`model/validator.ts:148-207`).

What the entries have to do with the answers takes an invariant (`Heeded`), because an answer is
identified by the token it is about and an entry by node and scope, which a loop uses again. A
token that came to work is ACTIVE until its continuation is applied and never after
(`Taken`), so that each one asks once; as long as a token has no answer applied, the entry in
its place is its own and has no items (`QuestionsHaveEntries`). So an answer, however late, finds the
entry of its token, and no token's second answer is there to find another's.

`CompletedIsDone` takes an argument about the whole document. An instance is completed by the
last token's end event, which has no entry to look at; why is there no scope left? Something
is in every scope, an entry, a token or a scope inside it (`Occupied`), and a scope
is younger than the one around it (`OlderScopes`, for it is named by the token that
entered it). So there is something in the youngest of them that is no scope. `Stays`
says of each branch of the transition function that it leaves something where it
takes a token away, which is what the way on is needed for.

The next part of `TokenFlowProofs` proves that the engine plays the token game of its graph,

    PlaysTheTokenGame: Spec /\ []NothingOverlooked /\ []OneActivation /\ []NoEntryIsMet
                         => ImplementsTokenGame

so that each continuation that is applied, for the first time or again, is one move of
`TokenGame` or none: no parked token, work item, decision or answer of the host makes a
token go where the graph does not send it, and no branch of `applyTransition` loses
one. The graph has to be one the engine takes as it is drawn:

* `ProperGraph`: the ids of flows are distinct, and no flow has a node's; a level has
  one start event, since `PlaceAtStarts` keeps one token; no flow leads to a start event
  or out of its subprocess; a task or subprocess has one way on, since the code takes the first.
* No merging gateway leads straight into a join (`NoMergeIntoJoin`), and every node
  but an end event has a way on (`NoDeadEnds`).
* The host answers each question about items once, and its answer is not applied twice
  (`engine/transition.ts:729`); a loop may bring up any number of questions.

The three hypotheses about the behaviour are again where the code does something else.
`OneActivation` is what `TokenGame` is stated for: it counts the activations
of a subprocess and does not tell their tokens apart, and an end event that ends one of
two is no move of it. A token that arrives at a multi-instance node that has its entry
already (`NoEntryIsMet` fails) overwrites that entry, and the game has lost a token. An end event that does not see
what its scope has left ends it, which the game allows only for what is `Drained`.
`Blocks` and `Scopes` are graphs as described, and `FlowBlocks` and `FlowScopes`
check the same refinement on them; in `FlowBlocks`, which has no multi-instance task,
the answer about items may be repeated too, and there is none.

The mapping takes the marking of a place to be the tokens that have come by it and are
neither done nor items of a multi-instance task, and for a multi-instance task the token
that opened its entry, as long as the entry is there (`Bearers`). To say that each of these is where the graph
has that place, the proof needs a second invariant, `Traced`: a token is at the node its
place leads to, in a scope of the subprocess around that node (`Placed`); an entry is
of a token that was at its node; a scope is of a token that entered it; the answer to a decision is a flow of
its gateway. The prover then has to count. `MarkingMoves`
says that to give up one bearer at each of some places and to put one new at each of
others is the game's `Moved`, by cardinality, and `BearersMove` and `BearersFinish` bring the
transitions of the engine, the last of several items among them, to that form. A lemma
for each action (`JoinPlays`, `EnterSubProcessPlays`, `EndSubProcessPlays` ...) names
the move it makes. The end of a subprocess is the hardest: that no bearer is in
anything inside it follows from the end event's look at its scope, from
`NothingOverlooked` and from the nesting of scopes (`DrainedAtTheEnd`); and if the
engine does not end it, another token of its scope, or the one that opened an
item's entry, is still in the marking (`OthersBear`, `NotDrained`).

That nothing stops short of the end takes one more invariant, `SomeoneIsLeft`: until the
instance is COMPLETED there is a live token or a multi-instance entry, or START is still
to come. With `ActiveTokensMove` and `WaitsMatchTokens`, whoever is left has a
continuation, waits for the host, or is parked at a join; so the only way to stall is
that everything left is parked (`StallsAtJoins`). That this does not happen,
`NotAllParked`, is a property of the graph (its joins match its forks) that the engine
does not look at, as no deadlock analysis is made when a model is deployed; the graphs of
`FlowBlocks` and `FlowScopes` have it.

`SequentialProcesses` is about the graphs for which no such hypothesis is left. In a
`Sequential` graph there is no parallel gateway and only a choice has several ways on;
loops, nested subprocesses and multi-instance tasks it may have. The inductive invariant
`InSequence` says that the game has one bearer (`Alone`) and that it is in the innermost
scope that is open (`Nested`), and it carries along what a scope or an entry holds
(`Held`, `Occupied`, `Finished`, `RootIsTop`) and what becomes of questions and answers
(`Heeded`). In a second round of a multi-instance task the host is asked and answers
again, so that the loop goes on. It implies each of the hypotheses the other theorems make about
what happens (`InSequenceMeans`). The refinement itself shows that it is kept: the
step plays a move of the game (`StepPlays`), and a move of the game on a marking of one
token leaves a marking of one token (`OneTokenPlays`). What remains assumed is the shape of
the graph, that the host answers each question about items once and that its answer is not
applied twice.

`TriggerSchedulerProofs` proves, for any number of loops, schedules and items and
any clock:

| Theorem | States |
| --- | --- |
| `Invariance` | the inductive invariant `IInv` |
| `NothingIsSkipped` | `[]NoItemIsSkipped`: a feed's cursor is never past an item that has no instance |
| `PauseHolds` | `PausedStaysPaused`: no loop's write makes a schedule ACTIVE |

The first needs to know what a loop has in hand: everything up to its new cursor
has an instance, or is still to be looked at, or is the item between the lookup
and the insertion (`LoopInv`). That instances are never deleted (`Grows`) carries
it across the steps of other loops, and makes it harmless that `Persist` may move
the cursor back. These proofs use that timers and the three sorts of feeds are
different schedules and nothing else of the constants.

It proves, for any schedules, items, intervals, repetitions and clock, of one loop
(`Alone`):

| Theorem | States |
| --- | --- |
| `DueTimesStartOnce` | `[]OneInstancePerDueTime`: whatever fails between `fire()` and its transaction, a due time starts one instance |
| `RepetitionsHold` | `[]RepetitionsAreCounted`: a cycle starts its R<n> instances, and one more for a deployment at most |
| `ItemsStart` | `[]ItemsStartOnce`: an item is given one START, and none if it was skipped |

Nothing in the code sees to it that a schedule is held by one loop at a time, and
`SchedulerOverlap` has two of them break the first; hence `Alone`. The invariant is
`SInv`. Of a timer (`TimerInv`): every instance was created before the next date, for a due time
not after its creation, so that the due time that is now claimed is later than all
that were answered. For this the next date has only to be later than now, and of a rule,
whose next date is the least of those that are, it takes that there is a least one
(`NextDates`). Of a cycle (`CycleInv`): what was started and what the cursor has left
make up the repetitions. Of a feed (`FeedInv`, `FeedLoop`): what was looked up and not found is
not there when it is created, what is created has no START when it is given one, and
what a folder has passed over is behind its cursor, where it is not listed again.

`InstanceLifecycleProofs` proves, for any sets of callers, workers and instances,
any family of them and any number of purges:

| Theorem | States |
| --- | --- |
| `LifecycleInvariance` | the inductive invariant `IInv` |
| `DocumentsComeTogether` | `[]LifecycleInv`: an instance and its state document come together, and until the first purge they stay together |
| `CallersAreGivenTheSame` | `[]CallersAgree`: one instance for one key, unless it has been purged |
| `WhatIsPurgedStaysAway` | `NothingComesBack`: no worker inserts about an instance whose state document is gone |
| `PurgesAreComplete` | `[]PurgeLeavesNothing`: a purge that returns leaves nothing of the instance and its descendants, but where something was inserted meanwhile |

`IInv` is `Shape` (types), `Tidy` (whatever a caller, a worker, a purge or the
projection has in hand is about an instance there has been, and about all others
there is no document) and `Keyed`. `CallersAgree` compares the answers of two calls
and is not inductive: nothing in it says what the unique index does. `Keyed` does,
and orders instances by their ids: no two have a key, and an answer is never
*older* than the instance that has the key now. When two calls disagree, the
earlier answer is older than the later one, and so can not be there any more.
`WhatIsPurgedStaysAway` is the version filter of the commit, with `Tidy` to say that
what a caller creates is none of the instances there have been.

`PurgeInv` is what is true of a purge under way. The family is a closure, the least
set that has the root and the children of all in it; `Walking` says that every set
which has what the walk found, and the children of what it has looked at, contains
the family. When the last level has no children, the list itself is such a set: the
levels need not be counted. What was deleted stays gone unless something was
inserted about it (`Deleting`, `LeavesGone`), in whatever order the deletions ran.

`TenantSchedulesProofs` proves, for any sets of tenants, start events, graphs and
calls, and any number of deployments and other steps:

| Theorem | States |
| --- | --- |
| `TenantInvariance` | the inductive invariant `IInv` |
| `DeploymentsRepair` | `[]OwnerRowsMatchTheGraph` |
| `ApartForAnyTenants` | `TenantsAreApart`: nobody's credentials or cursor in another's row, and no step on rows it is not about |
| `ActivationsComplete` | `ActivationIsComplete`: an activation that returns leaves no row behind |

`OwnerRowsMatchTheGraph` speaks of deployments that have returned; to be inductive
it takes what is left while one is under way (`Deploying`: at most the rows still to
be written are wrong) and that a failed one promises nothing, so that the next has
to start from any rows at all. `ActivationIsComplete` is about one step; `Calling`
carries it there: what a call has read it has inserted, found or will insert, and
between its two updates no connector it read is paused but by a host. Other calls,
fires and pauses keep that because they delete nothing and pause nothing silently
(`RowMoves`); deployments, because the rows of tenants that are not the owner are
none of theirs (`CallsKept`): the deletion of orphans has the tenant in its filter.

`EngineWorkerProofs` proves, for any sets of instances, calls and worker numbers,
any size of the pool, and any number of inserts, callbacks and mishaps:

| Theorem | States |
| --- | --- |
| `WorkerInvariance` | the inductive invariant `IInv` |
| `OneWorkerEach` | `[]OneWorkerPerInstance`, and the pool is not exceeded |
| `StopIsQuiet` | `[]QuietAfterStop` |
| `RunsAnswerLast` | `NotBeforeTheHandlers` |

The pool is bounded by the size of the *map*, which says something of the workers
only while the map has one key for each of them: `Pool` says so, and
`MapCountsWorkers` draws the conclusion from the bijection. A crash empties the map
and recover() works without it; `Hosted` says that nothing but recover() can start
a worker then. `Quiet` says of a worker that `stop()` does not await that it has
decided for nothing, and never will: `stopped` is set before the list of the awaited
is made. The same uniqueness gives `RunsAnswerLast`: who answers has left the loop,
and nobody else has the instance.

`WorklistProofs` proves, for any sets of servers and users, any finite set of tasks
and any number of mishaps:

| Theorem | States |
| --- | --- |
| `WorklistInvariance` | the inductive invariant `IInv` |
| `ClaimsAreKept` | `OnlyRepeatsTakeTasksAway`: a claimed task stays its user's unless its callback is broadcast twice |
| `WorklistComesToAgree` | `[]WorklistAgreesUndisturbed`: without a mishap, what is listed is what is open once nothing is under way |

What takes a task away is a write that opens it, and the counter `broadcasts` is
about callbacks, not about writes. `Once` relates the two: before the first broadcast
no call under way mentions the task; before the second there is one such call, once
in the bag, which mentions it once, and only while there is no task. It needs
that a payload has each of its callbacks once (`CallbacksOnce`, from the bijection
behind `SetToSeq`, which is why `Tasks` is finite), that what a loop has in hand is
about its rows (`Job`), and what becomes of a bag of calls when one of them gets
shorter, fails or dies with its process (`CallsAfterAWrite`, `FewerKeep`).

The agreement of the worklist is about behaviours in which nothing failed, and so is
its invariant (`Undisturbed`, which says `Quiet` of them). A row that is READY is in the hands of the
one worker that committed it, so that no dispatcher has anything to do
(`RowsAreHeld`); what is under way is true when it is written (`Truth`); a work item
has a task, or the write that opens it is to come (`Opening`); and a task is closed
only after its item, and COMPLETED, or going to be, when the item was answered
through it (`Closing`). Once nothing is under way, "to come" says that it has come.

`TimerExpressionsProofs` proves, for any expressions, any length of a day, any delays and
any numbers of deployments and fires:

| Theorem | States | Provided |
| --- | --- | --- |
| `IInvIsInvariant` | the inductive invariant `IInv` | |
| `EveryDateFiresOnce` | `[]NoDateTwice`: only a `date` fires twice for one date, and what is bounded fires as often as it says and once more for each deployment that found it exhausted | durations take time |
| `RedeployKeeps` | `RedeployKeepsTheDate`: of a rule, a cron expression and a `date`, for deployments before it | |
| `NextDateOfARule` | `[]NextIsTheNextDate`: the date of a rule is the first of its dates that is to come | the rules are regular, the search is long enough |
| `NextDateOfACron` | `[]NextIsTheNextMatch`: no match of a cron expression is before its date | |

Two assumptions of `TimerExpressions` say what parsing gives: parts of a duration are
not negative, months are 1 to 12, and an INTERVAL is no less than 1 (the code divides by
it). Instants are those from 2001 on, when the calendar of the model begins.

The hypotheses are what the code does not see to. `R/PT0S` is accepted, and its next date
is the instant itself (`DurationsTakeTime`). A rule is `Regular` when BYSETPOS comes
with BYDAY, since the code ignores BYSETPOS otherwise, and when BYMONTH is in order,
since the code tries the months as they are given. `nextRRuleFire` gives up after 1500
periods, the shortest of which (but for DAILY, which it finds at once) is a week, so that
dates are compared no further than 7 * 1499 days (`SearchIsLongEnough`). Where
code and documents mean different dates, the property itself says so (`Agrees`). The
run's module assumes all of them of its constants, for TLC to evaluate.

`IInv` says that the date there is now is the one the expression gives for the instant it was last
*asked from*, whichever deployments and fires there were (`DateIsComputed`), that what has
fired is past (`FiredIsPast`), and that a bounded expression with a date has a shot left, of its
own or from a deployment (`ShotsLeft`). Deployments come at any time: one that is
overdue or has run out is deployed too. The
rest is about functions. From the calendar, `FirstOfMonth` grows by 28 to 31 days and a day has one
month, which it keeps the order of; so that counting on by months never
goes back, although a day that overflows its month is carried into the next.

For a rule, the periods follow one another (`PeriodDates`: a period's dates are
after its begin and before the next one's), the jump ahead passes only periods that are
over (`JumpPast`), and the search ends in the first with a later date
(`HitIs`). Asked again before its date, a rule jumps no less far than before and not
beyond the period of its date, so it ends there again (`RRuleAgain`), with all there
was before it still gone by: that is `RedeployKeepsTheDate`. A cron expression
asked again may find nothing, for two years from 29 February are not two years from 1
March; then it throws, and the deployment changes nothing.

That it is the *documents'* next date takes that periods have just their dates
(`Occurrences`). Positions in a month are counted by the code among the days with the same weekdays,
in a list it sorts, from either end; by the documents among the days of the month. The two
counts agree because the one list has a bijection with the other (`SameSize`,
`WeekdaysOfMonth`). COUNT of a DAILY rule is compared with the number of the period: the k-th
date is the (k+1)-st, again by counting.

Only model-checked: `EveryContinuationIsDone`, `ItemsAreTakenUp`,
`EveryCallbackIsBroadcast`, `EveryContinuationIsTaken`,
`RunsWithWorkAreAnswered` and that an instance ends (liveness under fairness, which
the prover does not reach). That no join of a graph with parallel branches waits for ever
is a property of the graph, which those of `FlowBlocks` and `FlowScopes` have: `StallsOnlyWhenCompleted`
is proved of graphs without, and of the others up to that.

## Where code and documents differ, without a run

* With several top-level start events only the last one's token is stored:
  `patchTokens` takes the same `tokens` on every turn (`engine/transition.ts:105`,
  `PlaceAtStarts`), while `readme/REQUIREMENTS.md:423` says "Create token at each
  startNodeId."
* An end event ends its subprocess while a subprocess nested in it still runs:
  it looks for tokens of its own scope only (`engine/transition.ts:181`,
  `OthersIn`).
* An inclusive gateway passes validation and swallows the token
  (`engine/transition.ts:634`); `README.md:564` has "Unsupported elements fail
  fast and loudly — never silently."
* A continuation released after its commit (`server/index.ts:270`) is applied
  again when its subject is sticky; `readme/REQUIREMENTS.md:1100-1101` has
  "Transition must be idempotent." `AppliedAtMostOnce` is therefore about the
  others.
* Two loops on the same feed item may insert two STARTs, or one for an instance
  the host's callback in the other loop has terminated: `startInstance`'s
  `deduplicated` is not looked at (`sharepoint-folder-trigger.ts:335`).
  `ItemsStartOnce` holds for one loop.
* A second MULTI_INSTANCE_RESOLVED (a repeated callback, a retried continuation)
  creates the work items once more: only the entry's existence is checked
  (`engine/transition.ts:729`); `readme/TEST.md:48` has "No duplicate work items."
  With that kind in `Repeatable`, `MultiInstanceCount` fails at once.
* An instance that a feed created stays RUNNING without a START when the process
  dies, or the insertion fails, in between: the retry drops the item as processed
  (`sharepoint-folder-trigger.ts:332`); `docs/sdk/usage.md:498` has "your processes
  don't disappear".
* A callback that is broadcast a second time puts a task that was claimed, or
  completed, back to OPEN, the assignee still in it (`worklist/projection.ts:43`).
  Hence "only repeats" in `OnlyRepeatsTakeTasksAway`.
* A user who has read an OPEN task completes it although another has claimed it
  since (`worklist/routes.ts:195-210`); `routes.ts:78` has "blocks other users".
* `run()` may never be answered: a waiter that registers after `notifyWaiters` and
  before the instance leaves `inFlight`, or while the pool is full, or before
  stop(), is answered by the next worker of its instance, and a quiescent instance
  gets none. `sdk/engineWorker.ts:119-120` has "callers whose instance is already
  quiescent get notified on the next microtask". Hence `RunsWithWorkAreAnswered`.
* `run()` may be answered RUNNING while a continuation is READY, one inserted
  between the claim that found nothing and `getInstance`
  (`sdk/engineWorker.ts:193-196`); line 113 has "Resolve when `instanceId` has no
  more claimable continuations".
* stop() does not drain: a worker leaves after the continuation it is at, the
  others stay READY and no waiter is told (`sdk/engineWorker.ts:192`);
  `docs/sdk/usage.md:823` has "Returns after every instance-worker currently
  processing has reached quiescence".
* The recovery of the engine worker does less than it says. `recover()` sweeps the
  leases that have run out by then, once (`sdk/client.ts:772`), broadcasts READY
  outbox rows to in-process notifiers and marks them SENT; the handlers given to
  `init()` are not called again. `docs/sdk/usage.md:430` and `:489-498` have stuck
  continuations reclaimed and callbacks delivered again. What loses its lease
  later, and what a transition that throws leaves behind (there is no release as in
  `workerLoop`), stays IN_PROGRESS until the next restart: nothing sweeps in local
  mode. `RecoverTakesWhatLapsed` is therefore about what had lapsed.
* A row is marked SENT before its handler is called (`sdk/engineWorker.ts:203`): a
  crash in between loses the call.
* A bounded cycle, or a duration, that is EXHAUSTED starts one more instance when its
  definition is deployed again: the deployment computes a first date and leaves the
  cursor at 0 (`RepetitionsAreCounted` and `NoDateTwice` allow it). A `date` does too, for the same instant as before and under
  another dedup key, although `docs/sdk/usage.md:1568` has "One-shot. Fires once at the specified
  time.": `deployStatus` is ACTIVE and its first date is its one date, past or not
  (`model/service.ts:167-227`, `triggers/timer/timer-trigger.ts:61`). That a `date` fires once fails
  after one deployment too many.
* A deployment of a cron expression or a rule that is overdue passes over the date that has
  not fired (`RedeployKeepsTheDate` is about deployments before the date); one of a rule that has
  no date left throws, after the definition was replaced.
* A task with two outgoing sequence flows continues on the first only
  (`engine/transition.ts:656`); `readme/REQUIREMENTS.md:446` has "usually one"
  but speaks of all outgoing.
* `processContinuation` returns without marking the continuation DONE when the
  state document or the definition is missing (`ReadState`, `ReadInstance` of
  `InstanceLifecycle`); the sweeper then hands it out again, for ever.
* An end event completes the instance while a multi-instance entry is still
  pending (`engine/transition.ts:204`): its items come too late. `README.md:93` has
  "only advances the parent token once **all** iterations have completed". `CompletedMeansNothingLeft` holds in processes
  that have no multi-instance task on a parallel branch.
* Parsing keeps flows that start or end at elements it does not support, or that are
  not there; `ProcessGraph`'s `GraphAssumption` holds of graphs that have passed the
  validator, and deployment does not ask it.

Feeds and their plugins:

* An rss feed with `skip-existing` skips at its first poll alone; the second lists
  the whole feed again and no instance says that it was to be skipped
  (`triggers/rss/rss-trigger.ts:190`); `README.md:48` has "primes its
  cursor … instead of replaying the whole archive". `ItemsStartOnce` claims it of
  folders only. The ai-listener does not look at `initialPolicy` at all
  (`triggers/ai-listener/README.md:39`).
* A folder's cursor moves past a file that is still being uploaded, which the
  pattern drops; when it is complete the delta has it as a modification, and that is
  dropped too unless `includeModifications`.

Timers:

* The last date of a bounded rule never starts an instance (`PersistThrows`): after it
  `persistFireResult` asks for the next one, `nextSchedule` throws, and nothing of the
  fire is written; the row stays due and is tried again without backoff
  (`workers/trigger-scheduler.ts:240`); `docs/sdk/usage.md:1653` has a schedule
  fire, and then EXHAUSTED.
* Such a row, or a feed that is due whenever the loop looks, is claimed before any timer that
  is due later: rows without `nextFireAt` sort first, then the oldest date
  (`workers/trigger-scheduler.ts:88`). A loop that is slower than its feeds come due never gets to
  a timer. No document promises an order. That a timer which is due comes to be fired is therefore claimed
  nowhere; it is also why
  `ItemsAreTakenUp` is about a feed by itself.
* COUNT of a WEEKLY, MONTHLY or YEARLY rule is compared with the occurrences met
  in one call (`timers/expressions.ts:301`); `docs/sdk/usage.md:1612` has "stop
  after 100".
* The weeks of a WEEKLY rule with an INTERVAL begin on the day of DTSTART. In the first
  period of a MONTHLY or YEARLY rule a date before DTSTART may be given. BYMONTH that
  is not in order skips dates; a negative BYMONTHDAY never fires; BYDAY without
  BYSETPOS is ignored in MONTHLY and YEARLY rules, and a day like `1MO` is dropped.
* Cron: `n/step` drops the step; 7 is no day of the week; day of month and day of
  week must both match; a step of 0 never ends; `29 2` throws in years far from a leap
  year, for the search ends after two years.
* 31 January and one month is 3 March (in 2001): months overflow, as in `Date`.

Instances:

* A purge beside a worker that commits leaves rows behind: the commit may insert
  events and continuations between the deletions, and the projection may upsert a task
  after them, as may a deferred start. `instance/service.ts:236-239` has everything
  about the instance removed. Hence `disturbed` in `PurgeLeavesNothing`.
* A purge that fails after the deletion from ProcessInstances can not be repeated: the
  instance is not found. What the other deletions did not reach stays.

Schedules of tenants:

* A clone keeps `retryAfter`, `consecutiveFailures` and the owner's configuration,
  with a `clientId` or secret in it (`sdk/client.ts`, `_ensureTenantRowsExist`), whose
  comments have "clone starts idle" and independent credentials; the plugins read the
  row's `credentials` only. A timer cloned from an EXHAUSTED one becomes ACTIVE without
  a due date.
* The insertion of a clone is expected to fail for the unique index and for nothing
  else (`sdk/client.ts:1534`): any error is swallowed, and the row is missing.
* A row of a tenant that is not the owner never gets a redeployed configuration, and
  keeps the old type of its trigger.
* When the trigger of a start event has another type, the upsert collides with the row
  there is, after the definition was replaced; a start event two triggers claim is
  refused after it was replaced, too. `OwnerRowsMatchTheGraph` is about deployments
  that return.
* A deployment sets timers ACTIVE that a host has paused.
* `/trigger-schedules/activate` and `deactivate` (`api/routes.ts:845-894`, "Same
  semantics") are not limited to a tenant and set `startingTenantId` on all rows; the
  routes under a definition are (`:665-667`), and so are those of `TenantsAreApart`.
* Credentials that are set, and rows that are activated, keep their backoff: a schedule
  that failed often waits it out.

## What is not modelled

* `processUntilComplete` of the SDK, the older loop that `EngineWorker` replaced; it
  returns before it calls the handlers of the transition that ends the instance.
* A start within the caller's own transaction; instances' synopsis and metadata, which
  only set fields.
* Two deployments at once, which can leave the graph of one and rows of the other:
  `TenantSchedules` has one at a time. Deployments without a tenant, where activation
  is of every row. An `updateMany` is one step in it.
* Payloads, assignment (lane, role), `contextVariables`, attributes of callbacks:
  data that no decision of the engine depends on.
* Web socket clients: they get the payloads the handlers get, and keep nothing.
  WORK_ITEM_CANCELED and INSTANCE_TERMINATED, which the projection handles and
  nothing in the engine emits. Batches of the dispatcher that are full.
* In the engine worker, delayed continuations (the engine inserts none), an
  ownership that declines, and starting again after stop() in the same process.
* Of the plugins, which items a pattern lets pass, and what they ask of their service.
* XML parsing, HTTP, authentication, the UI.
* MongoDB: one-document writes are atomic, transactions are atomic and
  isolated, unique indexes hold.

## Plan

1. `ContinuationQueue`, `AtomicInstance` and their proofs: done.
2. `ProcessGraph`, `TokenGame`, `TokenFlow`: modelled and checked; twelve theorems, the
   refinement of `TokenGame` among them.
3. `Worklist`: modelled and checked; three theorems.
4. `TriggerScheduler`: modelled and checked, with the three polling plugins; six
   theorems. Left: an abstract specification (each due time starts one instance), the
   ai-listener.
5. `EngineWorker`: modelled and checked, with `recover()`; four theorems. Left:
   `processUntilComplete`, several processes.
6. `TimerExpressions`: modelled and checked; five theorems.
7. `InstanceLifecycle`: modelled, checked, five theorems.
8. `TenantSchedules`: modelled, checked, four theorems. Left: two deployments at a
   time.
9. `EngineRuntime`: `TokenFlow` under the queue's workers, the composition that
   the abstraction above argues for.
