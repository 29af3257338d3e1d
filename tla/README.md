# Verification of the multi-agent runtime

Bwoah My Pi runs several agents in one process: a main session, the subagents it
spawns, the background jobs all of them start, and the messages they exchange.
This directory holds TLA+ models of that runtime, the TLC configurations that
check them on small instances, and TLAPS proofs of what matters most for
instances of every size. All paths below are relative to
`packages/coding-agent/src` unless they begin with `packages/`.

To run one check or one proof:

    tlc -workers 2 -config YieldQueue_main.cfg MCYieldQueue.tla
    tlapm YieldQueue_proofs.tla

`PROJECT.json` names every run, the mutant that shows each property can fail,
the source lines each definition stands for, the hazards and the findings.

## 1. The system

Everything modelled lives on one JavaScript event loop: a callback runs to its
next `await` without interruption, and any other callback may run while it is
suspended. That is the grain of the models, **one action per stretch of code
between two awaits**, and most of what can go wrong is a decision taken before
an await and acted on after it.

| Component | State | Operations | What is hard | What makes it correct |
|---|---|---|---|---|
| Background jobs: `async/job-manager.ts`, `async/job-control.ts`, `async/auto-background.ts`, `tools/wait.ts` | `#jobs`, `#deliveries`, in-flight sink calls, the suppressed/watched/consumed/released marks, eviction timers, sinks | register, settle, cancel, promote, release, snapshot, wait, deliver, retry, evict, owner wait, dispose | marks are keyed by id, ids are reused, and five kinds of caller race with each completion | a running job keeps its row; a result is told, and told once; waits return when they should and not before |
| Registry and life cycle: `registry/agent-registry.ts`, `registry/agent-lifecycle.ts`, the finalizer in `task/executor.ts`, the revivers in `task/persisted-revive.ts`, the attach in `sdk.ts` | refs, their status and session, adoptions, parks, revivals | spawn, attach, adopt, park, ensureLive, revive, release, kill, cancel, reclaim, dispose | each of these suspends, and an id may be released and registered again meanwhile | one writer per transcript; no session forgotten alive; the dead stay dead |
| Yield queue: `session/yield-queue.ts` | entries, receipts, the idle-flush latch | enqueue, drain, flush, build, discard, clear | the latch, the scheduled task, its cancellation and the busy state change separately | no wakeup lost, every receipt settled once and truthfully |
| Agent loop: `packages/agent/src/agent-loop.ts` | pending messages, asides held over an await | poll, commit, discard | hooks may throw while messages are in a local variable | what left a queue is committed or discarded |
| Session: `session/agent-session.ts`, `session/turn-recovery.ts` | in-flight count, generation, post-prompt tasks, delivery epoch, session id | prompt, abort, /new, /clear, dispose, job-result sink | transitions run across awaits in which the queue lives on | nothing crosses into the next conversation |
| Work pools: `task/workpool.ts` | items, warm workers, batches and their jobs, the pool job | push, dispatch, spawn, requeue, drain, close, abort | batches are jobs that the owner's `wait` sees too; workers die; ids are reserved across awaits | every item runs once or fails, and the pool ends with the whole aggregate |
| Concurrency limits: `task/parallel.ts`, `task/provider-concurrency.ts`, `task/spawn-run.ts` | slots, waiters | acquire, abort, release, resize | sessions with different limits share a semaphore; parents wait for children | no slot lost, none too many, no tree deadlocks |
| Peer messages: `irc/bus.ts`, `session/irc-bridge.ts` | mailboxes, waiters, asides and interrupts of a session | send, wait, wake, steer, roll back | hand-off after reviving the recipient | a message is read once, or its sender is told |
| Daemon broker: `launch/broker.ts`, `launch/client.ts` | daemon records, generations, restart timers, the stored metadata | start, replace, stop, restart, settle, refresh, shut down, recover | requests, exits, timers and refreshes of one daemon interleave at awaits; the next broker knows only what was written | every process is the one a record names, every death is noticed, what was stopped stays down |
| Session files: `session/session-manager.ts`, `session/session-storage.ts` | entries in memory, the JSONL file, the chain of disk work, its epoch and fence, the flags and sizes that say what is on disk, the latched failure | append, rewrite, title change, atomic batch, repair, close, seal | appends write inside the call while rewrites of the same file wait on promises, and other processes write it too | what is recorded is on disk; a batch is whole or absent; nobody's entries are erased |
| OAuth refresh: `packages/ai/src/auth/` | credential rows, leases, refreshes in flight, each process's copy | select, refresh, compare-and-set, disable, sign in | several processes rotate one token, and may die or stall doing so | no token is spent twice, the row never goes back, a live credential is not disabled |
| Collaboration: `collab/host.ts`, `collab/guest.ts`; file lock: `packages/utils/src/file-lock.ts`; goals, vibe, advisor | replicas, lock directory, small state machines | | | candidates for later modules |

The components meet like this. A tool or the task executor registers a job with
the job manager; when it settles, the manager's delivery loop calls the owner's
sink, which is `AgentSession.#deliverAsyncJobResult`; the sink formats the
result and enqueues it in the session's yield queue with a receipt; the agent
loop drains the queue at its boundaries, or an idle flush starts a turn for it;
the receipt settles as the message enters the context, and with it the manager's
delivery. Exits of supervised processes take the same queue, coming from the
broker. Sessions of subagents hang off refs in the registry, which parks and
revives them; the executor registers their runs, and their wake turns, as jobs.
A work pool's batches are jobs run by such subagents. Peer messages go through
`ensureLive`, so they revive parked agents; in the session they are asides of the
same loop that polls the yield queue. Agents of a tree take a slot of their
parent's session for their run and a slot of the provider for each request, and
each request needs a credential that several processes may be refreshing.

## 2. Modules

| Module | Models | Status |
|---|---|---|
| `AsyncJobs` | the job manager and its callers | checked; types and `LiveRunTracked` proved |
| `AgentLifecycle` | registry, lifecycle manager, finalizer, revivers, for one id | checked; types and three action properties proved |
| `YieldQueue` | the queue between sink, agent loop, prompts and session transitions | checked; safety proved, in part outside four named behaviours |
| `Ledger` | the abstract specification of receipts that `YieldQueue` implements | refinement checked and proved |
| `PeerMessages` | messages to one session, from the bus to the context | checked; safety proved, in part outside two named behaviours |
| `WorkPool` | one pool, its workers, its batches as jobs, the owner's wait | checked |
| `Semaphore` | the semaphore as a record and its operations | used by `SpawnTree` |
| `SpawnTree` | a tree of agents over the spawn semaphores and the provider's | checked; safety proved |
| `TokenRefresh` | one rotating credential shared by processes | checked; safety proved, two properties outside two named windows |
| `Daemons` | one supervised process over its launches, its broker and the next one | checked; safety proved outside four named behaviours |
| `SessionFile` | the journal of one session, its manager and other writers | checked; safety proved outside four named behaviours |
| `*_proofs` | theorems about the module of that name | |
| `MC*` | instances of the module of that name for TLC | |

### AsyncJobs and the code

`table` is `#jobs`, `deliveries` counts the entries of `#deliveries` per run,
`inFlight` the sink calls that have not returned, `suppressed`, `watched`,
`consumed` and `released` are the four id sets, `timers` is `#evictionTimers`. A
*run* is one call of `register()`; the code keys its marks by job **id**, and an
agent's name or a discarded `bg_N` is used again, so runs and ids are apart in
the model and every mark is a set of ids. `waiting` and `ownerWait` are calls
suspended in `wait` and `waitForOwnerJobs`. `surfaced` and `deadLettered` are
read by properties only.

Left out: the deadline of an owner wait (it returns false, which promises
nothing), progress callbacks, cleanup of retained artifacts, the length of the
backoff and the order of deliveries (backoff reorders them). `finished` stands
for completed and failed, which the manager treats alike. An aborted bash call
is `Cancel` followed by `ReleaseForeground`.

### AgentLifecycle and the code

Registry and manager key everything by id, and no rule relates two ids, so the
model follows one id; `Refs` are the successive `AgentRef` objects under it and
`Sessions` the session objects. `adoption`, `park`, `entry` are the id's rows in
`#adopted`, `#parks`, `#revivals`; `revival[r]` is a running
`#resolveAndRevive`; `caller` and `release` are suspended calls, and `Teardown`
is the release that `dispose()` makes. `run` is the executor's run up to the end
of its finalizer. The model has the two queues of the event loop: what runs as a
microtask (`Microtasks`) precedes every timer and I/O completion (`Drained`),
which is what the microtask that `park()` yields relies on.

Left out: a `register` that overwrites a live row, `setHistory`, `setActivity`,
`markResultAccepted`, vibe's terminal marking, an `onRelease` that prompts, a
manager created after dispose, the revivers that only tests install. The TTL is
positive and may expire at any moment; cleanup deadlines are not modelled, a
dispose ends sooner or later; transcripts are persisted. `Behaviours` turns
optional ones on: `cancel` (`cancelAgentRegistration`), `oneShot` finalizers,
`lateFailure` of `createAgentSession` or of a reviver, `close` of the manager,
`restore` from a disk scan, `respawn` over a corpse.

### YieldQueue, Ledger and the code

An entry is in `queued` (`#entries`), in `thunks` (drained lazily), in `held`
(the loop's `asideMessages` while it awaits follow-ups) or in `pending`
(`pendingMessages`). `latch` is `#idleFlushPending`, `tasks` and `skips` the
scheduled flush task and a cancelled one whose `onSkip` has yet to run. `loop`
is the point of the agent loop, `inFlight` is `#promptInFlightCount`,
`unwinding` the prompts that are over but have yet to reach `#endInFlight`,
which may overlap. `phase` follows `abort()`, `newSession()` and
`resetSessionContext()` through their awaits, `epoch` is `#asyncDeliveryEpoch`.
`home` and `told` are read by properties only.

`Ledger` says what a receipt promises: an item is submitted, then told with its
receipt resolved in the same step, or returned untold, after which it may be
submitted again.

Left out: advisor notes, MCP notifications and late diagnostics, which are
queued without a receipt; the removal of dispatchers and `skipIdleFlush`.
Steering and follow-up messages are a free choice of the loop. The front ends do
not prompt while an abort or transition runs. A result is read by a snapshot
only from a tool of the running turn, and only when it was not told before (a
model that deliberately reads a process again asks for the repetition). The
manager's retention timer is in `AsyncJobs`, not here.

Three behaviours of the code are outside the main run because with them a
property fails: `followUpFails` has a configuration of its own
(`YieldQueue_orphan.cfg`); `flushInTransition` (an idle flush fires inside a
transition, `agent-session.ts:1863`) and `busyPrompt` (a prompt waiting for the
agent survives an abort, `turn-recovery.ts:2961`) make `StaysInConversation` fail.
No sentence of the repository promises what these two break.

### PeerMessages and the code

`receipt` is what `send` returned to the sender, `mailbox` and `waiter` are the
bus's, `interrupts`, `asides` and `deferred` the three queues of the session's
`IrcBridge`, `snapshot` what `clearPending()` handed to a switch. `wakes` holds
one set of records per `#wakeForIrc` in progress, `loop`, `pending` and `held` are
the agent loop as in `YieldQueue`. `contract`, `published` and `rebuilds` follow
the yield contract of a pooled worker, during which wakes are parked.
`home`, `cleared`, `dropped` and `told` are read by properties only.

Senders are peers: a parent's message to a child that is busy is a steer of the
agent core, which is a free choice of the loop here. Left out: relays to the
parent, asides of extensions, the bounds of mailboxes. Two `Behaviours` are off
in the main run because a property fails with them: `rollback` of a session
switch that found something queued (section 6), and `wakeInTransition`, a message
that comes to an idle session inside a transition (`agent-session.ts:1233`) and is
told in the new conversation, which no sentence of the repository excludes.

### WorkPool and the code

The n-th item is the number n; a batch is named by its first item and a worker
by the item it was spawned for. `chain` is `#dispatchChain`, `reserving` the item
whose `#spawn` awaits an agent id, `freshQueue`, `workers`, `wstate`, `wqueue` and
`cursor` are the pool's own fields, `turn` is the job of a batch and `pool` the
job that ends with the aggregate. `watched`, `consumed` and `delivery` are the job
manager's marks on the batches' jobs; an own delivery is one step here, because
`AsyncJobs` has the steps between. `waiting` is a call of the owner's `wait`.

Left out: profiles and prompts of workers, the context load that orders idle
workers (a choice), timeouts of the caller (a turn may end at any time in any
way), results carried in the yield tool.

### Semaphore, SpawnTree and the code

`Semaphore` has the record of `max`, `current` and the FIFO queue, and one operator
for each method of the class in `parallel.ts`. `SpawnTree` uses one for each
session (`#getSpawnSemaphore`) and one for the provider, which all sessions share
and which each of them **resizes to its own setting** before it acquires. A child
holds the permit of its parent's session from admission to the end of its
cleanup, an agent holds the provider's slot for one request, and a parent that
waits for blocking children holds its own permit meanwhile.

### TokenRefresh and the code

A credential is the number of its refresh token, counted as the provider hands
them out; an access token ages with it. `row` and `lease` are the database,
`pool[p]` is process p's copy, `flight[p]` its refresh in flight with its place in
`refreshStored`, `at`, `stage`, `sel` and `got` are a caller's place in `resolveOAuth`
and what it holds. `wire` are the requests the provider has to answer. `faults`
may be a crash, a caller that gives up, a process that is stopped past its lease
(`stall`) and a revoked grant, each once.

Left out: the choice among accounts and their blocks, usage ranking, the remote
store, API keys. `ChecksUsage` says whether a usage report is awaited between the
selection and the refresh (several accounts and a pin, or a plan gate): with it
`RowForward` fails (section 6).

Callers of a refresh that has finished resume in microtasks. Nothing else of their
own process comes before them but another microtask (`SettledIn`, one conjunct for
the tasks of a process); the other processes, the provider and the clock go on
between any two of them. `StoresBetween` says what may happen then: with it, any
process may store a token while one of several callers of a process has its
result in hand and has yet to use it, and `RowForward` fails (section 6), because the
pool that `replaceById` compares with is the one a sibling has reloaded. Without
it, who has a result while another process stores is the only caller of its process.
The liveness run has `StoresBetween`, the safety run has not.

### Daemons and the code

The model follows one daemon name; the broker treats names apart. `rec` is the
`ManagedDaemon` of the name with `snapshot.state`, `snapshot.pid`, `generation`,
`stopRequested`, `restartTimer` and `process`; `armed` counts the timers that are
really set, so that one the record has lost shows. `reading[g]` counts the calls
of `#settle` for launch g that are past the first test and read the output, and
`watched` the launches whose `exited` promise is pending. `op[h]` is a request (or
`shutdown()`, the `Closer`) at one of its awaits: the refresh (`check`), `terminate`
(`killing`), `#waitUntil` (`waiting`), the awaits before the launch (`relaunch`).
`writes` is `persistQueue`, `disk` the metadata file. A launch has a number, which is
generation and pid at once. `stopped` and `lost` are read by properties only.

Requests are admitted as in the code: a start unless one of the name is in
`#startingNames`, a restart or a stop when the name has a record. Any number of them
wait for the refresh together. From there `Turn` lets a start or a restart go on:
two restarts, or a restart and a start, that are both past it are the behaviours
`restartRace` and `startRace`, the latter with a restart that is called when a start is
past it. A restart that goes on after a start has put a new
record in place launches the old one (`LaunchReplaced`). Stops, refusals and the
shutdown wait for no turn.

Left out: completion notices, readiness, output, PTYs, `mode`, the broker's lease and
idle timer, the client, what becomes of a replaced record after `LaunchReplaced`. Four
`Behaviours` are off in the main run because properties fail with them (section 6):
`restartRace`, `startRace`, `slowOpen` and `lateStart`. A process that
was alive when its broker crashed before the pid was written is beyond any broker's
reach; `ProcessTracked` names it as its exception (`lost`).

### SessionFile and the code

`entries` is `#entries`, `disk` what the two files hold: the session's own and the
sibling to which it moves when it must (`#moveOffSessionFile`). An entry is an
identity and a file the set of its entries; `expected` is `#expectedDiskSize`, as the
set whose length it is. `current`, `required` and `dirty` are `#fileIsCurrent`,
`#rewriteRequired` and `#atomicRewriteDirty`; `fresh` are the calls whose work
carries the present `#diskEpoch`, `tail` the end of `#diskTail`, `batch` is
`#atomicEntryBatch`. A call (`TitleSet`, `Rewrite`, `Close`, `BatchCalled`,
`Recover`) queues work with `Schedule`; `job` holds what the work has serialized
(`body`), over what (`exp`), and what it has read back (`seen`). `RewriteNow` is
`#rewriteSynchronously`, which appends, `flushSync` and title changes fall back on
inside the call. `Busy` keeps I/O from ending before the continuations that are
ready have run. `undone` is read by properties only.

`Behaviours` has writes that fail (`fails`) or are done and reported as failed
(`rejects`), a second claimant (`owner`) and `seal`. Three windows are closed in the
main run because properties fail in them; each has configurations of its own (section
6): `between`, a call between the end of a rewrite and the flags its caller sets;
`late`, superseded work that undoes the dirty flag, the fence or the flags of newer
work; `relapse`, an entry of another process between a batch's publish and its end.

Another claimant takes the session over (`OwnerChanges`) only between calls: a take-over
in the middle of one is left out. Left out too: relocation and forks, loading, drafts,
blobs and the title slot, in-place updates of an entry, storage backends that defer a publish.

## 3. Runs

| Run | Instance | Properties, and what they say |
|---|---|---|
| `jobs_safety` | 2 runs sharing ids, 1 owner, 1 wait, 1 name and the generated ids | `TypeOK`; `LiveRunTracked`: the row of a job whose body executes stays; `DeliverySound`: no foreground result is told, none twice by the sink, no `bg_N` names two jobs, no result of an unshared id is lost, watch marks have a waiter, a disposed manager is quiet; `OwnerWaitSoundByRun`: an owner wait overlooks only a job that took over an id |
| `jobs_liveness` | 2 runs with generated ids | `EverythingEnds`: results reach their owner, deliveries drain, foreground calls and owner waits end |
| `lifecycle_safety` | 2 refs, 2 sessions, 2 ensureLive callers, 2 killers and the teardown, all behaviours | `TypeOK`; `OneWriter`: one session per transcript; `NothingForgotten`: no orphan session, no lost TTL, retired refs hold nothing; `HandOutAttached`; `KilledStaysDead`; `StaleWorkHarmless` |
| `lifecycle_liveness` | 1 ref, 2 sessions, 2 callers, a killer, the teardown | `AsyncWorkEnds`: ensureLive and release answer, killed sessions are disposed, a dispose leaves no finished agent alive |
| `yield_main` | 1 job result, 1 exit, 1 change of conversation, 2 overlapping prompts | `TypeOK`; `NoOrphanReceipt`; `NoLostWakeup`; `SeenOnce`; `StaysInConversation`; `ImplementsLedger`; `DeliveriesSettle` |
| `peers_main` | 2 messages, 2 commands, 1 turn that unwinds while a prompt begins | `TypeOK`; `KeptOrTold`: told once, or kept where somebody looks, and an idle session has nothing queued; `HeardInSession`: a message is told in the session it was sent to (`StaysInSession`), and is told in the end (`MessagesHeard`) |
| `workpool_main` | 3 items, limit 1 or 2, warm or fresh workers, 1 wait | `TypeOK`; `WorkPlaced`: queues, workers and turns agree, the limit holds, what the pool job leaves is done; `WorkEnds`: an outcome is final (`OutcomeFinal`), the pool drains, items settle, results are told |
| `spawn_tree` | main session, 2 subagents, 1 grandchild, limits 1 and 2 | `TypeOK`; `SlotsSound`: slots and holders agree, nobody waits for a free slot, an admission respects the limit it came with (`CapRespected`); `AgentsEnd` |
| `tokens_safety` | 2 processes, 3 callers, one fault of any kind; no usage report, no token stored between (section 2) | `TypeOK`; `GrantKept`: no token is spent twice and the grant's token is at hand; `NoLiveGrantDisabled`; `RowForward` |
| `tokens_liveness` | 2 processes, a caller each, a crash or a giving up, usage reports awaited | `CallersReturn` |
| `daemons_main` | 2 requests and the shutdown at once, 2 launches, 2 crashes or shutdowns | `TypeOK`; `RecordTrue`: a process runs only as the one the record (or, without a broker, the disk) names (`ProcessTracked`), an exit is settled or about to be, and a daemon that waits for its restart has one timer, which a stop finds (`DeathNoticed`); `StaysStopped` |
| `session_main` | one append, one entry of another process, one title change or rewrite, one batch, one repair or close, faults of every kind | `TypeOK`; `CompletedIsOnDisk`: a recorded entry is on disk, or what keeps it out is latched or under way; `BatchWhole`: no file holds a part of a batch, what was committed is there, what was refused is not; `NothingErased`: no write takes an entry out of a file, and a sealed manager writes nothing |

**Further configurations.** These instances are kept beside the runs; each shows
the violation of a sentence of the repository that section 6 quotes, or, for
`Daemons_open.cfg` and `Daemons_late.cfg`, of what such a sentence is about, and TLC finds it within seconds to minutes:

| Configuration | Module | Violated |
|---|---|---|
| `AsyncJobs_owner_wait.cfg` | `MCAsyncJobs` | `OwnerWaitSound` |
| `AsyncJobs_lost_result.cfg` | `MCAsyncJobs` | `NoResultLost` |
| `AgentLifecycle_clobber.cfg` | `MCAgentLifecycle` | `AdoptionNotClobbered` |
| `AgentLifecycle_handout.cfg` | `MCAgentLifecycle` | `HandOutLive` |
| `AgentLifecycle_failed_revive.cfg` | `MCAgentLifecycle` | `FailedReviveLeavesParked` |
| `YieldQueue_orphan.cfg` | `MCYieldQueue` | `NoOrphanReceipt` with a failing follow-up |
| `YieldQueue_stranded.cfg` | `MCYieldQueue` | `ExitsSettle` |
| `PeerMessages_rollback.cfg` | `MCPeerMessages` | `NoneStranded` with a rollback |
| `WorkPool_told.cfg` | `MCWorkPool` | `BatchesConsumed` |
| `TokenRefresh_usage.cfg` | `MCTokenRefresh` | `RowForward` with a usage report awaited |
| `TokenRefresh_between.cfg` | `MCTokenRefresh` | `RowForward` with a token stored while one of two callers of a process has a result |
| `Daemons_restart.cfg` | `MCDaemons` | `ProcessTracked` with overlapping restarts; and, with `Behaviours <- StartRace` in it, with a restart and a start that overlap |
| `Daemons_open.cfg` | `MCDaemons` | `StaysStopped` with a stop during a detached launch |
| `Daemons_late.cfg` | `MCDaemons` | `ProcessTracked` with a start during the shutdown |
| `SessionFile_late.cfg` | `MCSessionFile` | `CompletedIsOnDisk` with a batch while a superseded rewrite reads back |
| `SessionFile_fence.cfg` | `MCSessionFile` | `CompletedIsOnDisk` with a superseded title change that takes a newer title's fence |
| `SessionFile_relapse.cfg` | `MCSessionFile` | `BatchWhole` with another writer between a batch's publish and its end |
| `SessionFile_between.cfg` | `MCSessionFile` | `CompletedIsOnDisk` with a call between a rewrite and the flags its caller sets |

The passing runs check next to them what does hold: `OwnerWaitSoundByRun`, the
part of `DeliverySound` about unshared ids, `HandOutAttached` (the session is
attached, live or being disposed), `ResultsTold`.

**Bounds.** In `AsyncJobs`, `Cap` equals the number of runs: it does not bind,
because refusing a registration only removes behaviours. `MaxId` leaves room for
every id the runs can ask for. Two runs are the fewest that can share an id; the
third in `AsyncJobs_owner_wait.cfg` is needed for a job awaited, one that replaces
it and one that keeps the wait going. Two refs and two sessions give every
lifecycle property the old and the new generation; a third would repeat the
second, because nothing in the code keeps more than one predecessor; two killers
let a plain release overtake a kill. `lifecycle_liveness` has one ref, because
with two the finding of `AgentLifecycle_clobber.cfg` leaks an agent past dispose. In
`YieldQueue` entries interact only through the latch and the places that hold
them, so one of each kind shows each race; `MaxUnwinding = 2` lets a prompt begin
while two predecessors unwind, which is what drives the in-flight count to zero
too early; `MaxEpoch = 1` gives a before and an after. In `PeerMessages` the
second message is the one that comes while the first is on its way. In `WorkPool`
three items over two workers are the least that fill every queue. The tree of
`SpawnTree` is wider and deeper than its limits; `MaxRequests` lets the main
session ask before and after it spawns. Two tokens to begin a call with, and a
third at a sign-in, give `TokenRefresh` a predecessor and a successor of the one
that is being refreshed. In
`Daemons` two requests give each pair of a start, a stop and a restart beside the
shutdown (of two that launch, one waits for its turn; `Daemons_restart.cfg` has both
go on), two launches give an old and a new generation,
and two ends of a broker let what a recovery wrote be recovered again. In `SessionFile`
one behaviour has a title change or a rewrite, and a repair or a close, each
beside a batch, an append and another process's entry, and
`MaxRecoveries = 1` has a conflict that is survived and one that is not; a second
append with a title and a batch, and a rewrite with a repair, a close and a batch
without the append, pass too and show nothing new. That every call returns
(`CallsReturn`, under `FairSpec`) holds with the faults `fails` and `rejects`; it is
not in a run, because it takes longer than the others together. The proofs remove these bounds for the
properties they cover.

**Deadlock** is not checked: each instance really stops, when its runs, sessions,
items or entries are used up and nobody asks for more.

**Constraint.** `AsyncJobs_owner_wait.cfg` has the action constraint `PromptResume`:
a wait whose jobs have settled resumes before the next registration. It only
removes behaviours, so that the counterexample does not rest on the order of
microtasks.

## 4. Fairness

*AsyncJobs.* A body ends (tools have timeouts and are aborted), a foreground call
acts on its job, a due delivery is taken, blocked waits return: weak fairness,
since each is a timer or a ready continuation. Strong fairness for a sink that
resolves: each attempt may reject, but a sink is not down for ever. Nothing is
assumed of registration, cancellation, snapshots, eviction or dispose.

*AgentLifecycle.* Weak fairness of microtasks, strong fairness of each awaited
completion when the microtask queue is empty: a completion stays ready while
calls and their microtasks interrupt it, and the loop gets to it whenever it has
drained. None for users, peers, timers, runs.

*YieldQueue.* Weak fairness of every await that is not on the user: sinks, model
calls, hooks, the steps of an abort. Strong fairness of the flush task and of a
returning prompt in an idle session: a user may submit the next prompt within
the millisecond before the task or the turn's return, but not every time. The
user never has to do anything, nor does a job have to finish.

*PeerMessages.* The same: weak fairness of wakes, prompts, the loop, the steps of
transitions and of contract rebuilds; strong fairness of a wake and of a turn's
return when the agent is idle, and of the loop's end (no turn goes on for ever).
The pool clears each contract, or releases the worker. Nobody has to send.

*WorkPool.* Weak fairness of dispatch, of the reservation of an id, of turns
(which have a time limit), of what follows them, of the pool job's own steps and
of a wait (which has a limit). Nobody has to push, close or abort.

*SpawnTree.* Weak fairness of each agent's next step: a request ends, an agent
that may go on or stop does one of them, cleanup has a deadline. None for an
admission: that waiters are admitted is what `AgentsEnd` shows.

*TokenRefresh.* Weak fairness of microtasks; strong fairness, when these have
drained, of each caller's and each refresh's next step, of the provider's answer
(requests have a timeout) and of the expiry of a dead process's lease.

*Daemons, SessionFile.* None: what the runs check is about what must not happen.

## 5. Proofs

TLAPS checks 22213 obligations. Assumptions on constants are those the modules
name: ids, owners and processes have their sentinels, bounds are natural numbers,
jobs and exits are different things.

**AsyncJobs_proofs.** `TypeCorrect` (`[]TypeOK`), `LiveRunInvariant` and
`LiveRunsStayTracked` (`[]LiveRunTracked`): no eviction, discard, reset or stale
timer removes the row of a job whose body still executes. `LiveRunTracked` is not
inductive: an eviction works on an id, so one has to know that ids in the table
are unique (`UniqueRows`, kept by `#resolveJobId`), that a timer and a consumed
mark always name a row that has *settled*, and that settled rows do not run
(`StatusInv`). `LiveRunInv` is their conjunction; the part about timers is what a
timer left over from an earlier run of the id would break, and the proof of each
action that re-arms, discards or reuses an id goes through it.

`DeliveriesAreSound` (`[]DeliverySound`) rests on `DeliveryInv`, inductive together with
`LiveRunInv`. Only `SingleDelivery`, `NoFreshResultLost`, `WatchHeld` and
`DisposedQuiet` survive as they stand; the rest is what they lean on. `SilentInv`
extends `ForegroundSilent` to all that has not finished, so that settling and
promotion queue a first delivery. `MarkInv` says when a mark is true: a suppressed or
consumed id on a finished background row means that the result was told, or
that an earlier run had the id; without it a drop of a muted delivery loses a
result. `WaitInv` keeps the rows a blocked wait holds: no timer fires before the
wait resumes, no reset evicts before it has stopped the waits, no discard takes
a background job; so the id swap of `snapshotJobs` never finds another job. `AutoInv`
keeps the counter above every generated id but those of discarded jobs.
`OwnerWaitsAreSound` states `OwnerWaitSoundByRun` from `AwaitedInv`: every awaited id was
carried by a job that is still awaited or has settled.

**AgentLifecycle_proofs.** `Typed`, `KilledAgentsStayDead`, `StaleWorkIsHarmless` and
`HandOutIsAttached` state the three action properties of the run for any number
of refs, sessions, callers and releasers and all behaviours. They rest on
`Inductive` (`[]IInv`); `RetiredRefsHoldNothing` follows from it at once.
Each part of `IInv` says what a piece of suspended work may still rely on when it
resumes, and is there because an action property would fail without it:
`WorkInv` (work in flight names its ref and session) and `OwnerInv` (a session is
held for one ref only: whoever disposes the attached session works for the
registered ref, which is `StaleWorkHarmless`); `RetiredRefsAreEmpty` and `FreshInv`
(no session of a ref that is parked, killed or unborn); `BuildInv`, `WokenInv` and
`ParkInv` (a revival without a session, a woken caller and a park that has
detached keep out of each other's way, so that a revival attaches to a ref that
is empty and a caller hands out what is attached); `AliveInv` (what is attached
is not disposed, the last conjunct of `HandOutAttached`). The proof first states
what each group of steps changes for one ref, session and caller (the effect
lemmas), and derives each part from these.

`OneWriterAtATime` and `NothingIsForgotten` rest on a second invariant
(`InductiveSafe`, `[]SafeInv`, inductive together with `IInv`). Its centre is
`KeptInv`: a session that still writes is accounted for by its ref, by the park that
has detached it, by the kill that has, or, once dispose() forgot the park, by the
closed manager. From it follows that a revival and a spawn attach to a ref none of
whose sessions is alive (`AttachAlone`), hence one session of a ref (`SingleInv`)
and one of the id that no cancellation has let go (`WriterInv`). Those who wait
for a dispose before they unregister the ref must find its last session ended
(`ReadyInv`), and a release that waited for a park must find no park (`ResumeInv`).
For the timer, `TimerInv` says that an idle adopted agent without one is being parked,
or a caller that cancelled the park is about to arm it; a park whose flag is
already set counts only while such a caller still waits for it (`CancelInv`), and
`ParkRefInv` keeps the park on the ref that is registered.

**YieldQueue_proofs.** `QueueTypeCorrect`, `QueueInvariant` (`[]QueueInv`),
`NoLostWakeups`, and `NoOrphanReceipts`. `QueueInv` has five parts, each proved
per action: `PlaceInv` ties the loop's locals to its points; `FlushInv` says the
latch is set exactly while one flush task or its cancellation is outstanding,
and that a cancelled one is still awaited by an abort or a transition; `PhaseInv`
follows the transitions; `WakeInv` is the lost-wakeup property extended over the
switch of sessions, where `NoLostWakeup` alone is not inductive; `ReceiptInv` has
an entry in one place and lets receipts and the context agree. `TypeOK` itself
is inductive only with `FlushInv` and `PhaseInv` (they bound tasks and epochs).
`NoOrphanReceipts` assumes that `followUpFails` is not among the behaviours: with
it the property is false (section 6). `LedgerImplemented`: `Spec => ImplementsLedger`,
the refinement, for any sets of results and exits. One lemma says that what any
step does to receipts and tellings is a set of ledger moves; it is cited for each
action. `ResultSeenOnce` (`[]SeenOnce`) rests on `SeenInv`: nothing that is about
to enter the context has been consumed by a snapshot, and what a snapshot has
consumed never entered it. `ResultsStayInConversation` (`StaysInConversation`)
assumes that `flushInTransition` and `busyPrompt` are not among the behaviours;
both are used in one place, `StillInv`, which says that the loop stays off from
the end of a transition's abort to its own end. With it `HereInv` survives the
change of epoch: what the loop holds was built here. `CallInv` connects the
epoch that the code compares (`born`, taken when the sink is called) with the
conversation that a job belongs to.

**TokenRefresh_proofs.** For any processes, callers and faults, and whatever
is awaited or stored between: `Typed`, `NoLiveGrantIsDisabled`, `OneSpends`
(`[]OneSpender`) and `OnlyResultsGoBack`, which says that a write that takes the row
back, if there is one, is that of a caller which had its result before: a refresh
or a sign-in never is. `RowNeverBack` and `GrantIsKept` assume that neither of the
windows of section 6 is open (`~ChecksUsage`, `~StoresBetween`). `TypeOK` is inductive by itself; its last conjunct, that the
owner of the lease is refreshing, holds because every way out of `refreshStored`
releases it. `FlightInv` and `WireInv` say what a refresh in flight knows: its
answer is newer than what it asked with, and what was rejected is not the
grant's token, so a compare-and-set that still finds it disables nothing live.
`GotInv` is about the callers that have a result and have yet to use it: it is what the
pool of their process has, and what the row has where another caller of the process
is busy. So a caller writes back what is there, or, alone in its process, compares with
a copy that is older than the row, and writes nothing. `JoinInv` is needed beside
it: who started a refresh waits for it, so a caller with a result is not alone in a process
that is refreshing. `LeaseInv` and `OrphanInv` say who owns the lease
as long as nothing fails; with them `AtHand` is inductive: the row has the
provider's token, or the lease's owner is about to store it.

**PeerMessages_proofs.** `Inductive` holds for all behaviours. Its core says of each
message where it may be and what its sender may know (`Followed`): it is in one
place (`Alone`), it has been told or is somewhere, and it is somewhere as long as
its sender takes it for delivered and no command has dropped it. `LoopInv` and
`PhaseInv` say when the loop's locals and the snapshot of a switch may be
overwritten. From it follow `TypeCorrect` and `HeardOnceNotLost`, two of the three
parts of `KeptOrTold`. The third, that an idle session has nothing queued,
is `MessagesKeptOrTold`, for an instance without `rollback` and
`wakeInTransition`; `MessagesStayInSession` (`StaysInSession`) needs only that
`wakeInTransition` is off. Both rest on `StillInv`, nothing runs in a session that
is being changed, and the second on `HomeInv`, which follows each message to the
session it was handed to, through the snapshot of a switch and back.

**SpawnTree_proofs.** `SlotsStaySound` (`[]SlotsSound`), for any tree of agents, any
limits and any numbers of requests. It has two layers. The lemmas about the
semaphore say, for each operation of the class, that the record stays `Sound` for
a set of holders and a set of waiters: the count is the number of holders, the
queue lists each waiter once, and nobody waits beside a free slot. What an
aborted waiter leaves in the queue is the recursive function `Without`; its lemma
is by induction on the positions of the queue, as the smallest counterexample of
a well-founded order (`NumbersFromZero`). The second layer (`Counted`) says that
holders and waiters are the agents whose state says so. `CapRespected` is proved
beside it, as it is about a step: whoever enters with it enters under the ceiling
that the same step has set (`Capped`).

**Daemons_proofs.** `TypeCorrect` holds for all behaviours. `RecordsTrue`
(`[]RecordTrue`) and `StoppedStays` (`StaysStopped`) assume `Behaviours = {}`: each
of the four behaviours breaks one of them (section 6). `ProcessTracked` alone is
far from inductive, because a process outlives its broker and the next one knows
what was written. `FreshInv`, `StoredInv` and `GoneInv` say what the record, the
writes under way and the disk may hold, and that the last of them has the pid of
the record; `OpsInv` that a request that is to launch and is past its look at the
daemon has beside it only such as have yet to look, and a start no restart at all
(`Alone`), so that the record it launches is the one in place; `StopInv` and `CloseInv`
what a request that resumes after its `terminate` may rely on, so that the launch
that follows replaces nothing that runs; `HeardInv` that somebody is to hear of
each exit; `TimersInv` that the record has the only timer; `StoppedInv` that what
was stopped has neither process, timer, log file to open nor request that could
bring it back.

**SessionFile_proofs.** For any entries, batches, writers and faults, the windows
of section 6 included: `EntriesStay` (`NothingErased`) and `BatchesUndivided` (no
file holds a part of a batch, the first part of `BatchWhole`). A rewrite replaces
the file by what it serialized some awaits ago; that it erases nothing is
`KnownInv`: what the manager expects to find on disk it has in memory or has rolled
back, and so has every job in what it is about to publish, so a file that holds
more differs from what is expected and is read back first. `WholeInv` says of every
set a job or the manager holds that it has all of a batch or nothing. `CallsInv`
bounds the turns a call may queue; `TypeOK` is not inductive without it.

With `between` and `late` left out (`Closed`), `CompletedOnDisk` (`CompletedIsOnDisk`),
`CommittedOnDisk` (the second part of `BatchWhole`) and `OneWorks`. Their invariant is
`FullInv`, built in layers, each of which needs the one before it. `StepMoves` says
what a step may do to the calls: one of them queues, goes on, ends, takes its next
turn or begins a repair. From it `ChainInv`: the works of the present epoch stand in one
line that ends at `tail`, so one of them at most is at work (`OneAtWork`); `LockInv`
and `RepairInv` add that a batch or a repair excludes the other. `OthersSpare` then
says that no other call's step touches the flags, the fence, the expected set or the
file under the one at work, or else supersedes it, which `WorkInv` turns into
what each point of a rewrite knows: the file it writes is the session's, and what it has
serialized lacks nothing but what the dirty flag announces. `DiskInv` is what the
flags mean while nobody is at work, and `CompletedIsOnDisk` follows from both. For a
committed batch, `UndoneInv`, `KeptInv` and `OpenInv` say that its entries are not
among those rolled back and stay in memory, and so on disk. All of it holds until the
seal; after it `SealedInv` says that what is under way publishes nothing.

With `relapse` left out too, and at least one conflict tried again (`Guarded`; the code
has `MAX_WRITE_CONFLICT_RECOVERIES` = 3), `BatchesWhole` (`BatchWhole`, all three parts).
The last part says that of a batch reported as rolled back nothing is in memory or on
disk. In memory nothing is left by the rollback itself; what could bring it back is a
pass of the repair that finds the batch's own entries in the file, takes them for
another writer's and adopts them, or a body serialized before the rollback and published
after it. `OutInv` excludes the second and says when a batch that is out of memory may
still be on disk: while its repair is under way. It needs `HeldInv` against the first:
while the open batch is in the session's file, whoever is at work publishes over just
what is there, so there is no conflict to read back. That is true at the moment of the
publish, and every later step must leave it so. The steps that could not are those of
superseded work, which may find its own late publish in a file and set
`#expectedDiskSize` to it. `StaleInv` excludes that for a file the session has left, and
itself rests on `EvenInv`: on the first file, what is expected is what is there, or is
going to be after one more attempt, or another process has added an entry that no late
body holds. Under those are small facts: one call at a time has a publish to report
(`SoloInv`), only a rewrite counts conflicts (`TriesInv`), the sibling is
untouched until the session moves there (`SiblingInv`), another process's entry is in a
file before it is anywhere else (`NovelInv`), and a session that finds itself owned
elsewhere has no publish under way (`MovedInv`). Here the constants need one more
assumption, `ForeignAssumption`: what other processes write are not this manager's
entries, for ids are unique. TLC checked these invariants on small instances
before they were proved. `relapse` has to be left out, for `BatchWhole` fails in it
(`SessionFile_relapse.cfg`), and `between` and `late` because the layers above fail in
them.

**Only model-checked.** Liveness (`DeliveriesSettle`, `ResultReachesOwner`,
`EverythingEnds`, `AsyncWorkEnds`, `MessagesHeard`, `WorkEnds`, `AgentsEnd`,
`CallersReturn`, `CallsReturn`), which needs fairness and ENABLED;
`ClosedMeansReleased` of `AgentLifecycle`, a part of `AsyncWorkEnds`; all of `WorkPool`,
the next module that deserves a proof. No module that theorems are about declares a RECURSIVE operator.

## 6. Findings

What a doc, a comment or a test says and the code does not do, each with the
configuration that shows it:

1. `AgentLifecycle_clobber.cfg`: `#resolveAndRevive` (`registry/agent-lifecycle.ts:405`) stores a
   cold adoption by id before it looks whether the registry still holds its ref;
   line 19 there: stale async work "can never clobber a newer same-id ref".
2. `TokenRefresh_usage.cfg`: `tryOAuth` awaits a usage report (`packages/ai/src/auth/select.ts:988`)
   and then persists the credential it selected before over one that was stored
   meanwhile; `pool.ts:468`: "A peer rotation wins the CAS and is reloaded instead
   of being overwritten". `TokenRefresh_between.cfg` contradicts the same sentence
   without a usage report: `replaceById` (`pool.ts:476`) expects whatever the pool has at
   that moment. A caller holds a token; a peer process stores a newer one; another
   caller of the first process reloads the pool to it (`select.ts:890`, or its own
   failed compare-and-set, `pool.ts:486`); the first caller's compare-and-set then
   matches, and writes the older token over the newer.
3. `AsyncJobs_owner_wait.cfg`: `waitForOwnerJobs` (`async/job-manager.ts:681`)
   remembers awaited jobs by id and returns true while a job that re-registered
   such an id runs; line 664: "Jobs registered while waiting (e.g. by a follow-up
   turn) are awaited too."
4. `AsyncJobs_lost_result.cfg`: `unwatchJobs` (`async/job-manager.ts:550`) takes an
   older delivery of the same id for this run's and drops the result it held
   back; line 537: "Settled jobs whose delivery was skipped while watched and not
   consumed are re-enqueued."
5. `YieldQueue_orphan.cfg`: asides polled at the stop boundary are lost, receipts
   and all, when preparing the follow-ups throws (`packages/agent/src/agent-loop.ts:1801`),
   and the manager's delivery never returns; `session/agent-session.ts:2912`: "settle
   only after the yield queue injects or discards it".
6. `YieldQueue_stranded.cfg`: `resetSessionContext` (`session/agent-session.ts:5747`)
   cancels the idle flush of an exit notification that it keeps;
   `docs/tools/bash.md:60`: "exit notifications still auto-deliver".
7. `AgentLifecycle_handout.cfg`: `ensureLive` (`registry/agent-lifecycle.ts:369`) hands
   out a session that a plain release is disposing (502); line 13: "A disposing
   session is never handed out."
8. `AgentLifecycle_failed_revive.cfg`: a reviver that fails after the attach
   (`task/persisted-revive.ts:237`) leaves the ref running; `agent-lifecycle.test.ts:660`:
   "revive failure leaves the agent parked without a live session", and
   `sdk.ts:4039`: "Startup failure therefore leaves it revivable."
9. `PeerMessages_rollback.cfg`: a rolled back session switch restores the queued
   messages (`session/agent-session.ts:11293`) and asks nobody to look at them; line
   1145: "Once idle, wake a turn so the agent responds to the peer."
10. `WorkPool_told.cfg`: a `wait` of the owner unwatches the pool's batches for both
    (`tools/wait.ts:187`), and they are then delivered beside the aggregate
    (`task/workpool.ts:198`); `docs/tools/eval.md:245`: "The aggregate result
    auto-delivers once, while internal batch jobs are consumed".
11. `Daemons_restart.cfg`: two `restart`s await the stop of one record and then each
    launch it (`launch/broker.ts:1288`): the first process runs on, and no record
    names it. The same with `Behaviours <- StartRace`: a restart that waits while a
    start puts a new record in place (`:756`) launches the record it has found before
    (`:1296`), beside the process of the new one. Line 437, of starts: "without a
    synchronous reservation two clients can both pass the check and spawn duplicate processes — one exits on a held
    resource [...] or keeps running untracked."
12. `SessionFile_late.cfg`: a rewrite that was superseded while it recovered from a
    conflict returns to its loop and resets `#atomicRewriteDirty`
    (`session/session-manager.ts:1742`, `:1723`), which by then belongs to the rewrite
    of a newer batch; what was appended during that batch is not written although
    the flags call the file current. Line 1712: the rewrite "loops on
    `#atomicRewriteDirty` so any fenced append that lands during the rewrite is
    captured before the task resolves". A title change under a latched failure, which
    rewrites inside the call (`setSessionName`), leaves a batch's rewrite in that place.
    `SessionFile_fence.cfg`: the fallback of a superseded title change
    (`#runFencedAtomicRewrite`, line 1926, with its own old epoch) does the same, and also
    takes the fence without a test (`:1717`); an append then writes at once, fails,
    and the rewrite of the newer title clears that failure (`:1927`).
13. `SessionFile_relapse.cfg`: the repair of a batch that failed after its rename meets
    a file of another size, because a peer appended to it, and adopts every entry it
    does not know (`session/session-manager.ts:1212`), the batch's own among them;
    line 2703: "A failed publish removes only the staged entries".
14. `SessionFile_between.cfg`: between the return of `#runFencedAtomicRewrite` and
    `#fileIsCurrent = true` (`session/session-manager.ts:1697`) there is a microtask
    in which an append to a batch, whose flags the caller then overwrites, may run;
    line 841: completed entries "are handed to the OS synchronously in-body on append".

Observed while modelling, with no sentence against it:

- `cancelAgentRegistration` (`async/job-control.ts:417`) does not look at `aborted`. A
  cancel that lands while a kill still writes its tombstone removes the row at
  once, which `agent-lifecycle.ts:433` and `:470` want to keep; a respawn may then
  open the transcript of a session that is being disposed. `OneWriter` and
  `KilledStaysDead` name the case.
- `agent-session.ts:1233`: a message to an idle session inside a transition wakes a
  turn in it; the resumption tests the connection, `deliver` does not.
- `task/workpool.ts:177` notes the pool job as started before it registers it, so a
  refused registration leaves the items queued for ever; `:366` sets items running
  before it registers their batch; `:199` accepts a push while the drained pool
  awaits its batches, and then neither runs nor refuses it.
- `launch/broker.ts:919`: a detached launch awaits its log file and spawns without a
  second look. A stop in between answers "exited", and the process starts after it
  (`Daemons_open.cfg`); so does any refresh, a `list` too, because it finds no pid.
- `launch/broker.ts:491`: a start that waits while `shutdown()` goes through the records
  launches a process that outlives the broker and is on no record of the next
  (`Daemons_late.cfg`).
- `launch/broker.ts:921`: a crash between the spawn and the write of the pid leaves a
  process of which the next broker knows nothing (`lost`).
- `session/session-manager.ts:1926`: when the append of a title's line fails, the rewrite
  that should follow never runs, because closing the writer throws the writer's own
  error (`:1724`); a rewrite that runs before a queued title append writes the title
  twice.
- `session/session-manager.ts:1461`: a repair whose publish the commit guard discarded
  records the size of the body it did not write; the next publish finds the conflict
  and recovers.
- `packages/ai/src/auth/refresh.ts:460`: the signal of the caller that started a
  refresh ends it for all that joined.

## 7. Not modelled, and the plan

Modules that are left, most important first:

1. Completion notices of the broker: subscriptions, the outbox, replays and
   acknowledgements over a crash. Questions found by reading: a recovery makes no
   notice of an exit while an older one is unacknowledged (`launch/broker.ts:1486`),
   although `session/launch-completion.ts:17` has one "per terminal supervised process exit",
   and notifies before the notice is on disk; a `start` does not await the writes
   of the record it replaces, which go to the same file.
2. `AsyncJobs` composed with `YieldQueue`: the retention timer against a delivery
   in its backoff (`job-manager.ts:634`), which crosses a /new in neither alone.
3. The bus's bounded mailboxes and relays (`irc/bus.ts:286`), the file lock
   (`packages/utils/src/file-lock.ts`), collaboration (`collab/`), relocation and forks
   of a session file (`session/session-manager.ts:2449`).

Further hazards that are known, by line; no property covers them but where one is named:

| Line | Hazard |
|---|---|
| `async/job-manager.ts:409` | a queued job takes no slot, and `markRunning` starts it without asking for one |
| `async/job-manager.ts:634` | a delivery in its backoff whose row was evicted is not dropped |
| `session/turn-recovery.ts:2961` | a prompt that waits for an idle flush survives an abort |
| `session/agent-session.ts:1863` | an idle flush fires inside a transition |
| `task/executor.ts:3396` | a kill while a one-shot finalizer awaits the dispose of the same session |
| `task/executor.ts:3403` | a message wakes a session between the end of its run and its adoption |
| `registry/agent-lifecycle.ts:174` | `adopt` does not look at `#disposed` |
| `async/job-manager.ts:838` | a discarded foreground job hands its `bg_N` back (`DeliverySound` looks at it) |
| `async/job-manager.ts:778` | dispose clears the table under suspended sinks and waits (`DeliverySound`) |
| `async/job-manager.ts:672` | an owner wait loops over jobs registered meanwhile (`EverythingEnds`) |
| `task/persisted-revive.ts:237` | a revival fails after its attach (`NothingForgotten`) |
| `async/job-control.ts:417` | a cancel beside a kill, above |
| `irc/bus.ts:179` | a hand-off that throws leaves the message in the mailbox and tells the sender it failed: a sender that repeats it is heard twice |

Planned proofs: `ClosedMeansReleased`, `WorkPlaced` and `OutcomeFinal`.

Not modelled for good: the terminal UI and the other front ends (they call the
session's operations, which the models let them do whenever the session
accepts), providers and the model catalog (a model call is an await that ends),
MCP, language servers, debuggers and eval kernels (clients of external
protocols), editing tools and the native crates (sequential or pure, with tests
of their own), the SDKs, `robomp`, benchmarks, build and deployment files.
`PROJECT.json` lists each with its reason.
