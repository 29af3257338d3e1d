------------------------------ MODULE YieldQueue ------------------------------
(***************************************************************************)
(* YieldQueue (packages/coding-agent/src/session/yield-queue.ts) between   *)
(* its producers and the agent loop of one session: how the results of     *)
(* background jobs and the exits of supervised processes reach the model.  *)
(* Entries wait in the queue; a running turn polls them as "asides" at its *)
(* boundaries, an idle session starts a turn for them from a scheduled     *)
(* flush task, and each has a receipt that settles when it enters the      *)
(* context (COMMIT) or is given up (DISCARD).  Prompts, aborts, /new,      *)
(* /clear and dispose race with that.                                      *)
(*                                                                         *)
(* An action is what the code does between two awaits.  Abstractions: the  *)
(* advisor's notes, which are polled but never flushed and carry no        *)
(* receipt, are left out; steering and follow-up messages are a choice of  *)
(* the loop; the front ends do not prompt during an abort or a transition; *)
(* a result is read by a snapshot only from a tool of the running turn.    *)
(***************************************************************************)
EXTENDS Integers, FiniteSets

CONSTANTS
    Jobs,         \* results of background jobs ("async-result")
    Exits,        \* exits of supervised processes ("launch-completion")
    MaxEpoch,     \* bound: how often the conversation is replaced or cleared
    MaxUnwinding, \* bound: prompts that are still unwinding when one begins
    Behaviours    \* which optional behaviours an instance includes

ASSUME KindAssumption == Jobs \intersect Exits = {}
ASSUME BoundAssumption == MaxEpoch \in Nat /\ MaxUnwinding \in Nat
ASSUME BehaviourAssumption ==
    Behaviours \subseteq {"new", "clear", "dispose", "deadline", "noModel",
                          "followUpFails", "flushInTransition", "busyPrompt"}

Entries == Jobs \union Exits

VARIABLES
    \* Where entries are
    queued,      \* YieldQueue.#entries
    thunks,      \* drained by drainLazy, not built yet
    pending,     \* pendingMessages of the agent loop
    held,        \* asideMessages, while the loop awaits follow-ups
    \* What their producers know
    receipt,     \* the promise of enqueueWithReceipt
    call,        \* per job: the manager's delivery and its sink call
    born,        \* per job: #asyncDeliveryEpoch when the sink was called
    suppressed,  \* jobs whose result a snapshot has consumed
    \* The idle flush
    latch,       \* #idleFlushPending
    tasks,       \* scheduled flush tasks
    skips,       \* cancelled ones whose onSkip has not run
    \* Turns
    loop,        \* where the agent loop is
    runner,      \* who awaits it: a prompt or an idle flush
    aborted,     \* its abort signal
    inFlight,    \* #promptInFlightCount
    prompt,      \* a prompt is in its setup
    unwinding,   \* prompts that are over and have yet to reach #endInFlight
    flushReturn, \* the same for the idle flush
    \* The session
    phase, goal, \* abort(), and what it is part of
    epoch,       \* #asyncDeliveryEpoch
    session,     \* the session id, counted
    disposed,    \* beginDispose, then dispose()'s abort
    \* Observation only
    home,        \* the epoch of a job, the session of an exit
    told         \* how often an entry entered the context

placeVars == <<queued, thunks, pending, held>>
jobVars == <<call, born, suppressed>>
flushVars == <<latch, tasks, skips>>
turnVars == <<loop, runner, aborted, inFlight, prompt, unwinding, flushReturn>>
sessionVars == <<phase, goal, epoch, session, disposed>>
vars == <<placeVars, receipt, jobVars, flushVars, turnVars, sessionVars, home, told>>

TypeOK ==
    /\ queued \subseteq Entries /\ thunks \subseteq Entries
    /\ pending \subseteq Entries /\ held \subseteq Entries
    /\ receipt \in [Entries -> {"none", "pending", "resolved", "rejected"}]
    /\ call \in [Jobs -> {"none", "due", "formatting", "waiting", "done"}]
    /\ born \in [Jobs -> 0 .. MaxEpoch]
    /\ suppressed \subseteq Jobs
    /\ latch \in BOOLEAN /\ tasks \in 0 .. 1 /\ skips \in 0 .. 1
    /\ loop \in {"off", "top", "model", "polling", "stopPolling", "stopping"}
    /\ runner \in {"none", "prompt", "flush"}
    /\ aborted \in BOOLEAN
    /\ inFlight \in Nat
    /\ prompt \in BOOLEAN
    /\ unwinding \in Nat
    /\ flushReturn \in BOOLEAN
    /\ phase \in {"none", "aborting", "draining", "cancelling", "settling",
                  "switching", "clearing"}
    /\ goal \in {"stop", "new", "clear"}
    /\ epoch \in 0 .. MaxEpoch
    /\ session \in 0 .. MaxEpoch
    /\ disposed \in {"no", "begun", "aborted"}
    /\ home \in [Entries -> 0 .. MaxEpoch]
    /\ told \in [Entries -> Nat]

Init ==
    /\ queued = {} /\ thunks = {} /\ pending = {} /\ held = {}
    /\ receipt = [e \in Entries |-> "none"]
    /\ call = [j \in Jobs |-> "none"]
    /\ born = [j \in Jobs |-> 0]
    /\ suppressed = {}
    /\ latch = FALSE /\ tasks = 0 /\ skips = 0
    /\ loop = "off" /\ runner = "none" /\ aborted = FALSE
    /\ inFlight = 0 /\ prompt = FALSE /\ unwinding = 0 /\ flushReturn = FALSE
    /\ phase = "none" /\ goal = "stop"
    /\ epoch = 0 /\ session = 0 /\ disposed = "no"
    /\ home = [e \in Entries |-> 0]
    /\ told = [e \in Entries |-> 0]

-----------------------------------------------------------------------------
(* Helpers of the queue                                                     *)

\* isStreaming
Streaming == loop # "off" \/ inFlight > 0

\* Mutant: the dispatcher does not look at the suppression mark.
StaleByEpoch(e) ==
    IF e \in Jobs THEN born[e] # epoch ELSE disposed # "no" \/ home[e] # session

\* isStale of the two dispatchers
Stale(e) ==
    IF e \in Jobs THEN born[e] # epoch \/ e \in suppressed
    ELSE disposed # "no" \/ home[e] # session

\* #build drops the stale entries of a batch and rejects their receipts.
Survivors(E) == {e \in E : ~Stale(e)}

\* #rejectEntries and #resolveEntries: a promise settles once.
Settled(told_, rejected) ==
    [e \in Entries |->
        IF receipt[e] # "pending" THEN receipt[e]
        ELSE IF e \in told_ THEN "resolved"
        ELSE IF e \in rejected THEN "rejected" ELSE "pending"]

\* The messages built from E enter the context, and are committed.
Injected(E) == [e \in Entries |-> IF e \in E THEN told[e] + 1 ELSE told[e]]

\* Mutant: no latch.
ScheduleAgain(wanted) ==
    /\ latch' = (latch \/ wanted)
    /\ tasks' = IF wanted THEN tasks + 1 ELSE tasks

\* #scheduleIdleFlush, when `wanted'
Schedule(wanted) ==
    /\ latch' = (latch \/ wanted)
    /\ tasks' = IF wanted /\ ~latch THEN tasks + 1 ELSE tasks

\* Mutant: the flush is requested only by an enqueue.
NeverRequested == Schedule(FALSE)

\* requestIdleFlush
RequestIdleFlush == Schedule(queued # {})

\* #enqueue: an idle session schedules a flush.
Enqueue(e) ==
    /\ queued' = queued \union {e}
    /\ receipt' = [receipt EXCEPT ![e] = "pending"]
    /\ Schedule(~Streaming)
    /\ UNCHANGED <<thunks, pending, held, skips>>

-----------------------------------------------------------------------------
(* Producers: the job manager's delivery of a result, and the launch broker *)

\* A background job settles in the conversation that started it.
JobFinishes(j) ==
    /\ call[j] = "none" /\ phase # "switching" /\ disposed = "no"
    /\ call' = [call EXCEPT ![j] = "due"]
    /\ home' = [home EXCEPT ![j] = epoch]
    /\ UNCHANGED <<placeVars, receipt, born, suppressed, flushVars, turnVars,
                   sessionVars, told>>

\* Its row is gone: evicted with its conversation, or the manager is disposed.
Evicted(j) == home[j] # epoch \/ disposed # "no"

\* The delivery loop calls the sink, #deliverAsyncJobResult, or drops it.
SinkCalled(j) ==
    /\ call[j] = "due"
    /\ call' = [call EXCEPT ![j] =
           IF Evicted(j) \/ j \in suppressed THEN "done" ELSE "formatting"]
    /\ born' = [born EXCEPT ![j] = epoch]
    /\ UNCHANGED <<placeVars, receipt, suppressed, flushVars, turnVars,
                   sessionVars, home, told>>

\* What the sink asks again after it has formatted the result
Outdated(j) == disposed # "no" \/ born[j] # epoch \/ j \in suppressed

\* Mutant: the epoch is read after the await, not before.
FormattedInTheNew(j) ==
    /\ call[j] = "formatting"
    /\ born' = [born EXCEPT ![j] = epoch]
    /\ IF disposed # "no" \/ j \in suppressed
       THEN /\ call' = [call EXCEPT ![j] = "done"]
            /\ UNCHANGED <<placeVars, receipt, flushVars>>
       ELSE /\ call' = [call EXCEPT ![j] = "waiting"]
            /\ Enqueue(j)
    /\ UNCHANGED <<suppressed, turnVars, sessionVars, home, told>>

Formatted(j) ==
    /\ call[j] = "formatting"
    /\ IF Outdated(j)
       THEN /\ call' = [call EXCEPT ![j] = "done"]
            /\ UNCHANGED <<placeVars, receipt, flushVars>>
       ELSE /\ call' = [call EXCEPT ![j] = "waiting"]
            /\ Enqueue(j)
    /\ UNCHANGED <<born, suppressed, turnVars, sessionVars, home, told>>

\* The receipt has settled.  The manager retries a rejected delivery.
SinkReturns(j) ==
    /\ call[j] = "waiting" /\ receipt[j] # "pending"
    /\ call' = [call EXCEPT ![j] =
           IF receipt[j] = "rejected" /\ ~Evicted(j) /\ j \notin suppressed
           THEN "due" ELSE "done"]
    /\ UNCHANGED <<placeVars, receipt, born, suppressed, flushVars, turnVars,
                   sessionVars, home, told>>

\* consumeJobResults: a tool of the running turn (wait, proc://) returns it.
Snapshot(j) ==
    /\ loop = "model" /\ ~Evicted(j)
    /\ call[j] \in {"due", "formatting", "waiting"}
    /\ told[j] = 0 /\ j \notin suppressed
    /\ suppressed' = suppressed \union {j}
    /\ UNCHANGED <<placeVars, receipt, call, born, flushVars, turnVars,
                   sessionVars, home, told>>

\* queueLaunchCompletion: the process belongs to this session or, with its
\* notification under way since, to an earlier one.
ExitArrives(x) ==
    /\ receipt[x] = "none"
    /\ IF disposed # "no"
       THEN /\ receipt' = [receipt EXCEPT ![x] = "rejected"]
            /\ UNCHANGED <<placeVars, flushVars>>
       ELSE /\ queued' = queued \union {x}
            /\ receipt' = [receipt EXCEPT ![x] = "pending"]
            /\ Schedule(TRUE)
            /\ UNCHANGED <<thunks, pending, held, skips>>
    /\ \E s \in 0 .. session : home' = [home EXCEPT ![x] = s]
    /\ UNCHANGED <<jobVars, turnVars, sessionVars, told>>

-----------------------------------------------------------------------------
(* Prompts                                                                  *)

\* #promptWithMessage begins: the session is busy from its first line.
PromptBegins ==
    /\ ~Streaming /\ ~prompt /\ unwinding < MaxUnwinding
    /\ phase = "none" /\ disposed = "no"
    /\ inFlight' = inFlight + 1 /\ prompt' = TRUE
    /\ UNCHANGED <<placeVars, receipt, jobVars, flushVars, loop, runner, aborted,
                   unwinding, flushReturn, sessionVars, home, told>>

\* It reaches agent.prompt, once no other turn holds the agent.
PromptRuns ==
    /\ prompt /\ loop = "off"
    /\ prompt' = FALSE
    /\ loop' = "top" /\ runner' = "prompt" /\ aborted' = FALSE
    /\ UNCHANGED <<placeVars, receipt, jobVars, flushVars, inFlight, unwinding,
                   flushReturn, sessionVars, home, told>>

\* It gives up in its setup.
PromptDrops ==
    /\ prompt
    /\ prompt' = FALSE /\ unwinding' = unwinding + 1
    /\ UNCHANGED <<placeVars, receipt, jobVars, flushVars, loop, runner, aborted,
                   inFlight, flushReturn, sessionVars, home, told>>

\* #endInFlight
EndInFlight ==
    /\ inFlight' = IF inFlight > 0 THEN inFlight - 1 ELSE 0
    /\ IF inFlight' = 0 THEN RequestIdleFlush ELSE UNCHANGED <<latch, tasks>>
    /\ UNCHANGED <<placeVars, receipt, jobVars, skips, loop, runner, aborted,
                   prompt, sessionVars, home, told>>

PromptReturns ==
    /\ unwinding > 0
    /\ unwinding' = unwinding - 1
    /\ EndInFlight
    /\ UNCHANGED flushReturn

FlushReturns ==
    /\ flushReturn
    /\ flushReturn' = FALSE
    /\ EndInFlight
    /\ UNCHANGED unwinding

-----------------------------------------------------------------------------
(* The agent loop                                                           *)

LoopUnchanged == UNCHANGED <<jobVars, flushVars, inFlight, prompt, sessionVars, home>>

GoesOn(at) ==
    /\ loop' = at
    /\ LoopUnchanged
    /\ UNCHANGED <<runner, aborted, unwinding, flushReturn>>

\* Mutant: the loop ends without discarding what it never committed.
KeepsPending ==
    /\ loop' = "off" /\ runner' = "none" /\ aborted' = FALSE
    /\ unwinding' = IF runner = "prompt" THEN unwinding + 1 ELSE unwinding
    /\ flushReturn' = (flushReturn \/ runner = "flush")
    /\ pending' = {}
    /\ receipt' = receipt

\* Its finally: whatever is still pending is discarded.
LoopEnds ==
    /\ loop' = "off" /\ runner' = "none" /\ aborted' = FALSE
    /\ unwinding' = IF runner = "prompt" THEN unwinding + 1 ELSE unwinding
    /\ flushReturn' = (flushReturn \/ runner = "flush")
    /\ pending' = {}
    /\ receipt' = Settled({}, pending)

\* The top of an iteration: pending messages enter the context.
Commit ==
    /\ loop = "top"
    /\ told' = Injected(pending)
    /\ receipt' = Settled(pending, {})
    /\ pending' = {}
    /\ GoesOn("model")
    /\ UNCHANGED <<queued, thunks, held>>

DeadlineExpires ==
    /\ "deadline" \in Behaviours
    /\ loop = "top"
    /\ LoopEnds
    /\ LoopUnchanged
    /\ UNCHANGED <<queued, thunks, held, told>>

\* Mutant: the entries stay queued.
DrainCopies ==
    /\ thunks' = IF disposed = "no" THEN queued ELSE {}
    /\ UNCHANGED <<queued, receipt, pending, held, told>>

\* The aside provider, drainLazy: entries leave the queue as thunks.  A
\* disposed session has no provider.
Drain ==
    /\ thunks' = IF disposed = "no" THEN queued ELSE {}
    /\ queued' = IF disposed = "no" THEN {} ELSE queued
    /\ UNCHANGED <<receipt, pending, held, told>>

\* resolveAsides, a microtask later: build, and reject what is stale.
Resolve(dest) ==
    /\ dest = Survivors(thunks)
    /\ receipt' = Settled({}, thunks \ Survivors(thunks))
    /\ thunks' = {}

\* The model answers with tool calls: asides are polled once they have run.
MidPoll ==
    /\ loop = "model" /\ ~aborted
    /\ Drain
    /\ GoesOn("polling")

Polled ==
    /\ loop = "polling"
    /\ Resolve(pending')
    /\ GoesOn("top")
    /\ UNCHANGED <<queued, held, told>>

\* It answers with none: asides are polled, then follow-ups.
StopPoll ==
    /\ loop = "model" /\ ~aborted
    /\ Drain
    /\ GoesOn("stopPolling")

StopPolled ==
    /\ loop = "stopPolling"
    /\ Resolve(held')
    /\ GoesOn("stopping")
    /\ UNCHANGED <<queued, pending, told>>

\* With asides or follow-ups, another iteration begins.
FollowUps ==
    /\ loop = "stopping"
    /\ pending' = held /\ held' = {}
    /\ GoesOn("top")
    /\ UNCHANGED <<queued, thunks, receipt, told>>

\* With none, it ends.  So it does when the preparation of the follow-ups throws:
\* the asides polled with them are not pending yet, and the finally does not
\* see them.
StopEnds ==
    /\ loop = "stopping"
    /\ held # {} => "followUpFails" \in Behaviours
    /\ held' = {}
    /\ LoopEnds
    /\ LoopUnchanged
    /\ UNCHANGED <<queued, thunks, told>>

\* The model call fails, is aborted, or ends past the deadline.
ModelStops ==
    /\ loop = "model"
    /\ LoopEnds
    /\ LoopUnchanged
    /\ UNCHANGED <<queued, thunks, held, told>>

-----------------------------------------------------------------------------
(* The idle flush                                                           *)

InTransition == goal # "stop"

\* flush("idle"): the survivors become the prompt of a turn, which commits
\* them as it starts; without a model they are discarded.
FlushIdle ==
    LET batch == Survivors(queued)
        stale == queued \ batch
    IN  /\ queued' = {}
        /\ \/ /\ batch # {}
              /\ receipt' = Settled(batch, stale)
              /\ told' = Injected(batch)
              /\ inFlight' = inFlight + 1
              /\ loop' = "top" /\ runner' = "flush" /\ aborted' = FALSE
              /\ UNCHANGED flushReturn
           \/ /\ batch # {} /\ "noModel" \in Behaviours
              /\ receipt' = Settled({}, queued)
              /\ inFlight' = inFlight + 1 /\ flushReturn' = TRUE
              /\ UNCHANGED <<told, loop, runner, aborted>>
           \/ /\ batch = {}
              /\ receipt' = Settled({}, stale)
              /\ UNCHANGED <<told, inFlight, loop, runner, aborted, flushReturn>>

\* The scheduled task: a busy session lets it go by.
TaskFires ==
    /\ tasks > 0
    /\ InTransition => "flushInTransition" \in Behaviours
    /\ tasks' = tasks - 1
    /\ latch' = FALSE
    /\ IF Streaming
       THEN UNCHANGED <<queued, receipt, told, inFlight, loop, runner, aborted, flushReturn>>
       ELSE FlushIdle
    /\ UNCHANGED <<thunks, pending, held, jobVars, skips, prompt, unwinding,
                   sessionVars, home>>

\* Mutant: a cancelled task leaves the latch set.
LatchStays ==
    /\ skips > 0
    /\ skips' = skips - 1
    /\ latch' = latch
    /\ UNCHANGED <<placeVars, receipt, jobVars, tasks, turnVars, sessionVars, home, told>>

\* onSkip of a cancelled task: cancelIdleFlushScheduling
SkipRuns ==
    /\ skips > 0
    /\ skips' = skips - 1
    /\ latch' = FALSE
    /\ UNCHANGED <<placeVars, receipt, jobVars, tasks, turnVars, sessionVars, home, told>>

-----------------------------------------------------------------------------
(* Abort, /new, /clear and dispose                                          *)

\* #cancelPostPromptTasks
CancelTasks ==
    /\ skips' = skips + tasks
    /\ tasks' = 0
    /\ UNCHANGED latch

\* The tasks it waits for: cancelled flushes, and one that is in its turn
TasksSettled == skips = 0 /\ runner # "flush" /\ ~flushReturn

\* agent.abort, and the next #promptGeneration: a prompt in its setup gives up,
\* one that waits for the agent does not notice.
AbortTurn ==
    /\ aborted' = (loop # "off")
    /\ prompt' \in IF prompt /\ loop # "off" /\ "busyPrompt" \in Behaviours
                  THEN BOOLEAN ELSE {FALSE}
    /\ unwinding' = IF prompt /\ ~prompt' THEN unwinding + 1 ELSE unwinding
    /\ UNCHANGED <<loop, runner, inFlight, flushReturn>>

\* abort(), alone or as the first step of newSession()
AbortBegins(g) ==
    /\ g = "new" => "new" \in Behaviours /\ epoch < MaxEpoch
    /\ phase = "none" /\ disposed = "no"
    /\ phase' = "aborting" /\ goal' = g
    /\ CancelTasks
    /\ AbortTurn
    /\ UNCHANGED <<placeVars, receipt, jobVars, epoch, session, disposed, home, told>>

AbortUnchanged ==
    UNCHANGED <<placeVars, receipt, jobVars, turnVars, goal, epoch, session,
                disposed, home, told>>

\* The loop is idle: agent_end handlers are awaited,
AbortDrains ==
    /\ phase = "aborting" /\ TasksSettled /\ loop = "off"
    /\ phase' = "draining"
    /\ AbortUnchanged
    /\ UNCHANGED flushVars

\* what was scheduled meanwhile is cancelled,
AbortCancels ==
    /\ phase = "draining"
    /\ phase' = "cancelling"
    /\ CancelTasks
    /\ AbortUnchanged

AbortSettles ==
    /\ phase = "cancelling" /\ TasksSettled
    /\ phase' = "settling"
    /\ AbortUnchanged
    /\ UNCHANGED flushVars

\* #cancelOwnAsyncJobs
CancelOwnJobs ==
    /\ epoch' = epoch + 1
    /\ queued' = queued \ Jobs
    /\ receipt' = Settled({}, queued \intersect Jobs)

\* and #resetInFlight.  newSession() goes on to drop the owner's jobs.
AbortEnds ==
    /\ phase = "settling"
    /\ inFlight' = 0
    /\ RequestIdleFlush
    /\ IF goal = "new"
       THEN phase' = "switching" /\ CancelOwnJobs /\ UNCHANGED goal
       ELSE phase' = "none" /\ UNCHANGED <<goal, epoch, queued, receipt>>
    /\ UNCHANGED <<thunks, pending, held, jobVars, skips, loop, runner, aborted,
                   prompt, unwinding, flushReturn, session, disposed, home, told>>

\* sessionManager.newSession
SessionAdopted ==
    /\ phase = "switching"
    /\ session' = session + 1
    /\ phase' = "none" /\ goal' = "stop"
    /\ UNCHANGED <<placeVars, receipt, jobVars, flushVars, turnVars, epoch,
                   disposed, home, told>>

\* resetSessionContext, /clear: refused while the session is busy
ClearBegins ==
    /\ "clear" \in Behaviours /\ epoch < MaxEpoch
    /\ ~Streaming /\ phase = "none" /\ disposed = "no"
    /\ phase' = "clearing" /\ goal' = "clear"
    /\ CancelTasks
    /\ AbortTurn
    /\ UNCHANGED <<placeVars, receipt, jobVars, epoch, session, disposed, home, told>>

ClearEnds ==
    /\ phase = "clearing" /\ TasksSettled
    /\ phase' = "none" /\ goal' = "stop"
    /\ CancelOwnJobs
    /\ UNCHANGED <<thunks, pending, held, jobVars, flushVars, turnVars, session,
                   disposed, home, told>>

\* beginDispose: yieldQueue.clear()
DisposeBegins ==
    /\ "dispose" \in Behaviours /\ disposed = "no"
    /\ disposed' = "begun"
    /\ queued' = {}
    /\ receipt' = Settled({}, queued)
    /\ latch' = FALSE
    /\ UNCHANGED <<thunks, pending, held, jobVars, tasks, skips, turnVars, phase,
                   goal, epoch, session, home, told>>

\* dispose() aborts the turn.
DisposeAborts ==
    /\ disposed = "begun"
    /\ disposed' = "aborted"
    /\ CancelTasks
    /\ AbortTurn
    /\ UNCHANGED <<placeVars, receipt, jobVars, phase, goal, epoch, session, home, told>>

-----------------------------------------------------------------------------
LoopNext ==
    \/ Commit \/ DeadlineExpires \/ MidPoll \/ Polled \/ StopPoll \/ StopPolled
    \/ FollowUps \/ StopEnds \/ ModelStops

SessionNext ==
    \/ AbortBegins("stop") \/ AbortBegins("new")
    \/ AbortDrains \/ AbortCancels \/ AbortSettles \/ AbortEnds
    \/ SessionAdopted \/ ClearBegins \/ ClearEnds \/ DisposeBegins \/ DisposeAborts

Next ==
    \/ \E j \in Jobs : \/ JobFinishes(j) \/ SinkCalled(j) \/ Formatted(j)
                       \/ SinkReturns(j) \/ Snapshot(j)
    \/ \E x \in Exits : ExitArrives(x)
    \/ PromptBegins \/ PromptRuns \/ PromptDrops \/ PromptReturns \/ FlushReturns
    \/ LoopNext
    \/ TaskFires \/ SkipRuns
    \/ SessionNext

(***************************************************************************)
(* Every await that is not on the user comes back: a sink, a model call, a *)
(* hook, the steps of an abort.  A finished turn takes a moment to return, *)
(* and the idle flush one millisecond: a user may prompt in that time, but *)
(* not each time.  Nothing makes a user prompt, abort, or change the       *)
(* session, or a job finish.                                               *)
(***************************************************************************)
Fairness ==
    /\ \A j \in Jobs : WF_vars(SinkCalled(j) \/ Formatted(j) \/ SinkReturns(j))
    /\ WF_vars(PromptRuns) /\ WF_vars(PromptReturns) /\ WF_vars(FlushReturns)
    /\ SF_vars(PromptReturns /\ ~Streaming)
    /\ WF_vars(LoopNext)
    /\ WF_vars(SkipRuns)
    /\ SF_vars(TaskFires /\ ~Streaming)
    /\ WF_vars(AbortDrains \/ AbortCancels \/ AbortSettles \/ AbortEnds)
    /\ WF_vars(SessionAdopted) /\ WF_vars(ClearEnds) /\ WF_vars(DisposeAborts)

Spec == Init /\ [][Next]_vars /\ Fairness

-----------------------------------------------------------------------------
(* Safety                                                                   *)

\* Where an entry can still be settled from
InSight == queued \union thunks \union pending \union held

\* "settle only after the yield queue injects or discards it" (agent-session.ts
\* 2912): a receipt that is pending belongs to an entry that some step can
\* still settle.  The manager's delivery, and through it quiescence and the
\* owner's disposal, wait for it without a deadline.
NoOrphanReceipt == \A e \in Entries : receipt[e] = "pending" => e \in InSight

\* "Arrange an idle flush for entries queued near the end of a streaming run"
\* (yield-queue.ts 125): once the session is idle and no command is replacing
\* its conversation, a queued result has a flush scheduled, or a turn that has
\* yet to return and will ask for one.
NoLostWakeup ==
    ~Streaming /\ phase = "none" /\ disposed = "no" /\ queued \intersect Jobs # {}
    => tasks > 0 \/ flushReturn \/ unwinding > 0 \/ prompt

\* A job's result reaches the model once: as a follow-up or as what a tool of
\* the turn returned, never as both, whatever was queued when the tool ran.
SeenOnce ==
    \A j \in Jobs : told[j] + (IF j \in suppressed THEN 1 ELSE 0) <= 1

\* "a prior session's background result cannot inject into the next
\* transcript" (agent-session.ts 2823): what enters the context belongs to the
\* conversation that is current as it does, however late it was formatted,
\* drained, built or committed.
StaysInConversation ==
    [][/\ \A j \in Jobs : told'[j] # told[j] => home[j] = epoch
       /\ \A x \in Exits : told'[x] # told[x] => home[x] = session]_vars

\* What the receipt and the context say about an entry.  They agree in every
\* state the ledger knows.
Fate(e) ==
    IF receipt[e] = "none" /\ told[e] = 0 THEN "none"
    ELSE IF receipt[e] = "pending" /\ told[e] = 0 THEN "pending"
    ELSE IF receipt[e] = "resolved" /\ told[e] = 1 THEN "told"
    ELSE IF receipt[e] = "rejected" /\ told[e] = 0 THEN "returned"
    ELSE "lie"

L == INSTANCE Ledger WITH Items <- Entries, fate <- [e \in Entries |-> Fate(e)]

\* The queue and the loop implement the ledger: an entry is told at most once,
\* its receipt resolves in the step that tells it and is rejected only when it
\* was not told, and a producer resubmits only what came back.
ImplementsLedger == L!Spec

-----------------------------------------------------------------------------
(* The inductive strengthening of the safety properties                     *)

\* The loop's locals are in use at their points of the loop only.
PlaceInv ==
    /\ thunks # {} => loop \in {"polling", "stopPolling"}
    /\ pending # {} => loop = "top"
    /\ held # {} => loop = "stopping"
    /\ loop = "off" <=> runner = "none"

\* The latch is the scheduled task, or the cancelled one that an abort, a
\* transition or dispose() still waits for; a disposed queue stays empty.
FlushInv ==
    /\ tasks + skips <= 1
    /\ disposed = "no" => /\ latch <=> tasks + skips = 1
                          /\ skips > 0 => phase \in {"aborting", "cancelling", "clearing"}
    /\ disposed # "no" => queued = {}

\* The phases of /new and /clear, and the room that was left when they began
PhaseInv ==
    /\ phase = "none" => goal = "stop"
    /\ phase = "switching" => goal = "new"
    /\ goal = "clear" <=> phase = "clearing"
    /\ goal # "stop" /\ phase # "switching" => epoch < MaxEpoch
    /\ session <= epoch
    /\ phase = "switching" => session < epoch

\* NoLostWakeup also while a session is being switched
WakeInv ==
    /\ ~Streaming /\ phase \in {"none", "switching"} /\ disposed = "no"
    /\ queued \intersect Jobs # {}
    => tasks > 0 \/ flushReturn \/ unwinding > 0 \/ prompt

\* An entry is in one place.  What can still be settled is pending, the receipt
\* says whether an entry was told, and only a settled result is submitted again.
ReceiptInv ==
    /\ queued \intersect (thunks \union pending \union held) = {}
    /\ \A e \in InSight : receipt[e] = "pending"
    /\ \A e \in Entries : told[e] = (IF receipt[e] = "resolved" THEN 1 ELSE 0)
    /\ \A j \in Jobs : call[j] \in {"none", "due", "formatting"}
                        => receipt[j] \in {"none", "rejected"}

QueueInv == PlaceInv /\ FlushInv /\ PhaseInv /\ WakeInv /\ ReceiptInv

-----------------------------------------------------------------------------
(* Liveness                                                                 *)

\* A delivery that waits on its receipt is released: no abort, session change,
\* lost flush or cancelled task leaves the manager waiting for ever.
DeliveriesSettle == \A j \in Jobs : call[j] = "waiting" ~> call[j] # "waiting"

\* "exit notifications still auto-deliver" (docs/tools/bash.md 60): the exit of
\* a supervised process is told or handed back, without the user's doing.
ExitsSettle == \A x \in Exits : receipt[x] = "pending" ~> receipt[x] # "pending"
=============================================================================
