------------------------------ MODULE AsyncJobs ------------------------------
(***************************************************************************)
(* AsyncJobManager (packages/coding-agent/src/async/job-manager.ts): the   *)
(* process-wide table of background jobs, the queue that delivers their    *)
(* results to the owning session, the suppression marks that keep a result *)
(* from being told twice, and the callers that race with all of it: the    *)
(* foreground bash/eval call that may promote its job, the `wait` tool and *)
(* the owner waits (waitForOwnerJobs) that sessions and teardown use.      *)
(*                                                                         *)
(* JavaScript runs one callback at a time, so an action is everything a    *)
(* callback does between two awaits.  A `run' is one call of register();   *)
(* the code keys nearly all of its marks by job id, and ids are reused, so *)
(* the model keeps runs and ids apart.                                     *)
(*                                                                         *)
(* Abstractions: `finished' stands for completed and failed, which the     *)
(* manager treats alike; the order of #deliveries is not kept (backoff     *)
(* reorders it); a timer may fire at any later moment.                     *)
(***************************************************************************)
EXTENDS Integers, FiniteSets

CONSTANTS
    Runs,       \* calls of register(), each used once
    Owners,     \* agents that own jobs (AsyncJob.ownerId)
    Names,      \* preferred ids (options.id), e.g. a subagent's name
    AutoPrefix, \* the "bg" of the generated ids bg_1, bg_2, ...
    NoOwner,    \* owner of a run that is not registered yet
    Waiters,    \* concurrent `wait` tool calls
    Cap,        \* maxRunningJobs
    MaxId       \* bound: the largest number an id may carry

ASSUME PrefixAssumption == AutoPrefix \notin Names
ASSUME OwnerAssumption == NoOwner \notin Owners
ASSUME CapAssumption == Cap \in Nat \ {0}
ASSUME MaxIdAssumption == MaxId \in Nat

\* bg_7 is <<AutoPrefix, 7>>; "Anna" is <<Anna, 1>> and "Anna-2" <<Anna, 2>>.
Ids == (Names \union {AutoPrefix}) \X Nat

VARIABLES
    \* What each run's AsyncJob object says
    jobId, owner, status, foreground, queued, settled,
    \* The manager's collections
    table,       \* #jobs: the runs that have a row
    deliveries,  \* #deliveries: how many entries each run has there
    inFlight,    \* sink calls that have not returned, by run
    suppressed,  \* #suppressedDeliveries
    watched,     \* #watchedJobs
    consumed,    \* #consumedJobResults
    released,    \* #releasedForegroundJobs
    timers,      \* #evictionTimers: <<id, "full" or "short">>
    nextAutoId,  \* #nextAutoId
    sinks,       \* #deliverySinks: owners with a live session
    disposed,    \* #disposed, and whether dispose() has run to its end
    \* Callers suspended in an await
    waiting,     \* wait.ts: the job objects each blocked wait captured
    ownerWait,   \* waitForOwnerJobs, per owner: mode, awaited ids, pending runs
    \* Observation only
    surfaced,    \* how often a sink or a snapshot took the run's result
    deadLettered \* runs whose delivery found no sink

jobVars == <<jobId, owner, status, foreground, queued, settled>>
markVars == <<suppressed, watched, consumed>>
callVars == <<waiting, ownerWait>>
ghostVars == <<surfaced, deadLettered>>
vars == <<jobVars, table, deliveries, inFlight, markVars, released, timers,
          nextAutoId, sinks, disposed, callVars, ghostVars>>

Registered == {r \in Runs : status[r] # "unregistered"}
Finished == {r \in Runs : status[r] = "finished"}
IdsOf(R) == {jobId[r] : r \in R}
Row(id) == {r \in table : jobId[r] = id}
Visible(o) == {r \in table : owner[r] = o /\ r \notin foreground}

\* Mutant: isDeliverySuppressed forgets the acknowledged ids.
MutedByWaitOnly == watched

\* isDeliverySuppressed
Muted == suppressed \union watched

\* A delivery for this id is queued or in flight, whichever run it came from.
Outstanding(id) ==
    \E r \in Runs : jobId[r] = id /\ deliveries[r] + inFlight[r] > 0

Added(counts, R) == [r \in Runs |-> IF r \in R THEN counts[r] + 1 ELSE counts[r]]

\* Mutants: the loop takes the entry twice, or looks at it and leaves it.
TakenTwice(counts, r) == [counts EXCEPT ![r] = @ - 2]
TakenNever(counts, r) == counts

Taken(counts, r) == [counts EXCEPT ![r] = @ - 1]
Dropped(counts, ids) == [r \in Runs |-> IF jobId[r] \in ids THEN 0 ELSE counts[r]]

\* clearTimeout and setTimeout on an id's eviction timer
Rearmed(ids, kind) == {t \in timers : t[1] \notin ids} \union (ids \X {kind})

Idle == [mode |-> "idle", awaited |-> {}, pending |-> {}]

TypeOK ==
    /\ jobId \in [Runs -> Ids]
    /\ owner \in [Runs -> Owners \union {NoOwner}]
    /\ status \in [Runs -> {"unregistered", "running", "finished", "cancelled"}]
    /\ foreground \subseteq Runs
    /\ queued \subseteq Runs
    /\ settled \subseteq Runs
    /\ table \subseteq Runs
    /\ deliveries \in [Runs -> Nat]
    /\ inFlight \in [Runs -> Nat]
    /\ suppressed \subseteq Ids
    /\ watched \subseteq Ids
    /\ consumed \subseteq Ids
    /\ released \subseteq Ids
    /\ timers \subseteq Ids \X {"full", "short"}
    /\ nextAutoId \in Nat
    /\ sinks \subseteq Owners
    /\ disposed \in {"no", "draining", "done"}
    /\ waiting \in [Waiters -> SUBSET Runs]
    /\ ownerWait \in [Owners -> [mode : {"idle", "all", "unsuppressed"},
                                 awaited : SUBSET Ids,
                                 pending : SUBSET Runs]]
    /\ surfaced \in [Runs -> Nat]
    /\ deadLettered \subseteq Runs

Init ==
    /\ jobId = [r \in Runs |-> <<AutoPrefix, 0>>]
    /\ owner = [r \in Runs |-> NoOwner]
    /\ status = [r \in Runs |-> "unregistered"]
    /\ foreground = {} /\ queued = {} /\ settled = {} /\ table = {}
    /\ deliveries = [r \in Runs |-> 0]
    /\ inFlight = [r \in Runs |-> 0]
    /\ suppressed = {} /\ watched = {} /\ consumed = {}
    /\ released = {} /\ timers = {}
    /\ nextAutoId = 1
    /\ sinks = {}
    /\ disposed = "no"
    /\ waiting = [w \in Waiters |-> {}]
    /\ ownerWait = [o \in Owners |-> Idle]
    /\ surfaced = [r \in Runs |-> 0]
    /\ deadLettered = {}

-----------------------------------------------------------------------------
(* Registration and the job body *)

Active == {r \in table : status[r] = "running" /\ r \notin queued}

\* #resolveJobId: the first free number from `from' on.
FirstFree(prefix, from, n) ==
    /\ Row(<<prefix, n>>) = {}
    /\ \A k \in from .. n - 1 : Row(<<prefix, k>>) # {}

Register(r, o, id, fg, q) ==
    /\ disposed = "no"
    /\ r \notin Registered
    /\ Cardinality(Active) < Cap
    /\ jobId' = [jobId EXCEPT ![r] = id]
    /\ owner' = [owner EXCEPT ![r] = o]
    /\ status' = [status EXCEPT ![r] = "running"]
    /\ foreground' = IF fg THEN foreground \union {r} ELSE foreground
    /\ queued' = IF q THEN queued \union {r} ELSE queued
    /\ table' = table \union {r}
    /\ suppressed' = (suppressed \ {id}) \union (IF fg THEN {id} ELSE {})
    /\ consumed' = consumed \ {id}
    /\ released' = released \ {id}
    /\ UNCHANGED <<settled, deliveries, inFlight, watched, timers, sinks,
                   disposed, callVars, ghostVars>>

\* bash and eval jobs take a generated id and may back a foreground call.
RegisterAuto(r, o, fg) ==
    \E n \in nextAutoId .. MaxId :
        /\ FirstFree(AutoPrefix, nextAutoId, n)
        /\ Register(r, o, <<AutoPrefix, n>>, fg, FALSE)
        /\ nextAutoId' = n + 1

\* task, vibe and wake-turn jobs ask for the agent's name, again and again
\* for the same agent.
RegisterNamed(r, o, name, q) ==
    \E n \in 1 .. MaxId :
        /\ FirstFree(name, 1, n)
        /\ Register(r, o, <<name, n>>, FALSE, q)
        /\ UNCHANGED nextAutoId

\* The body of a run that was registered as queued starts to execute.
MarkRunning(r) ==
    /\ r \in (queued \intersect Registered) \ settled
    /\ queued' = queued \ {r}
    /\ UNCHANGED <<jobId, owner, status, foreground, settled, table, deliveries,
                   inFlight, markVars, released, timers, nextAutoId, sinks,
                   disposed, callVars, ghostVars>>

\* Mutant: the eviction timer of the row survives it.
EvictLeavingTimer(ids) ==
    /\ table' = {r \in table : jobId[r] \notin ids}
    /\ suppressed' = suppressed \ ids
    /\ watched' = watched \ ids
    /\ consumed' = consumed \ ids
    /\ UNCHANGED timers

\* #evictJob for each of these ids.
Evict(ids) ==
    /\ table' = {r \in table : jobId[r] \notin ids}
    /\ timers' = {t \in timers : t[1] \notin ids}
    /\ suppressed' = suppressed \ ids
    /\ watched' = watched \ ids
    /\ consumed' = consumed \ ids

\* #discardForegroundJob: a discarded foreground job hands its id back.
Discard(id) ==
    /\ Evict({id})
    /\ released' = released \ {id}
    /\ nextAutoId' = IF id = <<AutoPrefix, nextAutoId - 1>> THEN nextAutoId - 1
                                                             ELSE nextAutoId

\* The run promise resolves; cancelled runs keep their status and tell nobody.
Settle(r) ==
    /\ r \in Registered \ settled
    /\ settled' = settled \union {r}
    /\ status' = [status EXCEPT ![r] = IF @ = "running" THEN "finished" ELSE @]
    /\ deliveries' = IF status[r] = "running" /\ jobId[r] \notin Muted
                     THEN Added(deliveries, {r})
                     ELSE deliveries
    /\ \/ /\ jobId[r] \in released
          /\ Discard(jobId[r])
       \/ /\ jobId[r] \notin released
          /\ timers' = IF disposed = "no" THEN Rearmed({jobId[r]}, "full") ELSE timers
          /\ UNCHANGED <<table, markVars, released, nextAutoId>>
    /\ UNCHANGED <<jobId, owner, foreground, queued, inFlight, sinks, disposed,
                   callVars, ghostVars>>

Cancel(r) ==
    /\ r \in table
    /\ status[r] = "running"
    /\ status' = [status EXCEPT ![r] = "cancelled"]
    /\ UNCHANGED <<jobId, owner, foreground, queued, settled, table, deliveries,
                   inFlight, markVars, released, timers, nextAutoId, sinks,
                   disposed, callVars, ghostVars>>

\* `cancel' from the agent reports the job at once, so the owner is not told of
\* it again; the body has not settled, so nothing is consumed yet.
CancelAndReport(r) ==
    /\ r \in table \ foreground
    /\ status[r] = "running"
    /\ status' = [status EXCEPT ![r] = "cancelled"]
    /\ suppressed' = suppressed \union {jobId[r]}
    /\ deliveries' = Dropped(deliveries, suppressed' \union watched)
    /\ UNCHANGED <<jobId, owner, foreground, queued, settled, table, inFlight,
                   watched, consumed, released, timers, nextAutoId, sinks,
                   disposed, callVars, ghostVars>>

-----------------------------------------------------------------------------
(* The foreground call behind a bash or eval job: it acts on its job once *)

\* Mutants: the call acts again on a job it has released, on a job that has lost
\* its row, or misses a job that settled before it looked.
AwaitedOrReleased(r) == r \in foreground \intersect table
AwaitedWithoutRow(r) == r \in foreground /\ jobId[r] \notin released
AwaitedUnsettled(r) ==
    r \in (foreground \intersect table) \ settled /\ jobId[r] \notin released

AwaitedByCall(r) == r \in foreground \intersect table /\ jobId[r] \notin released

\* backgroundJob: the call gave up waiting; the job becomes a background job.
Background(r) ==
    /\ AwaitedByCall(r)
    /\ foreground' = foreground \ {r}
    /\ suppressed' = suppressed \ {jobId[r]}
    /\ deliveries' = IF status[r] = "finished" /\ jobId[r] \notin watched
                     THEN Added(deliveries, {r})
                     ELSE deliveries
    /\ UNCHANGED <<jobId, owner, status, queued, settled, table, inFlight,
                   watched, consumed, released, timers, nextAutoId, sinks,
                   disposed, callVars, ghostVars>>

\* releaseForegroundJob: the call returned the result itself, or was aborted.
ReleaseForeground(r) ==
    /\ AwaitedByCall(r)
    /\ \/ r \in settled /\ Discard(jobId[r])
       \/ /\ r \notin settled
          /\ released' = released \union {jobId[r]}
          /\ UNCHANGED <<table, timers, markVars, nextAutoId>>
    /\ UNCHANGED <<jobVars, deliveries, inFlight, sinks, disposed, callVars,
                   ghostVars>>

-----------------------------------------------------------------------------
(* Delivery *)

\* #scheduleEviction with the short grace of a result that was consumed.
ArmShort(ids) == IF disposed = "no" THEN Rearmed(ids, "short") ELSE timers

\* Mutant: an owned delivery without a sink waits for one.
AnySink(r) == FALSE

\* #resolveDeliverySink finds none.
NoSink(r) == owner[r] \notin sinks

\* The delivery loop, or drainDeliveries, takes an entry that is due and calls
\* the owner's sink.  Without a sink the entry is dropped.
StartDelivery(r) ==
    /\ deliveries[r] > 0
    /\ jobId[r] \notin Muted
    /\ deliveries' = Taken(deliveries, r)
    /\ \/ /\ owner[r] \in sinks
          /\ inFlight' = Added(inFlight, {r})
          /\ UNCHANGED deadLettered
       \/ /\ NoSink(r)
          /\ deadLettered' = deadLettered \union {r}
          /\ UNCHANGED inFlight
    /\ UNCHANGED <<jobVars, table, markVars, released, timers, nextAutoId,
                   sinks, disposed, callVars, surfaced>>

\* The loop finds a suppressed entry at the head and shifts it away.
DropMuted(r) ==
    /\ deliveries[r] > 0
    /\ jobId[r] \in Muted
    /\ deliveries' = Taken(deliveries, r)
    /\ UNCHANGED <<jobVars, table, inFlight, markVars, released, timers,
                   nextAutoId, sinks, disposed, callVars, ghostVars>>

\* The sink's promise resolves, which counts as delivered.  The marks are those
\* of whatever row carries the id now.
SinkResolves(r) ==
    LET id == jobId[r]
        settledRow == Row(id) \intersect settled # {}
        others == \E s \in Runs : /\ jobId[s] = id
                                  /\ deliveries[s] + inFlight'[s] > 0
    IN  /\ inFlight[r] > 0
        /\ inFlight' = Taken(inFlight, r)
        /\ surfaced' = Added(surfaced, {r})
        /\ consumed' = IF settledRow THEN consumed \union {id} ELSE consumed
        /\ timers' = IF \/ id \in consumed /\ Row(id) # {}
                        \/ id \notin consumed /\ settledRow /\ ~others
                     THEN ArmShort({id})
                     ELSE timers
        /\ UNCHANGED <<jobVars, table, deliveries, suppressed, watched, released,
                       nextAutoId, sinks, disposed, callVars, deadLettered>>

\* The sink throws: retried later unless suppressed or the row is gone.
SinkRejects(r) ==
    /\ inFlight[r] > 0
    /\ inFlight' = Taken(inFlight, r)
    /\ deliveries' = IF jobId[r] \notin Muted /\ Row(jobId[r]) # {}
                     THEN Added(deliveries, {r})
                     ELSE deliveries
    /\ UNCHANGED <<jobVars, table, markVars, released, timers, nextAutoId,
                   sinks, disposed, callVars, ghostVars>>

RegisterDeliverySink(o) ==
    /\ o \notin sinks
    /\ sinks' = sinks \union {o}
    /\ UNCHANGED <<jobVars, table, deliveries, inFlight, markVars, released,
                   timers, nextAutoId, disposed, callVars, ghostVars>>

UnregisterDeliverySink(o) ==
    /\ o \in sinks
    /\ sinks' = sinks \ {o}
    /\ UNCHANGED <<jobVars, table, deliveries, inFlight, markVars, released,
                   timers, nextAutoId, disposed, callVars, ghostVars>>

-----------------------------------------------------------------------------
(* Snapshots and the wait tool *)

\* snapshotJobs: the row that has the captured job's id now, else the captured
\* object itself.
Latest(R) == UNION {IF Row(jobId[r]) # {} THEN Row(jobId[r]) ELSE {r} : r \in R}

\* The results a snapshot of captured jobs R reports.
Shown(R) == {r \in Latest(R) \intersect Finished : jobId[r] \notin consumed}

\* buildJobResult over captured jobs R: report every result that is not
\* consumed yet, suppress all that do not run, and mark the settled ones
\* consumed.
TakeSnapshot(R) ==
    LET ended == IdsOf({r \in Latest(R) : status[r] # "running"})
        newly == (IdsOf(table \intersect settled) \intersect ended) \ consumed
    IN  /\ surfaced' = Added(surfaced, Shown(R))
        /\ suppressed' = suppressed \union ended
        /\ deliveries' = IF ended = {} THEN deliveries
                         ELSE Dropped(deliveries, suppressed' \union watched)
        /\ consumed' = consumed \union newly
        /\ timers' = ArmShort({id \in newly :
                         \A r \in Runs : jobId[r] = id => inFlight[r] = 0})

\* undeliveredJobs
Undelivered(o) ==
    {r \in Visible(o) \intersect Finished : jobId[r] \notin consumed \union Muted}
RunningJobs(o) == {r \in Visible(o) : status[r] = "running"}

\* `wait` returns at once when a finished result has not reached the owner;
\* `cancel` of a settled job and the eval handles snapshot the jobs they name.
Snapshot(o, R) ==
    /\ \/ R = Undelivered(o) \union RunningJobs(o) /\ Undelivered(o) # {}
       \/ \E r \in Visible(o) : R = {r} /\ status[r] # "running"
    /\ TakeSnapshot(R)
    /\ UNCHANGED <<jobVars, table, inFlight, watched, released, nextAutoId,
                   sinks, disposed, callVars, deadLettered>>

WaitBlock(w, o) ==
    /\ waiting[w] = {}
    /\ Undelivered(o) = {}
    /\ RunningJobs(o) # {}
    /\ waiting' = [waiting EXCEPT ![w] = RunningJobs(o)]
    /\ watched' = watched \union IdsOf(RunningJobs(o))
    /\ UNCHANGED <<jobVars, table, deliveries, inFlight, suppressed, consumed,
                   released, timers, nextAutoId, sinks, disposed, ownerWait,
                   ghostVars>>

\* Mutant: only the jobs that settled are unwatched.
UnwatchSettled(w) == watched' = watched \ IdsOf(waiting[w] \intersect settled)

Unwatch(w) == watched' = watched \ IdsOf(waiting[w])

\* A job settled or the cap elapsed: report the jobs, then unwatch them.  All
\* that has finished is suppressed by now, so unwatchJobs re-enqueues nothing.
WaitReport(w) ==
    /\ waiting[w] # {}
    /\ waiting' = [waiting EXCEPT ![w] = {}]
    /\ TakeSnapshot(waiting[w])
    /\ Unwatch(w)
    /\ UNCHANGED <<jobVars, table, inFlight, released, nextAutoId, sinks,
                   disposed, ownerWait, deadLettered>>

\* Mutant: unwatchJobs gives nothing back.
NothingSkipped(ids) == {}

\* unwatchJobs: finished rows whose delivery was skipped while watched.
Skipped(ids) ==
    {r \in table \intersect Finished :
        /\ jobId[r] \in (ids \intersect watched) \ (suppressed \union consumed)
        /\ ~Outstanding(jobId[r])}

\* A message or an abort ended the wait: nothing is reported.
WaitInterrupted(w) ==
    /\ waiting[w] # {}
    /\ waiting' = [waiting EXCEPT ![w] = {}]
    /\ Unwatch(w)
    /\ deliveries' = Added(deliveries, Skipped(IdsOf(waiting[w])))
    /\ UNCHANGED <<jobVars, table, inFlight, suppressed, consumed, released,
                   timers, nextAutoId, sinks, disposed, ownerWait, ghostVars>>

-----------------------------------------------------------------------------
(* waitForOwnerJobs *)

\* Mutants: cancelled jobs count as gone; awaited jobs are awaited again.
PendingRunning(o, mode, awaited) ==
    {r \in table : /\ owner[r] = o /\ status[r] = "running"
                   /\ jobId[r] \notin awaited
                   /\ mode = "unsuppressed" => jobId[r] \notin Muted}
PendingAgain(o, mode, awaited) ==
    {r \in table : owner[r] = o /\ (mode = "unsuppressed" => jobId[r] \notin Muted)}

Pending(o, mode, awaited) ==
    {r \in table : /\ owner[r] = o
                   /\ jobId[r] \notin awaited
                   /\ mode = "unsuppressed" => jobId[r] \notin Muted}

\* One turn of the loop: await what is new by id, or return.
WaitForOwnerTurn(o, mode, awaited) ==
    LET pending == Pending(o, mode, awaited)
    IN  ownerWait' = [ownerWait EXCEPT ![o] =
            IF pending = {} THEN Idle
            ELSE [mode |-> mode,
                  awaited |-> awaited \union IdsOf(pending),
                  pending |-> pending]]

OwnerWaitUnchanged ==
    UNCHANGED <<jobVars, table, deliveries, inFlight, markVars, released, timers,
                nextAutoId, sinks, disposed, waiting, ghostVars>>

WaitForOwnerJobs(o, mode) ==
    /\ ownerWait[o] = Idle
    /\ WaitForOwnerTurn(o, mode, {})
    /\ OwnerWaitUnchanged

WaitForOwnerResumes(o) ==
    /\ ownerWait[o] # Idle
    /\ ownerWait[o].pending \subseteq settled
    /\ WaitForOwnerTurn(o, ownerWait[o].mode, ownerWait[o].awaited)
    /\ OwnerWaitUnchanged

-----------------------------------------------------------------------------
(* Eviction, session reset and disposal *)

\* A wait whose jobs settled resumes before the next timer callback.
WaitResuming ==
    \/ \E w \in Waiters : waiting[w] \intersect settled # {}
    \/ \E o \in Owners : /\ ownerWait[o] # Idle
                          /\ ownerWait[o].pending \subseteq settled

EvictionTimer(t) ==
    /\ t \in timers
    /\ ~WaitResuming
    /\ Evict({t[1]})
    /\ UNCHANGED <<jobVars, deliveries, inFlight, released, nextAutoId, sinks,
                   disposed, callVars, ghostVars>>

\* #cancelOwnAsyncJobs (/new, switch, dispose of a session): cancelAll and
\* evictCompletedJobs for the owner.  Every transition stops the owner's turn
\* first, and with it the wait calls of that turn.
CancelOwnJobs(o) ==
    LET own == {r \in table : owner[r] = o}
        done == IdsOf(own \intersect Finished)
    IN  /\ \A w \in Waiters : \A r \in waiting[w] : owner[r] # o
        /\ status' = [r \in Runs |-> IF r \in own /\ status[r] = "running"
                                     THEN "cancelled" ELSE status[r]]
        /\ deliveries' = IF done = {} THEN deliveries
                         ELSE Dropped(deliveries, Muted \union done)
        /\ Evict(done)
        /\ UNCHANGED <<jobId, owner, foreground, queued, settled, inFlight,
                       released, nextAutoId, sinks, disposed, callVars, ghostVars>>

DisposeBegin ==
    /\ disposed = "no"
    /\ disposed' = "draining"
    /\ timers' = {}
    /\ status' = [r \in Runs |-> IF r \in table /\ status[r] = "running"
                                 THEN "cancelled" ELSE status[r]]
    /\ UNCHANGED <<jobId, owner, foreground, queued, settled, table, deliveries,
                   inFlight, markVars, released, nextAutoId, sinks, callVars,
                   ghostVars>>

\* Everything drained, or the deadline passed.
DisposeEnd ==
    /\ disposed = "draining"
    /\ disposed' = "done"
    /\ timers' = {} /\ table' = {}
    /\ deliveries' = [r \in Runs |-> 0]
    /\ suppressed' = {} /\ watched' = {} /\ consumed' = {}
    /\ released' = {} /\ sinks' = {}
    /\ UNCHANGED <<jobVars, inFlight, nextAutoId, callVars, ghostVars>>

-----------------------------------------------------------------------------
RegisterSome ==
    \E r \in Runs, o \in Owners :
        \/ \E fg \in BOOLEAN : RegisterAuto(r, o, fg)
        \/ \E name \in Names, q \in BOOLEAN : RegisterNamed(r, o, name, q)

Next ==
    \/ RegisterSome
    \/ \E r \in Runs : MarkRunning(r)
    \/ \E r \in Runs : Settle(r)
    \/ \E r \in Runs : Cancel(r) \/ CancelAndReport(r)
    \/ \E r \in Runs : Background(r)
    \/ \E r \in Runs : ReleaseForeground(r)
    \/ \E r \in Runs : StartDelivery(r)
    \/ \E r \in Runs : DropMuted(r)
    \/ \E r \in Runs : SinkResolves(r)
    \/ \E r \in Runs : SinkRejects(r)
    \/ \E o \in Owners : RegisterDeliverySink(o)
    \/ \E o \in Owners : UnregisterDeliverySink(o)
    \/ \E o \in Owners, R \in SUBSET table : Snapshot(o, R)
    \/ \E w \in Waiters, o \in Owners : WaitBlock(w, o)
    \/ \E w \in Waiters : WaitReport(w)
    \/ \E w \in Waiters : WaitInterrupted(w)
    \/ \E o \in Owners, mode \in {"all", "unsuppressed"} : WaitForOwnerJobs(o, mode)
    \/ \E o \in Owners : WaitForOwnerResumes(o)
    \/ \E t \in timers : EvictionTimer(t)
    \/ \E o \in Owners : CancelOwnJobs(o)
    \/ DisposeBegin
    \/ DisposeEnd

Spec == Init /\ [][Next]_vars

-----------------------------------------------------------------------------
(* Safety *)

\* A run whose promise is pending keeps its row until the manager is disposed:
\* cancel, teardown reaps and the shutdown wait all find it through #jobs, so a
\* run without a row is a process nobody waits for.
LiveRunTracked ==
    \A r \in Registered \ settled : disposed = "done" \/ r \in table

\* A job that still backs a foreground call is never queued, delivered or
\* reported: the call returns its result itself.
ForegroundSilent ==
    \A r \in foreground : deliveries[r] + inFlight[r] + surfaced[r] = 0

\* Settling, promotion, unwatching and retrying never put a second delivery of
\* the same run into the pipeline.
SingleDelivery == \A r \in Runs : deliveries[r] + inFlight[r] <= 1

\* A generated id names one job that anybody but its own foreground call saw.
AutoIdUnambiguous ==
    \A r, s \in Registered \ foreground :
        jobId[r] = jobId[s] /\ jobId[r][1] = AutoPrefix => r = s

\* A background job that finished and still has its row is on its way to the
\* owner: told, queued, in flight, held back by a wait that will give it back,
\* or dropped because the owner had no session.
Accounted(r) ==
    \/ surfaced[r] > 0
    \/ deliveries[r] + inFlight[r] > 0
    \/ jobId[r] \in watched
    \/ r \in deadLettered

NoResultLost == \A r \in (table \intersect Finished) \ foreground : Accounted(r)

\* Some earlier run carried the id of r: its row was evicted, then the agent's
\* name or a discarded generated id was registered again.
Reused(r) == \E s \in Registered \ {r} : jobId[s] = jobId[r]

NoFreshResultLost ==
    \A r \in (table \intersect Finished) \ foreground : Accounted(r) \/ Reused(r)

\* A watched id is watched by a wait that is still blocked and will unwatch it.
WatchHeld == watched \subseteq UNION {IdsOf(waiting[w]) : w \in Waiters}

\* Nothing is left to deliver once dispose() has returned.
DisposedQuiet == disposed = "done" => \A r \in Runs : deliveries[r] = 0

\* Every result goes to its owner by exactly one of the ways there are, under a
\* name that says whose it is: the foreground call, the delivery queue, a wait
\* and the tool's snapshots neither share one nor leave one to each other.
DeliverySound ==
    /\ ForegroundSilent
    /\ SingleDelivery
    /\ NoFreshResultLost
    /\ WatchHeld
    /\ AutoIdUnambiguous
    /\ DisposedQuiet

-----------------------------------------------------------------------------
(* The inductive strengthening of LiveRunTracked: nothing that evicts a row   *)
(* can name the id of a run that still executes.                              *)

\* #jobs is a Map: one row per id.
UniqueRows == \A r, s \in table : jobId[r] = jobId[s] => r = s

StatusInv ==
    /\ table \union settled \subseteq Registered
    /\ \A r \in settled : status[r] # "running"
    /\ Finished \subseteq settled

HasSettledRow(id) == \E r \in table \intersect settled : jobId[r] = id

LiveRunInv ==
    /\ TypeOK
    /\ UniqueRows
    /\ StatusInv
    /\ LiveRunTracked
    /\ \A t \in timers : HasSettledRow(t[1])
    /\ \A id \in consumed : HasSettledRow(id)
    /\ disposed = "done" => table = {}

-----------------------------------------------------------------------------
(* Action properties *)

OwnerWaitReturns(o) == ownerWait[o].mode = "all" /\ ownerWait'[o] = Idle
LeftRunning(o) == {r \in table \ settled : owner[r] = o}

\* waitForOwnerJobs resolves to true only when no job of the owner still runs.
OwnerWaitSound ==
    [][\A o \in Owners : OwnerWaitReturns(o) => LeftRunning(o) = {}]_vars

\* It misses a job only when that job took over the id of one awaited before.
OwnerWaitSoundByRun ==
    [][\A o \in Owners : OwnerWaitReturns(o) =>
        \A r \in LeftRunning(o) : Reused(r)]_vars

-----------------------------------------------------------------------------
(* Liveness.  Bodies end (every tool has a timeout or is aborted), the event  *)
(* loop runs what is due, a foreground call and a wait are bounded by their   *)
(* own timers, and a sink that keeps being retried is not down for ever.      *)

Fairness ==
    /\ \A r \in Runs : /\ WF_vars(Settle(r))
                       /\ WF_vars(Background(r) \/ ReleaseForeground(r))
                       /\ WF_vars(StartDelivery(r) \/ DropMuted(r))
                       /\ SF_vars(SinkResolves(r))
    /\ \A w \in Waiters : WF_vars(WaitReport(w) \/ WaitInterrupted(w))
    /\ \A o \in Owners : WF_vars(WaitForOwnerResumes(o))

FairSpec == Spec /\ Fairness

\* A result that finished reaches a sink or a snapshot while its row lasts,
\* whatever waits, retries and promotions come between.
ResultReachesOwner ==
    \A r \in Runs : r \in Finished \ foreground ~>
        surfaced[r] > 0 \/ r \in deadLettered \/ r \notin table \/ Reused(r)

\* A queued delivery leaves the pipeline, even after its row was evicted.
DeliveryDrains ==
    \A r \in Runs : deliveries[r] + inFlight[r] > 0 ~> deliveries[r] + inFlight[r] = 0

\* No job stays hidden behind a foreground call that is over.
ForegroundEnds == \A r \in Runs : r \in foreground ~> r \notin foreground \/ r \notin table

\* A session teardown or settle barrier does not wait for ever.
OwnerWaitEnds == \A o \in Owners : ownerWait[o] # Idle ~> ownerWait[o] = Idle

\* Whatever waits for the job manager is answered, and results reach their owner.
EverythingEnds == ResultReachesOwner /\ DeliveryDrains /\ ForegroundEnds /\ OwnerWaitEnds
=============================================================================
