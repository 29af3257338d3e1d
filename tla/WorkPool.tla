------------------------------- MODULE WorkPool -------------------------------
(***************************************************************************)
(* WorkPool (packages/coding-agent/src/task/workpool.ts): one pool of      *)
(* keep-alive workers.  Items are pushed, dispatched one after the other   *)
(* to an idle worker, a new worker or the queue of a busy one, and run in  *)
(* turns, each an internal background job; one pool job waits until the    *)
(* items have drained and tells the owner the aggregate.  The owner's own  *)
(* wait, a close, an abort and a full job table race with that.            *)
(*                                                                         *)
(* An action is what the code does between two awaits.  Abstractions: the  *)
(* n-th pushed item is the number n; a turn is named by its first item and *)
(* a worker by the item it was spawned for; the context load that orders   *)
(* idle workers is a choice; a turn may end in any way at any time; the    *)
(* live limit is finite and does not change; the other owners that may fill the job table    *)
(* are a choice at each registration; an own delivery and its sink call    *)
(* are one step (AsyncJobs has the steps between).                         *)
(***************************************************************************)
EXTENDS Naturals, SequencesExt

CONSTANTS
    MaxItems,   \* bound: how many items are pushed
    MaxLimit,   \* bound: task.maxConcurrency
    MaxWaits    \* bound: calls of the owner's wait tool

ASSUME ItemAssumption == MaxItems \in Nat
ASSUME LimitAssumption == MaxLimit \in Nat \ {0}
ASSUME WaitAssumption == MaxWaits \in Nat

Items == 1 .. MaxItems
None == 0

VARIABLES
    \* Items
    fresh,      \* freshAgents: one item per worker
    limit,      \* limit()
    pushed,     \* #nextSeq - 1
    status,     \* per item
    chain,      \* #dispatchChain: items that wait for their dispatch
    reserving,  \* the item whose #spawn awaits an agent id
    freshQueue, \* #freshQueue
    \* Workers
    workers,    \* agents, in order
    wstate,     \* per worker
    wqueue,     \* per worker: its queue
    cursor,     \* rrCursor
    \* Turns: the batches and their jobs
    turn,       \* per batch: its job
    members,    \* per batch: its items
    worker,     \* per batch: its worker
    killed,     \* batches whose job was cancelled
    watched, consumed, delivery,   \* the manager's marks on their jobs
    \* The pool
    pool,       \* its job
    snapshot,   \* batchIds
    closed, aborted,
    \* The owner's wait
    waiting,    \* the batches its call watches
    waitPhase, waits,
    \* Observation only
    late,       \* items pushed after the drain was noticed
    forgotten,  \* items of a push that threw
    told        \* per batch: how its result reached the owner

itemVars == <<pushed, status, chain, reserving, freshQueue>>
workerVars == <<workers, wstate, wqueue, cursor>>
turnVars == <<turn, members, worker, killed>>
markVars == <<watched, consumed, delivery>>
poolVars == <<pool, snapshot, closed, aborted>>
waitVars == <<waiting, waitPhase, waits>>
ghostVars == <<late, forgotten, told>>
settingVars == <<fresh, limit>>
vars == <<settingVars, itemVars, workerVars, turnVars, markVars, poolVars, waitVars,
          ghostVars>>

\* "finished": the outcome of a turn, completed, failed or cancelled alike;
\* "cancelled": by close(), before it had a turn.
Terminal == {"finished", "cancelled"}
Live == {"running", "clearing"}          \* a turn whose job has not settled

TypeOK ==
    /\ fresh \in BOOLEAN /\ limit \in 1 .. MaxLimit
    /\ pushed \in 0 .. MaxItems
    /\ status \in [Items -> {"new", "queued", "running"} \union Terminal]
    /\ chain \in Seq(Items) /\ freshQueue \in Seq(Items)
    /\ reserving \in Items \union {None}
    /\ workers \in Seq(Items)
    /\ wstate \in [Items -> {"none", "running", "idle", "dead"}]
    /\ wqueue \in [Items -> Seq(Items)]
    /\ cursor \in Nat
    /\ turn \in [Items -> {"none", "refused", "settled"} \union Live]
    /\ members \in [Items -> SUBSET Items]
    /\ worker \in [Items -> Items \union {None}]
    /\ killed \subseteq Items /\ watched \subseteq Items
    /\ consumed \subseteq Items /\ delivery \subseteq Items
    /\ pool \in {"none", "refused", "draining", "drained", "settling", "over"}
    /\ snapshot \subseteq Items
    /\ closed \in BOOLEAN /\ aborted \in BOOLEAN
    /\ waiting \subseteq Items
    /\ waitPhase \in {"none", "blocked"} /\ waits \in 0 .. MaxWaits
    /\ late \subseteq Items /\ forgotten \subseteq Items
    /\ told \in [Items -> SUBSET {"wait", "own", "aggregate"}]

Init ==
    /\ fresh \in BOOLEAN /\ limit \in 1 .. MaxLimit
    /\ pushed = 0
    /\ status = [i \in Items |-> "new"]
    /\ chain = <<>> /\ reserving = None /\ freshQueue = <<>>
    /\ workers = <<>> /\ cursor = 0
    /\ wstate = [w \in Items |-> "none"]
    /\ wqueue = [w \in Items |-> <<>>]
    /\ turn = [b \in Items |-> "none"]
    /\ members = [b \in Items |-> {}]
    /\ worker = [b \in Items |-> None]
    /\ killed = {} /\ watched = {} /\ consumed = {} /\ delivery = {}
    /\ pool = "none" /\ snapshot = {} /\ closed = FALSE /\ aborted = FALSE
    /\ waiting = {} /\ waitPhase = "none" /\ waits = 0
    /\ late = {} /\ forgotten = {}
    /\ told = [b \in Items |-> {}]

-----------------------------------------------------------------------------
(* Items and the drain                                                      *)

Open(st) == {i \in Items : st[i] \in {"queued", "running"}}

Batches == {b \in Items : turn[b] # "none"}

\* #notifyDrained: the pool job's waiter is resolved once nothing is open.
Notified(st) == IF pool = "draining" /\ Open(st) = {} THEN "drained" ELSE pool

\* #queueDispatch
QueueDispatch(items) == chain' = chain \o items

\* push: the items join the pool before its job is registered, and the job
\* is noted as started before register() may throw: a push that throws leaves
\* its items queued and dispatched by nobody.
Push(n) ==
    LET items == [k \in 1 .. n |-> pushed + k] IN
    /\ ~closed
    /\ n > 0 /\ pushed + n <= MaxItems
    /\ pushed' = pushed + n
    /\ status' = [i \in Items |-> IF i \in ToSet(items) THEN "queued" ELSE status[i]]
    /\ \/ /\ pool # "none"
          /\ QueueDispatch(items)
          /\ UNCHANGED <<pool, forgotten>>
       \/ /\ pool = "none"
          /\ QueueDispatch(items)
          /\ pool' = "draining"
          /\ UNCHANGED forgotten
       \/ /\ pool = "none"
          /\ pool' \in {"none", "refused"}  \* the id is taken; register threw
          /\ forgotten' = forgotten \union ToSet(items)
          /\ UNCHANGED chain
    /\ late' = IF pool \in {"drained", "settling"} THEN late \union ToSet(items) ELSE late
    /\ UNCHANGED <<settingVars, reserving, freshQueue, workerVars, turnVars, markVars,
                   snapshot, closed, aborted, waitVars, told>>

-----------------------------------------------------------------------------
(* Turns                                                                    *)

\* #drain with a non-empty queue q, and #startTurn: the items are running
\* before their job is registered, which fails when the job table is full.
TurnStarts(w, q, turns, ok) ==
    LET b == Head(q) IN
    /\ status' = [i \in Items |-> IF i \in ToSet(q) THEN "running" ELSE status[i]]
    /\ members' = [members EXCEPT ![b] = ToSet(q)]
    /\ worker' = [worker EXCEPT ![b] = w]
    /\ turn' = [turns EXCEPT ![b] = IF ok THEN "running" ELSE "refused"]
    /\ watched' = IF ok THEN watched \union {b} ELSE watched

\* Mutant: one worker too many.
HasRoomOffByOne == Len(workers) <= limit

HasRoom == Len(workers) < limit

\* #dispatch, up to its await.  A dispatch waits for the one before it.
Dispatch(i) ==
    /\ chain # <<>> /\ i = Head(chain) /\ reserving = None
    /\ chain' = Tail(chain)
    /\ UNCHANGED <<settingVars, pushed, killed, consumed, delivery, workers,
                   poolVars, waitVars, ghostVars>>
    /\ \/ /\ closed \/ status[i] # "queued"
          /\ UNCHANGED <<status, reserving, freshQueue, wstate, wqueue, cursor,
                         turn, members, worker, watched>>
       \/ /\ ~closed /\ status[i] = "queued" /\ fresh
          /\ IF HasRoom
             THEN reserving' = i /\ UNCHANGED freshQueue
             ELSE freshQueue' = Append(freshQueue, i) /\ UNCHANGED reserving
          /\ UNCHANGED <<status, wstate, wqueue, cursor, turn, members, worker, watched>>
       \/ /\ ~closed /\ status[i] = "queued" /\ ~fresh
          /\ \E w \in ToSet(workers), ok \in BOOLEAN :
                /\ wstate[w] = "idle"
                /\ TurnStarts(w, <<i>>, turn, ok)
                /\ wstate' = [wstate EXCEPT ![w] = "running"]
          /\ UNCHANGED <<reserving, freshQueue, wqueue, cursor>>
       \/ /\ ~closed /\ status[i] = "queued" /\ ~fresh
          /\ \A w \in ToSet(workers) : wstate[w] # "idle"
          /\ IF HasRoom
             THEN reserving' = i /\ UNCHANGED <<wqueue, cursor>>
             ELSE LET k == cursor % Len(workers) IN     \* #nextBusy: all are busy
                  /\ wqueue' = [wqueue EXCEPT ![workers[k + 1]] = Append(@, i)]
                  /\ cursor' = (k + 1) % Len(workers)
                  /\ UNCHANGED reserving
          /\ UNCHANGED <<status, freshQueue, wstate, turn, members, worker, watched>>

\* #spawn, after the agent id has been reserved
Spawned ==
    /\ reserving # None
    /\ reserving' = None
    /\ \/ /\ closed \/ status[reserving] # "queued"
          /\ UNCHANGED <<status, workers, wstate, turn, members, worker, watched>>
       \/ /\ ~closed /\ status[reserving] = "queued"
          /\ workers' = Append(workers, reserving)
          /\ wstate' = [wstate EXCEPT ![reserving] = "running"]
          /\ \E ok \in BOOLEAN : TurnStarts(reserving, <<reserving>>, turn, ok)
    /\ UNCHANGED <<settingVars, pushed, chain, freshQueue, wqueue, cursor, killed,
                   consumed, delivery, poolVars, waitVars, ghostVars>>

\* Mutant: the items take the state of the job.
TurnEndsAsJob(b) ==
    /\ turn[b] = "running"
    /\ turn' = [turn EXCEPT ![b] = "clearing"]
    /\ status' = [i \in Items |-> IF i \in members[b] THEN turn'[b] ELSE status[i]]
    /\ UNCHANGED <<settingVars, pushed, chain, reserving, freshQueue, workerVars, members,
                   worker, killed, markVars, poolVars, waitVars, ghostVars>>

\* Mutant: only the first item of the batch gets the outcome.
TurnEndsFirst(b) ==
    /\ turn[b] = "running"
    /\ turn' = [turn EXCEPT ![b] = "clearing"]
    /\ status' = [status EXCEPT ![b] = "finished"]
    /\ UNCHANGED <<settingVars, pushed, chain, reserving, freshQueue, workerVars, members,
                   worker, killed, markVars, poolVars, waitVars, ghostVars>>

\* Mutant: the worker is idle before its contract has been cleared.
TurnEndsIdle(b) ==
    /\ turn[b] = "running"
    /\ turn' = [turn EXCEPT ![b] = "clearing"]
    /\ status' = [i \in Items |-> IF i \in members[b] THEN "finished" ELSE status[i]]
    /\ wstate' = [wstate EXCEPT ![worker[b]] = "idle"]
    /\ UNCHANGED <<settingVars, pushed, chain, reserving, freshQueue, workers, wqueue,
                   cursor, members, worker, killed, markVars, poolVars, waitVars,
                   ghostVars>>

\* The run of a turn is over, in whatever way: its items are terminal, and the
\* worker's yield contract is being cleared (#finishTurn, up to its await).
TurnEnds(b) ==
    /\ turn[b] = "running"
    /\ turn' = [turn EXCEPT ![b] = "clearing"]
    /\ status' = [i \in Items |-> IF i \in members[b] THEN "finished" ELSE status[i]]
    /\ UNCHANGED <<settingVars, pushed, chain, reserving, freshQueue, workerVars, members,
                   worker, killed, markVars, poolVars, waitVars, ghostVars>>

\* The job of a turn settles: its result is withheld while it is watched.
JobSettles(b) ==
    delivery' = IF b \in killed \union watched THEN delivery ELSE delivery \union {b}

WorkerDies(w) ==
    /\ wstate' = [wstate EXCEPT ![w] = "dead"]
    /\ workers' = RemoveFirst(workers, w)

\* Mutant: a fresh worker that ends does not hand its place on.
FreshFinishedAlone(b) ==
    /\ fresh /\ turn[b] = "clearing"
    /\ WorkerDies(worker[b])
    /\ turn' = [turn EXCEPT ![b] = "settled"]
    /\ pool' = Notified(status)
    /\ JobSettles(b)
    /\ UNCHANGED <<settingVars, itemVars, wqueue, cursor, members, worker, killed,
                   watched, consumed, snapshot, closed, aborted, waitVars, ghostVars>>

\* #finishTurn, after its awaits, with fresh workers: the next item gets the
\* place of this one.
FreshFinished(b) ==
    /\ fresh /\ turn[b] = "clearing"
    /\ WorkerDies(worker[b])
    /\ IF freshQueue = <<>>
       THEN UNCHANGED <<freshQueue, chain>>
       ELSE /\ QueueDispatch(<<Head(freshQueue)>>)
            /\ freshQueue' = Tail(freshQueue)
    /\ turn' = [turn EXCEPT ![b] = "settled"]
    /\ pool' = Notified(status)
    /\ JobSettles(b)
    /\ UNCHANGED <<settingVars, pushed, status, reserving, wqueue, cursor, members, worker,
                   killed, watched, consumed, snapshot, closed, aborted, waitVars,
                   ghostVars>>

\* The same with a worker that is kept: it takes what was queued on it.
WorkerReused(b) ==
    LET w == worker[b]
        ended == [turn EXCEPT ![b] = "settled"] IN
    /\ ~fresh /\ turn[b] = "clearing"
    /\ IF wqueue[w] = <<>>
       THEN /\ wstate' = [wstate EXCEPT ![w] = "idle"]
            /\ turn' = ended
            /\ UNCHANGED <<status, wqueue, members, worker, watched>>
       ELSE /\ \E ok \in BOOLEAN : TurnStarts(w, wqueue[w], ended, ok)
            /\ wqueue' = [wqueue EXCEPT ![w] = <<>>]
            /\ UNCHANGED wstate
    /\ pool' = Notified(status')
    /\ JobSettles(b)
    /\ UNCHANGED <<settingVars, pushed, chain, reserving, freshQueue, workers, cursor, killed,
                   consumed, snapshot, closed, aborted, waitVars, ghostVars>>

\* Mutant: what was queued on a lost worker is lost with it.
WorkerLostWithQueue(b) ==
    LET w == worker[b] IN
    /\ ~fresh /\ turn[b] = "clearing"
    /\ WorkerDies(w)
    /\ wqueue' = [wqueue EXCEPT ![w] = <<>>]
    /\ turn' = [turn EXCEPT ![b] = "settled"]
    /\ pool' = Notified(status)
    /\ JobSettles(b)
    /\ UNCHANGED <<settingVars, itemVars, cursor, members, worker, killed, watched,
                   consumed, snapshot, closed, aborted, waitVars, ghostVars>>

\* The same with a worker that was killed, vanished or could not be cleared:
\* what was queued on it is dispatched again.
WorkerLost(b) ==
    LET w == worker[b] IN
    /\ ~fresh /\ turn[b] = "clearing"
    /\ WorkerDies(w)
    /\ QueueDispatch(wqueue[w])
    /\ wqueue' = [wqueue EXCEPT ![w] = <<>>]
    /\ turn' = [turn EXCEPT ![b] = "settled"]
    /\ pool' = Notified(status)
    /\ JobSettles(b)
    /\ UNCHANGED <<settingVars, pushed, status, reserving, freshQueue, cursor, members, worker,
                   killed, watched, consumed, snapshot, closed, aborted, waitVars,
                   ghostVars>>

-----------------------------------------------------------------------------
(* The pool                                                                 *)

\* Mutant: close() cancels running items too.
CloseItemsRunning ==
    /\ closed' = TRUE
    /\ status' = [i \in Items |-> IF i \in Open(status) THEN "cancelled" ELSE status[i]]
    /\ wqueue' = [w \in Items |-> IF w \in ToSet(workers) THEN <<>> ELSE wqueue[w]]
    /\ freshQueue' = <<>>
    /\ pool' = Notified(status')
    /\ UNCHANGED <<settingVars, pushed, chain, reserving, workers, wstate, cursor, turn,
                   members, worker, markVars, snapshot, waitVars, ghostVars>>

\* Mutant: close() does not notify the drain.
CloseItemsSilent ==
    /\ closed' = TRUE
    /\ status' = [i \in Items |-> IF status[i] = "queued" THEN "cancelled" ELSE status[i]]
    /\ wqueue' = [w \in Items |-> IF w \in ToSet(workers) THEN <<>> ELSE wqueue[w]]
    /\ freshQueue' = <<>>
    /\ UNCHANGED <<settingVars, pushed, chain, reserving, workers, wstate, cursor, turn,
                   members, worker, markVars, pool, snapshot, waitVars, ghostVars>>

\* close: what has no turn yet is cancelled.
CloseItems ==
    /\ closed' = TRUE
    /\ status' = [i \in Items |-> IF status[i] = "queued" THEN "cancelled" ELSE status[i]]
    /\ wqueue' = [w \in Items |-> IF w \in ToSet(workers) THEN <<>> ELSE wqueue[w]]
    /\ freshQueue' = <<>>
    /\ pool' = Notified(status')
    /\ UNCHANGED <<settingVars, pushed, chain, reserving, workers, wstate, cursor, turn,
                   members, worker, markVars, snapshot, waitVars, ghostVars>>

Close ==
    /\ ~closed
    /\ CloseItems
    /\ UNCHANGED <<killed, aborted>>

\* The pool job is cancelled, or its owner's session ends
\* (#cancelOwnAsyncJobs): the pool closes and its turns are cancelled.
Abort ==
    /\ ~aborted /\ pool # "over"
    /\ aborted' = TRUE
    /\ CloseItems
    /\ killed' = killed \union {b \in Batches : turn[b] \in Live}

\* Mutant: only the batches that have settled are counted.
PoolCountsSettled ==
    /\ pool = "drained"
    /\ pool' = "settling"
    /\ snapshot' = {b \in Batches : turn[b] = "settled"}
    /\ UNCHANGED <<settingVars, itemVars, workerVars, turnVars, markVars, closed, aborted,
                   waitVars, ghostVars>>

\* #waitForDrain returns: the batches of this moment are awaited.
PoolCounts ==
    /\ pool = "drained"
    /\ pool' = "settling"
    /\ snapshot' = {b \in Batches : turn[b] # "refused"}
    /\ UNCHANGED <<settingVars, itemVars, workerVars, turnVars, markVars, closed, aborted,
                   waitVars, ghostVars>>

\* Mutant: the aggregate is rendered after the batches were consumed, without them.
PoolEndsConsumedFirst ==
    /\ pool = "settling"
    /\ \A b \in snapshot : turn[b] = "settled"
    /\ pool' = "over"
    /\ consumed' = consumed \union snapshot
    /\ delivery' = delivery \ snapshot
    /\ watched' = watched \ snapshot
    /\ closed' = TRUE
    /\ told' = [b \in Items |->
                  IF ~aborted /\ turn[b] \in {"clearing", "settled"} /\ b \notin consumed'
                  THEN told[b] \union {"aggregate"} ELSE told[b]]
    /\ UNCHANGED <<settingVars, itemVars, workerVars, turnVars, snapshot, aborted, waitVars,
                   late, forgotten>>

\* The pool job ends: the awaited batches are consumed, the aggregate lists
\* every batch there is, with the output of those that have one.
PoolEnds ==
    /\ pool = "settling"
    /\ \A b \in snapshot : turn[b] = "settled"
    /\ pool' = "over"
    /\ consumed' = consumed \union snapshot
    /\ delivery' = delivery \ snapshot
    /\ watched' = watched \ snapshot
    /\ closed' = TRUE
    /\ told' = [b \in Items |->
                  IF ~aborted /\ turn[b] \in {"clearing", "settled"}
                  THEN told[b] \union {"aggregate"} ELSE told[b]]
    /\ UNCHANGED <<settingVars, itemVars, workerVars, turnVars, snapshot, aborted, waitVars,
                   late, forgotten>>

-----------------------------------------------------------------------------
(* What else happens to the jobs of the turns                               *)

\* The sink is called with a result that is neither watched nor consumed.
Delivered(b) ==
    /\ b \in delivery
    /\ delivery' = delivery \ {b}
    /\ IF b \in watched \union consumed
       THEN UNCHANGED <<told, consumed>>
       ELSE /\ told' = [told EXCEPT ![b] = @ \union {"own"}]
            /\ consumed' = consumed \union {b}
    /\ UNCHANGED <<settingVars, itemVars, workerVars, turnVars, watched, poolVars, waitVars,
                   late, forgotten>>

\* buildJobResult
Snapshotted(B) ==
    /\ told' = [b \in Items |-> IF b \in B THEN told[b] \union {"wait"} ELSE told[b]]
    /\ consumed' = consumed \union B

\* The owner calls the wait tool: a result that is accepted and not told yet
\* is returned at once, else the running jobs are watched.
WaitCalled ==
    LET undelivered == {b \in Items : turn[b] = "settled"
                                      /\ b \notin killed \union consumed \union watched}
        running == {b \in Items : turn[b] \in Live /\ b \notin killed} IN
    /\ waitPhase = "none" /\ waits < MaxWaits
    /\ waits' = waits + 1
    /\ IF undelivered # {}
       THEN /\ Snapshotted(undelivered)
            /\ delivery' = delivery \ undelivered
            /\ UNCHANGED <<watched, waiting, waitPhase>>
       ELSE /\ running # {} \/ pool \in {"draining", "drained", "settling"}
            /\ waitPhase' = "blocked" /\ waiting' = running
            /\ watched' = watched \union running
            /\ UNCHANGED <<told, consumed, delivery>>
    /\ UNCHANGED <<settingVars, itemVars, workerVars, turnVars, poolVars, late, forgotten>>

\* A job settled or the wait's limit has passed: the settled ones of the jobs it
\* watched are in its result.  A message or an interrupt: none is.  Then the
\* call unwatches them all, and one that is settled and not told is enqueued.
WaitReturns ==
    LET settled == {b \in waiting : turn[b] = "settled"} IN
    /\ waitPhase = "blocked"
    /\ \/ Snapshotted(settled)
       \/ UNCHANGED <<told, consumed>>
    /\ watched' = watched \ waiting
    /\ delivery' = (delivery \union ((settled \intersect watched) \ killed)) \ consumed'
    /\ waiting' = {} /\ waitPhase' = "none"
    /\ UNCHANGED <<settingVars, itemVars, workerVars, turnVars, poolVars, waits, late, forgotten>>

-----------------------------------------------------------------------------
Next ==
    \/ \E n \in 1 .. MaxItems : Push(n)
    \/ \E i \in Items : Dispatch(i)
    \/ Spawned
    \/ \E b \in Items :
          \/ TurnEnds(b)
          \/ FreshFinished(b) \/ WorkerReused(b) \/ WorkerLost(b)
          \/ Delivered(b)
    \/ Close \/ Abort \/ PoolCounts \/ PoolEnds
    \/ WaitCalled \/ WaitReturns

Spec == Init /\ [][Next]_vars

\* The awaits of the pool resolve: ids are reserved, turns end (they have a
\* time limit, and a model call that fails ends them), contracts are cleared,
\* jobs settle, a wait has a limit.  Nobody has to push, close or abort.
Fairness ==
    /\ WF_vars(\E i \in Items : Dispatch(i))
    /\ WF_vars(Spawned)
    /\ \A b \in Items :
          /\ WF_vars(TurnEnds(b))
          /\ WF_vars(FreshFinished(b) \/ WorkerReused(b) \/ WorkerLost(b))
          /\ WF_vars(Delivered(b))
    /\ WF_vars(PoolCounts) /\ WF_vars(PoolEnds) /\ WF_vars(WaitReturns)

FairSpec == Spec /\ Fairness

-----------------------------------------------------------------------------
(* Properties                                                               *)

\* No push threw and no turn was refused by a full job table.
Unobstructed == forgotten = {} /\ \A b \in Items : turn[b] # "refused"

\* The places where item i waits for a turn.
Places(i) ==
    (IF Contains(chain, i) THEN {<<"chain">>} ELSE {})
    \union (IF reserving = i THEN {<<"reserving">>} ELSE {})
    \union (IF Contains(freshQueue, i) THEN {<<"freshQueue">>} ELSE {})
    \union {<<"worker", w>> : w \in {v \in ToSet(workers) : Contains(wqueue[v], i)}}

\* A queued item is in exactly one place from which somebody will take it: the
\* requeue after a lost worker, the reservation of an agent id, the queues of
\* busy workers and of fresh ones neither drop nor duplicate it.  (Not so the
\* items of a push that threw, nor those pushed while the pool job was ending.)
NoItemLost ==
    \A i \in Items :
        status[i] = "queued" /\ i \notin forgotten /\ ~(pool = "over" /\ i \in late)
            => Cardinality(Places(i)) = 1

\* A running item belongs to one batch, whose job has not settled.
RunningHasTurn ==
    \A i \in Items : status[i] = "running" =>
        /\ Cardinality({b \in Batches : i \in members[b]}) = 1
        /\ \E b \in Batches : i \in members[b] /\ turn[b] \in {"running", "refused"}

\* A worker, that is one agent session, never has two turns at once; while the
\* pool counts it as busy it has one, and while it is idle nothing is queued on it.
OneTurnPerWorker ==
    \A w \in ToSet(workers) :
        LET turns == {b \in Batches : worker[b] = w /\ turn[b] \in Live \union {"refused"}} IN
        /\ wstate[w] = "running" => Cardinality(turns) = 1
        /\ wstate[w] = "idle" => turns = {} /\ wqueue[w] = <<>>
        /\ wstate[w] \in {"running", "idle"}

\* The pool never has more workers than task.maxConcurrency, although a
\* dispatch checks the limit before it awaits the new worker's id.
LimitRespected ==
    Len(workers) + (IF reserving = None THEN 0 ELSE 1) <= limit

\* When the pool job ends, every item is terminal, every batch has settled, its
\* result is consumed and no longer withheld.  (Except for what was pushed
\* after the job noticed the drain.)
AggregateWhole ==
    pool = "over" /\ Unobstructed =>
        /\ \A i \in 1 .. pushed : i \in late \/ status[i] \in Terminal
        /\ \A b \in Batches : members[b] \intersect late = {} =>
              /\ turn[b] = "settled"
              /\ b \in consumed
              /\ b \notin watched \ waiting
              /\ b \notin delivery

\* The queues, the workers and the turns agree on who does what, and what the
\* pool job leaves behind is done.
WorkPlaced == NoItemLost /\ RunningHasTurn /\ OneTurnPerWorker /\ LimitRespected /\ AggregateWhole

\* An item that is completed, failed or cancelled stays what it is: a close, an
\* abort or a lost worker does not reopen it or overwrite its outcome.
OutcomeFinal ==
    [][\A i \in Items : status[i] \in Terminal => status'[i] = status[i]]_vars

\* The pool job ends once its items have drained, whatever is closed, aborted,
\* lost or waited for meanwhile, unless the job table was full at some time.
PoolDrains == (pool = "draining") ~> (pool = "over" \/ ~Unobstructed)

\* Every pushed item gets an outcome.  (Except those pushed while the job ended.)
ItemsSettle ==
    \A i \in Items :
        (status[i] = "queued")
            ~> (status[i] \in Terminal \/ i \in late \/ ~Unobstructed)

\* The result of every turn reaches the owner: on its own, in a wait or in the
\* aggregate.  (Except after an abort, and as above.)
ResultsTold ==
    \A b \in Items :
        (turn[b] = "settled")
            ~> (told[b] # {} \/ aborted \/ b \in late \/ ~Unobstructed)

\* Everything that was pushed comes to its end, to one end, and the owner hears of it.
WorkEnds == OutcomeFinal /\ PoolDrains /\ ItemsSettle /\ ResultsTold

\* docs/tools/eval.md:245: "The aggregate result auto-delivers once, while
\* internal batch jobs are consumed": no batch is delivered on its own.
BatchesConsumed == \A b \in Items : "own" \notin told[b]
=============================================================================
