------------------------------- MODULE Daemons -------------------------------
(***************************************************************************)
(* The broker that supervises background processes, seen from one daemon   *)
(* name (packages/coding-agent/src/launch/broker.ts).  It is a process of  *)
(* its own; several clients ask it to start, stop and restart the daemon,  *)
(* it relaunches the daemon after a delay, and it keeps a record on disk,  *)
(* from which the next broker recovers after a crash or a shutdown.        *)
(*                                                                         *)
(* An action is what the code does between two awaits.  Abstractions: a    *)
(* generation is the number of its launch over all brokers, and so is the  *)
(* pid of its process (pids are not reused); readiness, output and PTYs    *)
(* are left out; every refusal of a start but the state of the daemon is a *)
(* choice; a replaced record's writes end before those of the new one      *)
(* begin; no request looks at a daemon that a shutdown leaves running; the *)
(* notices of exits are left out.                                          *)
(***************************************************************************)
EXTENDS Naturals, SequencesExt

CONSTANTS
    Requests,    \* requests that may be in progress at once
    Closer,      \* shutdown(), which stops the daemon as a request does
    MaxLaunch,   \* bound: launches
    MaxDowns,    \* bound: crashes and shutdowns of a broker
    Behaviours   \* what the instance includes, of what breaks a property:
                 \* "restartRace", a restart that goes on beside another one;
                 \* "startRace", a restart and a start that go on beside each
                 \* other; "slowOpen", requests or a shutdown while a detached
                 \* launch opens its log; "lateStart", a start or a restart while
                 \* the broker shuts down

ASSUME CloserAssumption == Closer \notin Requests
ASSUME BoundAssumption == MaxLaunch \in Nat /\ MaxDowns \in Nat
ASSUME BehaviourAssumption == Behaviours \subseteq {"restartRace", "startRace", "slowOpen", "lateStart"}

VARIABLES
    \* The broker
    spec,      \* the daemon's specification, fixed: detached; with a restart policy
    broker,    \* "down", "up", or "closing"
    rec,       \* the ManagedDaemon of the name
    armed,     \* restart timers, those the record has forgotten included
    opening,   \* launches that wait for their log file to open
    watched,   \* launches whose exit this broker has yet to hear of
    reading,   \* per launch, the calls of #settle that read its output
    starting,  \* the name is in #startingNames
    op,        \* the requests in progress
    writes,    \* the record's persistQueue
    \* The world
    disk,      \* the stored metadata
    launched,  \* launches so far
    proc,      \* the process of each launch
    downs,     \* crashes and shutdowns so far
    \* Observation only
    stopped,   \* the last request answered was a stop, and none to launch came since
    lost       \* processes whose pid was not on disk when their broker ended

brokerVars == <<broker, rec, armed, opening, watched, reading, starting, op>>
worldVars == <<launched, proc>>
ghosts == <<stopped, lost>>
vars == <<spec, brokerVars, writes, disk, worldVars, downs, ghosts>>

Launches == 1 .. MaxLaunch
States == {"none", "running", "stopping", "restarting", "exited"}
Handlers == Requests \union {Closer}
Launching == {"start", "replace", "restart"}

\* id: which ManagedDaemon; own: `process' is set; stop: stopRequested;
\* timer: restartTimer is set
Records == [state : States, id : 0 .. MaxLaunch, gen : 0 .. MaxLaunch, pid : 0 .. MaxLaunch,
            own : BOOLEAN, stop : BOOLEAN, timer : BOOLEAN]
Images == [state : States, gen : 0 .. MaxLaunch, pid : 0 .. MaxLaunch]
NoRecord == [state |-> "none", id |-> 0, gen |-> 0, pid |-> 0,
             own |-> FALSE, stop |-> FALSE, timer |-> FALSE]
\* of: the record the request works on; target: the process it terminates
Idle == [kind |-> "none", at |-> "idle", of |-> 0, target |-> 0]

TypeOK ==
    /\ spec \in [detached : BOOLEAN, restarts : BOOLEAN]
    /\ broker \in {"down", "up", "closing"}
    /\ rec \in Records /\ armed \in Nat /\ starting \in BOOLEAN
    /\ opening \subseteq Launches /\ watched \subseteq Launches
    /\ reading \in [Launches -> Nat]
    /\ op \in [Handlers -> [kind : {"none", "stop", "close"} \union Launching,
                            at : {"idle", "check", "killing", "waiting", "relaunch", "closed",
                                  "written"},
                            of : 0 .. MaxLaunch, target : 0 .. MaxLaunch]]
    /\ writes \in Seq(Images) /\ disk \in Images
    /\ launched \in 0 .. MaxLaunch /\ proc \in [Launches -> {"none", "alive", "dead"}]
    /\ downs \in 0 .. MaxDowns
    /\ stopped \in BOOLEAN /\ lost \subseteq Launches

\* #serializeMetadata
Image(r) == [state |-> r.state, gen |-> r.gen, pid |-> r.pid]

Init ==
    /\ spec \in [detached : BOOLEAN, restarts : BOOLEAN]
    /\ broker = "up" /\ rec = NoRecord /\ armed = 0
    /\ opening = {} /\ watched = {} /\ reading = [g \in Launches |-> 0]
    /\ starting = FALSE /\ op = [h \in Handlers |-> Idle]
    /\ writes = <<>> /\ disk = Image(NoRecord)
    /\ launched = 0 /\ proc = [g \in Launches |-> "none"]
    /\ downs = 0 /\ stopped = FALSE /\ lost = {}

-----------------------------------------------------------------------------
(* The record                                                               *)

Terminal == rec.state \in {"none", "exited"}
Settled == Terminal \/ rec.state = "restarting"
Alive(g) == g # 0 /\ proc[g] = "alive"

\* #persist: nothing is written when nothing has changed.
Persisted(queue, image) ==
    IF image = (IF queue = <<>> THEN disk ELSE Last(queue)) THEN queue ELSE Append(queue, image)
Persist(r) == writes' = Persisted(writes, Image(r))

Write ==
    /\ broker # "down" /\ writes # <<>>
    /\ disk' = Head(writes) /\ writes' = Tail(writes)
    /\ UNCHANGED <<spec, brokerVars, worldVars, downs, ghosts>>

-----------------------------------------------------------------------------
(* #launch of record r                                                      *)

Begun(r, g) == [r EXCEPT !.state = "running", !.gen = g, !.pid = 0, !.stop = FALSE]

\* The process runs, and its pid is in the record.
Spawned(r, g) == [r EXCEPT !.pid = g, !.own = TRUE]

\* Nobody waits for a turn at the daemon when its launch begins to wait ...
OpensAlone == "slowOpen" \in Behaviours \/ \A h \in Handlers : op'[h] = Idle
\* ... nor comes while it waits.
NoneOpens == "slowOpen" \in Behaviours \/ opening = {}

LaunchNow(r) ==
    LET g == launched + 1
        begun == Begun(r, g)
        running == Spawned(begun, g)
    IN  /\ launched < MaxLaunch /\ launched' = g
        /\ \/ /\ rec' = running /\ proc' = [proc EXCEPT ![g] = "alive"]
              /\ watched' = watched \union {g}
              /\ writes' = Persisted(Persisted(writes, Image(begun)), Image(running))
              /\ UNCHANGED <<opening, reading>>
           \/ \* the process cannot be spawned: #settle
              /\ rec' = begun /\ proc' = [proc EXCEPT ![g] = "dead"]
              /\ reading' = [reading EXCEPT ![g] = @ + 1]
              /\ Persist(begun)
              /\ UNCHANGED <<opening, watched>>
           \/ \* #launchDetached awaits its log file
              /\ spec.detached /\ OpensAlone
              /\ rec' = begun /\ opening' = opening \union {g}
              /\ Persist(begun)
              /\ UNCHANGED <<proc, watched, reading>>

\* ... and spawns the process, whatever has become of the record.
Opened(g) ==
    /\ g \in opening /\ opening' = opening \ {g}
    /\ rec' = Spawned(rec, g) /\ proc' = [proc EXCEPT ![g] = "alive"]
    /\ watched' = watched \union {g}
    /\ Persist(rec')
    /\ UNCHANGED <<spec, broker, armed, reading, starting, op, disk, launched, downs, ghosts>>

\* Mutant: the record keeps a timer that has fired.
TimerKept == rec
\* The record forgets its timer.
TimerTaken == [rec EXCEPT !.timer = FALSE]

\* The restart timer: it asks nothing.
TimerFires ==
    /\ broker # "down" /\ armed > 0 /\ armed' = armed - 1
    /\ UNCHANGED <<spec, broker, starting, op, disk, downs, ghosts>>
    /\ LaunchNow(TimerTaken)

-----------------------------------------------------------------------------
(* The end of a process                                                     *)

ProcessDies(g) ==
    /\ proc[g] = "alive" /\ proc' = [proc EXCEPT ![g] = "dead"]
    /\ UNCHANGED <<spec, brokerVars, writes, disk, launched, downs, ghosts>>

\* #settle, up to the reading of the output
SettleCalled(g) ==
    IF g # rec.gen \/ Settled THEN UNCHANGED reading
    ELSE reading' = [reading EXCEPT ![g] = @ + 1]

\* A process this broker has launched is over.
ExitSeen(g) ==
    /\ broker # "down" /\ g \in watched /\ proc[g] = "dead"
    /\ watched' = watched \ {g}
    /\ SettleCalled(g)
    /\ UNCHANGED <<spec, broker, rec, armed, opening, starting, op, writes, disk, worldVars,
                   downs, ghosts>>

\* #refreshDetached, by a request or by the monitor of a recovered process, which
\* looks again and again: two of them may be on their way to settle.
RefreshSees ==
    /\ broker # "down" /\ spec.detached /\ ~Settled /\ NoneOpens
    /\ ~rec.own /\ ~Alive(rec.pid)
    /\ rec.gen # 0 /\ reading[rec.gen] < 2
    /\ SettleCalled(rec.gen)
    /\ UNCHANGED <<spec, broker, rec, armed, opening, watched, starting, op, writes, disk,
                   worldVars, downs, ghosts>>

\* Mutant: the state is not looked at again after the output was read (#6852).
SettleUnchecked(g) == g = rec.gen

\* The generation is still to be settled after its output was read.
ToSettle(g) == g = rec.gen /\ ~Settled

\* Mutant: a stop that came meanwhile is overlooked.
RestartAnyway == spec.restarts /\ broker = "up"
\* The daemon is to be restarted, if it ended the way its policy asks for.
MayRestart == spec.restarts /\ ~rec.stop /\ broker = "up"

SettleResumes(g) ==
    /\ broker # "down" /\ reading[g] > 0
    /\ reading' = [reading EXCEPT ![g] = @ - 1]
    /\ IF ToSettle(g)
       THEN \/ /\ MayRestart
               /\ rec' = [rec EXCEPT !.state = "restarting", !.pid = 0, !.own = FALSE,
                                     !.timer = TRUE]
               /\ armed' = armed + 1 /\ Persist(rec')
            \/ /\ rec' = [rec EXCEPT !.state = "exited", !.pid = 0, !.own = FALSE]
               /\ UNCHANGED armed /\ Persist(rec')
       ELSE UNCHANGED <<rec, armed, writes>>
    /\ UNCHANGED <<spec, broker, opening, watched, starting, op, disk, worldVars, downs, ghosts>>

-----------------------------------------------------------------------------
(* Requests                                                                 *)

Active(kinds) == \E h \in Requests : op[h].kind \in kinds

\* start: the name must not be starting already.  restart and stop: the daemon
\* must be known.
StartAdmitted == ~starting
RestartAdmitted ==
    /\ rec.state # "none"
    /\ \/ "startRace" \in Behaviours
       \/ \A k \in Requests : op[k].kind \in {"start", "replace"} => op[k].at = "check"

\* Nothing else keeps requests apart.  Unless the instance includes the races, a
\* restart goes on from its look at the daemon alone, and a start when no restart
\* is in progress.
Turn(h) ==
    \A k \in Requests \ {h} :
        LET kinds == {op[h].kind, op[k].kind}
        IN  /\ kinds = {"restart"} => op[k].at = "check" \/ "restartRace" \in Behaviours
            /\ "restart" \in kinds /\ kinds \intersect {"start", "replace"} # {} =>
                  \/ "startRace" \in Behaviours
                  \/ op[h].kind = "restart" /\ op[k].at = "check"

Called(h, kind) ==
    /\ broker = "up" \/ (broker = "closing" /\ (kind = "stop" \/ "lateStart" \in Behaviours))
    /\ op[h] = Idle /\ NoneOpens
    /\ op' = [op EXCEPT ![h] = [kind |-> kind, at |-> "check", of |-> rec.id, target |-> 0]]
    /\ UNCHANGED <<spec, broker, rec, armed, opening, watched, reading, writes, disk, worldVars,
                   downs, lost>>

StartCalled(h) ==
    /\ StartAdmitted /\ starting' = TRUE /\ stopped' = FALSE
    /\ Called(h, "start") \/ Called(h, "replace")

RestartCalled(h) ==
    /\ RestartAdmitted /\ stopped' = FALSE /\ Called(h, "restart") /\ UNCHANGED starting

StopCalled(h) == rec.state # "none" /\ Called(h, "stop") /\ UNCHANGED <<starting, stopped>>

\* The request ends: with an answer, or a refusal.
Answered(h) ==
    /\ op' = [op EXCEPT ![h] = Idle]
    /\ starting' = (starting /\ op[h].kind \notin {"start", "replace"})
    /\ stopped' = (stopped \/ (/\ op[h].kind = "stop" /\ op[h].of = rec'.id
                               /\ rec'.stop \/ rec'.state = "exited"
                               /\ ~Active(Launching) /\ \A k \in Handlers : op[k].at # "killing"))

\* The daemon is down: a request that is to launch it goes on.
Proceeds(h) ==
    IF op[h].kind = "stop" THEN Answered(h)
    ELSE /\ op' = [op EXCEPT ![h].at = IF op[h].kind = "close" THEN "closed" ELSE "relaunch"]
         /\ UNCHANGED <<starting, stopped>>

\* The record that the request holds is terminal.
Over(h) == Terminal \/ op[h].of # rec.id

\* #start throws: without `replace' if the daemon is up, and for other reasons.
StartRefused(h) ==
    /\ op[h].at = "check" /\ op[h].kind \in {"start", "replace"}
    /\ UNCHANGED <<spec, broker, rec, armed, opening, watched, reading, writes, disk, worldVars,
                   downs, lost>>
    /\ Answered(h)

\* #stopRecord clears the restart timer: the daemon is down.
TimerCleared ==
    /\ rec' = [TimerTaken EXCEPT !.stop = TRUE, !.state = "exited"]
    /\ armed' = armed - 1
    /\ Persist(rec')

\* #stopRecord after its refresh
StopBegins(h) ==
    /\ op[h].at = "check" /\ Turn(h)
    /\ \/ /\ Over(h) /\ UNCHANGED <<rec, armed, writes>>
          /\ Proceeds(h)
       \/ /\ ~Over(h) /\ op[h].kind # "start" /\ rec.timer
          /\ TimerCleared /\ Proceeds(h)
       \/ /\ ~Over(h) /\ op[h].kind # "start" /\ ~rec.timer
          /\ rec' = [rec EXCEPT !.stop = TRUE, !.state = "stopping"]
          /\ op' = [op EXCEPT ![h].at = "killing", ![h].target = rec.pid]
          /\ Persist(rec')
          /\ UNCHANGED <<armed, starting, stopped>>
    /\ UNCHANGED <<spec, broker, opening, watched, reading, disk, worldVars, downs, lost>>

\* terminate() ends the process.
StopKills(h) ==
    /\ op[h].at = "killing"
    /\ op' = [op EXCEPT ![h].at = "waiting"]
    /\ proc' = IF Alive(op[h].target) THEN [proc EXCEPT ![op[h].target] = "dead"] ELSE proc
    /\ UNCHANGED <<spec, broker, rec, armed, opening, watched, reading, starting, writes, disk,
                   launched, downs, ghosts>>

\* #waitUntil: the record is terminal, or the time is over; only #start minds.
StopEnds(h) ==
    /\ op[h].at = "waiting"
    /\ UNCHANGED <<spec, broker, rec, armed, opening, watched, reading, writes, disk, worldVars,
                   downs, lost>>
    /\ IF op[h].kind = "replace" /\ ~Over(h) THEN Answered(h) ELSE Proceeds(h)

\* A restart launches the record that a start has replaced since: a process, and
\* metadata, of which the record in place knows nothing.  (What becomes of such a
\* process but its death is left out.)
LaunchReplaced ==
    LET g == launched + 1
    IN  /\ launched < MaxLaunch /\ launched' = g
        /\ proc' = [proc EXCEPT ![g] = "alive"]
        /\ writes' = Persisted(writes, [state |-> "running", gen |-> g, pid |-> g])
        /\ UNCHANGED <<rec, opening, watched, reading>>

\* #start with a new record, #restart with the one it has found
Relaunches(h) ==
    /\ op[h].at = "relaunch" /\ broker # "down"
    /\ Answered(h)
    /\ IF op[h].kind # "restart" THEN LaunchNow([NoRecord EXCEPT !.id = launched + 1])
       ELSE IF op[h].of = rec.id THEN LaunchNow(rec) ELSE LaunchReplaced
    /\ UNCHANGED <<spec, broker, armed, disk, downs, lost>>

-----------------------------------------------------------------------------
(* The end of a broker, and the next one                                    *)

\* Everything in memory is gone.
Gone ==
    /\ broker' = "down" /\ rec' = NoRecord /\ armed' = 0
    /\ opening' = {} /\ watched' = {} /\ reading' = [g \in Launches |-> 0]
    /\ starting' = FALSE /\ op' = [h \in Handlers |-> Idle]
    /\ writes' = <<>>

\* A process whose pid was not written is lost.
Crash ==
    /\ broker # "down" /\ downs < MaxDowns /\ downs' = downs + 1
    /\ Gone /\ lost' = lost \union {g \in Launches : proc[g] = "alive" /\ g # disk.pid}
    /\ UNCHANGED <<spec, disk, worldVars, stopped>>

\* A detached process outlives the broker: its generation is retired, so that
\* its end does not settle what the next broker writes.
Outlives == spec.detached /\ ~rec.stop /\ rec.pid # 0

\* shutdown(): idle, asked for, or by a signal
ShutdownBegins ==
    /\ broker = "up" /\ downs < MaxDowns /\ downs' = downs + 1 /\ NoneOpens
    /\ "lateStart" \in Behaviours \/ ~Active(Launching)
    /\ broker' = "closing"
    /\ rec' = IF Outlives THEN [rec EXCEPT !.gen = 0] ELSE rec
    /\ op' = [op EXCEPT ![Closer] =
                [kind |-> "close", at |-> IF Outlives \/ Terminal THEN "closed" ELSE "check",
                 of |-> rec.id, target |-> 0]]
    /\ UNCHANGED <<spec, armed, opening, watched, reading, starting, writes, disk, worldVars, ghosts>>

\* The writes of the record are awaited; later ones need not reach the disk.
ShutdownWritten ==
    /\ op[Closer].at = "closed" /\ writes = <<>>
    /\ op' = [op EXCEPT ![Closer].at = "written"]
    /\ UNCHANGED <<spec, broker, rec, armed, opening, watched, reading, starting, writes, disk,
                   worldVars, downs, ghosts>>

\* The process exits.
ShutdownEnds ==
    /\ op[Closer].at = "written"
    /\ Gone
    /\ UNCHANGED <<spec, disk, worldVars, downs, ghosts>>

\* What the record on disk says of a process that can be taken over
Adoptable == spec.detached /\ disk.state \notin {"exited", "stopping"} /\ Alive(disk.pid)

\* Mutant: a daemon that cannot be taken over is left to itself.
ReapOnly ==
    /\ rec' = [NoRecord EXCEPT !.state = "exited", !.id = disk.gen, !.gen = disk.gen, !.stop = TRUE]
    /\ UNCHANGED proc
\* It is terminated, and its record ends.
Reap ==
    /\ rec' = [NoRecord EXCEPT !.state = "exited", !.id = disk.gen, !.gen = disk.gen, !.stop = TRUE]
    /\ proc' = IF Alive(disk.pid) /\ disk.state # "exited"
               THEN [proc EXCEPT ![disk.pid] = "dead"] ELSE proc

\* #recoverRecords
Recover ==
    /\ broker = "down" /\ broker' = "up"
    /\ IF disk.state = "none" THEN UNCHANGED <<rec, writes, proc>>
       ELSE /\ IF Adoptable
               THEN /\ rec' = [NoRecord EXCEPT !.state = "running", !.id = disk.gen,
                                               !.gen = disk.gen, !.pid = disk.pid]
                    /\ UNCHANGED proc
               ELSE Reap
            /\ Persist(rec')
    /\ UNCHANGED <<spec, armed, opening, watched, reading, starting, op, disk, launched, downs, ghosts>>

-----------------------------------------------------------------------------
HandlerStep(h) == StopBegins(h) \/ StopKills(h) \/ StopEnds(h) \/ Relaunches(h) \/ StartRefused(h)

Next ==
    \/ \E h \in Requests : StartCalled(h) \/ RestartCalled(h) \/ StopCalled(h)
    \/ \E h \in Handlers : HandlerStep(h)
    \/ \E g \in Launches : Opened(g) \/ ProcessDies(g) \/ ExitSeen(g) \/ SettleResumes(g)
    \/ TimerFires \/ RefreshSees \/ Write
    \/ Crash \/ ShutdownBegins \/ ShutdownWritten \/ ShutdownEnds \/ Recover

Spec == Init /\ [][Next]_vars

-----------------------------------------------------------------------------
(* Properties                                                               *)

\* A process runs only as the one the record names, in a state in which a stop
\* reaches it; and while no broker runs, as the one the disk names: no second
\* process beside it, none "keeps running untracked" (broker.ts:440).  Except
\* those whose broker crashed before it had written their pid.
ProcessTracked ==
    \A g \in Launches \ lost : proc[g] = "alive" =>
        IF broker = "down" THEN disk.pid = g /\ disk.state # "exited"
        ELSE rec.pid = g /\ ~Settled

\* What was stopped stays down, across crashes too: no restart timer, settlement
\* or recovery brings it back until somebody asks for it (#6852).
StaysStopped ==
    [][stopped =>
          /\ launched' = launched
          /\ \A g \in Launches \ lost' : proc'[g] # "alive"]_vars

\* The death of a process does not go unnoticed: its exit is still to be heard of,
\* is being settled, or the next look at the process sees it.  And a daemon that
\* waits for its restart has one timer armed, the one that a stop clears.
DeathNoticed ==
    broker = "up" =>
        /\ ~Settled /\ rec.pid # 0 /\ proc[rec.pid] = "dead" =>
              \/ rec.gen \in watched \/ reading[rec.gen] > 0
              \/ spec.detached /\ ~rec.own
        /\ armed = IF rec.timer THEN 1 ELSE 0
        /\ rec.timer <=> rec.state = "restarting"

\* The record of a daemon and its process agree, alive or dead.
RecordTrue == ProcessTracked /\ DeathNoticed
=============================================================================
