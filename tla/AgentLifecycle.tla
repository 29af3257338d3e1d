--------------------------- MODULE AgentLifecycle ---------------------------
(***************************************************************************)
(* AgentRegistry and AgentLifecycleManager (packages/coding-agent/src/     *)
(* registry): who owns the live session of a subagent.  An agent's run     *)
(* registers a ref and attaches a session; when the run is over the        *)
(* manager adopts the ref, parks it when it has been idle for its TTL      *)
(* (the session is disposed, the ref stays) and revives it on demand.      *)
(* Kills, cancellations, disk scans, respawns and teardown race with that. *)
(*                                                                         *)
(* The registry and the manager key everything by agent id and no rule     *)
(* relates two ids, so the module follows ONE id.  What its refs stand for *)
(* are the successive AgentRef objects, the generations, of that id.       *)
(*                                                                         *)
(* An action is what the code does between two awaits.  Abstractions: the  *)
(* TTL is positive and may expire at any moment; cleanup deadlines are not *)
(* modelled (a dispose ends, sooner or later); every reviver attaches its  *)
(* session through createAgentSession, as the two in the code do.          *)
(***************************************************************************)
EXTENDS Integers, FiniteSets

CONSTANTS
    Refs,        \* AgentRef objects registered under the id
    Sessions,    \* AgentSession objects
    Callers,     \* concurrent ensureLive calls
    Releasers,   \* concurrent release calls
    Teardown,    \* the releaser that dispose() uses
    Behaviours,  \* which optional behaviours an instance includes
    None

ASSUME NoneAssumption == None \notin Refs \union Sessions
ASSUME TeardownAssumption == Teardown \in Releasers
ASSUME BehaviourAssumption ==
    Behaviours \subseteq {"cancel", "oneShot", "lateFailure", "close",
                          "restore", "respawn"}

VARIABLES
    \* AgentRegistry
    registered,  \* #refs.get(id)
    status,      \* ref.status
    session,     \* ref.session
    \* AgentSession
    life,        \* how far the session is disposed
    owner,       \* the ref its dispose wrapper unregisters
    turn,        \* isStreaming
    \* The executor's run that a ref was spawned for
    run,
    \* AgentLifecycleManager
    adoption,    \* #adopted.get(id)
    park,        \* #parks.get(id)
    entry,       \* the ref of #revivals.get(id)
    revival,     \* each ref's #resolveAndRevive call
    manager,     \* dispose(): "open", "closing", "closed"
    \* Calls suspended in an await
    caller,      \* ensureLive
    release,     \* release, and cancelAgentRegistration before it
    probing      \* the corpse that reclaimDeadCorpse is probing

registryVars == <<registered, status, session>>
sessionVars == <<life, owner, turn>>
managerVars == <<adoption, park, entry, revival, manager>>
callVars == <<caller, release, probing>>
vars == <<registryVars, sessionVars, run, managerVars, callVars>>

NoRun == [phase |-> "none", session |-> None]
NoAdoption == [ref |-> None, timer |-> FALSE]
NoPark == [phase |-> "none", ref |-> None, session |-> None, cancelled |-> FALSE]
NoRevival == [phase |-> "none", session |-> None, cold |-> FALSE]
NoCall == [at |-> "idle", ref |-> None, got |-> None]
NoRelease == [at |-> "idle", ref |-> None, tombstone |-> FALSE, live |-> None]

\* registry.get(id)?.session
Attached == IF registered = None THEN None ELSE session[registered]

\* Mutant: the session is dropped, not disposed.
Forgetting(s) == life

Unborn(r) == status[r] = "unborn"
Disposing(s) == IF s # None /\ life[s] = "live"
                THEN [life EXCEPT ![s] = "disposing"] ELSE life

TypeOK ==
    /\ registered \in Refs \union {None}
    /\ status \in [Refs -> {"unborn", "running", "idle", "parked", "aborted"}]
    /\ session \in [Refs -> Sessions \union {None}]
    /\ life \in [Sessions -> {"unborn", "live", "disposing", "disposed"}]
    /\ owner \in [Sessions -> Refs \union {None}]
    /\ turn \in [Sessions -> BOOLEAN]
    /\ run \in [Refs -> [phase : {"none", "starting", "running", "settling",
                                  "disposing", "done"},
                         session : Sessions \union {None}]]
    /\ adoption \in [ref : Refs \union {None}, timer : BOOLEAN]
    /\ park \in [phase : {"none", "started", "disposing"},
                 ref : Refs \union {None}, session : Sessions \union {None},
                 cancelled : BOOLEAN]
    /\ entry \in Refs \union {None}
    /\ revival \in [Refs -> [phase : {"none", "probing", "building", "starting",
                                      "discarding"},
                             session : Sessions \union {None}, cold : BOOLEAN]]
    /\ manager \in {"open", "closing", "closed"}
    /\ caller \in [Callers -> [at : {"idle", "cancelling", "cancelled", "waiting",
                                     "waited", "reviving", "returned"},
                               ref : Refs \union {None},
                               got : Sessions \union {None}]]
    /\ release \in [Releasers -> [at : {"idle", "aborting", "parking", "parked",
                                        "writing", "disposing"},
                                  ref : Refs \union {None},
                                  tombstone : BOOLEAN,
                                  live : Sessions \union {None}]]
    /\ probing \in Refs \union {None}

Init ==
    /\ registered = None
    /\ status = [r \in Refs |-> "unborn"]
    /\ session = [r \in Refs |-> None]
    /\ life = [s \in Sessions |-> "unborn"]
    /\ owner = [s \in Sessions |-> None]
    /\ turn = [s \in Sessions |-> FALSE]
    /\ run = [r \in Refs |-> NoRun]
    /\ adoption = NoAdoption
    /\ park = NoPark
    /\ entry = None
    /\ revival = [r \in Refs |-> NoRevival]
    /\ manager = "open"
    /\ caller = [c \in Callers |-> NoCall]
    /\ release = [k \in Releasers |-> NoRelease]
    /\ probing = None

-----------------------------------------------------------------------------
(* #onRegistryEvent: what the manager does, synchronously, about an event.  *)
(* dispose() unsubscribes, so a closing manager hears nothing.              *)

Heard(r) == manager = "open" /\ adoption.ref = r

\* Mutant: the timer is cleared and never armed again.
NeverRearmed(r, to) ==
    IF Heard(r) /\ status[r] # to THEN [adoption EXCEPT !.timer = FALSE] ELSE adoption

AfterStatus(r, to) ==
    IF ~Heard(r) \/ status[r] = to THEN adoption
    ELSE CASE to = "running" -> [adoption EXCEPT !.timer = FALSE]
           [] to = "idle" /\ park.phase = "none" -> [adoption EXCEPT !.timer = TRUE]
           [] OTHER -> adoption

AfterRemoval(r) == IF Heard(r) THEN NoAdoption ELSE adoption

\* setStatus(id, to, ref) for the registered ref, which is not aborted
SetStatus(r, to) ==
    /\ status' = [status EXCEPT ![r] = to]
    /\ adoption' = AfterStatus(r, to)

Unregister(r) ==
    /\ registered' = None
    /\ adoption' = AfterRemoval(r)

\* Mutant: the caller disposes first and detaches later.
DetachedLater(r) == session

\* detachSession(id, ref)
Detached(r) == [session EXCEPT ![r] = None]

\* isParking(id, ref)
Parking(r) == park.phase # "none" /\ ~park.cancelled /\ park.ref = r

-----------------------------------------------------------------------------
(* The run a ref is spawned for, and the turns of its session.              *)

\* createAgentSession registers a fresh ref only when the id is free.
Spawn(r) ==
    /\ Unborn(r) /\ registered = None /\ manager = "open"
    /\ registered' = r
    /\ status' = [status EXCEPT ![r] = "running"]
    /\ run' = [run EXCEPT ![r] = [phase |-> "starting", session |-> None]]
    /\ UNCHANGED <<session, sessionVars, managerVars, callVars>>

\* A disk scan finds the transcript of an agent the registry does not hold.
Restore(r) ==
    /\ "restore" \in Behaviours
    /\ Unborn(r) /\ registered = None /\ manager = "open"
    /\ registered' = r
    /\ status' = [status EXCEPT ![r] = "parked"]
    /\ UNCHANGED <<session, sessionVars, run, managerVars, callVars>>

\* Mutant: the tombstone is not looked at.
ClaimableByRef(r) == registered = r

\* attachSession accepts a session for the exact ref unless it was killed.
Claimable(r) == registered = r /\ status[r] # "aborted"

\* The run's createAgentSession attaches the session it built, and prompts it.
Attach(r, s) ==
    /\ run[r].phase = "starting" /\ life[s] = "unborn"
    /\ Claimable(r)
    /\ session' = [session EXCEPT ![r] = s]
    /\ life' = [life EXCEPT ![s] = "live"]
    /\ owner' = [owner EXCEPT ![s] = r]
    /\ turn' = [turn EXCEPT ![s] = TRUE]
    /\ run' = [run EXCEPT ![r] = [phase |-> "running", session |-> s]]
    /\ UNCHANGED <<registered, status, managerVars, callVars>>

\* It fails instead, or finds its ref killed or gone: unregisterUnlessParked.
SpawnFails(r) ==
    /\ run[r].phase = "starting"
    /\ run' = [run EXCEPT ![r].phase = "done"]
    /\ IF Claimable(r)
       THEN Unregister(r) ELSE UNCHANGED <<registered, adoption>>
    /\ UNCHANGED <<status, session, sessionVars, park, entry, revival, manager,
                   callVars>>

\* syncSessionStatus is wired only when the reviver is about to return.
Mirrored(s) ==
    /\ s = Attached /\ status[registered] # "aborted"
    /\ \A r \in Refs : revival[r].session # s

\* A peer's message or a prompt starts a turn on the attached session.
TurnStarts(s) ==
    /\ s = Attached /\ life[s] = "live" /\ ~turn[s]
    /\ turn' = [turn EXCEPT ![s] = TRUE]
    /\ IF Mirrored(s) THEN SetStatus(registered, "running")
       ELSE UNCHANGED <<status, adoption>>
    /\ UNCHANGED <<registered, session, life, owner, run, park, entry, revival,
                   manager, callVars>>

\* The run's own prompting ends with its session's first turn; the executor
\* still reaps jobs before it settles the ref, and a peer may wake the session.
Settling(s) ==
    run' = [r \in Refs |-> IF run[r].phase = "running" /\ run[r].session = s
                          THEN [run[r] EXCEPT !.phase = "settling"] ELSE run[r]]

TurnEnds(s) ==
    /\ turn[s]
    /\ turn' = [turn EXCEPT ![s] = FALSE]
    /\ Settling(s)
    /\ IF Mirrored(s) THEN SetStatus(registered, "idle")
       ELSE UNCHANGED <<status, adoption>>
    /\ UNCHANGED <<registered, session, life, owner, park, entry, revival,
                   manager, callVars>>

\* Mutant: a kill is not told from a teardown.
SparedOnlyParked(r) == status[r] = "parked" \/ Parking(r)

\* unregisterUnlessParked leaves it alone
Spared(r) ==
    \/ status[r] = "parked"
    \/ status[r] = "aborted" /\ session[r] = None
    \/ Parking(r)

\* session.dispose() runs to its end; the sdk's wrapper then forgets the ref,
\* unless it is parked or a detached tombstone (unregisterUnlessParked).
DisposeEnds(s) ==
    LET r == owner[s] IN
    /\ life[s] = "disposing"
    /\ life' = [life EXCEPT ![s] = "disposed"]
    /\ turn' = [turn EXCEPT ![s] = FALSE]
    /\ Settling(s)
    /\ IF registered # r \/ Spared(r)
       THEN UNCHANGED <<registered, adoption>>
       ELSE Unregister(r)
    /\ UNCHANGED <<status, session, owner, park, entry, revival, manager,
                   callVars>>

-----------------------------------------------------------------------------
(* release: drop the adoption, let a park end, then take the ref down.      *)

\* Mutant: the id is looked up again and the ref not compared.
LiveOfId(r) == Attached

\* What a release of r has to dispose
LiveOf(r) == IF registered = r THEN session[r] ELSE None

\* The synchronous part that follows the wait for a park.  A tombstone detaches
\* before it publishes `aborted'; a plain release disposes what is attached, or
\* unregisters at once when nothing is.
Seize(k, r, tombstone) ==
    LET mine == registered = r
        live == LiveOf(r)
    IN  /\ IF mine /\ tombstone
           THEN /\ session' = Detached(r)
                /\ status' = [status EXCEPT ![r] = "aborted"]
           ELSE UNCHANGED <<session, status>>
        /\ registered' = IF mine /\ ~tombstone /\ live = None THEN None ELSE registered
        /\ life' = IF tombstone THEN life ELSE Disposing(live)
        /\ release' = [release EXCEPT ![k] =
               IF ~tombstone /\ live = None THEN NoRelease
               ELSE [at |-> IF tombstone THEN "writing" ELSE "disposing",
                     ref |-> r, tombstone |-> tombstone, live |-> live]]

\* release(id, expected), where r is what `expected' resolved to
ReleaseCall(k, r, tombstone) ==
    /\ adoption' = IF adoption.ref = r THEN NoAdoption ELSE adoption
    /\ IF park.phase # "none" /\ park.ref = r
       THEN /\ park' = [park EXCEPT !.cancelled = @ \/ park.phase = "started"]
            /\ release' = [release EXCEPT ![k] =
                   [at |-> "parking", ref |-> r, tombstone |-> tombstone,
                    live |-> None]]
            /\ UNCHANGED <<registered, session, status, life>>
       ELSE Seize(k, r, tombstone) /\ UNCHANGED park

\* release(id): the registered ref, else the adopted one
Target == IF registered # None THEN registered ELSE adoption.ref

\* A kill from the Hub, a collab guest, RPC or a work pool, or a late one whose
\* ref survives only in the adoption.
Kill(k, r) ==
    /\ k # Teardown /\ release[k].at = "idle" /\ manager # "closed"
    /\ r \in {registered, adoption.ref} \ {None}
    /\ ReleaseCall(k, r, TRUE)
    /\ UNCHANGED <<owner, turn, run, entry, revival, manager,
                   caller, probing>>

\* cancelAgentRegistration: abort a running turn, then release(id) whatever the
\* id now stands for.
CancelCalled(k) ==
    /\ "cancel" \in Behaviours
    /\ k # Teardown /\ release[k].at = "idle" /\ manager # "closed"
    /\ registered # None
    /\ IF status[registered] = "running" /\ Attached # None
       THEN /\ release' = [release EXCEPT ![k] =
                   [NoRelease EXCEPT !.at = "aborting", !.ref = registered]]
            /\ UNCHANGED <<registryVars, adoption, park, life>>
       ELSE ReleaseCall(k, registered, FALSE)
    /\ UNCHANGED <<owner, turn, run, entry, revival, manager,
                   caller, probing>>

CancelReleases(k) ==
    /\ release[k].at = "aborting"
    /\ IF Target = None
       THEN /\ release' = [release EXCEPT ![k] = NoRelease]
            /\ UNCHANGED <<registryVars, adoption, park, life>>
       ELSE ReleaseCall(k, Target, FALSE)
    /\ UNCHANGED <<owner, turn, run, entry, revival, manager,
                   caller, probing>>

ReleaseResumes(k) ==
    /\ release[k].at = "parked"
    /\ Seize(k, release[k].ref, release[k].tombstone)
    /\ adoption' = IF registered' # registered
                   THEN AfterRemoval(registered) ELSE adoption
    /\ UNCHANGED <<owner, turn, run, park, entry, revival, manager, caller,
                   probing>>

\* Mutant: the tombstone write fails and nobody disposes.
TombstoneFails(k) ==
    /\ release[k].at = "writing"
    /\ release' = [release EXCEPT ![k] = NoRelease]
    /\ UNCHANGED <<registryVars, sessionVars, run, managerVars, caller, probing>>

\* The tombstone file is written, or its write fails: dispose either way.
TombstoneWritten(k) ==
    /\ release[k].at = "writing"
    /\ life' = Disposing(release[k].live)
    /\ release' = [release EXCEPT ![k].at = "disposing"]
    /\ UNCHANGED <<registryVars, owner, turn, run, managerVars, caller, probing>>

\* Mutant: dispose() is called and not awaited.
DisposeStarted(s) == IF s = None THEN TRUE ELSE life[s] # "live"

Disposed(s) == IF s = None THEN TRUE ELSE life[s] = "disposed"
ReleaseReady(k) == release[k].at = "disposing" /\ Disposed(release[k].live)

ReleaseEnds(k) ==
    LET r == release[k].ref IN
    /\ ReleaseReady(k)
    /\ release' = [release EXCEPT ![k] = NoRelease]
    /\ IF ~release[k].tombstone /\ registered = r
       THEN Unregister(r) ELSE UNCHANGED <<registered, adoption>>
    /\ UNCHANGED <<status, session, sessionVars, run, park, entry, revival,
                   manager, caller, probing>>

-----------------------------------------------------------------------------
(* finalizeSubagentLifecycle: the run is over.                              *)

RunOver(r, phase) ==
    /\ run[r].phase = "settling"
    /\ run' = [run EXCEPT ![r].phase = phase]

OwnsRef(r) == registered = r /\ session[r] = run[r].session

\* Keep-alive: `idle', then adopt.  A turn that a peer's message started since
\* the run's last one is not looked at.
FinishIdle(r) ==
    /\ RunOver(r, "done") /\ manager # "closed" /\ OwnsRef(r)
    /\ status' = [status EXCEPT ![r] = "idle"]
    /\ adoption' = [ref |-> r, timer |-> TRUE]
    /\ UNCHANGED <<registered, session, sessionVars, park, entry, revival,
                   manager, callVars>>

\* A run whose ref is no longer its own disposes its session; so does a one-shot
\* helper, with the ref still registered, which it then unregisters.
FinishDisposes(r) ==
    /\ IF OwnsRef(r) THEN "oneShot" \in Behaviours /\ RunOver(r, "disposing")
       ELSE RunOver(r, "done")
    /\ life' = Disposing(run[r].session)
    /\ UNCHANGED <<registryVars, owner, turn, managerVars, callVars>>

OneShotReady(r) == run[r].phase = "disposing" /\ Disposed(run[r].session)

OneShotEnds(r) ==
    /\ OneShotReady(r)
    /\ run' = [run EXCEPT ![r].phase = "done"]
    /\ IF registered = r THEN Unregister(r) ELSE UNCHANGED <<registered, adoption>>
    /\ UNCHANGED <<status, session, sessionVars, park, entry, revival, manager,
                   callVars>>

\* A timeout or a caller's signal: a tombstone.
FinishKilled(k, r) ==
    /\ RunOver(r, "done") /\ OwnsRef(r) /\ k # Teardown /\ release[k].at = "idle"
    /\ ReleaseCall(k, r, TRUE)
    /\ UNCHANGED <<owner, turn, entry, revival, manager, caller,
                   probing>>

\* The job manager is shutting down: a plain release.
FinishShutdown(k, r) ==
    /\ RunOver(r, "done") /\ OwnsRef(r) /\ "cancel" \in Behaviours
    /\ k # Teardown /\ release[k].at = "idle"
    /\ ReleaseCall(k, r, FALSE)
    /\ UNCHANGED <<owner, turn, entry, revival, manager, caller,
                   probing>>

-----------------------------------------------------------------------------
(* park: one microtask to change its mind, then detach before it disposes.  *)

\* Mutants: the promise settles for one kind of waiter only.
WakesReleases ==
    /\ park' = NoPark
    /\ UNCHANGED caller
    /\ release' = [k \in Releasers |->
           IF release[k].at = "parking"
           THEN [release[k] EXCEPT !.at = "parked"] ELSE release[k]]
WakesCallers ==
    /\ park' = NoPark
    /\ caller' = [c \in Callers |->
           CASE caller[c].at = "cancelling" -> [caller[c] EXCEPT !.at = "cancelled"]
             [] caller[c].at = "waiting" -> [caller[c] EXCEPT !.at = "waited"]
             [] OTHER -> caller[c]]
    /\ UNCHANGED release

\* Whoever awaited park.promise goes on.
ParkReturns ==
    /\ park' = NoPark
    /\ caller' = [c \in Callers |->
           CASE caller[c].at = "cancelling" -> [caller[c] EXCEPT !.at = "cancelled"]
             [] caller[c].at = "waiting" -> [caller[c] EXCEPT !.at = "waited"]
             [] OTHER -> caller[c]]
    /\ release' = [k \in Releasers |->
           IF release[k].at = "parking"
           THEN [release[k] EXCEPT !.at = "parked"] ELSE release[k]]

TimerFires ==
    /\ adoption.timer
    /\ adoption' = [adoption EXCEPT !.timer = FALSE]
    /\ park' = IF park.phase = "none" /\ registered = adoption.ref /\ Attached # None
               THEN [phase |-> "started", ref |-> registered,
                     session |-> Attached, cancelled |-> FALSE]
               ELSE park
    /\ UNCHANGED <<registryVars, sessionVars, run, entry, revival, manager,
                   callVars>>

ParkStands ==
    /\ ~park.cancelled
    /\ registered = park.ref /\ Attached = park.session
    /\ adoption.ref = park.ref

ParkCommits ==
    /\ park.phase = "started" /\ ParkStands
    /\ park' = [park EXCEPT !.phase = "disposing"]
    /\ session' = Detached(park.ref)
    /\ status' = [status EXCEPT ![park.ref] = "parked"]
    /\ life' = Disposing(park.session)
    /\ UNCHANGED <<registered, owner, turn, run, adoption, entry, revival,
                   manager, callVars>>

ParkGivesUp ==
    /\ park.phase = "started" /\ ~ParkStands
    /\ ParkReturns
    /\ UNCHANGED <<registryVars, sessionVars, run, adoption, entry, revival,
                   manager, probing>>

ParkReady == park.phase = "disposing" /\ Disposed(park.session)

ParkEnds ==
    /\ ParkReady
    /\ ParkReturns
    /\ UNCHANGED <<registryVars, sessionVars, run, adoption, entry, revival,
                   manager, probing>>

-----------------------------------------------------------------------------
(* ensureLive                                                               *)

\* Mutant: the ref is returned, not its session.
ReturnedRef(c, s) ==
    caller' = [caller EXCEPT ![c] = [NoCall EXCEPT !.at = "returned", !.got = registered]]

Returned(c, s) ==
    caller' = [caller EXCEPT ![c] = [NoCall EXCEPT !.at = "returned", !.got = s]]
Thrown(c) == caller' = [caller EXCEPT ![c] = NoCall]
Warm(r) == adoption.ref = r

\* From `const ref = registry.get(id)' on: the attached session, the revival in
\* flight, or a new one.
Resolve(c) ==
    LET r == registered IN
    IF r = None THEN Thrown(c) /\ UNCHANGED <<entry, revival>>
    ELSE IF session[r] # None THEN Returned(c, session[r]) /\ UNCHANGED <<entry, revival>>
    ELSE IF entry # r /\ status[r] # "parked"
         THEN Thrown(c) /\ entry' = None /\ UNCHANGED revival
    ELSE /\ caller' = [caller EXCEPT ![c] = [NoCall EXCEPT !.at = "reviving", !.ref = r]]
         /\ entry' = r
         /\ revival' = IF entry = r THEN revival
                       ELSE [revival EXCEPT ![r] =
                               [NoRevival EXCEPT !.phase = IF Warm(r) THEN "building" ELSE "probing"]]

EnsureLive(c) ==
    /\ caller[c].at = "idle" /\ manager # "closed"
    /\ IF park.phase = "none" THEN Resolve(c) /\ UNCHANGED park
       ELSE LET keep == park.phase = "started" /\ Attached # None IN
            /\ park' = [park EXCEPT !.cancelled = @ \/ keep]
            /\ caller' = [caller EXCEPT ![c] =
                   [NoCall EXCEPT !.at = IF keep THEN "cancelling" ELSE "waiting",
                                  !.ref = registered]]
            /\ UNCHANGED <<entry, revival>>
    /\ UNCHANGED <<registryVars, sessionVars, run, adoption, manager, release,
                   probing>>

\* The park was cancelled: keep what is attached now, and re-arm its TTL.
KeepLive(c) ==
    /\ caller[c].at = "cancelled"
    /\ IF Attached # None
       THEN /\ Returned(c, Attached)
            /\ adoption' = IF adoption.ref = caller[c].ref /\ status[caller[c].ref] = "idle"
                           THEN [adoption EXCEPT !.timer = TRUE] ELSE adoption
            /\ UNCHANGED <<entry, revival>>
       ELSE Resolve(c) /\ UNCHANGED adoption
    /\ UNCHANGED <<registryVars, sessionVars, run, park, manager, release, probing>>

ParkAwaited(c) ==
    /\ caller[c].at = "waited"
    /\ Resolve(c)
    /\ UNCHANGED <<registryVars, sessionVars, run, adoption, park, manager,
                   release, probing>>

\* The caller has used its session and may call again.
CallerDone(c) ==
    /\ caller[c].at = "returned"
    /\ caller' = [caller EXCEPT ![c] = NoCall]
    /\ UNCHANGED <<registryVars, sessionVars, run, managerVars, release, probing>>

-----------------------------------------------------------------------------
(* #resolveAndRevive and #revive                                            *)

\* The call throws: every caller that shares it fails, and an adoption it made
\* itself for a cold ref is dropped again once a reviver had been called.
RevivalThrows(r, reviverCalled) ==
    /\ revival' = [revival EXCEPT ![r] = NoRevival]
    /\ entry' = IF entry = r THEN None ELSE entry
    /\ caller' = [c \in Callers |->
           IF caller[c].at = "reviving" /\ caller[c].ref = r
           THEN NoCall ELSE caller[c]]
    /\ adoption' = IF reviverCalled /\ revival[r].cold /\ adoption.ref = r
                   THEN NoAdoption ELSE adoption

\* The persisted factory answers.  Its adoption is recorded before the ref is
\* looked at again.
ColdAdopted(r) == [ref |-> r, timer |-> FALSE]

FactoryReturns(r) ==
    /\ revival[r].phase = "probing" /\ manager = "open"
    /\ adoption' = ColdAdopted(r)
    /\ IF registered = r /\ status[r] = "parked"
       THEN /\ revival' = [revival EXCEPT ![r].phase = "building", ![r].cold = TRUE]
            /\ UNCHANGED <<entry, caller>>
       ELSE /\ revival' = [revival EXCEPT ![r] = NoRevival]
            /\ entry' = IF entry = r THEN None ELSE entry
            /\ caller' = [c \in Callers |->
                   IF caller[c].at = "reviving" /\ caller[c].ref = r
                   THEN NoCall ELSE caller[c]]
    /\ UNCHANGED <<registryVars, sessionVars, run, park, manager, release, probing>>

\* It declines (no contract, workspace gone, isolated run), or the manager has
\* been disposed meanwhile.
FactoryDeclines(r) ==
    /\ revival[r].phase = "probing"
    /\ RevivalThrows(r, FALSE)
    /\ UNCHANGED <<registryVars, sessionVars, run, park, manager, release, probing>>

\* createAgentSession of a reviver attaches to the exact parked ref.
AttachRevived(r, s) ==
    /\ revival[r].phase = "building" /\ life[s] = "unborn"
    /\ Claimable(r)
    /\ session' = [session EXCEPT ![r] = s]
    /\ life' = [life EXCEPT ![s] = "live"]
    /\ owner' = [owner EXCEPT ![s] = r]
    /\ SetStatus(r, "running")
    /\ revival' = [revival EXCEPT ![r].phase = "starting", ![r].session = s]
    /\ UNCHANGED <<registered, turn, run, park, entry, manager, callVars>>

\* The transcript cannot be opened, or the ref is gone or killed.
BuildFails(r) ==
    /\ revival[r].phase = "building"
    /\ RevivalThrows(r, TRUE)
    /\ UNCHANGED <<registryVars, sessionVars, run, park, manager, release, probing>>

\* A step of createAgentSession after the attach fails: it disposes its session.
LateBuildFails(r) ==
    /\ "lateFailure" \in Behaviours
    /\ revival[r].phase = "starting"
    /\ life' = Disposing(revival[r].session)
    /\ revival' = [revival EXCEPT ![r].phase = "discarding"]
    /\ UNCHANGED <<registryVars, owner, turn, run, adoption, park, entry, manager,
                   callVars>>

\* The reviver's own steps after createAgentSession fail: nothing disposes it.
ReviverFails(r) ==
    /\ "lateFailure" \in Behaviours
    /\ revival[r].phase = "starting"
    /\ RevivalThrows(r, TRUE)
    /\ UNCHANGED <<registryVars, sessionVars, run, park, manager, release, probing>>

\* Mutant: #revive does not compare the ref and the session again.
MineByStatus(r) == status[r] = "running"

\* #revive, after `await revive(ref)'
StillMine(r) ==
    /\ registered = r /\ status[r] = "running"
    /\ session[r] = revival[r].session

Revived(r) ==
    /\ revival[r].phase = "starting" /\ manager = "open"
    /\ StillMine(r)
    /\ SetStatus(r, "idle")
    /\ caller' = [c \in Callers |->
           IF caller[c].at = "reviving" /\ caller[c].ref = r
           THEN [NoCall EXCEPT !.at = "returned", !.got = revival[r].session]
           ELSE caller[c]]
    /\ revival' = [revival EXCEPT ![r] = NoRevival]
    /\ entry' = IF entry = r THEN None ELSE entry
    /\ UNCHANGED <<registered, session, sessionVars, run, park, manager, release,
                   probing>>

RevivedTooLate(r) ==
    /\ revival[r].phase = "starting"
    /\ manager # "open" \/ ~StillMine(r)
    /\ life' = Disposing(revival[r].session)
    /\ revival' = [revival EXCEPT ![r].phase = "discarding"]
    /\ UNCHANGED <<registryVars, owner, turn, run, adoption, park, entry, manager,
                   callVars>>

DiscardReady(r) == revival[r].phase = "discarding" /\ Disposed(revival[r].session)

Discarded(r) ==
    /\ DiscardReady(r)
    /\ RevivalThrows(r, TRUE)
    /\ UNCHANGED <<registryVars, sessionVars, run, park, manager, release, probing>>

-----------------------------------------------------------------------------
(* reclaimDeadCorpse and dispose                                            *)

DeadCorpse(r) ==
    /\ registered = r /\ status[r] = "parked" /\ session[r] = None
    /\ adoption.ref = None /\ park.phase = "none" /\ entry = None

\* A fresh spawn collides with a corpse and asks whether it can be revived.
ReclaimProbes(r) ==
    /\ "respawn" \in Behaviours
    /\ probing = None /\ manager = "open"
    /\ DeadCorpse(r)
    /\ probing' = r
    /\ UNCHANGED <<registryVars, sessionVars, run, managerVars, caller, release>>

\* It cannot, and nobody has taken it since.
Reclaimed ==
    /\ probing # None /\ DeadCorpse(probing)
    /\ Unregister(probing)
    /\ probing' = None
    /\ UNCHANGED <<status, session, sessionVars, run, park, entry, revival,
                   manager, caller, release>>

ReclaimRefused ==
    /\ probing # None
    /\ probing' = None
    /\ UNCHANGED <<registryVars, sessionVars, run, managerVars, caller, release>>

\* Mutant: only agents that are being parked.
ParkedOnly == park.phase # "none"

\* The ids dispose() releases
Held == adoption.ref # None \/ park.phase # "none"

\* dispose(): unsubscribe, then release what is adopted or parking now.
Close ==
    /\ "close" \in Behaviours
    /\ manager = "open"
    /\ manager' = "closing"
    /\ IF Held /\ Target # None
       THEN ReleaseCall(Teardown, Target, FALSE)
       ELSE UNCHANGED <<registryVars, adoption, park, life, release>>
    /\ UNCHANGED <<owner, turn, run, entry, revival, caller, probing>>

CloseReady == manager = "closing" /\ release[Teardown].at = "idle"

Closed ==
    /\ CloseReady
    /\ manager' = "closed"
    /\ park' = NoPark
    /\ entry' = None
    /\ UNCHANGED <<registryVars, sessionVars, run, adoption, revival, callVars>>

-----------------------------------------------------------------------------
(* The event loop runs every continuation that is ready before it takes the *)
(* next event.  A call made in the same tick can still slip in between,     *)
(* which is what the microtask that park() yields is for.                   *)

Drained ==
    /\ park.phase # "started" /\ ~ParkReady
    /\ \A c \in Callers : caller[c].at \notin {"cancelled", "waited"}
    /\ \A k \in Releasers : release[k].at # "parked" /\ ~ReleaseReady(k)
    /\ \A r \in Refs : ~DiscardReady(r) /\ ~OneShotReady(r)
    /\ ~CloseReady

Calls ==
    \/ \E c \in Callers : EnsureLive(c) \/ CallerDone(c)
    \/ \E k \in Releasers : CancelCalled(k) \/ \E r \in Refs : Kill(k, r)

Microtasks ==
    \/ ParkCommits \/ ParkGivesUp \/ ParkEnds
    \/ \E c \in Callers : KeepLive(c) \/ ParkAwaited(c)
    \/ \E k \in Releasers : ReleaseResumes(k) \/ ReleaseEnds(k)
    \/ \E r \in Refs : Discarded(r) \/ OneShotEnds(r)
    \/ Closed

\* Spawns, scans, turns, timers: when they like, if ever
Environment ==
    \/ \E r \in Refs : \/ Spawn(r) \/ Restore(r) \/ ReclaimProbes(r)
                       \/ FinishIdle(r) \/ FinishDisposes(r) \/ SpawnFails(r)
                       \/ \E s \in Sessions : Attach(r, s)
    \/ \E s \in Sessions : TurnStarts(s) \/ TurnEnds(s)
    \/ \E k \in Releasers, r \in Refs : FinishKilled(k, r) \/ FinishShutdown(k, r)
    \/ TimerFires
    \/ Close

\* What the manager's own calls wait for: I/O and the end of a dispose
ReleaseStep(k) == CancelReleases(k) \/ TombstoneWritten(k)
RevivalStep(r) ==
    \/ FactoryReturns(r) \/ FactoryDeclines(r)
    \/ \E s \in Sessions : AttachRevived(r, s)
    \/ BuildFails(r) \/ LateBuildFails(r) \/ ReviverFails(r)
    \/ Revived(r) \/ RevivedTooLate(r)

Completions ==
    \/ \E s \in Sessions : DisposeEnds(s)
    \/ \E k \in Releasers : ReleaseStep(k)
    \/ \E r \in Refs : RevivalStep(r)
    \/ Reclaimed \/ ReclaimRefused

Next == Calls \/ Microtasks \/ (Drained /\ (Environment \/ Completions))

Spec == Init /\ [][Next]_vars

\* The event loop turns: microtasks run, and what is awaited completes.  Strong
\* fairness, because an awaited completion stays ready while calls and their
\* microtasks keep interrupting it: the loop gets to it whenever it has drained.
Fairness ==
    /\ WF_vars(Microtasks)
    /\ \A s \in Sessions : SF_vars(Drained /\ DisposeEnds(s))
    /\ \A k \in Releasers : SF_vars(Drained /\ ReleaseStep(k))
    /\ \A r \in Refs : SF_vars(Drained /\ RevivalStep(r))

FairSpec == Spec /\ Fairness

-----------------------------------------------------------------------------
(* Properties                                                               *)

\* A kill is still taking session s down, and a cancellation has already removed
\* the row that kept the id: cancelAgentRegistration does not look at `aborted'.
RowTaken(s) ==
    \E k \in Releasers :
        /\ release[k].at \in {"writing", "disposing"} /\ release[k].tombstone
        /\ release[k].live = s /\ registered # release[k].ref

\* Two sessions never write the same transcript: a revival, or a respawn under
\* the id, opens it only when the previous session is disposed ("park closes
\* the writer", persisted-revive.ts).  The one exception is RowTaken.
OneWriter ==
    Cardinality({s \in Sessions : life[s] \in {"live", "disposing"}
                                  /\ ~RowTaken(s)}) <= 1

\* No session is forgotten alive: it hangs off the registered ref, or somebody
\* in flight holds it and is going to attach or dispose it.
NoOrphan ==
    \A s \in Sessions : life[s] = "live" =>
        \/ s = Attached
        \/ \E r \in Refs : s \in {revival[r].session}
                           \/ (run[r].phase # "done" /\ run[r].session = s)
        \/ \E k \in Releasers : release[k].at = "writing" /\ release[k].live = s

\* An idle adopted agent will be parked: its timer is armed, or a park is in
\* flight, or the ensureLive that cancelled the park is about to re-arm it.
TtlNeverLost ==
    (/\ manager = "open" /\ adoption.ref # None /\ adoption.ref = registered
     /\ status[registered] = "idle" /\ Attached # None
     /\ life[Attached] = "live")
    => \/ adoption.timer
       \/ park.phase # "none"
       \/ \E c \in Callers : caller[c].at = "cancelled"

\* `parked' and `aborted' refs hold no session, so a message or ensureLive never
\* reaches one through them (AgentRef.session).
RetiredRefsAreEmpty ==
    \A r \in Refs : status[r] \in {"parked", "aborted"} => session[r] = None

\* Nothing the registry or the manager has taken on is forgotten: a session is
\* reached by its ref or by work in flight, never by a ref that is retired, and
\* an idle agent by a timer.
NothingForgotten == NoOrphan /\ TtlNeverLost /\ RetiredRefsAreEmpty

HandedOut(c) == caller[c].at # "returned" /\ caller'[c].at = "returned"

\* What ensureLive returns is attached to the registered ref at that moment: no
\* park, kill or superseded revival has taken it away.
HandOutAttached ==
    [][\A c \in Callers : HandedOut(c) =>
          /\ registered' # None
          /\ caller'[c].got = session'[registered']
          /\ life'[caller'[c].got] \in {"live", "disposing"}]_vars

\* A plain release of r, which removes its row by design, is under way or is
\* called in this step; or a one-shot finalizer is about to unregister it.
AskedToGo(r) ==
    \/ \E k \in Releasers :
          \/ release[k].at = "aborting" \/ CancelCalled(k)
          \/ release[k].at # "idle" /\ release[k].ref = r /\ ~release[k].tombstone
    \/ manager # manager'
    \/ run[r].phase = "disposing"

\* A killed agent stays dead: no late reviver, turn, park or finalizer brings
\* its status or a session back.  And its row stays, so that a disk scan does
\* not find the id free: neither its session's own dispose nor any other late
\* work takes it (#10531).
KilledStaysDead ==
    [][\A r \in Refs : status[r] = "aborted" =>
          /\ status'[r] = "aborted" /\ session'[r] = None
          /\ registered = r => registered' = r \/ AskedToGo(r)]_vars

\* Somebody acts on ref r in this step.
Concerned(r) ==
    \/ park.ref = r \/ probing = r
    \/ run'[r] # run[r] \/ revival'[r] # revival[r]
    \/ \E k \in Releasers : r \in {release[k].ref, release'[k].ref}

\* A session attached to the current ref is disposed only by work that was
\* started for that ref, never by a stale release, park or revival of an older
\* generation.
StaleWorkHarmless ==
    [][\A s \in Sessions :
          s = Attached /\ life[s] = "live" /\ life'[s] # "live"
              => Concerned(registered)]_vars

Waiting(c) == caller[c].at \notin {"idle", "returned"}

\* ensureLive answers, whatever park, kill or teardown it races with.
EnsureLiveAnswers == \A c \in Callers : Waiting(c) ~> ~Waiting(c)

\* A release that waits for a park and then for the dispose ends.
ReleaseReturns ==
    \A k \in Releasers : release[k].at # "idle" ~> release[k].at = "idle"

\* A killed agent's session does not stay alive.
KilledSessionDisposed ==
    \A s \in Sessions :
        (life[s] = "live" /\ owner[s] # None /\ status[owner[s]] = "aborted")
            ~> life[s] = "disposed"

\* After dispose() no agent whose run is over is left with a live session,
\* whatever parks, revivals and finalizers were in flight ("Teardown everything").
ClosedMeansReleased ==
    (manager = "closed" /\ Attached # None /\ run[registered].phase = "done")
        => life[Attached] # "live"

\* Nobody waits for ever, and nothing that was killed or torn down lives on.
AsyncWorkEnds ==
    EnsureLiveAnswers /\ ReleaseReturns /\ KilledSessionDisposed /\ []ClosedMeansReleased

(* What comments, docs and tests say, and the code does not do              *)

\* "A disposing session is never handed out." (agent-lifecycle.ts:13)
HandOutLive ==
    [][\A c \in Callers : HandedOut(c) => life'[caller'[c].got] = "live"]_vars

\* "revive failure leaves the agent parked without a live session"
\* (agent-lifecycle.test.ts:660)
FailedReviveLeavesParked ==
    [][\A r \in Refs :
          (/\ revival[r].phase # "none" /\ revival'[r].phase = "none"
           /\ \E c \in Callers : caller[c].ref = r /\ caller[c].at = "reviving"
                                 /\ caller'[c].at = "idle"
           /\ registered' = r /\ status'[r] # "aborted")
          => status'[r] = "parked" /\ session'[r] = None]_vars

\* "a superseded revive ... can never clobber a newer same-id ref"
\* (agent-lifecycle.ts:19)
AdoptionNotClobbered ==
    [][(registered # None /\ adoption.ref = registered /\ registered' = registered)
          => adoption'.ref \in {registered, None}]_vars
=============================================================================
