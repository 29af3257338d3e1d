------------------------------- MODULE SpawnTree -------------------------------
(***************************************************************************)
(* The concurrency limits of a tree of agents.  Each session bounds the    *)
(* subagents it runs by a semaphore of its own (#spawnSemaphore,           *)
(* task/index.ts), which a child holds from its start to the end of its    *)
(* run (SpawnRun, task/spawn-run.ts); all sessions share one semaphore per *)
(* provider (task/provider-concurrency.ts), which an agent holds during    *)
(* one model request.  A parent waits for blocking children while it holds *)
(* its own permit.                                                         *)
(*                                                                         *)
(* An action is what the code does between two awaits.  Abstractions: the  *)
(* settings, which differ between sessions and change at any time, are a   *)
(* choice at each use; a request ends for any reason; a turn is a number   *)
(* of requests with spawns in between.                                     *)
(***************************************************************************)
EXTENDS Semaphore, FiniteSets, SequencesExt

CONSTANTS
    Agents, Root,  \* the agents of the tree
    Parent,        \* per agent but the root
    Below,         \* per agent: the agents under it
    Provider,      \* the semaphore the sessions share
    Limits,        \* what task.maxConcurrency and the provider's limit may be
    MaxRequests    \* bound, per agent: its model requests

ASSUME TreeAssumption ==
    /\ IsFiniteSet(Agents) /\ Root \in Agents /\ Provider \notin Agents
    /\ Parent \in [Agents \ {Root} -> Agents]
    /\ Below \in [Agents -> SUBSET (Agents \ {Root})]
ASSUME LimitAssumption == Limits \subseteq Nat /\ Limits # {} /\ MaxRequests \in [Agents -> Nat]

VARIABLES
    st,        \* per agent: what it does
    asked,     \* per agent: the requests it has made
    blocking,  \* the children whose parent waits for them in its tool call
    aborted,   \* agents whose run signal is aborted
    sem        \* the semaphore of each session, and the provider's

vars == <<st, asked, blocking, aborted, sem>>

Sems == Agents \union {Provider}
Children(a) == {c \in Agents \ {Root} : Parent[c] = a}

\* "permit", "slot": waits for one; "ready": has yet to ask the model;
\* "request": the model answers; "turn": it runs the tools of the answer;
\* "reaping": the run is over, and its jobs are being cancelled
States == {"none", "permit", "ready", "slot", "request", "turn", "reaping", "ended"}

TypeOK ==
    /\ st \in [Agents -> States]
    /\ asked \in [Agents -> Nat] /\ \A a \in Agents : asked[a] <= MaxRequests[a]
    /\ blocking \subseteq Agents /\ aborted \subseteq Agents
    /\ sem \in [Sems -> [max : Nat, current : Nat, queue : Seq(Agents)]]

Init ==
    /\ st = [a \in Agents |-> IF a = Root THEN "ready" ELSE "none"]
    /\ asked = [a \in Agents |-> 0]
    /\ blocking = {} /\ aborted = {}
    /\ \E max \in Limits : sem = [s \in Sems |-> Make(max)]

-----------------------------------------------------------------------------
\* #getSpawnSemaphore of the session that spawns c
SpawnSem(c) == Parent[c]

\* The waiters that an operation has admitted.
Admitted(before, after) == ToSet(before.queue) \ ToSet(after.queue)

\* The task tool starts child c: the semaphore is resized, then acquired.
Spawn(c) ==
    LET a == Parent[c] IN
    /\ st[a] = "turn" /\ st[c] = "none" /\ a \notin aborted
    /\ \E s \in {Resized(sem[SpawnSem(c)], max) : max \in Limits} :
          /\ sem' = [sem EXCEPT ![SpawnSem(c)] = IF HasSlot(s) THEN Taken(s) ELSE Enqueued(s, c)]
          /\ st' = [b \in Agents |->
                      IF b \in Admitted(sem[SpawnSem(c)], s) \/ (b = c /\ HasSlot(s))
                      THEN "ready" ELSE IF b = c THEN "permit" ELSE st[b]]
    /\ blocking' \in {blocking, blocking \union {c}}
    /\ UNCHANGED <<asked, aborted>>

\* The blocking children of a have ended.
Joined(a) == \A c \in Children(a) \intersect blocking : st[c] \in {"none", "ended"}

\* The next model request: the shared semaphore is resized, then acquired.
Request(a) ==
    /\ a \notin aborted /\ asked[a] < MaxRequests[a]
    /\ st[a] = "ready" \/ (st[a] = "turn" /\ Joined(a))
    /\ asked' = [asked EXCEPT ![a] = @ + 1]
    /\ \E s \in {Resized(sem[Provider], max) : max \in Limits} :
          /\ sem' = [sem EXCEPT ![Provider] = IF HasSlot(s) THEN Taken(s) ELSE Enqueued(s, a)]
          /\ st' = [b \in Agents |->
                      IF b \in Admitted(sem[Provider], s) \/ (b = a /\ HasSlot(s))
                      THEN "request" ELSE IF b = a THEN "slot" ELSE st[b]]
    /\ UNCHANGED <<blocking, aborted>>

\* Mutant: the slot is kept until the run is over.
RequestEndsKeeping(a) ==
    /\ st[a] = "request"
    /\ st' = [st EXCEPT ![a] = "turn"]
    /\ UNCHANGED <<asked, blocking, aborted, sem>>

\* stream.result() settles, or the request throws.
RequestEnds(a) ==
    /\ st[a] = "request"
    /\ \E s \in {Freed(sem[Provider])} :
          /\ sem' = [sem EXCEPT ![Provider] = s]
          /\ st' = [b \in Agents |-> IF b \in Admitted(sem[Provider], s) THEN "request"
                                     ELSE IF b = a THEN "turn" ELSE st[b]]
    /\ UNCHANGED <<asked, blocking, aborted>>

\* The signals of the agents A abort: those that wait stop waiting.  One without
\* a permit never runs, one without a slot fails its request.
Aborts(A, now) ==
    /\ aborted' = aborted \union {a \in A : now[a] \notin {"none", "ended"}}
    /\ sem' = [s \in Sems |-> Abandoned(sem[s], A)]
    /\ st' = [a \in Agents |-> IF a \in A /\ now[a] = "permit" THEN "ended"
                               ELSE IF a \in A /\ now[a] = "slot" THEN "turn" ELSE now[a]]

\* A user or a parent cancels the run of a, and with it what runs under it.
Abort(a) ==
    /\ st[a] \notin {"none", "ended"} /\ a \notin aborted
    /\ Aborts({a} \union Below[a], st)
    /\ UNCHANGED <<asked, blocking>>

\* The last answer is there, or the run is aborted.  The run of a subagent then
\* cancels its jobs (cancelAndReapOwnerJobs); the main session has no run to end.
Stop(a) ==
    /\ st[a] = "turn" \/ (st[a] = "ready" /\ a \in aborted)
    /\ Joined(a)
    /\ IF a = Root
       THEN st' = [st EXCEPT ![a] = "ended"] /\ UNCHANGED <<aborted, sem>>
       ELSE Aborts(Below[a], [st EXCEPT ![a] = "reaping"])
    /\ UNCHANGED <<asked, blocking>>

\* Its jobs have ended, or the deadline of the cleanup has passed: the permit
\* is released, to a semaphore resized just before.
Ends(a) ==
    /\ a # Root /\ st[a] = "reaping"
    /\ \E s \in {Freed(Resized(sem[SpawnSem(a)], max)) : max \in Limits} :
          /\ sem' = [sem EXCEPT ![SpawnSem(a)] = s]
          /\ st' = [b \in Agents |-> IF b \in Admitted(sem[SpawnSem(a)], s) THEN "ready"
                                     ELSE IF b = a THEN "ended" ELSE st[b]]
    /\ UNCHANGED <<asked, blocking, aborted>>

Next ==
    \E a \in Agents :
        \/ a # Root /\ Spawn(a)
        \/ Request(a) \/ RequestEnds(a) \/ Stop(a) \/ Ends(a) \/ Abort(a)

Spec == Init /\ [][Next]_vars

\* What an agent does next by itself: at any time it is one of these.
Step(a) == Request(a) \/ RequestEnds(a) \/ Stop(a) \/ Ends(a)

\* Requests end, an agent that may go on or stop does one of them, and cleanup
\* has a deadline; nobody has to spawn or to abort.
Fairness == \A a \in Agents : WF_vars(Step(a))

FairSpec == Spec /\ Fairness

-----------------------------------------------------------------------------
(* Properties                                                               *)

\* The agents that hold a slot of semaphore s, and those that wait for one.
Holders(s) ==
    IF s = Provider THEN {a \in Agents : st[a] = "request"}
    ELSE {c \in Children(s) : st[c] \in {"ready", "slot", "request", "turn", "reaping"}}
Waiters(s) ==
    IF s = Provider THEN {a \in Agents : st[a] = "slot"}
    ELSE {c \in Children(s) : st[c] = "permit"}

\* Every slot taken has a holder and every holder a slot; exactly those that
\* wait are queued, each once: no abort, resize or release leaks a slot (which
\* would shrink the limit for good), returns one twice or loses a waiter.
SlotsAccounted ==
    \A s \in Sems :
        /\ sem[s].current = Cardinality(Holders(s))
        /\ ToSet(sem[s].queue) = Waiters(s)
        /\ Len(sem[s].queue) = Cardinality(Waiters(s))

\* Nobody waits for a slot that is free.
NoIdleSlot == \A s \in Sems : sem[s].queue # <<>> => ~HasSlot(sem[s])

\* A slot is granted only under the ceiling of that moment, whatever limits the
\* sessions set in between ("can never push concurrency past the cap").
CapRespected ==
    [][\A s \in Sems :
          ~(Holders(s)' \subseteq Holders(s)) /\ sem'[s].max # Unbounded
              => Cardinality(Holders(s)') <= sem'[s].max]_vars

\* The semaphores say what the agents do, and let in whom they can and no more.
SlotsSound == [](SlotsAccounted /\ NoIdleSlot) /\ CapRespected

\* Every agent that was started ends, however narrow the limits and however wide
\* the tree: parents that wait for children do not starve them of slots (#3749).
\* (Nobody starts twice, so this says it of each.)
AgentsEnd == <>[](\A a \in Agents : st[a] \in {"none", "ended"})
=============================================================================
