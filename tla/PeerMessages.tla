----------------------------- MODULE PeerMessages -----------------------------
(***************************************************************************)
(* Messages between agents, as one recipient sees them: the bus            *)
(* (packages/coding-agent/src/irc/bus.ts) hands a message to a waiting     *)
(* tool, to the recipient's session or to its mailbox; the session's       *)
(* IrcBridge (session/irc-bridge.ts) keeps it for the next boundary of a   *)
(* running turn, or wakes an idle agent (#wakeForIrc, agent-session.ts).   *)
(* Prompts, aborts, mode exits, session changes, the contract of a work    *)
(* pool and disposal race with that.                                       *)
(*                                                                         *)
(* An action is what the code does between two awaits.  Abstractions: the  *)
(* senders are peers (a parent's message to a busy child is a steer of the *)
(* agent core), steers and follow-ups are a choice of the loop, reviving a *)
(* parked recipient is an await that ends in either way (AgentLifecycle),  *)
(* and the front ends do not prompt during an abort or a transition.       *)
(***************************************************************************)
EXTENDS Naturals, FiniteSets

CONSTANTS
    Msgs,         \* messages to the recipient
    MaxCommands,  \* bound: aborts, transitions, mode exits and pool batches
    MaxUnwinding, \* bound: turns that are still unwinding when a prompt begins
    Behaviours    \* what the instance includes, of what breaks a property:
                  \* "rollback" of a switch that found something queued, and
                  \* "wakeInTransition", a message to an idle session in one

ASSUME BoundAssumption == MaxCommands \in Nat /\ MaxUnwinding \in Nat
ASSUME BehaviourAssumption ==
    Behaviours \subseteq {"rollback", "wakeInTransition"}

VARIABLES
    role,        \* "main": a user's session; "worker": a subagent, perhaps pooled
    plan,        \* plan mode
    \* The bus
    receipt,     \* what the sender has been told
    mailbox,     \* #mailboxes
    waiter,      \* a wait of the recipient is parked in #waiters
    \* The bridge
    interrupts,  \* #interrupts
    asides,      \* #asides
    deferred,    \* #deferredWakes
    snapshot,    \* what clearPending() returned to a switch
    \* Turns
    wakes,       \* the records of each #wakeForIrc that has yet to start its turn
    loop,        \* where the agent loop is
    pending,     \* pendingMessages of the loop
    held,        \* its asideMessages, while it awaits follow-ups
    aborted,     \* its abort signal
    inFlight,    \* #promptInFlightCount
    prompt,      \* a prompt's setup: none, before or after its flush
    unwinding,   \* prompts and wakes that have yet to reach #endInFlight
    \* The session
    phase, goal, \* abort(), and what it is part of
    connected,   \* #unsubscribeAgent is set
    exiting,     \* #modeExitDrainSuppressionDepth > 0
    contract,    \* #workPoolYieldItems: none, the batch's, left by a failed clear
    published,   \* #lastPublishedWorkPoolYieldItems is a batch's
    rebuilds,    \* yield transitions in flight
    disposed,
    session,     \* the session id, counted
    commands,    \* used so far
    \* Observation only
    home,        \* the session a message was handed to
    cleared,     \* messages that went with the session they belonged to
    dropped,     \* messages that went with a turn that failed while it held them
    told         \* how often a message entered the context

busVars == <<receipt, mailbox, waiter>>
bridgeVars == <<interrupts, asides, deferred, snapshot>>
loopVars == <<loop, pending, held, aborted>>
turnVars == <<wakes, inFlight, prompt, unwinding>>
poolVars == <<contract, published, rebuilds>>
phaseVars == <<phase, goal, connected, exiting, session, commands>>
notes == <<home, cleared, dropped>>
vars == <<role, plan, busVars, bridgeVars, loopVars, turnVars, poolVars, phaseVars,
          disposed, notes, told>>

TypeOK ==
    /\ role \in {"main", "worker"} /\ plan \in BOOLEAN
    /\ receipt \in [Msgs -> {"none", "resolving", "injected", "woken", "failed"}]
    /\ mailbox \subseteq Msgs /\ waiter \in BOOLEAN
    /\ interrupts \subseteq Msgs /\ asides \subseteq Msgs /\ deferred \subseteq Msgs
    /\ snapshot \in [interrupts : SUBSET Msgs, asides : SUBSET Msgs, deferred : SUBSET Msgs]
    /\ wakes \subseteq SUBSET Msgs /\ {} \notin wakes
    /\ loop \in {"off", "top", "model", "stopping"}
    /\ pending \subseteq Msgs /\ held \subseteq Msgs /\ aborted \in BOOLEAN
    /\ inFlight \in Nat /\ unwinding \in Nat
    /\ prompt \in {"none", "setup", "flushed"}
    /\ phase \in {"none", "aborting", "resetting", "adopted", "loading", "loaded"}
    /\ goal \in {"stop", "new", "switch"}
    /\ connected \in BOOLEAN /\ exiting \in BOOLEAN /\ disposed \in BOOLEAN
    /\ contract \in {"none", "batch", "stuck"} /\ published \in BOOLEAN
    /\ rebuilds \in 0 .. 2
    /\ session \in Nat /\ commands \in 0 .. MaxCommands
    /\ home \in [Msgs -> Nat] /\ cleared \subseteq Msgs /\ dropped \subseteq Msgs
    /\ told \in [Msgs -> Nat]

NoSnapshot == [interrupts |-> {}, asides |-> {}, deferred |-> {}]

Init ==
    /\ role \in {"main", "worker"} /\ plan \in (IF role = "main" THEN BOOLEAN ELSE {FALSE})
    /\ receipt = [m \in Msgs |-> "none"] /\ mailbox = {} /\ waiter = FALSE
    /\ interrupts = {} /\ asides = {} /\ deferred = {} /\ snapshot = NoSnapshot
    /\ wakes = {} /\ loop = "off" /\ pending = {} /\ held = {} /\ aborted = FALSE
    /\ inFlight = 0 /\ prompt = "none" /\ unwinding = 0
    /\ phase = "none" /\ goal = "stop" /\ connected = TRUE /\ exiting = FALSE
    /\ contract = "none" /\ published = FALSE /\ rebuilds = 0
    /\ disposed = FALSE /\ session = 0 /\ commands = 0
    /\ home = [m \in Msgs |-> 0] /\ cleared = {} /\ dropped = {}
    /\ told = [m \in Msgs |-> 0]

-----------------------------------------------------------------------------
(* Helpers of the session                                                   *)

\* isStreaming
Streaming == loop # "off" \/ inFlight > 0

\* The messages M enter the context.
Tell(M) == told' = [m \in Msgs |-> IF m \in M THEN told[m] + 1 ELSE told[m]]

\* #wakeForIrc, from a session with `count' prompts in flight
Wake(M, count) ==
    IF exiting
    THEN asides' = asides \union M /\ inFlight' = count /\ UNCHANGED wakes
    ELSE wakes' = wakes \union {M} /\ inFlight' = count + 1 /\ UNCHANGED asides

\* Mutant: parked wakes are not resumed.
ResumeLeavingDeferred(idle, count) ==
    LET M == interrupts \union asides IN
    IF idle /\ M # {}
    THEN /\ interrupts' = {} /\ asides' = {}
         /\ wakes' = wakes \union {M} /\ inFlight' = count + 1
         /\ UNCHANGED <<deferred, told>>
    ELSE inFlight' = count /\ UNCHANGED <<interrupts, asides, deferred, wakes, told>>

\* The rest of #resumeStrandedIrcAsides, once its guards have passed
ResumeRecords(idle, count) ==
    LET M == interrupts \union asides \union deferred IN
    IF idle /\ M # {}
    THEN /\ interrupts' = {} /\ asides' = {} /\ deferred' = {}
         /\ IF plan THEN Tell(M) /\ inFlight' = count /\ UNCHANGED wakes
                    ELSE wakes' = wakes \union {M} /\ inFlight' = count + 1 /\ UNCHANGED told
    ELSE inFlight' = count /\ UNCHANGED <<interrupts, asides, deferred, wakes, told>>

\* Mutant: no guard against a transition.
ResumeDisconnected(count, pooled, suppressed) ==
    ResumeRecords(~suppressed /\ ~disposed /\ ~pooled /\ loop = "off" /\ count = 0, count)

\* #resumeStrandedIrcAsides; the last two parameters as they are at the call
Resume(count, pooled, suppressed) ==
    ResumeRecords(/\ ~suppressed /\ ~disposed /\ ~pooled /\ connected
                  /\ loop = "off" /\ count = 0, count)

Pooled == contract # "none"

\* Mutant: the count may go below what #resetInFlight left.
EndInFlightUnfloored ==
    LET count == inFlight - 1 IN
    IF count = 0 /\ phase # "aborting"
    THEN Resume(0, Pooled, exiting)
    ELSE inFlight' = count /\ UNCHANGED <<interrupts, asides, deferred, wakes, told>>

\* #endInFlight, and #drainStrandedQueuedMessages when it was the last
EndInFlight ==
    LET count == IF inFlight > 0 THEN inFlight - 1 ELSE 0 IN
    IF count = 0 /\ phase # "aborting"
    THEN Resume(0, Pooled, exiting)
    ELSE inFlight' = count /\ UNCHANGED <<interrupts, asides, deferred, wakes, told>>

-----------------------------------------------------------------------------
(* The bus: #deliver, for a recipient that is known and may be messaged     *)

InTransition == phase # "none" /\ goal # "stop"

\* deliver, of the bridge
Delivered(m) ==
    \/ /\ Streaming
       /\ interrupts' = interrupts \union {m}
       /\ receipt' = [receipt EXCEPT ![m] = "injected"]
       /\ UNCHANGED <<asides, wakes, inFlight, told>>
    \/ /\ ~Streaming /\ plan
       /\ Tell({m})
       /\ receipt' = [receipt EXCEPT ![m] = "injected"]
       /\ UNCHANGED <<interrupts, asides, wakes, inFlight>>
    \/ /\ ~Streaming /\ ~plan
       /\ InTransition => "wakeInTransition" \in Behaviours
       /\ Wake({m}, 0)
       /\ receipt' = [receipt EXCEPT ![m] = "woken"]
       /\ UNCHANGED <<interrupts, told>>

\* #takeMatchingWaiter, or the session's deliverIrcMessage; a disposed session
\* throws, and the message is buffered.
HandOver(m) ==
    /\ home' = [home EXCEPT ![m] = session]
    /\ IF waiter
       THEN /\ waiter' = FALSE /\ Tell({m})
            /\ receipt' = [receipt EXCEPT ![m] = "injected"]
            /\ UNCHANGED <<mailbox, interrupts, asides, wakes, inFlight>>
       ELSE IF disposed
       THEN /\ mailbox' = mailbox \union {m}
            /\ receipt' = [receipt EXCEPT ![m] = "failed"]
            /\ UNCHANGED <<waiter, interrupts, asides, wakes, inFlight, told>>
       ELSE Delivered(m) /\ UNCHANGED <<mailbox, waiter>>
    /\ UNCHANGED <<role, plan, deferred, snapshot, loopVars, prompt, unwinding,
                   poolVars, phaseVars, disposed, cleared, dropped>>

\* send: to a recipient that is live, or after ensureLive
Send(m) == receipt[m] = "none" /\ HandOver(m)
EnsureLiveReturns(m) == receipt[m] = "resolving" /\ HandOver(m)

Unsent(m, outcome) ==
    /\ receipt' = [receipt EXCEPT ![m] = outcome]
    /\ UNCHANGED <<role, plan, mailbox, waiter, bridgeVars, loopVars, turnVars,
                   poolVars, phaseVars, disposed, notes, told>>

SendResolves(m) == receipt[m] = "none" /\ role = "worker" /\ Unsent(m, "resolving")
EnsureLiveFails(m) == receipt[m] = "resolving" /\ disposed /\ Unsent(m, "failed")

-----------------------------------------------------------------------------
(* Wakes and prompts                                                        *)

\* Mutant: a wake that lost the agent to another turn drops its records.
WakeDropsBusy(R) ==
    /\ R \in wakes
    /\ wakes' = wakes \ {R} /\ unwinding' = unwinding + 1
    /\ IF ~Pooled /\ loop = "off"
       THEN loop' = "top" /\ aborted' = FALSE /\ Tell(R)
       ELSE UNCHANGED <<loop, aborted, told>>
    /\ UNCHANGED <<role, plan, busVars, bridgeVars, pending, held, inFlight, prompt,
                   poolVars, phaseVars, disposed, notes>>

\* After whenWorkPoolYieldSettled: the records are put back, or become the prompt
\* of a turn, unless that has no model to run on.
WakeProceeds(R) ==
    /\ R \in wakes
    /\ wakes' = wakes \ {R}
    /\ \/ /\ Pooled
          /\ deferred' = deferred \union R
          /\ unwinding' = unwinding + 1
          /\ UNCHANGED <<asides, loop, aborted, dropped, told>>
       \/ /\ ~Pooled /\ loop # "off"
          /\ asides' = asides \union R
          /\ unwinding' = unwinding + 1
          /\ UNCHANGED <<deferred, loop, aborted, dropped, told>>
       \/ /\ ~Pooled /\ loop = "off"
          /\ loop' = "top" /\ aborted' = FALSE
          /\ Tell(R)
          /\ UNCHANGED <<asides, deferred, unwinding, dropped>>
       \/ /\ ~Pooled /\ loop = "off"
          /\ dropped' = dropped \union R
          /\ unwinding' = unwinding + 1
          /\ UNCHANGED <<asides, deferred, loop, aborted, told>>
    /\ UNCHANGED <<role, plan, busVars, interrupts, snapshot, pending, held, inFlight,
                   prompt, poolVars, phaseVars, disposed, home, cleared>>

\* A prompt or a wake is over.
TurnReturns ==
    /\ unwinding > 0
    /\ unwinding' = unwinding - 1
    /\ EndInFlight
    /\ UNCHANGED <<role, plan, busVars, snapshot, loopVars, prompt, poolVars,
                   phaseVars, disposed, notes>>

\* #promptWithMessage: the session is busy from its first line,
PromptBegins ==
    /\ ~Streaming /\ prompt = "none" /\ unwinding < MaxUnwinding
    /\ phase = "none" /\ ~disposed
    /\ prompt' = "setup" /\ inFlight' = inFlight + 1
    /\ UNCHANGED <<role, plan, busVars, bridgeVars, loopVars, wakes, unwinding,
                   poolVars, phaseVars, disposed, notes, told>>

\* Mutant: what is persisted stays queued.
PromptFlushesKeeping ==
    /\ prompt = "setup"
    /\ prompt' = "flushed"
    /\ Tell(interrupts \union asides)
    /\ interrupts' = {}
    /\ UNCHANGED <<role, plan, busVars, asides, deferred, snapshot, loopVars, wakes,
                   inFlight, unwinding, poolVars, phaseVars, disposed, notes>>

\* persists what is queued (flushPending),
PromptFlushes ==
    /\ prompt = "setup"
    /\ prompt' = "flushed"
    /\ Tell(interrupts \union asides)
    /\ interrupts' = {} /\ asides' = {}
    /\ UNCHANGED <<role, plan, busVars, deferred, snapshot, loopVars, wakes, inFlight,
                   unwinding, poolVars, phaseVars, disposed, notes>>

\* and reaches agent.prompt, once no other turn holds the agent,
PromptRuns ==
    /\ prompt = "flushed" /\ loop = "off"
    /\ prompt' = "none"
    /\ loop' = "top" /\ aborted' = FALSE
    /\ UNCHANGED <<role, plan, busVars, bridgeVars, pending, held, wakes, inFlight,
                   unwinding, poolVars, phaseVars, disposed, notes, told>>

\* or gives up.
PromptDrops ==
    /\ prompt # "none"
    /\ prompt' = "none" /\ unwinding' = unwinding + 1
    /\ UNCHANGED <<role, plan, busVars, bridgeVars, loopVars, wakes, inFlight,
                   poolVars, phaseVars, disposed, notes, told>>

-----------------------------------------------------------------------------
(* The agent loop                                                           *)

Elsewhere ==
    UNCHANGED <<role, plan, receipt, deferred, snapshot, wakes, inFlight, prompt,
                poolVars, phaseVars, disposed, home, cleared>>
LoopUnchanged == Elsewhere /\ UNCHANGED dropped

\* Pending messages enter the context, and the model is called.
Commit ==
    /\ loop = "top"
    /\ Tell(pending) /\ pending' = {}
    /\ loop' = "model"
    /\ LoopUnchanged
    /\ UNCHANGED <<mailbox, waiter, interrupts, asides, held, aborted, unwinding>>

\* What the loop has polled and not committed goes with it.
LoopEnds ==
    /\ loop' = "off" /\ unwinding' = unwinding + 1
    /\ pending' = {} /\ held' = {}
    /\ dropped' = dropped \union pending \union held
    /\ Elsewhere
    /\ UNCHANGED <<mailbox, waiter, interrupts, asides, aborted, told>>

DeadlineExpires == loop = "top" /\ LoopEnds

\* The aside provider, drainPending, at the two boundaries of a turn
MidPoll ==
    /\ loop = "model" /\ ~aborted /\ ~waiter
    /\ pending' = interrupts \union asides /\ interrupts' = {} /\ asides' = {}
    /\ loop' = "top"
    /\ LoopUnchanged
    /\ UNCHANGED <<mailbox, waiter, held, aborted, unwinding, told>>

StopPoll ==
    /\ loop = "model" /\ ~aborted /\ ~waiter
    /\ held' = interrupts \union asides /\ interrupts' = {} /\ asides' = {}
    /\ loop' = "stopping"
    /\ LoopUnchanged
    /\ UNCHANGED <<mailbox, waiter, pending, aborted, unwinding, told>>

\* With asides or follow-ups, another iteration begins.
FollowUps ==
    /\ loop = "stopping"
    /\ pending' = held /\ held' = {}
    /\ loop' = "top"
    /\ LoopUnchanged
    /\ UNCHANGED <<mailbox, waiter, interrupts, asides, aborted, unwinding, told>>

\* With none, or when the preparation of the follow-ups throws, it ends.
StopEnds == loop = "stopping" /\ LoopEnds

\* The model call fails, is aborted, or ends past the deadline.
ModelStops == loop = "model" /\ ~waiter /\ LoopEnds

\* The wait tool: takeQueuedMessage looks at the interrupts, the asides and the
\* mailbox, in this order.
WaitTakes ==
    /\ loop = "model" /\ ~waiter
    /\ \E m \in IF interrupts # {} THEN interrupts ELSE IF asides # {} THEN asides ELSE mailbox :
          /\ Tell({m})
          /\ interrupts' = interrupts \ {m} /\ asides' = asides \ {m}
          /\ mailbox' = IF m \in interrupts \union asides THEN mailbox ELSE mailbox \ {m}
    /\ LoopUnchanged
    /\ UNCHANGED <<waiter, loopVars, unwinding>>

\* With none of them it blocks on the bus, until something else ends it.
WaitParks ==
    /\ loop = "model" /\ ~waiter /\ ~aborted
    /\ interrupts \union asides \union mailbox = {}
    /\ waiter' = TRUE
    /\ LoopUnchanged
    /\ UNCHANGED <<mailbox, interrupts, asides, loopVars, unwinding, told>>

WaitEnds ==
    /\ waiter
    /\ waiter' = FALSE
    /\ LoopUnchanged
    /\ UNCHANGED <<mailbox, interrupts, asides, loopVars, unwinding, told>>

-----------------------------------------------------------------------------
(* Abort, newSession, switchSession, mode exits and dispose                 *)

CommandUsed == commands < MaxCommands /\ commands' = commands + 1

\* abort(), alone or after #disconnectFromAgent in a transition.  A prompt in
\* its setup gives up.
AbortBegins(g) ==
    /\ phase = "none" /\ ~disposed /\ CommandUsed
    /\ g # "stop" => role = "main"
    /\ phase' = "aborting" /\ goal' = g
    /\ connected' = (g = "stop")
    /\ aborted' = (loop # "off")
    /\ prompt' = "none"
    /\ unwinding' = IF prompt # "none" THEN unwinding + 1 ELSE unwinding
    /\ UNCHANGED <<role, plan, busVars, bridgeVars, loop, pending, held, wakes, inFlight,
                   poolVars, exiting, session, disposed, notes, told>>

\* Its end: #resetInFlight, and the stranded queues are drained.  Only a yield
\* transition keeps a wake waiting for so long.
AbortSettles ==
    /\ phase = "aborting" /\ loop = "off"
    /\ wakes = {} \/ rebuilds > 0
    /\ IF goal = "stop"
       THEN phase' = "none" /\ Resume(0, Pooled, exiting)
       ELSE /\ phase' = "resetting" /\ inFlight' = 0
            /\ UNCHANGED <<interrupts, asides, deferred, wakes, told>>
    /\ UNCHANGED <<role, plan, busVars, snapshot, loopVars, prompt, unwinding, poolVars,
                   goal, connected, exiting, session, commands, disposed, notes>>

TransitionUnchanged ==
    UNCHANGED <<role, plan, busVars, loopVars, turnVars, poolVars, exiting, commands,
                disposed, home, dropped, told>>

\* newSession: the session manager's, and later the bridge is cleared.
NewAdopts ==
    /\ phase = "resetting" /\ goal = "new"
    /\ phase' = "adopted" /\ session' = session + 1
    /\ TransitionUnchanged
    /\ UNCHANGED <<bridgeVars, goal, connected, cleared>>

\* clearPending
ClearPending == interrupts' = {} /\ asides' = {} /\ deferred' = {}

Queued == interrupts \union asides \union deferred

NewClears ==
    /\ phase = "adopted"
    /\ ClearPending
    /\ cleared' = cleared \union Queued
    /\ phase' = "none" /\ goal' = "stop" /\ connected' = TRUE
    /\ TransitionUnchanged
    /\ UNCHANGED <<snapshot, session>>

\* switchSession: the bridge is cleared, the file is loaded, and the switch is
\* committed or rolled back.
SwitchClears ==
    /\ phase = "resetting" /\ goal = "switch"
    /\ phase' = "loading"
    /\ snapshot' = [interrupts |-> interrupts, asides |-> asides, deferred |-> deferred]
    /\ ClearPending
    /\ TransitionUnchanged
    /\ UNCHANGED <<goal, connected, session, cleared>>

SwitchLoads ==
    /\ phase = "loading"
    /\ phase' = "loaded" /\ session' = session + 1
    /\ TransitionUnchanged
    /\ UNCHANGED <<bridgeVars, goal, connected, cleared>>

Kept == snapshot.interrupts \union snapshot.asides \union snapshot.deferred

SwitchCommits ==
    /\ phase = "loaded"
    /\ phase' = "none" /\ goal' = "stop" /\ connected' = TRUE
    /\ snapshot' = NoSnapshot
    /\ cleared' = cleared \union Kept
    /\ TransitionUnchanged
    /\ UNCHANGED <<interrupts, asides, deferred, session>>

\* restorePending
SwitchRollsBack ==
    /\ phase \in {"loading", "loaded"}
    /\ Kept # {} => "rollback" \in Behaviours
    /\ phase' = "none" /\ goal' = "stop" /\ connected' = TRUE
    /\ session' = IF phase = "loaded" THEN session - 1 ELSE session
    /\ interrupts' = snapshot.interrupts \union interrupts
    /\ asides' = snapshot.asides \union asides
    /\ deferred' = snapshot.deferred \union deferred
    /\ snapshot' = NoSnapshot
    /\ TransitionUnchanged
    /\ UNCHANGED cleared

\* runModeExitTeardown
ModeExitBegins ==
    /\ role = "main" /\ ~exiting /\ ~disposed /\ CommandUsed
    /\ exiting' = TRUE
    /\ UNCHANGED <<role, plan, busVars, bridgeVars, loopVars, turnVars, poolVars, phase,
                   goal, connected, session, disposed, notes, told>>

\* Mutant: nothing is resumed.
ModeExitEndsSilently ==
    /\ exiting
    /\ exiting' = FALSE
    /\ UNCHANGED <<role, plan, busVars, bridgeVars, loopVars, turnVars, poolVars, phase,
                   goal, connected, session, commands, disposed, notes, told>>

ModeExitEnds ==
    /\ exiting
    /\ exiting' = FALSE
    /\ Resume(inFlight, Pooled, FALSE)
    /\ UNCHANGED <<role, plan, busVars, snapshot, loopVars, prompt, unwinding, poolVars,
                   phase, goal, connected, session, commands, disposed, notes>>

\* beginDispose: the bridge is flushed, to a transcript that a disconnected
\* session does not write; dispose() aborts the turn.
Dispose ==
    /\ ~disposed
    /\ disposed' = TRUE
    /\ Tell(IF connected THEN interrupts \union asides ELSE {})
    /\ interrupts' = {} /\ asides' = {}
    /\ aborted' = (loop # "off")
    /\ UNCHANGED <<role, plan, busVars, deferred, snapshot, loop, pending, held, turnVars,
                   poolVars, phaseVars, notes>>

-----------------------------------------------------------------------------
(* The contract of a pooled turn: setWorkPoolYieldItems                     *)

PoolUnchanged ==
    UNCHANGED <<role, plan, busVars, snapshot, loopVars, prompt, unwinding, phase, goal,
                connected, exiting, session, disposed, notes>>

\* The pool starts a batch, and clears the contract when its turn is over.
ContractSet ==
    /\ role = "worker" /\ contract = "none" /\ rebuilds < 2 /\ ~disposed /\ CommandUsed
    /\ contract' = "batch" /\ rebuilds' = rebuilds + 1
    /\ PoolUnchanged
    /\ UNCHANGED <<interrupts, asides, deferred, wakes, inFlight, told, published>>

ContractCleared ==
    /\ contract = "batch" /\ rebuilds < 2
    /\ contract' = "none" /\ rebuilds' = rebuilds + 1
    /\ PoolUnchanged
    /\ UNCHANGED <<interrupts, asides, deferred, wakes, inFlight, told, published, commands>>

\* The prompt is rebuilt for the contract as it is now.
RebuildEnds ==
    /\ rebuilds > 0
    /\ rebuilds' = rebuilds - 1 /\ published' = Pooled
    /\ Resume(inFlight, Pooled, exiting)
    /\ PoolUnchanged
    /\ UNCHANGED <<contract, commands>>

\* It fails: the latest contract gives way to the last published one.  The pool
\* does not clear again, it has the worker released.
RebuildFails ==
    /\ rebuilds > 0 /\ role = "worker"
    /\ rebuilds' = rebuilds - 1
    /\ IF rebuilds = 1
       THEN LET back == IF ~published THEN "none"
                        ELSE IF contract = "none" THEN "stuck" ELSE contract
            IN contract' = back /\ Resume(inFlight, back # "none", exiting)
       ELSE UNCHANGED <<contract, interrupts, asides, deferred, wakes, inFlight, told>>
    /\ PoolUnchanged
    /\ UNCHANGED <<published, commands>>

-----------------------------------------------------------------------------
LoopNext ==
    \/ Commit \/ DeadlineExpires \/ MidPoll \/ StopPoll \/ FollowUps \/ StopEnds
    \/ ModelStops \/ WaitTakes \/ WaitParks \/ WaitEnds

TransitionNext ==
    \/ AbortSettles \/ NewAdopts \/ NewClears \/ SwitchClears \/ SwitchLoads
    \/ SwitchCommits \/ SwitchRollsBack

PoolNext == ContractSet \/ ContractCleared \/ RebuildEnds \/ RebuildFails

Next ==
    \/ \E m \in Msgs : \/ Send(m) \/ SendResolves(m)
                       \/ EnsureLiveReturns(m) \/ EnsureLiveFails(m)
    \/ \E R \in wakes : WakeProceeds(R)
    \/ TurnReturns \/ PromptBegins \/ PromptFlushes \/ PromptRuns \/ PromptDrops
    \/ LoopNext
    \/ AbortBegins("stop") \/ AbortBegins("new") \/ AbortBegins("switch")
    \/ TransitionNext \/ ModeExitBegins \/ ModeExitEnds \/ Dispose \/ PoolNext

Spec == Init /\ [][Next]_vars

(***************************************************************************)
(* Every await that is not on the user comes back, and no turn goes on for *)
(* ever.  A finished turn takes a moment to return: a user may prompt in   *)
(* that time, but not each time.                                           *)
(* The pool clears the contract of each batch, and a worker whose contract *)
(* it cannot clear is released.  Nothing makes anybody send, prompt or     *)
(* abort.                                                                  *)
(***************************************************************************)
Fairness ==
    /\ WF_vars(\E R \in wakes : WakeProceeds(R))
    /\ SF_vars(\E R \in wakes : WakeProceeds(R) /\ loop = "off")
    /\ WF_vars(TurnReturns) /\ SF_vars(TurnReturns /\ loop = "off" /\ inFlight <= 1)
    /\ WF_vars(PromptFlushes \/ PromptRuns \/ PromptDrops)
    /\ WF_vars(LoopNext) /\ SF_vars(LoopNext /\ loop' = "off")
    /\ WF_vars(TransitionNext) /\ WF_vars(ModeExitEnds)
    /\ WF_vars(RebuildEnds \/ RebuildFails)
    /\ WF_vars(ContractCleared)
    /\ WF_vars(contract = "stuck" /\ Dispose)

FairSpec == Spec /\ Fairness

-----------------------------------------------------------------------------
(* Properties                                                               *)

Accepted(m) == receipt[m] \in {"injected", "woken"}

\* The places from which a message can still reach the model
Places == {mailbox, interrupts, asides, deferred, pending, held, snapshot.interrupts,
           snapshot.asides, snapshot.deferred} \ {{}}
PlacesOf(m) == {P \in Places \union wakes : m \in P}

\* "a successfully delivered message never lingers in the recipient's mailbox
\* ... buffering it too would double-deliver" (bus.ts 77): nobody is told
\* twice, and a message that was told is kept nowhere.
HeardOnce ==
    \A m \in Msgs : told[m] <= 1 /\ (told[m] = 1 => PlacesOf(m) = {})

\* A message that its sender knows as delivered is not lost: until the model
\* has it, it is kept somewhere, unless it went with its session or with a turn
\* that failed with the message in hand.
NothingLost ==
    \A m \in Msgs : Accepted(m) /\ told[m] = 0 /\ m \notin cleared \union dropped /\ ~disposed
                    => PlacesOf(m) # {}

\* "Once idle, wake a turn so the agent responds to the peer" (agent-session.ts
\* 1146): when nothing is under way that will look at the queues again, they
\* are empty.
Quiet ==
    /\ ~Streaming /\ unwinding = 0 /\ prompt = "none" /\ wakes = {}
    /\ phase = "none" /\ ~exiting /\ ~disposed /\ contract = "none" /\ rebuilds = 0
NoneStranded == Quiet => Queued = {}

\* A message is told, or kept where somebody will look for it, and never both.
KeptOrTold == HeardOnce /\ NothingLost /\ NoneStranded

\* A message does not reach a later conversation than the one it was handed to:
\* "they cannot leak into the new session's transcript" (agent-session.ts 9525).
StaysInSession ==
    [][\A m \in Msgs : told'[m] > told[m] /\ Accepted(m) => home[m] = session]_vars

\* Every message delivered is heard in the end, whatever aborts, mode exits,
\* waits and pooled batches come between.
MessagesHeard ==
    \A m \in Msgs : Accepted(m) ~> (told[m] > 0 \/ m \in cleared \union dropped \/ disposed)

\* Both: it is heard, and where it was sent.
HeardInSession == StaysInSession /\ MessagesHeard
=============================================================================
