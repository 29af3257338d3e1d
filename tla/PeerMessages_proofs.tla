------------------------- MODULE PeerMessages_proofs -------------------------
(***************************************************************************)
(* Proofs about PeerMessages, for any messages and bounds: a message is     *)
(* heard once, is not lost, and stays in its session.                       *)
(*                                                                          *)
(* Followed says of one message where it may be and what its sender may     *)
(* know; the effect lemmas say how #resumeStrandedIrcAsides, the bus and a  *)
(* wake move messages, and each action is a case over these.  LoopInv and   *)
(* PhaseInv are why nothing is overwritten.  What needs that nothing runs   *)
(* in a session that is being changed (StillInv) holds only without         *)
(* "wakeInTransition".                                                      *)
(***************************************************************************)
EXTENDS PeerMessages, TLAPS

-----------------------------------------------------------------------------
(* The parts of the inductive invariant                                     *)

Woken == UNION wakes

Somewhere(m) ==
    m \in mailbox \union Queued \union pending \union held \union Kept \union Woken

Unshared(m) == \A R, S \in wakes : m \in R /\ m \in S => R = S

\* A message is in one place.
Alone(m) ==
    /\ m \in mailbox => m \notin Queued \union pending \union held \union Kept \union Woken
    /\ m \in interrupts => m \notin asides \union deferred
    /\ m \in asides => m \notin deferred
    /\ m \in Queued => m \notin pending \union held \union Kept \union Woken
    /\ m \in pending => m \notin held \union Kept \union Woken
    /\ m \in held => m \notin Kept \union Woken
    /\ m \in Kept => m \notin Woken
    /\ m \in snapshot.interrupts => m \notin snapshot.asides \union snapshot.deferred
    /\ m \in snapshot.asides => m \notin snapshot.deferred
    /\ Unshared(m)

Followed(m) ==
    /\ Alone(m)
    /\ told[m] = 0 \/ (told[m] = 1 /\ ~Somewhere(m))
    /\ receipt[m] \in {"none", "resolving"} => told[m] = 0 /\ ~Somewhere(m)
    /\ Accepted(m) /\ told[m] = 0 /\ m \notin cleared \union dropped /\ ~disposed
          => Somewhere(m)

MessageInv == \A m \in Msgs : Followed(m)

\* What the loop holds, by the point where it is.
LoopInv == (pending # {} => loop = "top") /\ (held # {} => loop = "stopping")

\* What a transition implies of the rest of the session.
PhaseInv ==
    /\ snapshot # NoSnapshot => phase \in {"loading", "loaded"}
    /\ phase = "loaded" => session > 0
    /\ connected <=> ~InTransition
    /\ phase = "resetting" => goal # "stop"
    /\ phase = "adopted" => goal = "new"
    /\ phase \in {"loading", "loaded"} => goal = "switch"
    /\ prompt # "none" => phase = "none"
    /\ InTransition => role = "main"
    /\ role = "main" => rebuilds = 0 /\ contract = "none"

-----------------------------------------------------------------------------
(* What the operations of the session do to its queues                      *)

\* #resumeStrandedIrcAsides finds something, and wakes a turn or shows it.
Resumes(count) ==
    /\ Queued # {}
    /\ interrupts' = {} /\ asides' = {} /\ deferred' = {}
    /\ \/ plan /\ Tell(Queued) /\ inFlight' = count /\ UNCHANGED wakes
       \/ ~plan /\ wakes' = wakes \union {Queued} /\ inFlight' = count + 1 /\ UNCHANGED told

Rests(count) ==
    inFlight' = count /\ UNCHANGED <<interrupts, asides, deferred, wakes, told>>

LEMMA ResumeEffect ==
    ASSUME NEW count, NEW pooled, NEW suppressed, Resume(count, pooled, suppressed)
    PROVE  \/ Resumes(count)
           \/ /\ Rests(count)
              /\ \/ suppressed \/ disposed \/ pooled \/ ~connected
                 \/ loop # "off" \/ count # 0 \/ Queued = {}
BY DEF Resume, ResumeRecords, Resumes, Rests, Queued

LEMMA EndInFlightEffect ==
    ASSUME TypeOK, EndInFlight
    PROVE  \/ inFlight <= 1 /\ Resumes(0)
           \/ \E count \in Nat : Rests(count)
BY DEF TypeOK, EndInFlight, Resume, ResumeRecords, Resumes, Rests, Queued

\* The message goes to the waiting tool, to the mailbox or to the session.
Handed(m) ==
    \/ Tell({m}) /\ UNCHANGED <<mailbox, interrupts, asides, wakes, inFlight>>
    \/ disposed /\ mailbox' = mailbox \union {m}
       /\ UNCHANGED <<interrupts, asides, wakes, inFlight, told>>
    \/ Streaming /\ interrupts' = interrupts \union {m}
       /\ UNCHANGED <<mailbox, asides, wakes, inFlight, told>>
    \/ asides' = asides \union {m} /\ exiting /\ inFlight' = 0
       /\ UNCHANGED <<mailbox, interrupts, wakes, told>>
    \/ wakes' = wakes \union {{m}} /\ inFlight' = 1
       /\ UNCHANGED <<mailbox, interrupts, asides, told>>

LEMMA HandOverEffect ==
    ASSUME NEW m, HandOver(m)
    PROVE  Handed(m)
BY DEF HandOver, Delivered, Wake, Handed

-----------------------------------------------------------------------------
(* Types                                                                    *)

QueuesTyped ==
    /\ interrupts \subseteq Msgs /\ asides \subseteq Msgs /\ deferred \subseteq Msgs
    /\ wakes \subseteq SUBSET Msgs /\ {} \notin wakes
    /\ inFlight \in Nat /\ told \in [Msgs -> Nat]

\* The parts of TypeOK
FlagsTyped ==
    /\ plan \in BOOLEAN /\ waiter \in BOOLEAN /\ aborted \in BOOLEAN
    /\ connected \in BOOLEAN /\ exiting \in BOOLEAN /\ disposed \in BOOLEAN
    /\ published \in BOOLEAN

StagesTyped ==
    /\ role \in {"main", "worker"}
    /\ loop \in {"off", "top", "model", "stopping"}
    /\ prompt \in {"none", "setup", "flushed"}
    /\ phase \in {"none", "aborting", "resetting", "adopted", "loading", "loaded"}
    /\ goal \in {"stop", "new", "switch"}
    /\ contract \in {"none", "batch", "stuck"}

CountsTyped ==
    /\ inFlight \in Nat /\ unwinding \in Nat
    /\ rebuilds \in 0 .. 2
    /\ session \in Nat /\ commands \in 0 .. MaxCommands

SessionTyped == FlagsTyped /\ StagesTyped /\ CountsTyped

MessagesTyped ==
    /\ receipt \in [Msgs -> {"none", "resolving", "injected", "woken", "failed"}]
    /\ mailbox \subseteq Msgs
    /\ interrupts \subseteq Msgs /\ asides \subseteq Msgs /\ deferred \subseteq Msgs
    /\ snapshot \in [interrupts : SUBSET Msgs, asides : SUBSET Msgs, deferred : SUBSET Msgs]
    /\ wakes \subseteq SUBSET Msgs /\ {} \notin wakes
    /\ pending \subseteq Msgs /\ held \subseteq Msgs
    /\ home \in [Msgs -> Nat] /\ cleared \subseteq Msgs /\ dropped \subseteq Msgs
    /\ told \in [Msgs -> Nat]

LEMMA TellTyped ==
    ASSUME TypeOK, NEW M, Tell(M)
    PROVE  told' \in [Msgs -> Nat]
BY DEF TypeOK, Tell

LEMMA ResumedTyped ==
    ASSUME TypeOK, NEW count \in Nat, Resumes(count) \/ Rests(count)
    PROVE  QueuesTyped'
<1>1. CASE Rests(count)
  BY <1>1 DEF TypeOK, QueuesTyped, Rests
<1>2. CASE Resumes(count)
  <2>1. told' \in [Msgs -> Nat]
    BY <1>2, TellTyped DEF Resumes, TypeOK
  <2>2. inFlight' \in Nat /\ interrupts' = {} /\ asides' = {} /\ deferred' = {}
    BY <1>2 DEF Resumes
  <2>3. wakes' = wakes \/ wakes' = wakes \union {Queued}
    BY <1>2 DEF Resumes
  <2>4. Queued \in SUBSET Msgs /\ Queued # {}
    BY <1>2 DEF Resumes, TypeOK, Queued
  <2>5. wakes \subseteq SUBSET Msgs /\ {} \notin wakes
    BY DEF TypeOK
  <2>6. wakes' \subseteq SUBSET Msgs /\ {} \notin wakes'
    BY <2>3, <2>4, <2>5
  <2> QED
    BY <2>1, <2>2, <2>6 DEF QueuesTyped
<1> QED
  BY <1>1, <1>2

LEMMA ResumeTyped ==
    ASSUME TypeOK, NEW count \in Nat, NEW pooled, NEW suppressed,
           Resume(count, pooled, suppressed)
    PROVE  QueuesTyped'
BY ResumeEffect, ResumedTyped

LEMMA EndInFlightTyped ==
    ASSUME TypeOK, EndInFlight
    PROVE  QueuesTyped'
<1>1. 0 \in Nat
  OBVIOUS
<1> QED
  BY <1>1, EndInFlightEffect, ResumedTyped

LEMMA TypeStep ==
    ASSUME TypeOK, PhaseInv, [Next]_vars
    PROVE  TypeOK'
<1>1. ASSUME NEW m \in Msgs, HandOver(m) PROVE TypeOK'
  <2>1. UNCHANGED <<role, plan, deferred, snapshot, loopVars, prompt, unwinding,
                   poolVars, phaseVars, disposed, cleared, dropped>>
        /\ home' = [home EXCEPT ![m] = session]
    BY <1>1 DEF HandOver
  <2>2. receipt' \in [Msgs -> {"none", "resolving", "injected", "woken", "failed"}]
        /\ waiter' \in BOOLEAN
    BY <1>1 DEF HandOver, Delivered, TypeOK
  <2>3. Handed(m)
    BY <1>1, HandOverEffect
  <2>4. mailbox' \subseteq Msgs /\ interrupts' \subseteq Msgs /\ asides' \subseteq Msgs
        /\ inFlight' \in Nat
    BY <2>3 DEF Handed, TypeOK
  <2>5. told' \in [Msgs -> Nat]
    BY <2>3, TellTyped DEF Handed, TypeOK
  <2>6. wakes' \subseteq SUBSET Msgs /\ {} \notin wakes'
    <3>1. wakes \subseteq SUBSET Msgs /\ {} \notin wakes
      BY DEF TypeOK
    <3>2. wakes' = wakes \/ wakes' = wakes \union {{m}}
      BY <2>3 DEF Handed
    <3> QED
      BY <3>1, <3>2
  <2>7. SessionTyped'
    <3>1. FlagsTyped'
      BY <2>1, <2>2, <2>4 DEF TypeOK, FlagsTyped, phaseVars,
         busVars, bridgeVars, loopVars, turnVars, poolVars, phaseVars, notes
    <3>2. StagesTyped'
      BY <2>1, <2>2, <2>4 DEF TypeOK, StagesTyped, phaseVars,
         busVars, bridgeVars, loopVars, turnVars, poolVars, phaseVars, notes
    <3>3. CountsTyped'
      BY <2>1, <2>2, <2>4 DEF TypeOK, CountsTyped, phaseVars,
         busVars, bridgeVars, loopVars, turnVars, poolVars, phaseVars, notes
    <3> QED
      BY <3>1, <3>2, <3>3 DEF SessionTyped
  <2>8. MessagesTyped'
    BY <2>1, <2>2, <2>4, <2>5, <2>6 DEF TypeOK, MessagesTyped, loopVars, phaseVars
  <2> QED
    BY <2>7, <2>8 DEF TypeOK, SessionTyped, FlagsTyped, StagesTyped,
       CountsTyped, MessagesTyped
<1>2. ASSUME NEW m \in Msgs, SendResolves(m) PROVE TypeOK'
  <2>1. SessionTyped'
    <3>1. FlagsTyped'
      BY <1>2 DEF TypeOK, FlagsTyped, SendResolves, Unsent,
         busVars, bridgeVars, loopVars, turnVars, poolVars, phaseVars, notes
    <3>2. StagesTyped'
      BY <1>2 DEF TypeOK, StagesTyped, SendResolves, Unsent,
         busVars, bridgeVars, loopVars, turnVars, poolVars, phaseVars, notes
    <3>3. CountsTyped'
      BY <1>2 DEF TypeOK, CountsTyped, SendResolves, Unsent,
         busVars, bridgeVars, loopVars, turnVars, poolVars, phaseVars, notes
    <3> QED
      BY <3>1, <3>2, <3>3 DEF SessionTyped
  <2>2. MessagesTyped'
    BY <1>2 DEF TypeOK, MessagesTyped, SendResolves, Unsent,
       busVars, bridgeVars, loopVars, turnVars, poolVars, phaseVars, notes
  <2> QED
    BY <2>1, <2>2 DEF TypeOK, SessionTyped, FlagsTyped, StagesTyped,
       CountsTyped, MessagesTyped
<1>3. ASSUME NEW m \in Msgs, EnsureLiveFails(m) PROVE TypeOK'
  BY <1>3 DEF TypeOK, EnsureLiveFails, Unsent,
     busVars, bridgeVars, loopVars, turnVars, poolVars, phaseVars, notes
<1>4. ASSUME NEW R \in wakes, WakeProceeds(R) PROVE TypeOK'
  <2>1. told' \in [Msgs -> Nat]
    BY <1>4, TellTyped DEF WakeProceeds, TypeOK
  <2>2. R \subseteq Msgs /\ wakes' \subseteq SUBSET Msgs /\ {} \notin wakes'
    BY <1>4 DEF WakeProceeds, TypeOK
  <2>3. SessionTyped'
    <3>1. FlagsTyped'
      BY <1>4 DEF TypeOK, FlagsTyped, WakeProceeds,
         busVars, bridgeVars, loopVars, turnVars, poolVars, phaseVars, notes
    <3>2. StagesTyped'
      BY <1>4 DEF TypeOK, StagesTyped, WakeProceeds,
         busVars, bridgeVars, loopVars, turnVars, poolVars, phaseVars, notes
    <3>3. CountsTyped'
      BY <1>4 DEF TypeOK, CountsTyped, WakeProceeds,
         busVars, bridgeVars, loopVars, turnVars, poolVars, phaseVars, notes
    <3> QED
      BY <3>1, <3>2, <3>3 DEF SessionTyped
  <2>4. MessagesTyped'
    BY <1>4, <2>1, <2>2 DEF TypeOK, MessagesTyped, WakeProceeds, busVars
  <2> QED
    BY <2>3, <2>4 DEF TypeOK, SessionTyped, FlagsTyped, StagesTyped,
       CountsTyped, MessagesTyped
<1>5. ASSUME TurnReturns PROVE TypeOK'
  <2>1. QueuesTyped'
    BY <1>5, EndInFlightTyped DEF TurnReturns
  <2>2. SessionTyped'
    <3>1. FlagsTyped'
      BY <1>5, <2>1 DEF TypeOK, FlagsTyped, QueuesTyped, TurnReturns,
         busVars, bridgeVars, loopVars, turnVars, poolVars, phaseVars, notes
    <3>2. StagesTyped'
      BY <1>5, <2>1 DEF TypeOK, StagesTyped, QueuesTyped, TurnReturns,
         busVars, bridgeVars, loopVars, turnVars, poolVars, phaseVars, notes
    <3>3. CountsTyped'
      BY <1>5, <2>1 DEF TypeOK, CountsTyped, QueuesTyped, TurnReturns,
         busVars, bridgeVars, loopVars, turnVars, poolVars, phaseVars, notes
    <3> QED
      BY <3>1, <3>2, <3>3 DEF SessionTyped
  <2>3. MessagesTyped'
    BY <1>5, <2>1 DEF TypeOK, MessagesTyped, QueuesTyped, TurnReturns,
       busVars, bridgeVars, loopVars, turnVars, poolVars, phaseVars, notes
  <2> QED
    BY <2>2, <2>3 DEF TypeOK, SessionTyped, FlagsTyped, StagesTyped,
       CountsTyped, MessagesTyped
<1>6. ASSUME PromptBegins PROVE TypeOK'
  BY <1>6 DEF TypeOK, PromptBegins,
     busVars, bridgeVars, loopVars, turnVars, poolVars, phaseVars, notes
<1>7. ASSUME PromptFlushes PROVE TypeOK'
  <2>1. told' \in [Msgs -> Nat]
    BY <1>7, TellTyped DEF PromptFlushes
  <2> QED
    BY <1>7, <2>1 DEF TypeOK, PromptFlushes, busVars, loopVars, poolVars, phaseVars,
       turnVars, notes
<1>8. ASSUME PromptRuns PROVE TypeOK'
  <2>1. SessionTyped'
    <3>1. FlagsTyped'
      BY <1>8 DEF TypeOK, FlagsTyped, PromptRuns,
         busVars, bridgeVars, loopVars, turnVars, poolVars, phaseVars, notes
    <3>2. StagesTyped'
      BY <1>8 DEF TypeOK, StagesTyped, PromptRuns,
         busVars, bridgeVars, loopVars, turnVars, poolVars, phaseVars, notes
    <3>3. CountsTyped'
      BY <1>8 DEF TypeOK, CountsTyped, PromptRuns,
         busVars, bridgeVars, loopVars, turnVars, poolVars, phaseVars, notes
    <3> QED
      BY <3>1, <3>2, <3>3 DEF SessionTyped
  <2>2. MessagesTyped'
    BY <1>8 DEF TypeOK, MessagesTyped, PromptRuns,
       busVars, bridgeVars, loopVars, turnVars, poolVars, phaseVars, notes
  <2> QED
    BY <2>1, <2>2 DEF TypeOK, SessionTyped, FlagsTyped, StagesTyped,
       CountsTyped, MessagesTyped
<1>9. ASSUME PromptDrops PROVE TypeOK'
  BY <1>9 DEF TypeOK, PromptDrops,
     busVars, bridgeVars, loopVars, turnVars, poolVars, phaseVars, notes
<1>10. ASSUME Commit PROVE TypeOK'
  <2>1. told' \in [Msgs -> Nat]
    BY <1>10, TellTyped DEF Commit
  <2> QED
    BY <1>10, <2>1 DEF TypeOK, Commit, LoopUnchanged, Elsewhere, busVars, loopVars,
       poolVars, phaseVars, turnVars, notes
<1>11. ASSUME LoopEnds PROVE TypeOK'
  BY <1>11 DEF TypeOK, LoopEnds, Elsewhere,
     busVars, bridgeVars, loopVars, turnVars, poolVars, phaseVars, notes
<1>12. ASSUME MidPoll PROVE TypeOK'
  BY <1>12 DEF TypeOK, MidPoll, LoopUnchanged, Elsewhere,
     busVars, bridgeVars, loopVars, turnVars, poolVars, phaseVars, notes
<1>13. ASSUME StopPoll PROVE TypeOK'
  BY <1>13 DEF TypeOK, StopPoll, LoopUnchanged, Elsewhere,
     busVars, bridgeVars, loopVars, turnVars, poolVars, phaseVars, notes
<1>14. ASSUME FollowUps PROVE TypeOK'
  BY <1>14 DEF TypeOK, FollowUps, LoopUnchanged, Elsewhere,
     busVars, bridgeVars, loopVars, turnVars, poolVars, phaseVars, notes
<1>15. ASSUME WaitTakes PROVE TypeOK'
  <2>1. told' \in [Msgs -> Nat]
    BY <1>15, TellTyped DEF WaitTakes
  <2> QED
    BY <1>15, <2>1 DEF TypeOK, WaitTakes, LoopUnchanged, Elsewhere, busVars, loopVars,
       poolVars, phaseVars, turnVars, notes
<1>16. ASSUME WaitParks PROVE TypeOK'
  BY <1>16 DEF TypeOK, WaitParks, LoopUnchanged, Elsewhere,
     busVars, bridgeVars, loopVars, turnVars, poolVars, phaseVars, notes
<1>17. ASSUME WaitEnds PROVE TypeOK'
  <2>1. SessionTyped'
    <3>1. FlagsTyped'
      BY <1>17 DEF TypeOK, FlagsTyped, WaitEnds, LoopUnchanged, Elsewhere,
         busVars, bridgeVars, loopVars, turnVars, poolVars, phaseVars, notes
    <3>2. StagesTyped'
      BY <1>17 DEF TypeOK, StagesTyped, WaitEnds, LoopUnchanged, Elsewhere,
         busVars, bridgeVars, loopVars, turnVars, poolVars, phaseVars, notes
    <3>3. CountsTyped'
      BY <1>17 DEF TypeOK, CountsTyped, WaitEnds, LoopUnchanged, Elsewhere,
         busVars, bridgeVars, loopVars, turnVars, poolVars, phaseVars, notes
    <3> QED
      BY <3>1, <3>2, <3>3 DEF SessionTyped
  <2>2. MessagesTyped'
    BY <1>17 DEF TypeOK, MessagesTyped, WaitEnds, LoopUnchanged, Elsewhere,
       busVars, bridgeVars, loopVars, turnVars, poolVars, phaseVars, notes
  <2> QED
    BY <2>1, <2>2 DEF TypeOK, SessionTyped, FlagsTyped, StagesTyped,
       CountsTyped, MessagesTyped
<1>18. ASSUME NEW g \in {"stop", "new", "switch"}, AbortBegins(g) PROVE TypeOK'
  <2>1. SessionTyped'
    <3>1. FlagsTyped'
      BY <1>18 DEF TypeOK, FlagsTyped, AbortBegins, CommandUsed,
         busVars, bridgeVars, loopVars, turnVars, poolVars, phaseVars, notes
    <3>2. StagesTyped'
      BY <1>18 DEF TypeOK, StagesTyped, AbortBegins, CommandUsed,
         busVars, bridgeVars, loopVars, turnVars, poolVars, phaseVars, notes
    <3>3. CountsTyped'
      BY <1>18, BoundAssumption DEF TypeOK, CountsTyped, AbortBegins, CommandUsed,
         busVars, bridgeVars, loopVars, turnVars, poolVars, phaseVars, notes
    <3> QED
      BY <3>1, <3>2, <3>3 DEF SessionTyped
  <2>2. MessagesTyped'
    BY <1>18 DEF TypeOK, MessagesTyped, AbortBegins, CommandUsed,
       busVars, bridgeVars, loopVars, turnVars, poolVars, phaseVars, notes
  <2> QED
    BY <2>1, <2>2 DEF TypeOK, SessionTyped, FlagsTyped, StagesTyped,
       CountsTyped, MessagesTyped
<1>19. ASSUME AbortSettles PROVE TypeOK'
  <2>1. QueuesTyped'
    <3>1. CASE goal = "stop"
      <4>1. 0 \in Nat /\ Resume(0, Pooled, exiting)
        BY <1>19, <3>1 DEF AbortSettles
      <4> QED
        BY <4>1, ResumeTyped
    <3>2. CASE goal # "stop"
      BY <1>19, <3>2 DEF AbortSettles, TypeOK, QueuesTyped
    <3> QED
      BY <3>1, <3>2
  <2>2. SessionTyped'
    <3>1. FlagsTyped'
      BY <1>19, <2>1 DEF TypeOK, FlagsTyped, QueuesTyped, AbortSettles,
         busVars, bridgeVars, loopVars, turnVars, poolVars, phaseVars, notes
    <3>2. StagesTyped'
      BY <1>19, <2>1 DEF TypeOK, StagesTyped, QueuesTyped, AbortSettles,
         busVars, bridgeVars, loopVars, turnVars, poolVars, phaseVars, notes
    <3>3. CountsTyped'
      BY <1>19, <2>1 DEF TypeOK, CountsTyped, QueuesTyped, AbortSettles,
         busVars, bridgeVars, loopVars, turnVars, poolVars, phaseVars, notes
    <3> QED
      BY <3>1, <3>2, <3>3 DEF SessionTyped
  <2>3. MessagesTyped'
    BY <1>19, <2>1 DEF TypeOK, MessagesTyped, QueuesTyped, AbortSettles,
       busVars, bridgeVars, loopVars, turnVars, poolVars, phaseVars, notes
  <2> QED
    BY <2>2, <2>3 DEF TypeOK, SessionTyped, FlagsTyped, StagesTyped,
       CountsTyped, MessagesTyped
<1>20. ASSUME NewAdopts PROVE TypeOK'
  BY <1>20 DEF TypeOK, NewAdopts, TransitionUnchanged,
     busVars, bridgeVars, loopVars, turnVars, poolVars, phaseVars, notes
<1>21. ASSUME NewClears PROVE TypeOK'
  BY <1>21 DEF TypeOK, NewClears, ClearPending, Queued, TransitionUnchanged,
     busVars, bridgeVars, loopVars, turnVars, poolVars, phaseVars, notes
<1>22. ASSUME SwitchClears PROVE TypeOK'
  BY <1>22 DEF TypeOK, SwitchClears, ClearPending, TransitionUnchanged,
     busVars, bridgeVars, loopVars, turnVars, poolVars, phaseVars, notes
<1>23. ASSUME SwitchLoads PROVE TypeOK'
  BY <1>23 DEF TypeOK, SwitchLoads, TransitionUnchanged,
     busVars, bridgeVars, loopVars, turnVars, poolVars, phaseVars, notes
<1>24. ASSUME SwitchCommits PROVE TypeOK'
  BY <1>24 DEF TypeOK, SwitchCommits, Kept, NoSnapshot, TransitionUnchanged,
     busVars, bridgeVars, loopVars, turnVars, poolVars, phaseVars, notes
<1>25. ASSUME SwitchRollsBack PROVE TypeOK'
  BY <1>25 DEF TypeOK, SwitchRollsBack, Kept, NoSnapshot, TransitionUnchanged, PhaseInv,
     busVars, bridgeVars, loopVars, turnVars, poolVars, phaseVars, notes
<1>26. ASSUME ModeExitBegins PROVE TypeOK'
  <2>1. SessionTyped'
    <3>1. FlagsTyped'
      BY <1>26 DEF TypeOK, FlagsTyped, ModeExitBegins, CommandUsed,
         busVars, bridgeVars, loopVars, turnVars, poolVars, phaseVars, notes
    <3>2. StagesTyped'
      BY <1>26 DEF TypeOK, StagesTyped, ModeExitBegins, CommandUsed,
         busVars, bridgeVars, loopVars, turnVars, poolVars, phaseVars, notes
    <3>3. CountsTyped'
      BY <1>26, BoundAssumption DEF TypeOK, CountsTyped, ModeExitBegins, CommandUsed,
         busVars, bridgeVars, loopVars, turnVars, poolVars, phaseVars, notes
    <3> QED
      BY <3>1, <3>2, <3>3 DEF SessionTyped
  <2>2. MessagesTyped'
    BY <1>26 DEF TypeOK, MessagesTyped, ModeExitBegins, CommandUsed,
       busVars, bridgeVars, loopVars, turnVars, poolVars, phaseVars, notes
  <2> QED
    BY <2>1, <2>2 DEF TypeOK, SessionTyped, FlagsTyped, StagesTyped,
       CountsTyped, MessagesTyped
<1>27. ASSUME ModeExitEnds PROVE TypeOK'
  <2>1. QueuesTyped'
    BY <1>27, ResumeTyped DEF ModeExitEnds, TypeOK
  <2>2. SessionTyped'
    <3>1. FlagsTyped'
      BY <1>27, <2>1 DEF TypeOK, FlagsTyped, QueuesTyped, ModeExitEnds,
         busVars, bridgeVars, loopVars, turnVars, poolVars, phaseVars, notes
    <3>2. StagesTyped'
      BY <1>27, <2>1 DEF TypeOK, StagesTyped, QueuesTyped, ModeExitEnds,
         busVars, bridgeVars, loopVars, turnVars, poolVars, phaseVars, notes
    <3>3. CountsTyped'
      BY <1>27, <2>1 DEF TypeOK, CountsTyped, QueuesTyped, ModeExitEnds,
         busVars, bridgeVars, loopVars, turnVars, poolVars, phaseVars, notes
    <3> QED
      BY <3>1, <3>2, <3>3 DEF SessionTyped
  <2>3. MessagesTyped'
    BY <1>27, <2>1 DEF TypeOK, MessagesTyped, QueuesTyped, ModeExitEnds,
       busVars, bridgeVars, loopVars, turnVars, poolVars, phaseVars, notes
  <2> QED
    BY <2>2, <2>3 DEF TypeOK, SessionTyped, FlagsTyped, StagesTyped,
       CountsTyped, MessagesTyped
<1>28. ASSUME Dispose PROVE TypeOK'
  <2>1. told' \in [Msgs -> Nat]
    BY <1>28, TellTyped DEF Dispose
  <2> QED
    BY <1>28, <2>1 DEF TypeOK, Dispose, busVars, loopVars, poolVars, phaseVars,
       turnVars, notes
<1>29. ASSUME ContractSet PROVE TypeOK'
  <2>1. SessionTyped'
    <3>1. FlagsTyped'
      BY <1>29 DEF TypeOK, FlagsTyped, ContractSet, CommandUsed, PoolUnchanged,
         busVars, bridgeVars, loopVars, turnVars, poolVars, phaseVars, notes
    <3>2. StagesTyped'
      BY <1>29 DEF TypeOK, StagesTyped, ContractSet, CommandUsed, PoolUnchanged,
         busVars, bridgeVars, loopVars, turnVars, poolVars, phaseVars, notes
    <3>3. CountsTyped'
      BY <1>29, BoundAssumption DEF TypeOK, CountsTyped, ContractSet, CommandUsed,
         PoolUnchanged,
         busVars, bridgeVars, loopVars, turnVars, poolVars, phaseVars, notes
    <3> QED
      BY <3>1, <3>2, <3>3 DEF SessionTyped
  <2>2. MessagesTyped'
    BY <1>29 DEF TypeOK, MessagesTyped, ContractSet, CommandUsed, PoolUnchanged,
       busVars, bridgeVars, loopVars, turnVars, poolVars, phaseVars, notes
  <2> QED
    BY <2>1, <2>2 DEF TypeOK, SessionTyped, FlagsTyped, StagesTyped,
       CountsTyped, MessagesTyped
<1>30. ASSUME ContractCleared PROVE TypeOK'
  BY <1>30 DEF TypeOK, ContractCleared, PoolUnchanged,
     busVars, bridgeVars, loopVars, turnVars, poolVars, phaseVars, notes
<1>31. ASSUME RebuildEnds PROVE TypeOK'
  <2>1. QueuesTyped'
    BY <1>31, ResumeTyped DEF RebuildEnds, TypeOK
  <2>2. SessionTyped'
    <3>1. FlagsTyped'
      BY <1>31, <2>1 DEF TypeOK, FlagsTyped, QueuesTyped, RebuildEnds, PoolUnchanged,
         Pooled,
         busVars, bridgeVars, loopVars, turnVars, poolVars, phaseVars, notes
    <3>2. StagesTyped'
      BY <1>31, <2>1 DEF TypeOK, StagesTyped, QueuesTyped, RebuildEnds, PoolUnchanged,
         Pooled,
         busVars, bridgeVars, loopVars, turnVars, poolVars, phaseVars, notes
    <3>3. CountsTyped'
      BY <1>31, <2>1 DEF TypeOK, CountsTyped, QueuesTyped, RebuildEnds, PoolUnchanged,
         Pooled,
         busVars, bridgeVars, loopVars, turnVars, poolVars, phaseVars, notes
    <3> QED
      BY <3>1, <3>2, <3>3 DEF SessionTyped
  <2>3. MessagesTyped'
    BY <1>31, <2>1 DEF TypeOK, MessagesTyped, QueuesTyped, RebuildEnds, PoolUnchanged,
       Pooled,
       busVars, bridgeVars, loopVars, turnVars, poolVars, phaseVars, notes
  <2> QED
    BY <2>2, <2>3 DEF TypeOK, SessionTyped, FlagsTyped, StagesTyped,
       CountsTyped, MessagesTyped
<1>32. ASSUME RebuildFails PROVE TypeOK'
  <2>1. QueuesTyped'
    <3>1. CASE rebuilds = 1
      <4> DEFINE back == IF ~published THEN "none"
                         ELSE IF contract = "none" THEN "stuck" ELSE contract
      <4>1. Resume(inFlight, back # "none", exiting)
        BY <1>32, <3>1 DEF RebuildFails
      <4> QED
        BY <4>1, ResumeTyped DEF TypeOK
    <3>2. CASE rebuilds # 1
      BY <1>32, <3>2 DEF RebuildFails, TypeOK, QueuesTyped
    <3> QED
      BY <3>1, <3>2
  <2>2. SessionTyped'
    <3>1. FlagsTyped'
      BY <1>32, <2>1 DEF TypeOK, FlagsTyped, QueuesTyped, RebuildFails, PoolUnchanged,
         busVars, bridgeVars, loopVars, turnVars, poolVars, phaseVars, notes
    <3>2. StagesTyped'
      BY <1>32, <2>1 DEF TypeOK, StagesTyped, QueuesTyped, RebuildFails, PoolUnchanged,
         busVars, bridgeVars, loopVars, turnVars, poolVars, phaseVars, notes
    <3>3. CountsTyped'
      BY <1>32, <2>1 DEF TypeOK, CountsTyped, QueuesTyped, RebuildFails, PoolUnchanged,
         busVars, bridgeVars, loopVars, turnVars, poolVars, phaseVars, notes
    <3> QED
      BY <3>1, <3>2, <3>3 DEF SessionTyped
  <2>3. MessagesTyped'
    BY <1>32, <2>1 DEF TypeOK, MessagesTyped, QueuesTyped, RebuildFails, PoolUnchanged,
       busVars, bridgeVars, loopVars, turnVars, poolVars, phaseVars, notes
  <2> QED
    BY <2>2, <2>3 DEF TypeOK, SessionTyped, FlagsTyped, StagesTyped,
       CountsTyped, MessagesTyped
<1>33. CASE UNCHANGED vars
  BY <1>33 DEF TypeOK, vars, busVars, bridgeVars, loopVars, turnVars, poolVars,
     phaseVars, notes
<1> QED
  BY <1>1, <1>2, <1>3, <1>4, <1>5, <1>6, <1>7, <1>8, <1>9, <1>10, <1>11, <1>12, <1>13,
     <1>14, <1>15, <1>16, <1>17, <1>18, <1>19, <1>20, <1>21, <1>22, <1>23, <1>24,
     <1>25, <1>26, <1>27, <1>28, <1>29, <1>30, <1>31, <1>32, <1>33
     DEF Next, LoopNext, TransitionNext, PoolNext, Send, EnsureLiveReturns,
         DeadlineExpires, StopEnds, ModelStops

-----------------------------------------------------------------------------
(* The loop and the phases                                                  *)

loopFrame == <<loop, pending, held>>

LEMMA LoopFrame ==
    ASSUME [Next]_vars
    PROVE  \/ LoopNext
           \/ PromptRuns \/ \E R \in wakes : WakeProceeds(R)
           \/ UNCHANGED loopFrame
BY DEF Next, vars, loopFrame, loopVars, Send, SendResolves, EnsureLiveReturns,
       EnsureLiveFails, Unsent, HandOver, TurnReturns, PromptBegins, PromptFlushes,
       PromptDrops, AbortBegins, TransitionNext, AbortSettles, TransitionUnchanged,
       NewAdopts, NewClears, SwitchClears, SwitchLoads, SwitchCommits, SwitchRollsBack,
       ModeExitBegins, ModeExitEnds, Dispose, PoolNext, PoolUnchanged, ContractSet,
       ContractCleared, RebuildEnds, RebuildFails

LEMMA LoopStep ==
    ASSUME LoopInv, [Next]_vars
    PROVE  LoopInv'
<1>1. CASE LoopNext
  BY <1>1 DEF LoopInv, LoopNext, Commit, DeadlineExpires, LoopEnds, MidPoll, StopPoll,
     FollowUps, StopEnds, ModelStops, WaitTakes, WaitParks, WaitEnds, loopVars
<1>2. CASE PromptRuns
  BY <1>2 DEF LoopInv, PromptRuns
<1>3. CASE \E R \in wakes : WakeProceeds(R)
  BY <1>3 DEF LoopInv, WakeProceeds
<1>4. CASE UNCHANGED loopFrame
  BY <1>4 DEF LoopInv, loopFrame
<1> QED
  BY <1>1, <1>2, <1>3, <1>4, LoopFrame

\* Commands, prompts and the contract of a pool drive the phases.
sessionFrame ==
    <<role, snapshot, phase, goal, connected, prompt, session, rebuilds, contract>>

LEMMA PhaseFrame ==
    ASSUME [Next]_vars
    PROVE  \/ PromptBegins \/ PromptFlushes \/ PromptRuns \/ PromptDrops
           \/ AbortBegins("stop") \/ AbortBegins("new") \/ AbortBegins("switch")
           \/ TransitionNext \/ PoolNext \/ UNCHANGED sessionFrame
BY DEF Next, vars, sessionFrame, bridgeVars, phaseVars, poolVars, Send, SendResolves,
       EnsureLiveReturns, EnsureLiveFails, Unsent, HandOver, WakeProceeds, TurnReturns,
       LoopNext, LoopUnchanged, Elsewhere, Commit, DeadlineExpires, LoopEnds, MidPoll,
       StopPoll, FollowUps, StopEnds, ModelStops, WaitTakes, WaitParks, WaitEnds,
       ModeExitBegins, ModeExitEnds, Dispose, turnVars

LEMMA PhaseStep ==
    ASSUME TypeOK, PhaseInv, [Next]_vars
    PROVE  PhaseInv'
<1>1. CASE PromptBegins \/ PromptFlushes \/ PromptRuns \/ PromptDrops
  BY <1>1 DEF PhaseInv, InTransition, PromptBegins, PromptFlushes, PromptRuns,
     PromptDrops,
     bridgeVars, poolVars, phaseVars
<1>2. ASSUME NEW g \in {"stop", "new", "switch"}, AbortBegins(g) PROVE PhaseInv'
  BY <1>2 DEF PhaseInv, InTransition, AbortBegins, bridgeVars, poolVars
<1>3. CASE AbortSettles
  BY <1>3 DEF PhaseInv, InTransition, AbortSettles, poolVars
<1>4. CASE NewAdopts
  BY <1>4 DEF PhaseInv, InTransition, NewAdopts, TransitionUnchanged, bridgeVars,
     turnVars,
     poolVars
<1>5. CASE NewClears
  BY <1>5 DEF PhaseInv, InTransition, NewClears, TransitionUnchanged, turnVars, poolVars
<1>6. CASE SwitchClears
  BY <1>6 DEF PhaseInv, InTransition, SwitchClears, TransitionUnchanged, turnVars,
     poolVars
<1>7. CASE SwitchLoads
  BY <1>7 DEF PhaseInv, InTransition, SwitchLoads, TransitionUnchanged, bridgeVars,
     turnVars, poolVars, TypeOK
<1>8. CASE SwitchCommits
  BY <1>8 DEF PhaseInv, InTransition, SwitchCommits, TransitionUnchanged, NoSnapshot,
     turnVars,
     poolVars
<1>9. CASE SwitchRollsBack
  BY <1>9 DEF PhaseInv, InTransition, SwitchRollsBack, TransitionUnchanged, NoSnapshot,
     turnVars, poolVars
<1>10. CASE PoolNext
  BY <1>10 DEF PhaseInv, InTransition, PoolNext, PoolUnchanged, ContractSet,
     ContractCleared, RebuildEnds, RebuildFails, TypeOK
<1>11. CASE UNCHANGED sessionFrame
  BY <1>11 DEF PhaseInv, InTransition, sessionFrame
<1> QED
  BY <1>1, <1>2, <1>3, <1>4, <1>5, <1>6, <1>7, <1>8, <1>9, <1>10, <1>11, PhaseFrame
     DEF TransitionNext

-----------------------------------------------------------------------------
(* Where a message is                                                       *)

LEMMA ToldOnce ==
    ASSUME NEW M, Tell(M), NEW m \in Msgs
    PROVE  told'[m] = IF m \in M THEN told[m] + 1 ELSE told[m]
BY DEF Tell

LEMMA WakeAdded ==
    ASSUME NEW M, wakes' = wakes \union {M}, NEW m, Unshared(m), m \in M => m \notin Woken
    PROVE  Unshared(m)' /\ (m \in Woken' <=> m \in Woken \/ m \in M)
BY DEF Unshared, Woken

LEMMA WakeTaken ==
    ASSUME NEW R \in wakes, wakes' = wakes \ {R}, NEW m, Unshared(m)
    PROVE  /\ Unshared(m)'
           /\ m \in R => m \in Woken
           /\ m \in Woken' <=> m \in Woken /\ m \notin R
BY DEF Unshared, Woken

LEMMA WakesSame ==
    ASSUME UNCHANGED wakes, NEW m, Unshared(m)
    PROVE  Unshared(m)' /\ (m \in Woken' <=> m \in Woken)
BY DEF Unshared, Woken

\* Nothing but the queues that #resumeStrandedIrcAsides looks at changes.
ElsewhereSame ==
    UNCHANGED <<receipt, mailbox, pending, held, snapshot, cleared, dropped, disposed>>

LEMMA ResumedFollowed ==
    ASSUME NEW m \in Msgs, TypeOK, Followed(m), ElsewhereSame,
           NEW count, Resumes(count) \/ Rests(count)
    PROVE  Followed(m)'
<1>1. CASE Rests(count)
  <2>1. Unshared(m)' /\ (m \in Woken' <=> m \in Woken)
    BY <1>1, WakesSame DEF Rests, Followed, Alone
  <2> QED
    BY <1>1, <2>1 DEF Rests, Followed, Alone, Somewhere, Accepted, Queued, Kept,
       ElsewhereSame
<1>2. CASE Resumes(count) /\ plan
  <2>1. Unshared(m)' /\ (m \in Woken' <=> m \in Woken)
    BY <1>2, WakesSame DEF Resumes, Followed, Alone
  <2>2. told'[m] = IF m \in Queued THEN told[m] + 1 ELSE told[m]
    BY <1>2, ToldOnce DEF Resumes
  <2>3. interrupts' = {} /\ asides' = {} /\ deferred' = {}
    BY <1>2 DEF Resumes
  <2> QED
    BY <2>1, <2>2, <2>3
       DEF Followed, Alone, Somewhere, Accepted, Queued, Kept, ElsewhereSame
<1>3. CASE Resumes(count) /\ ~plan
  <2>1. wakes' = wakes \union {Queued} /\ told' = told
        /\ interrupts' = {} /\ asides' = {} /\ deferred' = {}
    BY <1>3 DEF Resumes
  <2>2. Unshared(m)' /\ (m \in Woken' <=> m \in Woken \/ m \in Queued)
    BY <2>1, WakeAdded DEF Followed, Alone
  <2> QED
    BY <2>1, <2>2 DEF Followed, Alone, Somewhere, Accepted, Queued, Kept, ElsewhereSame
<1> QED
  BY <1>1, <1>2, <1>3

LEMMA ResumeFollowed ==
    ASSUME NEW m \in Msgs, TypeOK, Followed(m), ElsewhereSame, NEW count, NEW pooled,
           NEW suppressed, Resume(count, pooled, suppressed)
    PROVE  Followed(m)'
BY ResumeEffect, ResumedFollowed

LEMMA EndInFlightFollowed ==
    ASSUME NEW m \in Msgs, TypeOK, Followed(m), ElsewhereSame, EndInFlight
    PROVE  Followed(m)'
BY EndInFlightEffect, ResumedFollowed

messageFrame ==
    <<receipt, mailbox, interrupts, asides, deferred, snapshot, wakes, pending, held,
      cleared, dropped, disposed, told>>

LEMMA UntouchedFollowed ==
    ASSUME NEW m \in Msgs, Followed(m), UNCHANGED messageFrame
    PROVE  Followed(m)'
<1>1. Unshared(m)' /\ (m \in Woken' <=> m \in Woken)
  BY WakesSame DEF messageFrame, Followed, Alone
<1> QED
  BY <1>1 DEF messageFrame, Followed, Alone, Somewhere, Accepted, Queued, Kept

\* A message that is handed over was nowhere, and then is in one place or told.
LEMMA HandedFollowed ==
    ASSUME NEW m \in Msgs, NEW n \in Msgs, TypeOK, Followed(m), Followed(n),
           receipt[n] \in {"none", "resolving"}, HandOver(n)
    PROVE  Followed(m)'
<1>1. UNCHANGED <<deferred, pending, held, snapshot, cleared, dropped, disposed>>
  BY DEF HandOver, loopVars
<1>2. Handed(n)
  BY HandOverEffect
<1>3. \/ receipt' = [receipt EXCEPT ![n] = "failed"] /\ disposed
      \/ receipt' = [receipt EXCEPT ![n] = "injected"]
      \/ receipt' = [receipt EXCEPT ![n] = "woken"]
  BY DEF HandOver, Delivered
<1>4. m # n => receipt'[m] = receipt[m]
  BY <1>3 DEF TypeOK
<1>5. receipt'[n] \in {"injected", "woken", "failed"}
  BY <1>3 DEF TypeOK
<1>6. told[n] = 0 /\ ~Somewhere(n)
  BY DEF Followed
<1>7. receipt'[n] = "failed" => disposed
  BY <1>3 DEF TypeOK
<1> DEFINE Others == Queued \union pending \union held \union Kept
<1>8. CASE Tell({n}) /\ UNCHANGED <<mailbox, interrupts, asides, wakes, inFlight>>
  <2>1. told'[m] = IF m = n THEN told[m] + 1 ELSE told[m]
    BY <1>8, ToldOnce
  <2>2. Unshared(m)' /\ (m \in Woken' <=> m \in Woken)
    BY <1>8, WakesSame DEF Followed, Alone
  <2> QED
    BY <1>1, <1>4, <1>5, <1>6, <1>8, <2>1, <2>2
       DEF Followed, Alone, Somewhere, Accepted, Queued, Kept
<1>9. CASE disposed /\ mailbox' = mailbox \union {n}
           /\ UNCHANGED <<interrupts, asides, wakes, inFlight, told>>
  <2>1. Unshared(m)' /\ (m \in Woken' <=> m \in Woken)
    BY <1>9, WakesSame DEF Followed, Alone
  <2> QED
    BY <1>1, <1>4, <1>5, <1>6, <1>9, <2>1
       DEF Followed, Alone, Somewhere, Accepted, Queued, Kept
<1>10. CASE Streaming /\ interrupts' = interrupts \union {n}
            /\ UNCHANGED <<mailbox, asides, wakes, inFlight, told>>
  <2>1. Unshared(m)' /\ (m \in Woken' <=> m \in Woken)
    BY <1>10, WakesSame DEF Followed, Alone
  <2> QED
    BY <1>1, <1>4, <1>5, <1>6, <1>10, <2>1
       DEF Followed, Alone, Somewhere, Accepted, Queued, Kept
<1>11. CASE asides' = asides \union {n} /\ exiting /\ inFlight' = 0
            /\ UNCHANGED <<mailbox, interrupts, wakes, told>>
  <2>1. Unshared(m)' /\ (m \in Woken' <=> m \in Woken)
    BY <1>11, WakesSame DEF Followed, Alone
  <2> QED
    BY <1>1, <1>4, <1>5, <1>6, <1>11, <2>1
       DEF Followed, Alone, Somewhere, Accepted, Queued, Kept
<1>12. CASE wakes' = wakes \union {{n}} /\ inFlight' = 1
            /\ UNCHANGED <<mailbox, interrupts, asides, told>>
  <2>1. n \notin Woken
    BY <1>6 DEF Somewhere
  <2>2. Unshared(m)' /\ (m \in Woken' <=> m \in Woken \/ m \in {n})
    BY <1>12, <2>1, WakeAdded DEF Followed, Alone
  <2> QED
    BY <1>1, <1>4, <1>5, <1>6, <1>12, <2>2
       DEF Followed, Alone, Somewhere, Accepted, Queued, Kept
<1> QED
  BY <1>2, <1>8, <1>9, <1>10, <1>11, <1>12 DEF Handed

\* The loop moves messages from the bridge to itself, to the context or away.
LEMMA LoopFollowed ==
    ASSUME NEW m \in Msgs, TypeOK, LoopInv, Followed(m), LoopNext
    PROVE  Followed(m)'
<1>1. UNCHANGED <<receipt, deferred, snapshot, wakes, disposed, cleared>>
  BY DEF LoopNext, LoopUnchanged, Elsewhere, Commit, DeadlineExpires, LoopEnds, MidPoll,
     StopPoll, FollowUps, StopEnds, ModelStops, WaitTakes, WaitParks, WaitEnds
<1>2. Unshared(m)' /\ (m \in Woken' <=> m \in Woken)
  BY <1>1, WakesSame DEF Followed, Alone
<1>3. CASE Commit
  <2>1. told'[m] = IF m \in pending THEN told[m] + 1 ELSE told[m]
    BY <1>3, ToldOnce DEF Commit
  <2> QED
    BY <1>1, <1>2, <1>3, <2>1 DEF Commit, LoopUnchanged, Followed, Alone, Somewhere,
       Accepted, Queued, Kept
<1>4. CASE LoopEnds
  BY <1>1, <1>2, <1>4 DEF LoopEnds, Followed, Alone, Somewhere, Accepted, Queued, Kept
<1>5. CASE MidPoll
  <2>1. pending = {}
    BY <1>5 DEF MidPoll, LoopInv
  <2> QED
    BY <1>1, <1>2, <1>5, <2>1 DEF MidPoll, LoopUnchanged, Followed, Alone, Somewhere,
       Accepted, Queued, Kept
<1>6. CASE StopPoll
  <2>1. held = {}
    BY <1>6 DEF StopPoll, LoopInv
  <2> QED
    BY <1>1, <1>2, <1>6, <2>1 DEF StopPoll, LoopUnchanged, Followed, Alone, Somewhere,
       Accepted, Queued, Kept
<1>7. CASE FollowUps
  <2>1. pending = {}
    BY <1>7 DEF FollowUps, LoopInv
  <2> QED
    BY <1>1, <1>2, <1>7, <2>1 DEF FollowUps, LoopUnchanged, Followed, Alone, Somewhere,
       Accepted, Queued, Kept
<1>8. CASE WaitTakes
  <2>1. PICK n \in interrupts \union asides \union mailbox :
            /\ Tell({n})
            /\ interrupts' = interrupts \ {n} /\ asides' = asides \ {n}
            /\ mailbox' = IF n \in interrupts \union asides THEN mailbox
                          ELSE mailbox \ {n}
    BY <1>8 DEF WaitTakes
  <2>2. told'[m] = IF m = n THEN told[m] + 1 ELSE told[m]
    BY <2>1, ToldOnce
  <2>3. UNCHANGED <<pending, held, dropped>>
    BY <1>8 DEF WaitTakes, LoopUnchanged, loopVars
  <2> QED
    BY <1>1, <1>2, <2>1, <2>2, <2>3 DEF Followed, Alone, Somewhere, Accepted, Queued, Kept
<1>9. CASE WaitParks \/ WaitEnds
  <2>1. UNCHANGED messageFrame
    BY <1>1, <1>9 DEF WaitParks, WaitEnds, LoopUnchanged, loopVars, messageFrame
  <2> QED
    BY <2>1, UntouchedFollowed
<1> QED
  BY <1>3, <1>4, <1>5, <1>6, <1>7, <1>8, <1>9
     DEF LoopNext, DeadlineExpires, StopEnds, ModelStops

LEMMA WakeFollowed ==
    ASSUME NEW m \in Msgs, TypeOK, Followed(m), NEW R \in wakes, WakeProceeds(R)
    PROVE  Followed(m)'
<1>1. wakes' = wakes \ {R}
      /\ UNCHANGED <<receipt, mailbox, interrupts, snapshot, pending, held, disposed, cleared>>
  BY DEF WakeProceeds, busVars
<1>2. Unshared(m)' /\ (m \in R => m \in Woken) /\ (m \in Woken' <=> m \in Woken /\ m \notin R)
  BY <1>1, WakeTaken DEF Followed, Alone
<1>3. CASE deferred' = deferred \union R /\ UNCHANGED <<asides, dropped, told>>
  BY <1>1, <1>2, <1>3 DEF Followed, Alone, Somewhere, Accepted, Queued, Kept
<1>4. CASE asides' = asides \union R /\ UNCHANGED <<deferred, dropped, told>>
  BY <1>1, <1>2, <1>4 DEF Followed, Alone, Somewhere, Accepted, Queued, Kept
<1>5. CASE Tell(R) /\ UNCHANGED <<asides, deferred, dropped>>
  <2>1. told'[m] = IF m \in R THEN told[m] + 1 ELSE told[m]
    BY <1>5, ToldOnce
  <2> QED
    BY <1>1, <1>2, <1>5, <2>1 DEF Followed, Alone, Somewhere, Accepted, Queued, Kept
<1>6. CASE dropped' = dropped \union R /\ UNCHANGED <<asides, deferred, told>>
  BY <1>1, <1>2, <1>6 DEF Followed, Alone, Somewhere, Accepted, Queued, Kept
<1> QED
  BY <1>3, <1>4, <1>5, <1>6 DEF WakeProceeds

\* A transition clears the queues or keeps them in a snapshot that was empty.
LEMMA TransitionFollowed ==
    ASSUME NEW m \in Msgs, TypeOK, PhaseInv, Followed(m), TransitionNext
    PROVE  Followed(m)'
<1>1. CASE AbortSettles /\ goal = "stop"
  <2>1. ElsewhereSame /\ Resume(0, Pooled, exiting)
    BY <1>1 DEF AbortSettles, ElsewhereSame, busVars, loopVars, notes
  <2> QED
    BY <2>1, ResumeFollowed
<1>2. CASE AbortSettles /\ goal # "stop"
  BY <1>2, UntouchedFollowed DEF AbortSettles, messageFrame, busVars, loopVars, notes
<1>3. CASE NewAdopts \/ SwitchLoads
  BY <1>3, UntouchedFollowed DEF NewAdopts, SwitchLoads, TransitionUnchanged,
     messageFrame,
     busVars, bridgeVars, loopVars, turnVars
<1>4. CASE NewClears \/ SwitchClears \/ SwitchCommits \/ SwitchRollsBack
  <2>1. UNCHANGED <<receipt, mailbox, pending, held, wakes, dropped, disposed, told>>
    BY <1>4 DEF NewClears, SwitchClears, SwitchCommits, SwitchRollsBack,
       TransitionUnchanged, busVars, loopVars, turnVars
  <2>2. Unshared(m)' /\ (m \in Woken' <=> m \in Woken)
    BY <2>1, WakesSame DEF Followed, Alone
  <2>3. CASE NewClears
    BY <2>1, <2>2, <2>3 DEF NewClears, ClearPending, Followed, Alone, Somewhere, Accepted,
       Queued, Kept
  <2>4. CASE SwitchClears
    <3>1. Kept = {}
      BY <2>4 DEF SwitchClears, PhaseInv, NoSnapshot, Kept
    <3>2. /\ snapshot'.interrupts = interrupts
          /\ snapshot'.asides = asides
          /\ snapshot'.deferred = deferred
      BY <2>4 DEF SwitchClears
    <3>3. interrupts' = {} /\ asides' = {} /\ deferred' = {} /\ UNCHANGED cleared
      BY <2>4 DEF SwitchClears, ClearPending
    <3> QED
      BY <2>1, <2>2, <3>1, <3>2, <3>3 DEF Followed, Alone, Somewhere, Accepted, Queued,
         Kept
  <2>5. CASE SwitchCommits
    <3>1. Kept' = {} /\ snapshot' = NoSnapshot
      BY <2>5 DEF SwitchCommits, NoSnapshot, Kept
    <3>2. UNCHANGED <<interrupts, asides, deferred>> /\ cleared' = cleared \union Kept
      BY <2>5 DEF SwitchCommits
    <3> QED
      BY <2>1, <2>2, <3>1, <3>2
         DEF Followed, Alone, Somewhere, Accepted, Queued, Kept, NoSnapshot
  <2>6. CASE SwitchRollsBack
    <3>1. Kept' = {} /\ snapshot' = NoSnapshot
      BY <2>6 DEF SwitchRollsBack, NoSnapshot, Kept
    <3>2. /\ interrupts' = snapshot.interrupts \union interrupts
          /\ asides' = snapshot.asides \union asides
          /\ deferred' = snapshot.deferred \union deferred
          /\ UNCHANGED cleared
      BY <2>6 DEF SwitchRollsBack
    <3> QED
      BY <2>1, <2>2, <3>1, <3>2
         DEF Followed, Alone, Somewhere, Accepted, Queued, Kept, NoSnapshot
  <2> QED
    BY <1>4, <2>3, <2>4, <2>5, <2>6
<1> QED
  BY <1>1, <1>2, <1>3, <1>4 DEF TransitionNext

LEMMA MessageStep ==
    ASSUME TypeOK, LoopInv, PhaseInv, MessageInv, [Next]_vars
    PROVE  MessageInv'
<1> SUFFICES ASSUME NEW m \in Msgs
             PROVE  Followed(m)'
  BY DEF MessageInv
<1>a. Followed(m)
  BY DEF MessageInv
<1>1. ASSUME NEW n \in Msgs, receipt[n] \in {"none", "resolving"}, HandOver(n)
      PROVE  Followed(m)'
  BY <1>1, <1>a, HandedFollowed DEF MessageInv
<1>2. ASSUME NEW n \in Msgs, SendResolves(n) \/ EnsureLiveFails(n)
      PROVE  Followed(m)'
  <2>1. UNCHANGED <<mailbox, interrupts, asides, deferred, snapshot, wakes, pending, held,
                    cleared, dropped, disposed, told>>
    BY <1>2 DEF SendResolves, EnsureLiveFails, Unsent, bridgeVars, loopVars, turnVars,
       notes
  <2>2. Unshared(m)' /\ (m \in Woken' <=> m \in Woken)
    BY <1>a, <2>1, WakesSame DEF Followed, Alone
  <2>3. \/ receipt'[m] = receipt[m]
        \/ /\ receipt[m] \in {"none", "resolving"}
           /\ receipt'[m] \in {"resolving", "failed"}
    <3>1. /\ receipt[n] \in {"none", "resolving"}
          /\ \/ receipt' = [receipt EXCEPT ![n] = "resolving"]
             \/ receipt' = [receipt EXCEPT ![n] = "failed"]
      BY <1>2 DEF SendResolves, EnsureLiveFails, Unsent
    <3> QED
      BY <3>1 DEF TypeOK
  <2> QED
    BY <1>a, <2>1, <2>2, <2>3 DEF Followed, Alone, Somewhere, Accepted, Queued, Kept
<1>3. ASSUME NEW R \in wakes, WakeProceeds(R) PROVE Followed(m)'
  BY <1>3, <1>a, WakeFollowed
<1>4. CASE TurnReturns
  <2>1. ElsewhereSame /\ EndInFlight
    BY <1>4 DEF TurnReturns, ElsewhereSame, busVars, loopVars, notes
  <2> QED
    BY <1>a, <2>1, EndInFlightFollowed
<1>5. CASE PromptBegins \/ PromptRuns \/ PromptDrops
  <2>1. UNCHANGED messageFrame
    BY <1>5 DEF PromptBegins, PromptRuns, PromptDrops, messageFrame, busVars, bridgeVars,
       loopVars, notes
  <2> QED
    BY <1>a, <2>1, UntouchedFollowed
<1>6. CASE PromptFlushes
  <2>1. told'[m] = IF m \in interrupts \union asides THEN told[m] + 1 ELSE told[m]
    BY <1>6, ToldOnce DEF PromptFlushes
  <2>2. interrupts' = {} /\ asides' = {}
        /\ UNCHANGED <<receipt, mailbox, deferred, snapshot, wakes, pending, held, cleared,
                       dropped, disposed>>
    BY <1>6 DEF PromptFlushes, busVars, loopVars, notes
  <2>3. Unshared(m)' /\ (m \in Woken' <=> m \in Woken)
    BY <1>a, <2>2, WakesSame DEF Followed, Alone
  <2> QED
    BY <1>a, <2>1, <2>2, <2>3 DEF Followed, Alone, Somewhere, Accepted, Queued, Kept
<1>7. CASE LoopNext
  BY <1>7, <1>a, LoopFollowed
<1>8. ASSUME NEW g, AbortBegins(g) PROVE Followed(m)'
  <2>1. UNCHANGED messageFrame
    BY <1>8 DEF AbortBegins, messageFrame, busVars, bridgeVars, notes
  <2> QED
    BY <1>a, <2>1, UntouchedFollowed
<1>9. CASE TransitionNext
  BY <1>9, <1>a, TransitionFollowed
<1>10. CASE ModeExitBegins
  <2>1. UNCHANGED messageFrame
    BY <1>10 DEF ModeExitBegins, messageFrame, busVars, bridgeVars, loopVars, turnVars,
       notes
  <2> QED
    BY <1>a, <2>1, UntouchedFollowed
<1>11. CASE ModeExitEnds
  <2>1. ElsewhereSame /\ Resume(inFlight, Pooled, FALSE)
    BY <1>11 DEF ModeExitEnds, ElsewhereSame, busVars, loopVars, notes
  <2> QED
    BY <1>a, <2>1, ResumeFollowed
<1>12. CASE Dispose
  <2>1. UNCHANGED <<receipt, mailbox, deferred, snapshot, wakes, pending, held, cleared,
                    dropped>>
        /\ interrupts' = {} /\ asides' = {} /\ disposed'
    BY <1>12 DEF Dispose, busVars, turnVars, notes
  <2>2. Unshared(m)' /\ (m \in Woken' <=> m \in Woken)
    BY <1>a, <2>1, WakesSame DEF Followed, Alone
  <2>3. CASE connected
    <3>1. told'[m] = IF m \in interrupts \union asides THEN told[m] + 1 ELSE told[m]
      BY <1>12, <2>3, ToldOnce DEF Dispose
    <3> QED
      BY <1>a, <2>1, <2>2, <3>1 DEF Followed, Alone, Somewhere, Accepted, Queued, Kept
  <2>4. CASE ~connected
    <3>1. told'[m] = IF m \in {} THEN told[m] + 1 ELSE told[m]
      BY <1>12, <2>4, ToldOnce DEF Dispose
    <3> QED
      BY <1>a, <2>1, <2>2, <3>1 DEF Followed, Alone, Somewhere, Accepted, Queued, Kept
  <2> QED
    BY <2>3, <2>4
<1>13. CASE ContractSet \/ ContractCleared
  <2>1. UNCHANGED messageFrame
    BY <1>13 DEF ContractSet, ContractCleared, PoolUnchanged, messageFrame, busVars,
       loopVars, notes
  <2> QED
    BY <1>a, <2>1, UntouchedFollowed
<1>14. CASE RebuildEnds
  <2>1. ElsewhereSame /\ Resume(inFlight, Pooled, exiting)
    BY <1>14 DEF RebuildEnds, PoolUnchanged, ElsewhereSame, busVars, loopVars, notes
  <2> QED
    BY <1>a, <2>1, ResumeFollowed
<1>15. CASE RebuildFails
  <2>1. ElsewhereSame
    BY <1>15 DEF RebuildFails, PoolUnchanged, ElsewhereSame, busVars, loopVars, notes
  <2>2. CASE rebuilds = 1
    <3> DEFINE back == IF ~published THEN "none"
                       ELSE IF contract = "none" THEN "stuck" ELSE contract
    <3>1. Resume(inFlight, back # "none", exiting)
      BY <1>15, <2>2 DEF RebuildFails
    <3> QED
      BY <1>a, <2>1, <3>1, ResumeFollowed
  <2>3. CASE rebuilds # 1
    <3>1. UNCHANGED messageFrame
      BY <1>15, <2>1, <2>3 DEF RebuildFails, ElsewhereSame, messageFrame
    <3> QED
      BY <1>a, <3>1, UntouchedFollowed
  <2> QED
    BY <2>2, <2>3
<1>16. CASE UNCHANGED vars
  <2>1. UNCHANGED messageFrame
    BY <1>16 DEF vars, messageFrame, busVars, bridgeVars, loopVars, turnVars, notes
  <2> QED
    BY <1>a, <2>1, UntouchedFollowed
<1> QED
  BY <1>1, <1>2, <1>3, <1>4, <1>5, <1>6, <1>7, <1>8, <1>9, <1>10, <1>11, <1>12, <1>13,
     <1>14, <1>15, <1>16 DEF Next, PoolNext, Send, EnsureLiveReturns

-----------------------------------------------------------------------------
(* Transitions, where no message wakes an idle session in one               *)

Switching == phase \in {"resetting", "adopted", "loading", "loaded"}

\* Nothing runs in a session that is being changed, and a switch has emptied
\* its queues.
StillInv ==
    /\ Switching => loop = "off" /\ wakes = {} /\ inFlight = 0
    /\ phase \in {"loading", "loaded"} => Queued = {}

LEMMA SwitchingIsTransition ==
    ASSUME PhaseInv, Switching
    PROVE  InTransition /\ ~connected /\ role = "main" /\ prompt = "none"
           /\ rebuilds = 0 /\ contract = "none"
BY DEF PhaseInv, Switching, InTransition

LEMMA StillStep ==
    ASSUME "wakeInTransition" \notin Behaviours, TypeOK, PhaseInv, StillInv, [Next]_vars
    PROVE  StillInv'
<1> DEFINE Frame == UNCHANGED <<phase, loop, wakes, inFlight, interrupts, asides, deferred>>
<1>0. ASSUME Frame PROVE StillInv'
  BY <1>0 DEF StillInv, Switching, Queued
<1>a. ASSUME ~Switching, UNCHANGED phase PROVE StillInv'
  BY <1>a DEF StillInv, Switching
<1>b. ASSUME NEW count, NEW pooled, NEW suppressed, UNCHANGED <<phase, loop>>,
             count = inFlight \/ count = 0, Resume(count, pooled, suppressed)
      PROVE  StillInv'
  <2>1. CASE Switching
    <3>1. Rests(count)
      BY <1>b, <2>1, SwitchingIsTransition DEF Resume, ResumeRecords, Rests
    <3> QED
      BY <1>b, <2>1, <3>1 DEF Rests, StillInv, Switching, Queued
  <2> QED
    BY <1>a, <1>b, <2>1
<1>1. ASSUME NEW n \in Msgs, HandOver(n) PROVE StillInv'
  <2>1. UNCHANGED <<phase, loop, deferred>>
    BY <1>1 DEF HandOver, loopVars, phaseVars
  <2>2. CASE Switching
    <3>1. ~Streaming
      BY <2>2 DEF StillInv, Streaming
    <3>2. UNCHANGED <<interrupts, asides, wakes, inFlight>>
      BY <1>1, <2>2, <3>1, SwitchingIsTransition DEF HandOver, Delivered
    <3> QED
      BY <1>0, <2>1, <3>2
  <2> QED
    BY <1>a, <2>1, <2>2
<1>2. ASSUME NEW n \in Msgs, SendResolves(n) \/ EnsureLiveFails(n) PROVE StillInv'
  BY <1>0, <1>2 DEF SendResolves, EnsureLiveFails, Unsent, bridgeVars, loopVars, turnVars,
     phaseVars
<1>3. ASSUME NEW R \in wakes, WakeProceeds(R) PROVE StillInv'
  BY <1>a, <1>3 DEF WakeProceeds, phaseVars, StillInv
<1>4. CASE TurnReturns
  <2>1. UNCHANGED <<phase, loop>> /\ EndInFlight
    BY <1>4 DEF TurnReturns, loopVars, phaseVars
  <2>2. CASE Switching
    <3>1. Resume(0, Pooled, exiting)
      BY <2>1, <2>2 DEF EndInFlight, StillInv, Switching
    <3> QED
      BY <1>b, <2>1, <3>1
  <2> QED
    BY <1>a, <2>1, <2>2
<1>5. CASE PromptBegins \/ PromptFlushes \/ PromptRuns \/ PromptDrops
  <2>1. ~Switching
    BY <1>5, SwitchingIsTransition
       DEF PromptBegins, PromptFlushes, PromptRuns, PromptDrops, Switching
  <2> QED
    BY <1>5, <1>a, <2>1 DEF PromptBegins, PromptFlushes, PromptRuns, PromptDrops,
       phaseVars
<1>6. CASE LoopNext
  <2>1. CASE WaitEnds
    BY <1>0, <2>1 DEF WaitEnds, LoopUnchanged, Elsewhere, phaseVars, loopVars
  <2>2. CASE ~WaitEnds
    <3>1. loop # "off" /\ UNCHANGED phase
      BY <1>6, <2>2 DEF LoopNext, Commit, DeadlineExpires, LoopEnds, MidPoll, StopPoll,
         FollowUps, StopEnds, ModelStops, WaitTakes, WaitParks, LoopUnchanged, Elsewhere,
         phaseVars
    <3> QED
      BY <1>a, <3>1 DEF StillInv
  <2> QED
    BY <2>1, <2>2
<1>7. ASSUME NEW g, AbortBegins(g) PROVE StillInv'
  BY <1>7 DEF AbortBegins, StillInv, Switching
<1>8. CASE AbortSettles
  <2>1. CASE goal = "stop"
    BY <1>8, <2>1 DEF AbortSettles, StillInv, Switching
  <2>2. CASE goal # "stop"
    <3>1. rebuilds = 0
      BY <1>8, <2>2 DEF AbortSettles, PhaseInv, InTransition
    <3>2. wakes = {} /\ loop = "off" /\ phase' = "resetting" /\ inFlight' = 0
          /\ UNCHANGED <<wakes, loopVars>>
      BY <1>8, <2>2, <3>1 DEF AbortSettles
    <3> QED
      BY <3>2 DEF StillInv, Switching, loopVars
  <2> QED
    BY <2>1, <2>2
<1>9. CASE NewAdopts
  BY <1>9 DEF NewAdopts, TransitionUnchanged, loopVars, turnVars, StillInv, Switching
<1>10. CASE NewClears \/ SwitchCommits \/ SwitchRollsBack
  BY <1>10 DEF NewClears, SwitchCommits, SwitchRollsBack, StillInv, Switching
<1>11. CASE SwitchClears
  BY <1>11 DEF SwitchClears, ClearPending, TransitionUnchanged, loopVars, turnVars,
     StillInv,
     Switching, Queued
<1>12. CASE SwitchLoads
  BY <1>12 DEF SwitchLoads, TransitionUnchanged, loopVars, turnVars, bridgeVars, StillInv,
     Switching, Queued
<1>13. CASE ModeExitBegins
  BY <1>0, <1>13 DEF ModeExitBegins, bridgeVars, loopVars, turnVars
<1>14. CASE ModeExitEnds
  <2>1. UNCHANGED <<phase, loop>> /\ Resume(inFlight, Pooled, FALSE)
    BY <1>14 DEF ModeExitEnds, loopVars
  <2> QED
    BY <1>b, <2>1
<1>15. CASE Dispose
  BY <1>15 DEF Dispose, phaseVars, turnVars, StillInv, Switching, Queued
<1>16. CASE PoolNext
  <2>1. ~Switching
    BY <1>16, SwitchingIsTransition DEF PoolNext, ContractSet, ContractCleared,
       RebuildEnds,
       RebuildFails, TypeOK
  <2>2. UNCHANGED phase
    BY <1>16 DEF PoolNext, ContractSet, ContractCleared, RebuildEnds, RebuildFails,
       PoolUnchanged
  <2> QED
    BY <1>a, <2>1, <2>2
<1>17. CASE UNCHANGED vars
  BY <1>0, <1>17 DEF vars, bridgeVars, loopVars, turnVars, phaseVars
<1> QED
  BY <1>1, <1>2, <1>3, <1>4, <1>5, <1>6, <1>7, <1>8, <1>9, <1>10, <1>11, <1>12, <1>13,
     <1>14, <1>15, <1>16, <1>17 DEF Next, TransitionNext, Send, EnsureLiveReturns

-----------------------------------------------------------------------------
(* Nobody is stranded                                                       *)

LEMMA StrandedStep ==
    ASSUME Behaviours = {}, TypeOK, PhaseInv, StillInv, NoneStranded, [Next]_vars
    PROVE  NoneStranded'
<1> SUFFICES ASSUME Quiet'
             PROVE  Queued' = {}
  BY DEF NoneStranded
<1> USE DEF NoneStranded
<1>q. /\ loop' = "off" /\ inFlight' <= 0 /\ unwinding' = 0 /\ prompt' = "none" /\ wakes' = {}
      /\ phase' = "none" /\ ~exiting' /\ ~disposed' /\ contract' = "none" /\ rebuilds' = 0
  <2>1. inFlight' \in Nat
    BY TypeStep DEF TypeOK
  <2> QED
    BY <2>1 DEF Quiet, Streaming
<1> DEFINE Frame == UNCHANGED <<loop, inFlight, unwinding, prompt, wakes, phase, exiting,
                                disposed, contract, rebuilds, interrupts, asides, deferred>>
<1>0. ASSUME Frame PROVE Queued' = {}
  BY <1>0 DEF Quiet, Streaming, Queued
<1>1. ASSUME NEW n \in Msgs, HandOver(n) PROVE Queued' = {}
  <2>1. UNCHANGED <<loop, unwinding, prompt, phase, exiting, disposed, contract, rebuilds,
                    deferred>>
    BY <1>1 DEF HandOver, loopVars, phaseVars, poolVars
  <2>2. CASE UNCHANGED <<interrupts, asides, wakes, inFlight>>
    BY <1>0, <2>1, <2>2
  <2>3. CASE Streaming /\ UNCHANGED inFlight
    BY <1>q, <2>1, <2>3 DEF Streaming, TypeOK
  <2>4. CASE asides' = asides \union {n} /\ exiting
    BY <1>q, <2>1, <2>4
  <2>5. CASE wakes' = wakes \union {{n}}
    BY <1>q, <2>5
  <2>6. Handed(n)
    BY <1>1, HandOverEffect
  <2> QED
    BY <2>2, <2>3, <2>4, <2>5, <2>6 DEF Handed
<1>2. ASSUME NEW n \in Msgs, SendResolves(n) \/ EnsureLiveFails(n) PROVE Queued' = {}
  BY <1>0, <1>2 DEF SendResolves, EnsureLiveFails, Unsent, bridgeVars, loopVars, turnVars,
     phaseVars, poolVars
<1>3. ASSUME NEW R \in wakes, WakeProceeds(R) PROVE Queued' = {}
  <2>1. loop' = "top" \/ unwinding' = unwinding + 1
    BY <1>3 DEF WakeProceeds
  <2> QED
    BY <1>q, <2>1 DEF TypeOK
<1>4. CASE TurnReturns
  <2>1. EndInFlight /\ UNCHANGED <<loop, phase, exiting, disposed, contract, rebuilds>>
    BY <1>4 DEF TurnReturns, loopVars, phaseVars, poolVars
  <2>2. connected
    BY <1>q, <2>1 DEF PhaseInv, InTransition
  <2>3. inFlight <= 1 /\ inFlight \in Nat
    BY <1>q, <2>1 DEF EndInFlight, TypeOK
  <2>4. Resume(0, Pooled, exiting)
    BY <1>q, <2>1, <2>3 DEF EndInFlight
  <2> QED
    BY <1>q, <2>1, <2>2, <2>4 DEF Pooled, Resume, ResumeRecords, Queued
<1>5. CASE PromptBegins \/ PromptFlushes \/ PromptRuns \/ PromptDrops
  <2>1. prompt' \in {"setup", "flushed"} \/ loop' = "top" \/ unwinding' = unwinding + 1
    BY <1>5 DEF PromptBegins, PromptFlushes, PromptRuns, PromptDrops
  <2> QED
    BY <1>q, <2>1 DEF TypeOK
<1>6. CASE LoopNext
  <2>1. CASE WaitEnds
    BY <1>0, <2>1 DEF WaitEnds, LoopUnchanged, Elsewhere, phaseVars, loopVars, poolVars
  <2>2. CASE ~WaitEnds
    <3>1. loop' # "off" \/ unwinding' = unwinding + 1
      BY <1>6, <2>2 DEF LoopNext, Commit, DeadlineExpires, LoopEnds, MidPoll, StopPoll,
         FollowUps, StopEnds, ModelStops, WaitTakes, WaitParks, loopVars
    <3> QED
      BY <1>q, <3>1 DEF TypeOK
  <2> QED
    BY <2>1, <2>2
<1>7. ASSUME NEW g, AbortBegins(g) PROVE Queued' = {}
  BY <1>7, <1>q DEF AbortBegins
<1>8. CASE AbortSettles
  <2>1. goal = "stop" /\ Resume(0, Pooled, exiting) /\ loop = "off"
        /\ UNCHANGED <<exiting, disposed, contract>>
    BY <1>8, <1>q DEF AbortSettles, poolVars
  <2>2. connected
    BY <2>1 DEF PhaseInv, InTransition
  <2> QED
    BY <1>q, <2>1, <2>2 DEF Pooled, Resume, ResumeRecords, Queued
<1>9. CASE NewAdopts \/ SwitchClears \/ SwitchLoads
  BY <1>9, <1>q DEF NewAdopts, SwitchClears, SwitchLoads
<1>10. CASE NewClears
  BY <1>10 DEF NewClears, ClearPending, Queued
<1>11. CASE SwitchCommits
  BY <1>11 DEF SwitchCommits, StillInv, Queued
<1>12. CASE SwitchRollsBack
  BY <1>12 DEF SwitchRollsBack, StillInv, Queued, Kept
<1>13. CASE ModeExitBegins
  BY <1>13, <1>q DEF ModeExitBegins
<1>14. CASE ModeExitEnds
  <2>1. Resume(inFlight, Pooled, FALSE) /\ UNCHANGED <<loop, phase, goal, disposed, contract>>
    BY <1>14 DEF ModeExitEnds, loopVars, poolVars
  <2>2. connected
    BY <1>q, <2>1 DEF PhaseInv, InTransition
  <2>3. inFlight' = 0
    <3>1. inFlight' \in Nat
      BY TypeStep DEF TypeOK
    <3> QED
      BY <1>q, <3>1
  <2> QED
    BY <1>q, <2>1, <2>2, <2>3 DEF Pooled, Resume, ResumeRecords, Queued
<1>15. CASE Dispose
  BY <1>15, <1>q DEF Dispose
<1>16. CASE ContractSet \/ ContractCleared
  BY <1>16, <1>q DEF ContractSet, ContractCleared, TypeOK
<1>17. CASE RebuildEnds \/ RebuildFails
  <2>1. UNCHANGED <<loop, phase, goal, exiting, disposed>>
    BY <1>17 DEF RebuildEnds, RebuildFails, PoolUnchanged, loopVars
  <2>2. connected
    BY <1>q, <2>1 DEF PhaseInv, InTransition
  <2>3. inFlight' = 0
    <3>1. inFlight' \in Nat
      BY TypeStep DEF TypeOK
    <3> QED
      BY <1>q, <3>1
  <2>4. CASE RebuildEnds
    <3>1. Resume(inFlight, Pooled, exiting) /\ UNCHANGED contract
      BY <2>4 DEF RebuildEnds
    <3> QED
      BY <1>q, <2>1, <2>2, <2>3, <3>1 DEF Pooled, Resume, ResumeRecords, Queued
  <2>5. CASE RebuildFails
    <3> DEFINE back == IF ~published THEN "none"
                       ELSE IF contract = "none" THEN "stuck" ELSE contract
    <3>1. rebuilds = 1
      BY <1>q, <2>5 DEF RebuildFails, TypeOK
    <3>2. contract' = back /\ Resume(inFlight, back # "none", exiting)
      BY <2>5, <3>1 DEF RebuildFails
    <3> HIDE DEF back
    <3> QED
      BY <1>q, <2>1, <2>2, <2>3, <3>2 DEF Resume, ResumeRecords, Queued
  <2> QED
    BY <1>17, <2>4, <2>5
<1>18. CASE UNCHANGED vars
  BY <1>0, <1>18 DEF vars, bridgeVars, loopVars, turnVars, phaseVars, poolVars
<1> QED
  BY <1>1, <1>2, <1>3, <1>4, <1>5, <1>6, <1>7, <1>8, <1>9, <1>10, <1>11, <1>12, <1>13,
     <1>14, <1>15, <1>16, <1>17, <1>18
     DEF Next, TransitionNext, PoolNext, Send, EnsureLiveReturns

-----------------------------------------------------------------------------
(* A message stays in the conversation it was sent to                       *)

Here(m) == m \in Queued \union pending \union held \union Woken

AtHome(m) ==
    Accepted(m) =>
        /\ m \notin mailbox
        /\ Here(m) /\ phase # "adopted" => home[m] = session
        /\ m \in Kept /\ phase = "loading" => home[m] = session
        /\ m \in Kept /\ phase = "loaded" => home[m] + 1 = session

HomeInv == \A m \in Msgs : AtHome(m)

\* Outside transitions a message only moves within the session, or leaves it.
StaysHere(m) ==
    /\ UNCHANGED <<receipt, home, session, snapshot>>
    /\ Here(m)' => Here(m)
    /\ m \in mailbox' => m \in mailbox
    /\ phase' = phase \/ (phase = "none" /\ phase' = "aborting")

\* The steps that hand a message over, or decide not to
HandsOver ==
    \E n \in Msgs : /\ receipt[n] \in {"none", "resolving"}
                    /\ HandOver(n) \/ SendResolves(n) \/ EnsureLiveFails(n)

LEMMA HereAtHome ==
    ASSUME NEW m, AtHome(m), StaysHere(m)
    PROVE  AtHome(m)'
BY DEF AtHome, StaysHere, Accepted, Kept

LEMMA ResumedHere ==
    ASSUME NEW m, NEW count, Resumes(count) \/ Rests(count), UNCHANGED <<pending, held>>
    PROVE  Here(m)' => Here(m)
<1>1. CASE Rests(count)
  BY <1>1 DEF Rests, Here, Queued, Woken
<1>2. CASE Resumes(count)
  BY <1>2 DEF Resumes, Here, Queued, Woken
<1> QED
  BY <1>1, <1>2

LEMMA ResumeHere ==
    ASSUME NEW m, NEW count, NEW pooled, NEW suppressed, UNCHANGED <<pending, held>>,
           Resume(count, pooled, suppressed)
    PROVE  Here(m)' => Here(m)
BY ResumeEffect, ResumedHere

HomeFrame ==
    /\ UNCHANGED <<receipt, mailbox, interrupts, asides, deferred, snapshot, wakes, pending,
                   held, home, session>>
    /\ phase' = phase \/ (phase = "none" /\ phase' = "aborting")

LEMMA FrameStays ==
    ASSUME NEW m, HomeFrame
    PROVE  StaysHere(m)
BY DEF HomeFrame, StaysHere, Here, Queued, Woken

\* Every step but a hand-over and a transition is such a move.
LEMMA StaysHereStep ==
    ASSUME NEW m \in Msgs, TypeOK, [Next]_vars
    PROVE  HandsOver \/ TransitionNext \/ StaysHere(m)
<1>3. ASSUME NEW R \in wakes, WakeProceeds(R) PROVE StaysHere(m)
  <2>1. UNCHANGED <<receipt, home, session, snapshot, mailbox, phase, interrupts, pending, held>>
        /\ wakes' = wakes \ {R} /\ asides' \subseteq asides \union R
        /\ deferred' \subseteq deferred \union R
    BY <1>3 DEF WakeProceeds, busVars, phaseVars
  <2>2. Here(m)' => Here(m)
    BY <2>1 DEF Here, Queued, Woken
  <2> QED
    BY <2>1, <2>2 DEF StaysHere
<1>4. ASSUME TurnReturns PROVE StaysHere(m)
  <2>1. UNCHANGED <<receipt, home, session, snapshot, mailbox, phase, pending, held>>
        /\ EndInFlight
    BY <1>4 DEF TurnReturns, busVars, phaseVars, loopVars, notes
  <2>2. Here(m)' => Here(m)
    BY <2>1, EndInFlightEffect, ResumedHere
  <2> QED
    BY <2>1, <2>2 DEF StaysHere
<1>5. ASSUME PromptBegins \/ PromptRuns \/ PromptDrops PROVE StaysHere(m)
  <2>1. HomeFrame
    BY <1>5 DEF PromptBegins, PromptRuns, PromptDrops, HomeFrame, busVars, bridgeVars,
       loopVars, phaseVars, notes
  <2> QED
    BY <2>1, FrameStays
<1>6. ASSUME PromptFlushes PROVE StaysHere(m)
  <2>1. UNCHANGED <<receipt, home, session, snapshot, mailbox, phase, pending, held, wakes,
                    deferred>>
        /\ interrupts' = {} /\ asides' = {}
    BY <1>6 DEF PromptFlushes, busVars, phaseVars, loopVars, notes
  <2> QED
    BY <2>1 DEF StaysHere, Here, Queued, Woken
<1>7. ASSUME LoopNext PROVE StaysHere(m)
  <2>1. UNCHANGED <<receipt, home, session, snapshot, phase, wakes, deferred>>
    BY <1>7 DEF LoopNext, LoopUnchanged, Elsewhere, Commit, DeadlineExpires, LoopEnds,
       MidPoll, StopPoll, FollowUps, StopEnds, ModelStops, WaitTakes, WaitParks, WaitEnds,
       phaseVars
  <2>2. interrupts' \union asides' \union pending' \union held'
            \subseteq interrupts \union asides \union pending \union held
    <3>1. CASE WaitTakes
      BY <3>1 DEF WaitTakes, loopVars
    <3>2. CASE ~WaitTakes
      BY <1>7, <3>2 DEF LoopNext, Commit, DeadlineExpires, LoopEnds, MidPoll, StopPoll,
         FollowUps, StopEnds, ModelStops, WaitParks, WaitEnds, loopVars
    <3> QED
      BY <3>1, <3>2
  <2>3. mailbox' \subseteq mailbox
    BY <1>7 DEF LoopNext, Commit, DeadlineExpires, LoopEnds, MidPoll, StopPoll, FollowUps,
       StopEnds, ModelStops, WaitTakes, WaitParks, WaitEnds
  <2>4. Here(m)' => Here(m)
    BY <2>1, <2>2 DEF Here, Queued, Woken
  <2> QED
    BY <2>1, <2>3, <2>4 DEF StaysHere
<1>8. ASSUME NEW g, AbortBegins(g) PROVE StaysHere(m)
  <2>1. HomeFrame
    BY <1>8 DEF AbortBegins, HomeFrame, busVars, bridgeVars, notes
  <2> QED
    BY <2>1, FrameStays
<1>9. ASSUME ModeExitBegins \/ ContractSet \/ ContractCleared PROVE StaysHere(m)
  <2>1. HomeFrame
    BY <1>9 DEF ModeExitBegins, ContractSet, ContractCleared, PoolUnchanged, HomeFrame,
       busVars, bridgeVars, loopVars, turnVars, notes
  <2> QED
    BY <2>1, FrameStays
<1>10. ASSUME ModeExitEnds \/ RebuildEnds PROVE StaysHere(m)
  <2>1. UNCHANGED <<receipt, home, session, snapshot, mailbox, phase, pending, held>>
    BY <1>10 DEF ModeExitEnds, RebuildEnds, PoolUnchanged, busVars, loopVars, notes
  <2>2. CASE ModeExitEnds
    <3>1. Resume(inFlight, Pooled, FALSE)
      BY <2>2 DEF ModeExitEnds
    <3>2. Here(m)' => Here(m)
      BY <2>1, <3>1, ResumeHere
    <3> QED
      BY <2>1, <3>2 DEF StaysHere
  <2>3. CASE RebuildEnds
    <3>1. Resume(inFlight, Pooled, exiting)
      BY <2>3 DEF RebuildEnds
    <3>2. Here(m)' => Here(m)
      BY <2>1, <3>1, ResumeHere
    <3> QED
      BY <2>1, <3>2 DEF StaysHere
  <2> QED
    BY <1>10, <2>2, <2>3
<1>11. ASSUME RebuildFails PROVE StaysHere(m)
  <2>1. UNCHANGED <<receipt, home, session, snapshot, mailbox, phase, pending, held>>
    BY <1>11 DEF RebuildFails, PoolUnchanged, busVars, loopVars, notes
  <2>2. Here(m)' => Here(m)
    <3>1. CASE rebuilds = 1
      <4> DEFINE back == IF ~published THEN "none"
                         ELSE IF contract = "none" THEN "stuck" ELSE contract
      <4>1. Resume(inFlight, back # "none", exiting)
        BY <1>11, <3>1 DEF RebuildFails
      <4> QED
        BY <2>1, <4>1, ResumeHere
    <3>2. CASE rebuilds # 1
      BY <1>11, <2>1, <3>2 DEF RebuildFails, Here, Queued, Woken
    <3> QED
      BY <3>1, <3>2
  <2> QED
    BY <2>1, <2>2 DEF StaysHere
<1>12. ASSUME Dispose PROVE StaysHere(m)
  <2>1. UNCHANGED <<receipt, home, session, snapshot, mailbox, phase, pending, held, wakes,
                    deferred>>
        /\ interrupts' = {} /\ asides' = {}
    BY <1>12 DEF Dispose, busVars, turnVars, phaseVars, notes
  <2> QED
    BY <2>1 DEF StaysHere, Here, Queued, Woken
<1>13. ASSUME UNCHANGED vars PROVE StaysHere(m)
  <2>1. HomeFrame
    BY <1>13 DEF vars, HomeFrame, busVars, bridgeVars, loopVars, turnVars, phaseVars,
       notes
  <2> QED
    BY <2>1, FrameStays
<1>14. ASSUME NEW n \in Msgs,
              Send(n) \/ SendResolves(n) \/ EnsureLiveReturns(n) \/ EnsureLiveFails(n)
       PROVE  HandsOver
  BY <1>14 DEF HandsOver, Send, SendResolves, EnsureLiveReturns, EnsureLiveFails
<1> QED
  BY <1>3, <1>4, <1>5, <1>6, <1>7, <1>8, <1>9, <1>10, <1>11, <1>12, <1>13, <1>14
     DEF Next, PoolNext

LEMMA HandedHome ==
    ASSUME NEW m \in Msgs, NEW n \in Msgs, TypeOK, PhaseInv, StillInv, Followed(n), AtHome(m),
           "wakeInTransition" \notin Behaviours,
           receipt[n] \in {"none", "resolving"},
           HandOver(n) \/ SendResolves(n) \/ EnsureLiveFails(n)
    PROVE  AtHome(m)'
<1>1. UNCHANGED <<phase, session, snapshot, deferred, pending, held>>
  BY DEF HandOver, SendResolves, EnsureLiveFails, Unsent, bridgeVars, loopVars, phaseVars
<1>2. /\ mailbox' \subseteq mailbox \union {n}
      /\ interrupts' \subseteq interrupts \union {n}
      /\ asides' \subseteq asides \union {n}
      /\ wakes' \subseteq wakes \union {{n}}
  BY HandOverEffect DEF Handed, SendResolves, EnsureLiveFails, Unsent, bridgeVars,
     turnVars
<1>3. m # n => receipt'[m] = receipt[m] /\ home'[m] = home[m]
  <2>1. home' = home \/ home' = [home EXCEPT ![n] = session]
    BY DEF HandOver, SendResolves, EnsureLiveFails, Unsent, notes
  <2>2. \E r : receipt' = [receipt EXCEPT ![n] = r]
    BY DEF HandOver, Delivered, SendResolves, EnsureLiveFails, Unsent
  <2> QED
    BY <2>1, <2>2 DEF TypeOK
<1>4. CASE m # n
  <2>1. Here(m)' => Here(m)
    BY <1>1, <1>2, <1>4 DEF Here, Queued, Woken
  <2> QED
    BY <1>1, <1>2, <1>3, <1>4, <2>1 DEF AtHome, Accepted, Kept
<1>5. CASE m = n /\ (SendResolves(n) \/ EnsureLiveFails(n))
  <2>1. receipt'[n] \in {"resolving", "failed"}
    BY <1>5 DEF SendResolves, EnsureLiveFails, Unsent, TypeOK
  <2> QED
    BY <1>5, <2>1 DEF AtHome, Accepted
<1>6. CASE m = n /\ HandOver(n)
  <2>1. home'[n] = session
    BY <1>6 DEF HandOver, TypeOK
  <2>2. ~Somewhere(n)
    BY DEF Followed
  <2>3. n \notin Kept'
    BY <1>1, <2>2 DEF Somewhere, Kept
  <2>4. n \in mailbox' => receipt'[n] = "failed"
    <3>1. n \in mailbox' => receipt' = [receipt EXCEPT ![n] = "failed"]
      BY <1>6, <2>2 DEF HandOver, Somewhere
    <3> QED
      BY <3>1 DEF TypeOK
  <2> QED
    BY <1>1, <1>6, <2>1, <2>3, <2>4 DEF AtHome, Accepted
<1> QED
  BY <1>4, <1>5, <1>6

LEMMA TransitionHome ==
    ASSUME NEW m \in Msgs, TypeOK, LoopInv, PhaseInv, StillInv, AtHome(m), TransitionNext
    PROVE  AtHome(m)'
<1>1. UNCHANGED <<receipt, home, mailbox, pending, held>>
  BY DEF TransitionNext, TransitionUnchanged, AbortSettles, NewAdopts, NewClears,
     SwitchClears, SwitchLoads, SwitchCommits, SwitchRollsBack, busVars, loopVars, notes
<1>2. CASE AbortSettles
  <2>1. UNCHANGED <<session, snapshot>> /\ phase = "aborting"
        /\ phase' \in {"none", "resetting"}
    BY <1>2 DEF AbortSettles
  <2>2. Here(m)' => Here(m)
    <3>1. CASE goal = "stop"
      <4>1. Resume(0, Pooled, exiting)
        BY <1>2, <3>1 DEF AbortSettles
      <4> QED
        BY <1>1, <4>1, ResumeHere
    <3>2. CASE goal # "stop"
      BY <1>1, <1>2, <3>2 DEF AbortSettles, Here, Queued, Woken
    <3> QED
      BY <3>1, <3>2
  <2> QED
    BY <1>1, <2>1, <2>2 DEF AtHome, Accepted, Kept
<1>3. CASE NewAdopts
  BY <1>1, <1>3 DEF NewAdopts, AtHome, Accepted
<1>4. CASE ~NewAdopts /\ ~AbortSettles
  <2>1. Switching
    BY <1>4 DEF TransitionNext, NewClears, SwitchClears, SwitchLoads, SwitchCommits,
       SwitchRollsBack, Switching
  <2>2. pending = {} /\ held = {} /\ wakes = {}
    BY <2>1 DEF StillInv, LoopInv
  <2>3. UNCHANGED wakes
    BY <1>4 DEF TransitionNext, TransitionUnchanged, NewClears, SwitchClears, SwitchLoads,
       SwitchCommits, SwitchRollsBack, turnVars
  <2>4. Here(m)' <=> m \in Queued'
    BY <1>1, <2>2, <2>3 DEF Here, Woken
  <2>5. CASE NewClears
    BY <1>1, <2>4, <2>5 DEF NewClears, ClearPending, Queued, AtHome, Accepted
  <2>6. CASE SwitchClears
    <3>1. Queued' = {} /\ Kept' = Queued /\ phase = "resetting" /\ phase' = "loading"
          /\ session' = session
      BY <2>6 DEF SwitchClears, ClearPending, Queued, Kept
    <3> QED
      BY <1>1, <2>4, <3>1 DEF AtHome, Accepted, Here
  <2>7. CASE SwitchLoads
    <3>1. Queued' = {} /\ Kept' = Kept /\ phase = "loading" /\ phase' = "loaded"
          /\ session' = session + 1
      BY <2>7 DEF SwitchLoads, TransitionUnchanged, bridgeVars, Queued, Kept, StillInv
    <3> QED
      BY <1>1, <2>4, <3>1 DEF AtHome, Accepted, TypeOK
  <2>8. CASE SwitchCommits
    <3>1. Queued' = {} /\ phase' = "none"
      BY <2>8 DEF SwitchCommits, Queued, StillInv
    <3> QED
      BY <1>1, <2>4, <3>1 DEF AtHome, Accepted
  <2>9. CASE SwitchRollsBack
    <3>1. Queued = {} /\ phase' = "none" /\ phase \in {"loading", "loaded"}
      BY <2>9 DEF SwitchRollsBack, StillInv
    <3>2. Queued' = Kept
      BY <2>9, <3>1 DEF SwitchRollsBack, Queued, Kept
    <3>3. session' = IF phase = "loaded" THEN session - 1 ELSE session
      BY <2>9 DEF SwitchRollsBack
    <3>4. session \in Nat /\ home[m] \in Nat
      BY DEF TypeOK
    <3>5. Accepted(m) => m \notin mailbox'
      BY <1>1 DEF AtHome
    <3>6. Accepted(m) /\ m \in Kept => home[m] = session'
      BY <3>1, <3>3, <3>4 DEF AtHome
    <3> QED
      BY <1>1, <2>4, <3>1, <3>2, <3>5, <3>6 DEF AtHome, Accepted
  <2> QED
    BY <1>4, <2>5, <2>6, <2>7, <2>8, <2>9 DEF TransitionNext
<1> QED
  BY <1>2, <1>3, <1>4

LEMMA HomeStep ==
    ASSUME "wakeInTransition" \notin Behaviours, TypeOK, LoopInv, PhaseInv, MessageInv,
           StillInv, HomeInv, [Next]_vars
    PROVE  HomeInv'
<1> SUFFICES ASSUME NEW m \in Msgs
             PROVE  AtHome(m)'
  BY DEF HomeInv
<1>1. AtHome(m)
  BY DEF HomeInv
<1>2. ASSUME NEW n \in Msgs, receipt[n] \in {"none", "resolving"},
             HandOver(n) \/ SendResolves(n) \/ EnsureLiveFails(n)
      PROVE  AtHome(m)'
  <2>1. Followed(n)
    BY DEF MessageInv
  <2> QED
    BY <1>1, <1>2, <2>1, HandedHome
<1>3. CASE TransitionNext
  BY <1>1, <1>3, TransitionHome
<1>4. CASE StaysHere(m)
  BY <1>1, <1>4, HereAtHome
<1> QED
  BY <1>2, <1>3, <1>4, StaysHereStep DEF HandsOver

-----------------------------------------------------------------------------
(* The theorems                                                             *)

IInv == TypeOK /\ LoopInv /\ PhaseInv /\ MessageInv

LEMMA InductiveInit == Init => IInv
<1> SUFFICES ASSUME Init
             PROVE  IInv
  OBVIOUS
<1>1. TypeOK
  <2>1. FlagsTyped /\ StagesTyped
    BY DEF Init, FlagsTyped, StagesTyped
  <2>2. CountsTyped
    BY BoundAssumption DEF Init, CountsTyped
  <2>3. MessagesTyped
    BY DEF Init, MessagesTyped, NoSnapshot
  <2> QED
    BY <2>1, <2>2, <2>3 DEF TypeOK, FlagsTyped, StagesTyped, CountsTyped, MessagesTyped
<1>2. LoopInv /\ PhaseInv
  BY DEF Init, LoopInv, PhaseInv, InTransition
<1>3. MessageInv
  BY DEF Init, MessageInv, Followed, Alone, Unshared, Somewhere, Accepted, Queued, Kept,
     NoSnapshot, Woken
<1> QED
  BY <1>1, <1>2, <1>3 DEF IInv

LEMMA InductiveStep == IInv /\ [Next]_vars => IInv'
BY TypeStep, LoopStep, PhaseStep, MessageStep DEF IInv

\* For any messages, bounds and behaviours: each message is in one place, the
\* loop holds messages only at the points where it commits or drops them, and a
\* transition keeps the rest of the session as it must be.
THEOREM Inductive == Spec => []IInv
BY InductiveInit, InductiveStep, PTL DEF Spec

\* Every variable keeps its type: no wake is empty, no count falls below zero,
\* and a rolled back switch returns to a session that was there.
THEOREM TypeCorrect == Spec => []TypeOK
<1>1. IInv => TypeOK
  BY DEF IInv
<1> QED
  BY <1>1, Inductive, PTL

LEMMA NowhereIsEmpty ==
    ASSUME NEW m
    PROVE  PlacesOf(m) = {} <=> ~Somewhere(m)
BY DEF PlacesOf, Places, Somewhere, Queued, Kept, Woken

\* A message is told once at most and kept nowhere after that, and one that its
\* sender knows as delivered is not lost, whatever the behaviours.
THEOREM HeardOnceNotLost == Spec => [](HeardOnce /\ NothingLost)
<1>1. IInv => HeardOnce /\ NothingLost
  <2> SUFFICES ASSUME IInv, NEW m \in Msgs
               PROVE  /\ told[m] <= 1 /\ (told[m] = 1 => PlacesOf(m) = {})
                      /\ Accepted(m) /\ told[m] = 0 /\ m \notin cleared \union dropped
                            /\ ~disposed
                         => PlacesOf(m) # {}
    BY DEF HeardOnce, NothingLost
  <2>1. Followed(m)
    BY DEF IInv, MessageInv
  <2> QED
    BY <2>1, NowhereIsEmpty DEF Followed
<1> QED
  BY <1>1, Inductive, PTL

LEMMA StillInit == Init => StillInv /\ HomeInv /\ NoneStranded
BY DEF Init, StillInv, Switching, HomeInv, AtHome, Accepted, NoneStranded, Queued

\* Where no switch is rolled back over queued messages and none wakes an idle
\* session in a transition: a message is told, or kept where somebody will look
\* for it, and never both.
THEOREM MessagesKeptOrTold == Behaviours = {} => (Spec => []KeptOrTold)
<1> SUFFICES ASSUME Behaviours = {}
             PROVE  Spec => []KeptOrTold
  OBVIOUS
<1> DEFINE J == StillInv /\ NoneStranded
<1>1. Init => J
  BY StillInit
<1>2. IInv /\ J /\ [Next]_vars => J'
  BY StillStep, StrandedStep DEF IInv
<1>3. HeardOnce /\ NothingLost /\ J => KeptOrTold
  BY DEF KeptOrTold
<1> QED
  BY <1>1, <1>2, <1>3, Inductive, HeardOnceNotLost, PTL DEF Spec

LEMMA ToldAtHome ==
    ASSUME IInv, StillInv, HomeInv, [Next]_vars, NEW m \in Msgs, Accepted(m),
           told'[m] > told[m]
    PROVE  home[m] = session
<1>1. AtHome(m) /\ told[m] \in Nat
  BY DEF HomeInv, IInv, TypeOK
<1>2. m \notin mailbox /\ (Here(m) /\ phase # "adopted" => home[m] = session)
  BY <1>1 DEF AtHome
<1>3. ASSUME NEW M, Tell(M) PROVE m \in M
  BY <1>1, <1>3, ToldOnce
<1>4. ASSUME connected PROVE phase # "adopted"
  BY <1>4 DEF IInv, PhaseInv, InTransition
<1>5. ASSUME phase = "adopted" PROVE loop = "off" /\ wakes = {} /\ prompt = "none"
  BY <1>5, SwitchingIsTransition DEF StillInv, Switching, IInv
<1>6. ASSUME NEW count, NEW pooled, NEW suppressed, Resume(count, pooled, suppressed)
      PROVE  home[m] = session
  <2>1. connected /\ Tell(Queued)
    BY <1>1, <1>6 DEF Resume, ResumeRecords, Queued
  <2> QED
    BY <1>2, <1>3, <1>4, <2>1 DEF Here
<1>7. CASE HandsOver
  <2>1. PICK n \in Msgs : /\ receipt[n] \in {"none", "resolving"}
                          /\ HandOver(n) \/ SendResolves(n) \/ EnsureLiveFails(n)
    BY <1>7 DEF HandsOver
  <2>2. m # n
    BY <2>1 DEF Accepted
  <2>3. Tell({n}) \/ UNCHANGED told
    BY <2>1, HandOverEffect DEF Handed, SendResolves, EnsureLiveFails, Unsent
  <2> QED
    BY <1>1, <1>3, <2>2, <2>3
<1>8. ASSUME NEW R \in wakes, WakeProceeds(R) PROVE home[m] = session
  <2>1. Tell(R)
    BY <1>1, <1>8 DEF WakeProceeds
  <2> QED
    BY <1>2, <1>3, <1>5, <1>8, <2>1 DEF Here, Woken
<1>9. CASE TurnReturns
  <2>1. Resume(0, Pooled, exiting)
    BY <1>1, <1>9 DEF TurnReturns, EndInFlight
  <2> QED
    BY <1>6, <2>1
<1>10. CASE PromptBegins \/ PromptRuns \/ PromptDrops \/ ModeExitBegins \/ ContractSet
            \/ ContractCleared \/ UNCHANGED vars
  BY <1>1, <1>10 DEF PromptBegins, PromptRuns, PromptDrops, ModeExitBegins, ContractSet,
     ContractCleared, vars
<1>11. CASE PromptFlushes
  <2>1. Tell(interrupts \union asides) /\ prompt # "none"
    BY <1>11 DEF PromptFlushes
  <2> QED
    BY <1>2, <1>3, <1>5, <2>1 DEF Here, Queued
<1>12. CASE LoopNext
  <2>1. CASE Commit
    <3>1. Tell(pending) /\ loop # "off"
      BY <2>1 DEF Commit
    <3> QED
      BY <1>2, <1>3, <1>5, <3>1 DEF Here
  <2>2. CASE WaitTakes
    <3>1. PICK n \in interrupts \union asides \union mailbox : Tell({n})
      BY <2>2 DEF WaitTakes
    <3>2. m = n /\ loop # "off"
      BY <1>3, <2>2, <3>1 DEF WaitTakes
    <3> QED
      BY <1>2, <1>5, <3>1, <3>2 DEF Here, Queued
  <2>3. CASE ~Commit /\ ~WaitTakes
    <3>1. UNCHANGED told
      BY <1>12, <2>3 DEF LoopNext, DeadlineExpires, LoopEnds, MidPoll, StopPoll,
         FollowUps,
         StopEnds, ModelStops, WaitParks, WaitEnds
    <3> QED
      BY <1>1, <3>1
  <2> QED
    BY <2>1, <2>2, <2>3
<1>13. ASSUME NEW g, AbortBegins(g) PROVE home[m] = session
  BY <1>1, <1>13 DEF AbortBegins
<1>14. CASE TransitionNext
  <2>1. AbortSettles /\ goal = "stop"
    BY <1>1, <1>14 DEF TransitionNext, TransitionUnchanged, AbortSettles, NewAdopts,
       NewClears, SwitchClears, SwitchLoads, SwitchCommits, SwitchRollsBack
  <2>2. Resume(0, Pooled, exiting)
    BY <2>1 DEF AbortSettles
  <2> QED
    BY <1>6, <2>2
<1>15. CASE ModeExitEnds
  <2>1. Resume(inFlight, Pooled, FALSE)
    BY <1>15 DEF ModeExitEnds
  <2> QED
    BY <1>6, <2>1
<1>16. CASE Dispose
  <2>1. Tell(IF connected THEN interrupts \union asides ELSE {})
    BY <1>16 DEF Dispose
  <2>2. m \in IF connected THEN interrupts \union asides ELSE {}
    BY <1>3, <2>1
  <2> QED
    BY <1>2, <1>4, <2>2 DEF Here, Queued
<1>17. CASE RebuildEnds
  <2>1. Resume(inFlight, Pooled, exiting)
    BY <1>17 DEF RebuildEnds
  <2> QED
    BY <1>6, <2>1
<1>18. CASE RebuildFails
  <2> DEFINE back == IF ~published THEN "none"
                     ELSE IF contract = "none" THEN "stuck" ELSE contract
  <2>1. Resume(inFlight, back # "none", exiting)
    BY <1>1, <1>18 DEF RebuildFails
  <2> QED
    BY <1>6, <2>1
<1>19. ASSUME NEW n \in Msgs,
              Send(n) \/ SendResolves(n) \/ EnsureLiveReturns(n) \/ EnsureLiveFails(n)
       PROVE  HandsOver
  BY <1>19 DEF HandsOver, Send, SendResolves, EnsureLiveReturns, EnsureLiveFails
<1> QED
  BY <1>7, <1>8, <1>9, <1>10, <1>11, <1>12, <1>13, <1>14, <1>15, <1>16, <1>17, <1>18,
     <1>19
     DEF Next, PoolNext

\* Where no message wakes an idle session in a transition: what enters the
\* context was handed to this session, not to one before it.
THEOREM MessagesStayInSession ==
    "wakeInTransition" \notin Behaviours => (Spec => StaysInSession)
<1> SUFFICES ASSUME "wakeInTransition" \notin Behaviours
             PROVE  Spec => StaysInSession
  OBVIOUS
<1> DEFINE J == StillInv /\ HomeInv
<1>1. Init => J
  BY StillInit
<1>2. IInv /\ J /\ [Next]_vars => J'
  BY StillStep, HomeStep DEF IInv
<1>3. IInv /\ J /\ [Next]_vars
      => [\A m \in Msgs : told'[m] > told[m] /\ Accepted(m) => home[m] = session]_vars
  BY ToldAtHome
<1> QED
  BY <1>1, <1>2, <1>3, Inductive, PTL DEF Spec, StaysInSession

=============================================================================
