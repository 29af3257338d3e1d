-------------------------- MODULE YieldQueue_proofs --------------------------
(***************************************************************************)
(* Proofs about YieldQueue, for any results and exits and any bounds: its  *)
(* safety properties, and that it implements Ledger.                       *)
(*                                                                         *)
(* TypeOK is inductive only with FlushInv (at most one flush task) and     *)
(* PhaseInv (the epoch stays within its bound).  FlushInv carries WakeInv, *)
(* PlaceInv carries ReceiptInv; each part has a lemma with one step per    *)
(* action that can disturb it.                                             *)
(***************************************************************************)
EXTENDS YieldQueue, TLAPS

-----------------------------------------------------------------------------
(* Frames: which actions can disturb a group of variables *)

\* Only the session's commands change its phase, its epoch or its id.
LEMMA SessionFrame ==
    ASSUME [Next]_vars
    PROVE  SessionNext \/ UNCHANGED sessionVars
BY DEF Next, vars, sessionVars, JobFinishes, SinkCalled, Formatted, SinkReturns,
       Snapshot, ExitArrives, PromptBegins, PromptRuns, PromptDrops,
       PromptReturns, FlushReturns, EndInFlight, LoopNext, Commit,
       DeadlineExpires, MidPoll, Polled, StopPoll, StopPolled, FollowUps,
       StopEnds, ModelStops, GoesOn, LoopUnchanged, TaskFires, SkipRuns

\* Only a prompt that gets the agent, the loop itself and an idle flush move
\* the loop or touch its locals.
LoopFrame == UNCHANGED <<thunks, pending, held, loop, runner>>

LEMMA LoopFrameStep ==
    ASSUME [Next]_vars
    PROVE  PromptRuns \/ LoopNext \/ TaskFires \/ LoopFrame
BY DEF LoopFrame, Next, vars, placeVars, turnVars, JobFinishes, SinkCalled, Formatted,
       Enqueue, SinkReturns, Snapshot, ExitArrives, PromptBegins, PromptDrops,
       PromptReturns, FlushReturns, EndInFlight, SkipRuns, SessionNext,
       AbortBegins, AbortTurn, AbortUnchanged, AbortDrains, AbortCancels,
       AbortSettles, AbortEnds, SessionAdopted, ClearBegins, ClearEnds,
       DisposeBegins, DisposeAborts

-----------------------------------------------------------------------------
(* The parts of the inductive invariant *)

\* The loop's locals are in use at their points of the loop only.
LEMMA PlaceStep ==
    ASSUME PlaceInv, [Next]_vars
    PROVE  PlaceInv'
<1>1. CASE PromptRuns
  BY <1>1
     DEF PromptRuns, placeVars, PlaceInv
<1>2. CASE Commit
  BY <1>2
     DEF Commit, GoesOn, PlaceInv
<1>3. CASE DeadlineExpires
  BY <1>3
     DEF DeadlineExpires, LoopEnds, PlaceInv
<1>4. CASE MidPoll
  BY <1>4
     DEF MidPoll, Drain, GoesOn, PlaceInv
<1>5. CASE Polled
  BY <1>5
     DEF Polled, Resolve, GoesOn, PlaceInv
<1>6. CASE StopPoll
  BY <1>6
     DEF StopPoll, Drain, GoesOn, PlaceInv
<1>7. CASE StopPolled
  BY <1>7
     DEF StopPolled, Resolve, GoesOn, PlaceInv
<1>8. CASE FollowUps
  BY <1>8
     DEF FollowUps, GoesOn, PlaceInv
<1>9. CASE StopEnds
  BY <1>9
     DEF StopEnds, LoopEnds, PlaceInv
<1>10. CASE ModelStops
  BY <1>10
     DEF ModelStops, LoopEnds, PlaceInv
<1>11. CASE TaskFires
  BY <1>11
     DEF TaskFires, Streaming, FlushIdle, PlaceInv
<1>12. CASE LoopFrame
  BY <1>12
     DEF LoopFrame, PlaceInv
<1> QED
  BY <1>1, <1>2, <1>3, <1>4, <1>5, <1>6, <1>7, <1>8, <1>9, <1>10, <1>11,
     <1>12, LoopFrameStep
     DEF LoopNext, SessionNext

\* The phases of /new and /clear.
LEMMA PhaseStep ==
    ASSUME TypeOK, PhaseInv, [Next]_vars
    PROVE  PhaseInv'
<1>1. CASE AbortBegins("stop") \/ AbortBegins("new")
  BY <1>1
     DEF AbortBegins, TypeOK, PhaseInv
<1>2. CASE AbortDrains
  BY <1>2
     DEF AbortDrains, AbortUnchanged, TypeOK, PhaseInv
<1>3. CASE AbortCancels
  BY <1>3
     DEF AbortCancels, AbortUnchanged, TypeOK, PhaseInv
<1>4. CASE AbortSettles
  BY <1>4
     DEF AbortSettles, AbortUnchanged, TypeOK, PhaseInv
<1>5. CASE AbortEnds
  BY <1>5
     DEF AbortEnds, CancelOwnJobs, TypeOK, PhaseInv
<1>6. CASE SessionAdopted
  BY <1>6
     DEF SessionAdopted, TypeOK, PhaseInv
<1>7. CASE ClearBegins
  BY <1>7
     DEF ClearBegins, TypeOK, PhaseInv
<1>8. CASE ClearEnds
  BY <1>8
     DEF ClearEnds, CancelOwnJobs, TypeOK, PhaseInv
<1>9. CASE DisposeBegins
  BY <1>9
     DEF DisposeBegins, TypeOK, PhaseInv
<1>10. CASE DisposeAborts
  BY <1>10
     DEF DisposeAborts, TypeOK, PhaseInv
<1>11. CASE UNCHANGED sessionVars
  BY <1>11
     DEF sessionVars, PhaseInv
<1> QED
  BY <1>1, <1>2, <1>3, <1>4, <1>5, <1>6, <1>7, <1>8, <1>9, <1>10, <1>11,
     SessionFrame
     DEF LoopNext, SessionNext

-----------------------------------------------------------------------------
(* What the helpers of the actions do *)

\* A schedule adds a task only when none is scheduled or being cancelled.
LEMMA ScheduleFlush ==
    ASSUME TypeOK, FlushInv, NEW w \in BOOLEAN, Schedule(w), w => disposed = "no",
           disposed # "no" => queued' = {},
           UNCHANGED <<skips, disposed>>,
           disposed = "no" /\ skips > 0 => UNCHANGED phase
    PROVE  FlushInv'
BY DEF TypeOK, FlushInv, Schedule

LEMMA RequestFlush ==
    ASSUME TypeOK, FlushInv, RequestIdleFlush, disposed # "no" => queued' = {},
           UNCHANGED <<skips, disposed>>,
           disposed = "no" /\ skips > 0 => UNCHANGED phase
    PROVE  FlushInv'
<1>1. queued # {} => disposed = "no"
  BY DEF FlushInv
<1> QED
  BY <1>1, ScheduleFlush DEF RequestIdleFlush

LEMMA EndInFlightFlush ==
    ASSUME TypeOK, FlushInv, EndInFlight
    PROVE  FlushInv'
<1>1. CASE RequestIdleFlush
  BY <1>1, RequestFlush DEF EndInFlight, placeVars, sessionVars, FlushInv
<1>2. CASE UNCHANGED <<latch, tasks>>
  BY <1>2 DEF EndInFlight, placeVars, sessionVars, FlushInv
<1> QED
  BY <1>1, <1>2 DEF EndInFlight

\* A loop that ends leaves a prompt or an idle flush to return.
LEMMA LoopEndsReturns ==
    ASSUME TypeOK, PlaceInv, loop # "off", LoopEnds
    PROVE  flushReturn' \/ unwinding' > 0
<1>1. runner \in {"prompt", "flush"}
  BY DEF TypeOK, PlaceInv
<1>2. CASE runner = "prompt"
  BY <1>2 DEF TypeOK, LoopEnds
<1>3. CASE runner = "flush"
  BY <1>3 DEF LoopEnds
<1> QED
  BY <1>1, <1>2, <1>3

\* The messages in A enter the context and the entries in B are given up, and
\* none of them stays where it could be settled a second time.
LEMMA SettleReceipts ==
    ASSUME TypeOK, ReceiptInv, NEW A, NEW B, A \subseteq InSight,
           receipt' = Settled(A, B), told' = Injected(A), call' = call,
           InSight' \subseteq InSight \ (A \union B),
           queued' \intersect (thunks' \union pending' \union held') = {}
    PROVE  ReceiptInv'
<1>1. \A e \in InSight' : receipt'[e] = "pending"
  BY DEF TypeOK, ReceiptInv, Settled, InSight
<1>2. \A e \in Entries : told'[e] = (IF receipt'[e] = "resolved" THEN 1 ELSE 0)
  BY DEF TypeOK, ReceiptInv, Settled, Injected
<1>3. \A j \in Jobs : call'[j] \in {"none", "due", "formatting"}
                       => receipt'[j] \in {"none", "rejected"}
  BY DEF ReceiptInv, Settled, Entries
<1> QED
  BY <1>1, <1>2, <1>3 DEF ReceiptInv

\* The same when nothing enters the context.
LEMMA DiscardReceipts ==
    ASSUME TypeOK, ReceiptInv, NEW B,
           receipt' = Settled({}, B), UNCHANGED <<told, call>>,
           InSight' \subseteq InSight \ B,
           queued' \intersect (thunks' \union pending' \union held') = {}
    PROVE  ReceiptInv'
<1>1. \A e \in InSight' : receipt'[e] = "pending"
  BY DEF TypeOK, ReceiptInv, Settled, InSight
<1>2. \A e \in Entries : told'[e] = (IF receipt'[e] = "resolved" THEN 1 ELSE 0)
  BY DEF TypeOK, ReceiptInv, Settled
<1>3. \A j \in Jobs : call'[j] \in {"none", "due", "formatting"}
                       => receipt'[j] \in {"none", "rejected"}
  BY DEF ReceiptInv, Settled, Entries
<1> QED
  BY <1>1, <1>2, <1>3 DEF ReceiptInv

\* The latch is the scheduled task or the cancelled one, and a disposed queue
\* is empty.
LEMMA FlushStep ==
    ASSUME TypeOK, FlushInv, [Next]_vars
    PROVE  FlushInv'
<1>1. ASSUME NEW j \in Jobs, JobFinishes(j) PROVE FlushInv'
  BY <1>1
     DEF JobFinishes, placeVars, flushVars, sessionVars, TypeOK, FlushInv
<1>2. ASSUME NEW j \in Jobs, SinkCalled(j) PROVE FlushInv'
  BY <1>2
     DEF SinkCalled, placeVars, flushVars, sessionVars, TypeOK, FlushInv
<1>3. ASSUME NEW j \in Jobs, Formatted(j) PROVE FlushInv'
  <2>1. CASE Outdated(j)
    BY <1>3, <2>1 DEF Formatted, placeVars, flushVars, sessionVars, FlushInv
  <2>2. CASE ~Outdated(j)
    <3>1. Enqueue(j) /\ disposed = "no" /\ UNCHANGED <<disposed, phase>>
      BY <1>3, <2>2 DEF Formatted, Outdated, sessionVars
    <3>2. Schedule(~Streaming) /\ UNCHANGED skips
      BY <3>1 DEF Enqueue
    <3> QED
      BY <3>1, <3>2, ScheduleFlush DEF Streaming
  <2> QED
    BY <2>1, <2>2
<1>4. ASSUME NEW j \in Jobs, SinkReturns(j) PROVE FlushInv'
  BY <1>4
     DEF SinkReturns, placeVars, flushVars, sessionVars, TypeOK, FlushInv
<1>5. ASSUME NEW j \in Jobs, Snapshot(j) PROVE FlushInv'
  BY <1>5
     DEF Snapshot, placeVars, flushVars, sessionVars, TypeOK, FlushInv
<1>6. ASSUME NEW x \in Exits, ExitArrives(x) PROVE FlushInv'
  <2>1. CASE disposed # "no"
    BY <1>6, <2>1 DEF ExitArrives, placeVars, flushVars, sessionVars, FlushInv
  <2>2. CASE disposed = "no"
    BY <1>6, <2>2, ScheduleFlush DEF ExitArrives, sessionVars
  <2> QED
    BY <2>1, <2>2
<1>7. CASE PromptBegins
  BY <1>7
     DEF PromptBegins, placeVars, flushVars, sessionVars, TypeOK, FlushInv
<1>8. CASE PromptRuns
  BY <1>8
     DEF PromptRuns, placeVars, flushVars, sessionVars, TypeOK, FlushInv
<1>9. CASE PromptDrops
  BY <1>9
     DEF PromptDrops, placeVars, flushVars, sessionVars, TypeOK, FlushInv
<1>10. CASE PromptReturns
  BY <1>10, EndInFlightFlush DEF PromptReturns
<1>11. CASE FlushReturns
  BY <1>11, EndInFlightFlush DEF FlushReturns
<1>12. CASE Commit
  BY <1>12
     DEF Commit, GoesOn, LoopUnchanged, flushVars, sessionVars, TypeOK,
         FlushInv
<1>13. CASE DeadlineExpires
  BY <1>13
     DEF DeadlineExpires, LoopEnds, LoopUnchanged, flushVars, sessionVars,
         TypeOK, FlushInv
<1>14. CASE MidPoll
  BY <1>14
     DEF MidPoll, Drain, GoesOn, LoopUnchanged, flushVars, sessionVars,
         TypeOK, FlushInv
<1>15. CASE Polled
  BY <1>15
     DEF Polled, GoesOn, LoopUnchanged, flushVars, sessionVars, TypeOK,
         FlushInv
<1>16. CASE StopPoll
  BY <1>16
     DEF StopPoll, Drain, GoesOn, LoopUnchanged, flushVars, sessionVars,
         TypeOK, FlushInv
<1>17. CASE StopPolled
  BY <1>17
     DEF StopPolled, GoesOn, LoopUnchanged, flushVars, sessionVars, TypeOK,
         FlushInv
<1>18. CASE FollowUps
  BY <1>18
     DEF FollowUps, GoesOn, LoopUnchanged, flushVars, sessionVars, TypeOK,
         FlushInv
<1>19. CASE StopEnds
  BY <1>19
     DEF StopEnds, LoopEnds, LoopUnchanged, flushVars, sessionVars, TypeOK,
         FlushInv
<1>20. CASE ModelStops
  BY <1>20
     DEF ModelStops, LoopEnds, LoopUnchanged, flushVars, sessionVars, TypeOK,
         FlushInv
<1>21. CASE TaskFires
  BY <1>21
     DEF TaskFires, FlushIdle, sessionVars, TypeOK, FlushInv
<1>22. CASE SkipRuns
  BY <1>22
     DEF SkipRuns, placeVars, sessionVars, TypeOK, FlushInv
<1>23. CASE AbortBegins("stop") \/ AbortBegins("new")
  <2>1. /\ phase = "none" /\ disposed = "no" /\ phase' = "aborting"
        /\ CancelTasks /\ UNCHANGED <<queued, disposed>>
    BY <1>23 DEF AbortBegins, placeVars
  <2> QED
    BY <2>1 DEF CancelTasks, TypeOK, FlushInv
<1>24. CASE AbortDrains
  BY <1>24
     DEF AbortDrains, TasksSettled, AbortUnchanged, placeVars, flushVars,
         TypeOK, FlushInv
<1>25. CASE AbortCancels
  BY <1>25
     DEF AbortCancels, CancelTasks, AbortUnchanged, placeVars, TypeOK,
         FlushInv
<1>26. CASE AbortSettles
  BY <1>26
     DEF AbortSettles, TasksSettled, AbortUnchanged, placeVars, flushVars,
         TypeOK, FlushInv
<1>27. CASE AbortEnds
  <2>1. /\ phase = "settling" /\ RequestIdleFlush /\ UNCHANGED <<skips, disposed>>
        /\ queued' \subseteq queued
    BY <1>27 DEF AbortEnds, CancelOwnJobs
  <2>2. disposed = "no" => skips = 0
    BY <2>1 DEF TypeOK, FlushInv
  <2>3. disposed # "no" => queued' = {}
    BY <2>1 DEF FlushInv
  <2> QED
    BY <2>1, <2>2, <2>3, RequestFlush DEF TypeOK
<1>28. CASE SessionAdopted
  BY <1>28
     DEF SessionAdopted, placeVars, flushVars, TypeOK, FlushInv
<1>29. CASE ClearBegins
  BY <1>29
     DEF ClearBegins, CancelTasks, placeVars, TypeOK, FlushInv
<1>30. CASE ClearEnds
  BY <1>30
     DEF ClearEnds, TasksSettled, CancelOwnJobs, flushVars, TypeOK, FlushInv
<1>31. CASE DisposeBegins
  BY <1>31
     DEF DisposeBegins, TypeOK, FlushInv
<1>32. CASE DisposeAborts
  BY <1>32
     DEF DisposeAborts, CancelTasks, placeVars, TypeOK, FlushInv
<1>33. CASE UNCHANGED vars
  BY <1>33
     DEF vars, placeVars, flushVars, sessionVars, TypeOK, FlushInv
<1> QED
  BY <1>1, <1>2, <1>3, <1>4, <1>5, <1>6, <1>7, <1>8, <1>9, <1>10, <1>11,
     <1>12, <1>13, <1>14, <1>15, <1>16, <1>17, <1>18, <1>19, <1>20, <1>21,
     <1>22, <1>23, <1>24, <1>25, <1>26, <1>27, <1>28, <1>29, <1>30, <1>31,
     <1>32, <1>33
     DEF Next, LoopNext, SessionNext

\* A queued result of an idle session has its flush.
LEMMA WakeStep ==
    ASSUME TypeOK, PlaceInv, FlushInv, PhaseInv, WakeInv, [Next]_vars
    PROVE  WakeInv'
<1>1. ASSUME NEW j \in Jobs, JobFinishes(j) PROVE WakeInv'
  BY <1>1, KindAssumption
     DEF JobFinishes, placeVars, flushVars, turnVars, sessionVars, TypeOK,
         PlaceInv, FlushInv, PhaseInv, WakeInv, Schedule, Streaming, Entries
<1>2. ASSUME NEW j \in Jobs, SinkCalled(j) PROVE WakeInv'
  BY <1>2, KindAssumption
     DEF SinkCalled, placeVars, flushVars, turnVars, sessionVars, TypeOK,
         PlaceInv, FlushInv, PhaseInv, WakeInv, Schedule, Streaming, Entries
<1>3. ASSUME NEW j \in Jobs, Formatted(j) PROVE WakeInv'
  BY <1>3, KindAssumption
     DEF Formatted, placeVars, flushVars, Enqueue, turnVars, sessionVars,
         TypeOK, PlaceInv, FlushInv, PhaseInv, WakeInv, Schedule, Streaming,
         Entries
<1>4. ASSUME NEW j \in Jobs, SinkReturns(j) PROVE WakeInv'
  BY <1>4, KindAssumption
     DEF SinkReturns, placeVars, flushVars, turnVars, sessionVars, TypeOK,
         PlaceInv, FlushInv, PhaseInv, WakeInv, Schedule, Streaming, Entries
<1>5. ASSUME NEW j \in Jobs, Snapshot(j) PROVE WakeInv'
  BY <1>5, KindAssumption
     DEF Snapshot, placeVars, flushVars, turnVars, sessionVars, TypeOK,
         PlaceInv, FlushInv, PhaseInv, WakeInv, Schedule, Streaming, Entries
<1>6. ASSUME NEW x \in Exits, ExitArrives(x) PROVE WakeInv'
  BY <1>6, KindAssumption
     DEF ExitArrives, placeVars, flushVars, turnVars, sessionVars, TypeOK,
         PlaceInv, FlushInv, PhaseInv, WakeInv, Schedule, Streaming, Entries
<1>7. CASE PromptBegins
  BY <1>7, KindAssumption
     DEF PromptBegins, placeVars, flushVars, sessionVars, TypeOK, PlaceInv,
         FlushInv, PhaseInv, WakeInv, Schedule, Streaming, Entries
<1>8. CASE PromptRuns
  BY <1>8, KindAssumption
     DEF PromptRuns, placeVars, flushVars, sessionVars, TypeOK, PlaceInv,
         FlushInv, PhaseInv, WakeInv, Schedule, Streaming, Entries
<1>9. CASE PromptDrops
  BY <1>9, KindAssumption
     DEF PromptDrops, placeVars, flushVars, sessionVars, TypeOK, PlaceInv,
         FlushInv, PhaseInv, WakeInv, Schedule, Streaming, Entries
<1>10. CASE PromptReturns
  BY <1>10, KindAssumption
     DEF PromptReturns, EndInFlight, RequestIdleFlush, placeVars, sessionVars,
         TypeOK, PlaceInv, FlushInv, PhaseInv, WakeInv, Schedule, Streaming,
         Entries
<1>11. CASE FlushReturns
  BY <1>11, KindAssumption
     DEF FlushReturns, EndInFlight, RequestIdleFlush, placeVars, sessionVars,
         TypeOK, PlaceInv, FlushInv, PhaseInv, WakeInv, Schedule, Streaming,
         Entries
<1>12. CASE Commit
  BY <1>12, KindAssumption
     DEF Commit, GoesOn, LoopUnchanged, flushVars, sessionVars, TypeOK,
         PlaceInv, FlushInv, PhaseInv, WakeInv, Schedule, Streaming, Entries
<1>13. CASE DeadlineExpires
  <2>1. loop # "off" /\ LoopEnds
    BY <1>13 DEF DeadlineExpires
  <2> QED
    BY <2>1, LoopEndsReturns DEF WakeInv
<1>14. CASE MidPoll
  BY <1>14, KindAssumption
     DEF MidPoll, Drain, GoesOn, LoopUnchanged, flushVars, sessionVars,
         TypeOK, PlaceInv, FlushInv, PhaseInv, WakeInv, Schedule, Streaming,
         Entries
<1>15. CASE Polled
  BY <1>15, KindAssumption
     DEF Polled, GoesOn, LoopUnchanged, flushVars, sessionVars, TypeOK,
         PlaceInv, FlushInv, PhaseInv, WakeInv, Schedule, Streaming, Entries
<1>16. CASE StopPoll
  BY <1>16, KindAssumption
     DEF StopPoll, Drain, GoesOn, LoopUnchanged, flushVars, sessionVars,
         TypeOK, PlaceInv, FlushInv, PhaseInv, WakeInv, Schedule, Streaming,
         Entries
<1>17. CASE StopPolled
  BY <1>17, KindAssumption
     DEF StopPolled, GoesOn, LoopUnchanged, flushVars, sessionVars, TypeOK,
         PlaceInv, FlushInv, PhaseInv, WakeInv, Schedule, Streaming, Entries
<1>18. CASE FollowUps
  BY <1>18, KindAssumption
     DEF FollowUps, GoesOn, LoopUnchanged, flushVars, sessionVars, TypeOK,
         PlaceInv, FlushInv, PhaseInv, WakeInv, Schedule, Streaming, Entries
<1>19. CASE StopEnds
  <2>1. loop # "off" /\ LoopEnds
    BY <1>19 DEF StopEnds
  <2> QED
    BY <2>1, LoopEndsReturns DEF WakeInv
<1>20. CASE ModelStops
  <2>1. loop # "off" /\ LoopEnds
    BY <1>20 DEF ModelStops
  <2> QED
    BY <2>1, LoopEndsReturns DEF WakeInv
<1>21. CASE TaskFires
  BY <1>21, KindAssumption
     DEF TaskFires, FlushIdle, sessionVars, TypeOK, PlaceInv, FlushInv,
         PhaseInv, WakeInv, Schedule, Streaming, Entries
<1>22. CASE SkipRuns
  BY <1>22, KindAssumption
     DEF SkipRuns, placeVars, turnVars, sessionVars, TypeOK, PlaceInv,
         FlushInv, PhaseInv, WakeInv, Schedule, Streaming, Entries
<1>23. CASE AbortBegins("stop") \/ AbortBegins("new")
  BY <1>23, KindAssumption
     DEF AbortBegins, CancelTasks, AbortTurn, placeVars, TypeOK, PlaceInv,
         FlushInv, PhaseInv, WakeInv, Schedule, Streaming, Entries
<1>24. CASE AbortDrains
  BY <1>24, KindAssumption
     DEF AbortDrains, TasksSettled, AbortUnchanged, placeVars, turnVars,
         flushVars, TypeOK, PlaceInv, FlushInv, PhaseInv, WakeInv, Schedule,
         Streaming, Entries
<1>25. CASE AbortCancels
  BY <1>25, KindAssumption
     DEF AbortCancels, CancelTasks, AbortUnchanged, placeVars, turnVars,
         TypeOK, PlaceInv, FlushInv, PhaseInv, WakeInv, Schedule, Streaming,
         Entries
<1>26. CASE AbortSettles
  BY <1>26, KindAssumption
     DEF AbortSettles, TasksSettled, AbortUnchanged, placeVars, turnVars,
         flushVars, TypeOK, PlaceInv, FlushInv, PhaseInv, WakeInv, Schedule,
         Streaming, Entries
<1>27. CASE AbortEnds
  BY <1>27, KindAssumption
     DEF AbortEnds, RequestIdleFlush, CancelOwnJobs, TypeOK, PlaceInv,
         FlushInv, PhaseInv, WakeInv, Schedule, Streaming, Entries
<1>28. CASE SessionAdopted
  BY <1>28, KindAssumption
     DEF SessionAdopted, placeVars, flushVars, turnVars, TypeOK, PlaceInv,
         FlushInv, PhaseInv, WakeInv, Schedule, Streaming, Entries
<1>29. CASE ClearBegins
  BY <1>29, KindAssumption
     DEF ClearBegins, CancelTasks, AbortTurn, placeVars, TypeOK, PlaceInv,
         FlushInv, PhaseInv, WakeInv, Schedule, Streaming, Entries
<1>30. CASE ClearEnds
  BY <1>30, KindAssumption
     DEF ClearEnds, TasksSettled, CancelOwnJobs, flushVars, turnVars, TypeOK,
         PlaceInv, FlushInv, PhaseInv, WakeInv, Schedule, Streaming, Entries
<1>31. CASE DisposeBegins
  BY <1>31, KindAssumption
     DEF DisposeBegins, turnVars, TypeOK, PlaceInv, FlushInv, PhaseInv,
         WakeInv, Schedule, Streaming, Entries
<1>32. CASE DisposeAborts
  BY <1>32, KindAssumption
     DEF DisposeAborts, CancelTasks, AbortTurn, placeVars, TypeOK, PlaceInv,
         FlushInv, PhaseInv, WakeInv, Schedule, Streaming, Entries
<1>33. CASE UNCHANGED vars
  BY <1>33, KindAssumption
     DEF vars, placeVars, flushVars, turnVars, sessionVars, TypeOK, PlaceInv,
         FlushInv, PhaseInv, WakeInv, Schedule, Streaming, Entries
<1> QED
  BY <1>1, <1>2, <1>3, <1>4, <1>5, <1>6, <1>7, <1>8, <1>9, <1>10, <1>11,
     <1>12, <1>13, <1>14, <1>15, <1>16, <1>17, <1>18, <1>19, <1>20, <1>21,
     <1>22, <1>23, <1>24, <1>25, <1>26, <1>27, <1>28, <1>29, <1>30, <1>31,
     <1>32, <1>33
     DEF Next, LoopNext, SessionNext

\* Receipts tell the truth.
LEMMA ReceiptStep ==
    ASSUME TypeOK, PlaceInv, ReceiptInv, [Next]_vars
    PROVE  ReceiptInv'
<1>1. ASSUME NEW j \in Jobs, JobFinishes(j) PROVE ReceiptInv'
  BY <1>1
     DEF JobFinishes, placeVars, TypeOK, PlaceInv, ReceiptInv, InSight,
         Entries
<1>2. ASSUME NEW j \in Jobs, SinkCalled(j) PROVE ReceiptInv'
  BY <1>2
     DEF SinkCalled, placeVars, TypeOK, PlaceInv, ReceiptInv, InSight, Entries
<1>3. ASSUME NEW j \in Jobs, Formatted(j) PROVE ReceiptInv'
  BY <1>3
     DEF Formatted, placeVars, Enqueue, TypeOK, PlaceInv, ReceiptInv, InSight,
         Entries
<1>4. ASSUME NEW j \in Jobs, SinkReturns(j) PROVE ReceiptInv'
  BY <1>4
     DEF SinkReturns, placeVars, TypeOK, PlaceInv, ReceiptInv, InSight,
         Entries
<1>5. ASSUME NEW j \in Jobs, Snapshot(j) PROVE ReceiptInv'
  BY <1>5
     DEF Snapshot, placeVars, TypeOK, PlaceInv, ReceiptInv, InSight, Entries
<1>6. ASSUME NEW x \in Exits, ExitArrives(x) PROVE ReceiptInv'
  <2>1. x \in Entries /\ x \notin InSight /\ x \notin Jobs /\ told[x] = 0
    BY <1>6, KindAssumption DEF ExitArrives, Entries, ReceiptInv
  <2>2. /\ InSight' \subseteq InSight \union {x}
        /\ queued' \intersect (thunks' \union pending' \union held') = {}
    BY <1>6, <2>1 DEF ExitArrives, InSight, ReceiptInv, placeVars
  <2>3. /\ receipt' \in {[receipt EXCEPT ![x] = "rejected"], [receipt EXCEPT ![x] = "pending"]}
        /\ x \in InSight' => receipt' = [receipt EXCEPT ![x] = "pending"]
        /\ receipt[x] = "none" /\ UNCHANGED <<told, call>>
    BY <1>6, <2>1 DEF ExitArrives, InSight, placeVars, jobVars
  <2>4. \A e \in InSight' : receipt'[e] = "pending"
    <3>1. InSight \subseteq Entries /\ \A e \in InSight : receipt[e] = "pending"
      BY DEF TypeOK, InSight, ReceiptInv
    <3>2. \A e \in InSight : receipt'[e] = "pending"
      BY <2>1, <2>3, <3>1 DEF TypeOK
    <3>3. x \in InSight' => receipt'[x] = "pending"
      BY <2>1, <2>3 DEF TypeOK
    <3> QED
      BY <2>2, <3>2, <3>3
  <2>5. \A e \in Entries : told'[e] = (IF receipt'[e] = "resolved" THEN 1 ELSE 0)
    BY <2>1, <2>3 DEF TypeOK, ReceiptInv
  <2>6. \A j \in Jobs : receipt'[j] = receipt[j]
    BY <2>1, <2>3 DEF TypeOK, Entries
  <2> QED
    BY <2>2, <2>3, <2>4, <2>5, <2>6 DEF ReceiptInv
<1>7. CASE PromptBegins
  BY <1>7
     DEF PromptBegins, placeVars, jobVars, TypeOK, PlaceInv, ReceiptInv,
         InSight, Entries
<1>8. CASE PromptRuns
  BY <1>8
     DEF PromptRuns, placeVars, jobVars, TypeOK, PlaceInv, ReceiptInv,
         InSight, Entries
<1>9. CASE PromptDrops
  BY <1>9
     DEF PromptDrops, placeVars, jobVars, TypeOK, PlaceInv, ReceiptInv,
         InSight, Entries
<1>10. CASE PromptReturns
  BY <1>10
     DEF PromptReturns, EndInFlight, placeVars, jobVars, TypeOK, PlaceInv,
         ReceiptInv, InSight, Entries
<1>11. CASE FlushReturns
  BY <1>11
     DEF FlushReturns, EndInFlight, placeVars, jobVars, TypeOK, PlaceInv,
         ReceiptInv, InSight, Entries
<1>12. CASE Commit
  <2>1. /\ receipt' = Settled(pending, {}) /\ told' = Injected(pending)
        /\ pending' = {} /\ UNCHANGED <<queued, thunks, held, call>>
    BY <1>12 DEF Commit, GoesOn, LoopUnchanged, jobVars
  <2>2. thunks = {} /\ held = {} /\ queued \intersect pending = {}
    BY <1>12 DEF Commit, PlaceInv, ReceiptInv
  <2> QED
    BY <2>1, <2>2, SettleReceipts DEF InSight
<1>13. CASE DeadlineExpires
  <2>1. /\ receipt' = Settled({}, pending)
        /\ pending' = {} /\ UNCHANGED <<queued, thunks, held, told, call>>
    BY <1>13 DEF DeadlineExpires, LoopEnds, LoopUnchanged, jobVars
  <2>2. thunks = {} /\ held = {} /\ queued \intersect pending = {}
    BY <1>13 DEF DeadlineExpires, PlaceInv, ReceiptInv
  <2> QED
    BY <2>1, <2>2, DiscardReceipts DEF InSight
<1>14. CASE MidPoll
  BY <1>14
     DEF MidPoll, Drain, GoesOn, LoopUnchanged, jobVars, TypeOK, PlaceInv,
         ReceiptInv, InSight, Entries
<1>15. CASE Polled
  <2>1. /\ receipt' = Settled({}, thunks \ Survivors(thunks))
        /\ thunks' = {} /\ pending' = Survivors(thunks)
        /\ UNCHANGED <<queued, held, told, call>>
    BY <1>15 DEF Polled, Resolve, GoesOn, LoopUnchanged, jobVars
  <2>2. /\ pending = {} /\ held = {} /\ queued \intersect thunks = {}
        /\ Survivors(thunks) \subseteq thunks
    BY <1>15 DEF Polled, PlaceInv, ReceiptInv, Survivors
  <2> QED
    BY <2>1, <2>2, DiscardReceipts DEF InSight
<1>16. CASE StopPoll
  BY <1>16
     DEF StopPoll, Drain, GoesOn, LoopUnchanged, jobVars, TypeOK, PlaceInv,
         ReceiptInv, InSight, Entries
<1>17. CASE StopPolled
  <2>1. /\ receipt' = Settled({}, thunks \ Survivors(thunks))
        /\ thunks' = {} /\ held' = Survivors(thunks)
        /\ UNCHANGED <<queued, pending, told, call>>
    BY <1>17 DEF StopPolled, Resolve, GoesOn, LoopUnchanged, jobVars
  <2>2. /\ pending = {} /\ held = {} /\ queued \intersect thunks = {}
        /\ Survivors(thunks) \subseteq thunks
    BY <1>17 DEF StopPolled, PlaceInv, ReceiptInv, Survivors
  <2> QED
    BY <2>1, <2>2, DiscardReceipts DEF InSight
<1>18. CASE FollowUps
  BY <1>18
     DEF FollowUps, GoesOn, LoopUnchanged, jobVars, TypeOK, PlaceInv,
         ReceiptInv, InSight, Entries
<1>19. CASE StopEnds
  <2>1. receipt' = Settled({}, {}) /\ UNCHANGED <<queued, thunks, told, call>>
    BY <1>19 DEF StopEnds, LoopEnds, LoopUnchanged, jobVars, PlaceInv
  <2>2. pending = {} /\ pending' = {} /\ held' \subseteq held
    BY <1>19 DEF StopEnds, LoopEnds, PlaceInv
  <2> QED
    BY <2>1, <2>2, DiscardReceipts DEF InSight, ReceiptInv
<1>20. CASE ModelStops
  <2>1. receipt' = Settled({}, {}) /\ UNCHANGED <<queued, thunks, told, call>>
    BY <1>20 DEF ModelStops, LoopEnds, LoopUnchanged, jobVars, PlaceInv
  <2>2. pending = {} /\ pending' = {} /\ held' \subseteq held
    BY <1>20 DEF ModelStops, LoopEnds, PlaceInv
  <2> QED
    BY <2>1, <2>2, DiscardReceipts DEF InSight, ReceiptInv
<1>21. CASE TaskFires
  <2>1. UNCHANGED <<thunks, pending, held, call>>
    BY <1>21 DEF TaskFires, jobVars
  <2>2. CASE Streaming
    BY <1>21, <2>1, <2>2 DEF TaskFires, ReceiptInv, InSight
  <2>3. CASE ~Streaming
    <3>1. FlushIdle /\ thunks = {} /\ pending = {} /\ held = {}
      BY <1>21, <2>3 DEF TaskFires, PlaceInv, Streaming
    <3>2. queued' = {}
      BY <3>1 DEF FlushIdle
    <3>3. CASE /\ receipt' = Settled(Survivors(queued), queued \ Survivors(queued))
               /\ told' = Injected(Survivors(queued))
      <4>1. Survivors(queued) \subseteq queued
        BY DEF Survivors
      <4> QED
        BY <2>1, <3>1, <3>2, <3>3, <4>1, SettleReceipts DEF InSight
    <3>4. CASE receipt' = Settled({}, queued) /\ UNCHANGED told
      BY <2>1, <3>1, <3>2, <3>4, DiscardReceipts DEF InSight
    <3>5. CASE /\ receipt' = Settled({}, queued \ Survivors(queued))
               /\ UNCHANGED told
      BY <2>1, <3>1, <3>2, <3>5, DiscardReceipts DEF InSight
    <3> QED
      BY <3>1, <3>3, <3>4, <3>5 DEF FlushIdle
  <2> QED
    BY <2>2, <2>3
<1>22. CASE SkipRuns
  BY <1>22
     DEF SkipRuns, placeVars, jobVars, TypeOK, PlaceInv, ReceiptInv, InSight,
         Entries
<1>23. CASE AbortBegins("stop") \/ AbortBegins("new")
  BY <1>23
     DEF AbortBegins, placeVars, jobVars, TypeOK, PlaceInv, ReceiptInv,
         InSight, Entries
<1>24. CASE AbortDrains
  BY <1>24
     DEF AbortDrains, AbortUnchanged, placeVars, jobVars, TypeOK, PlaceInv,
         ReceiptInv, InSight, Entries
<1>25. CASE AbortCancels
  BY <1>25
     DEF AbortCancels, AbortUnchanged, placeVars, jobVars, TypeOK, PlaceInv,
         ReceiptInv, InSight, Entries
<1>26. CASE AbortSettles
  BY <1>26
     DEF AbortSettles, AbortUnchanged, placeVars, jobVars, TypeOK, PlaceInv,
         ReceiptInv, InSight, Entries
<1>27. CASE AbortEnds
  <2>1. UNCHANGED <<thunks, pending, held, told, call>>
    BY <1>27 DEF AbortEnds, jobVars
  <2>2. CASE goal = "new"
    <3>1. receipt' = Settled({}, queued \intersect Jobs) /\ queued' = queued \ Jobs
      BY <1>27, <2>2 DEF AbortEnds, CancelOwnJobs
    <3> QED
      BY <2>1, <3>1, DiscardReceipts DEF InSight, ReceiptInv
  <2>3. CASE goal # "new"
    BY <1>27, <2>1, <2>3 DEF AbortEnds, ReceiptInv, InSight
  <2> QED
    BY <2>2, <2>3
<1>28. CASE SessionAdopted
  BY <1>28
     DEF SessionAdopted, placeVars, jobVars, TypeOK, PlaceInv, ReceiptInv,
         InSight, Entries
<1>29. CASE ClearBegins
  BY <1>29
     DEF ClearBegins, placeVars, jobVars, TypeOK, PlaceInv, ReceiptInv,
         InSight, Entries
<1>30. CASE ClearEnds
  <2>1. /\ UNCHANGED <<thunks, pending, held, told, call>>
        /\ receipt' = Settled({}, queued \intersect Jobs) /\ queued' = queued \ Jobs
    BY <1>30 DEF ClearEnds, CancelOwnJobs, jobVars
  <2> QED
    BY <2>1, DiscardReceipts DEF InSight, ReceiptInv
<1>31. CASE DisposeBegins
  <2>1. /\ UNCHANGED <<thunks, pending, held, told, call>>
        /\ receipt' = Settled({}, queued) /\ queued' = {}
    BY <1>31 DEF DisposeBegins, jobVars
  <2> QED
    BY <2>1, DiscardReceipts DEF InSight, ReceiptInv
<1>32. CASE DisposeAborts
  BY <1>32
     DEF DisposeAborts, placeVars, jobVars, TypeOK, PlaceInv, ReceiptInv,
         InSight, Entries
<1>33. CASE UNCHANGED vars
  BY <1>33
     DEF vars, placeVars, jobVars, TypeOK, PlaceInv, ReceiptInv, InSight,
         Entries
<1> QED
  BY <1>1, <1>2, <1>3, <1>4, <1>5, <1>6, <1>7, <1>8, <1>9, <1>10, <1>11,
     <1>12, <1>13, <1>14, <1>15, <1>16, <1>17, <1>18, <1>19, <1>20, <1>21,
     <1>22, <1>23, <1>24, <1>25, <1>26, <1>27, <1>28, <1>29, <1>30, <1>31,
     <1>32, <1>33
     DEF Next, LoopNext, SessionNext

\* When the preparation of follow-ups never throws, no receipt is orphaned.
LEMMA OrphanStep ==
    ASSUME "followUpFails" \notin Behaviours, TypeOK, PlaceInv, NoOrphanReceipt, [Next]_vars
    PROVE  NoOrphanReceipt'
<1>1. ASSUME NEW j \in Jobs, JobFinishes(j) PROVE NoOrphanReceipt'
  BY <1>1
     DEF JobFinishes, placeVars, TypeOK, PlaceInv, Settled, InSight,
         Survivors, NoOrphanReceipt
<1>2. ASSUME NEW j \in Jobs, SinkCalled(j) PROVE NoOrphanReceipt'
  BY <1>2
     DEF SinkCalled, placeVars, TypeOK, PlaceInv, Settled, InSight, Survivors,
         NoOrphanReceipt
<1>3. ASSUME NEW j \in Jobs, Formatted(j) PROVE NoOrphanReceipt'
  BY <1>3
     DEF Formatted, placeVars, Enqueue, TypeOK, PlaceInv, Settled, InSight,
         Survivors, NoOrphanReceipt
<1>4. ASSUME NEW j \in Jobs, SinkReturns(j) PROVE NoOrphanReceipt'
  BY <1>4
     DEF SinkReturns, placeVars, TypeOK, PlaceInv, Settled, InSight,
         Survivors, NoOrphanReceipt
<1>5. ASSUME NEW j \in Jobs, Snapshot(j) PROVE NoOrphanReceipt'
  BY <1>5
     DEF Snapshot, placeVars, TypeOK, PlaceInv, Settled, InSight, Survivors,
         NoOrphanReceipt
<1>6. ASSUME NEW x \in Exits, ExitArrives(x) PROVE NoOrphanReceipt'
  <2>1. CASE disposed # "no"
    BY <1>6, <2>1 DEF ExitArrives, TypeOK, NoOrphanReceipt, InSight, placeVars
  <2>2. CASE disposed = "no"
    BY <1>6, <2>2 DEF ExitArrives, TypeOK, NoOrphanReceipt, InSight
  <2> QED
    BY <2>1, <2>2
<1>7. CASE PromptBegins
  BY <1>7
     DEF PromptBegins, placeVars, TypeOK, PlaceInv, Settled, InSight,
         Survivors, NoOrphanReceipt
<1>8. CASE PromptRuns
  BY <1>8
     DEF PromptRuns, placeVars, TypeOK, PlaceInv, Settled, InSight, Survivors,
         NoOrphanReceipt
<1>9. CASE PromptDrops
  BY <1>9
     DEF PromptDrops, placeVars, TypeOK, PlaceInv, Settled, InSight,
         Survivors, NoOrphanReceipt
<1>10. CASE PromptReturns
  BY <1>10
     DEF PromptReturns, EndInFlight, placeVars, TypeOK, PlaceInv, Settled,
         InSight, Survivors, NoOrphanReceipt
<1>11. CASE FlushReturns
  BY <1>11
     DEF FlushReturns, EndInFlight, placeVars, TypeOK, PlaceInv, Settled,
         InSight, Survivors, NoOrphanReceipt
<1>12. CASE Commit
  BY <1>12
     DEF Commit, GoesOn, TypeOK, PlaceInv, Settled, InSight, Survivors,
         NoOrphanReceipt
<1>13. CASE DeadlineExpires
  BY <1>13
     DEF DeadlineExpires, LoopEnds, TypeOK, PlaceInv, Settled, InSight,
         Survivors, NoOrphanReceipt
<1>14. CASE MidPoll
  BY <1>14
     DEF MidPoll, Drain, GoesOn, TypeOK, PlaceInv, Settled, InSight,
         Survivors, NoOrphanReceipt
<1>15. CASE Polled
  BY <1>15
     DEF Polled, Resolve, GoesOn, TypeOK, PlaceInv, Settled, InSight,
         Survivors, NoOrphanReceipt
<1>16. CASE StopPoll
  BY <1>16
     DEF StopPoll, Drain, GoesOn, TypeOK, PlaceInv, Settled, InSight,
         Survivors, NoOrphanReceipt
<1>17. CASE StopPolled
  BY <1>17
     DEF StopPolled, Resolve, GoesOn, TypeOK, PlaceInv, Settled, InSight,
         Survivors, NoOrphanReceipt
<1>18. CASE FollowUps
  BY <1>18
     DEF FollowUps, GoesOn, TypeOK, PlaceInv, Settled, InSight, Survivors,
         NoOrphanReceipt
<1>19. CASE StopEnds
  <2>1. held = {} /\ held' = {} /\ pending = {} /\ pending' = {}
    BY <1>19 DEF StopEnds, LoopEnds, PlaceInv
  <2>2. receipt' = Settled({}, {}) /\ UNCHANGED <<queued, thunks>>
    BY <1>19, <2>1 DEF StopEnds, LoopEnds
  <2> QED
    BY <2>1, <2>2 DEF NoOrphanReceipt, InSight, Settled
<1>20. CASE ModelStops
  BY <1>20
     DEF ModelStops, LoopEnds, TypeOK, PlaceInv, Settled, InSight, Survivors,
         NoOrphanReceipt
<1>21. CASE TaskFires
  BY <1>21
     DEF TaskFires, FlushIdle, TypeOK, PlaceInv, Settled, InSight, Survivors,
         NoOrphanReceipt
<1>22. CASE SkipRuns
  BY <1>22
     DEF SkipRuns, placeVars, TypeOK, PlaceInv, Settled, InSight, Survivors,
         NoOrphanReceipt
<1>23. CASE AbortBegins("stop") \/ AbortBegins("new")
  BY <1>23
     DEF AbortBegins, placeVars, TypeOK, PlaceInv, Settled, InSight,
         Survivors, NoOrphanReceipt
<1>24. CASE AbortDrains
  BY <1>24
     DEF AbortDrains, AbortUnchanged, placeVars, TypeOK, PlaceInv, Settled,
         InSight, Survivors, NoOrphanReceipt
<1>25. CASE AbortCancels
  BY <1>25
     DEF AbortCancels, AbortUnchanged, placeVars, TypeOK, PlaceInv, Settled,
         InSight, Survivors, NoOrphanReceipt
<1>26. CASE AbortSettles
  BY <1>26
     DEF AbortSettles, AbortUnchanged, placeVars, TypeOK, PlaceInv, Settled,
         InSight, Survivors, NoOrphanReceipt
<1>27. CASE AbortEnds
  BY <1>27
     DEF AbortEnds, CancelOwnJobs, TypeOK, PlaceInv, Settled, InSight,
         Survivors, NoOrphanReceipt
<1>28. CASE SessionAdopted
  BY <1>28
     DEF SessionAdopted, placeVars, TypeOK, PlaceInv, Settled, InSight,
         Survivors, NoOrphanReceipt
<1>29. CASE ClearBegins
  BY <1>29
     DEF ClearBegins, placeVars, TypeOK, PlaceInv, Settled, InSight,
         Survivors, NoOrphanReceipt
<1>30. CASE ClearEnds
  BY <1>30
     DEF ClearEnds, CancelOwnJobs, TypeOK, PlaceInv, Settled, InSight,
         Survivors, NoOrphanReceipt
<1>31. CASE DisposeBegins
  BY <1>31
     DEF DisposeBegins, TypeOK, PlaceInv, Settled, InSight, Survivors,
         NoOrphanReceipt
<1>32. CASE DisposeAborts
  BY <1>32
     DEF DisposeAborts, placeVars, TypeOK, PlaceInv, Settled, InSight,
         Survivors, NoOrphanReceipt
<1>33. CASE UNCHANGED vars
  BY <1>33
     DEF vars, placeVars, TypeOK, PlaceInv, Settled, InSight, Survivors,
         NoOrphanReceipt
<1> QED
  BY <1>1, <1>2, <1>3, <1>4, <1>5, <1>6, <1>7, <1>8, <1>9, <1>10, <1>11,
     <1>12, <1>13, <1>14, <1>15, <1>16, <1>17, <1>18, <1>19, <1>20, <1>21,
     <1>22, <1>23, <1>24, <1>25, <1>26, <1>27, <1>28, <1>29, <1>30, <1>31,
     <1>32, <1>33
     DEF Next, LoopNext, SessionNext

-----------------------------------------------------------------------------
(* Type correctness, in four parts *)

FlagsOK ==
    /\ latch \in BOOLEAN /\ aborted \in BOOLEAN
    /\ prompt \in BOOLEAN /\ flushReturn \in BOOLEAN

NumbersOK ==
    /\ tasks \in 0 .. 1 /\ skips \in 0 .. 1
    /\ inFlight \in Nat /\ unwinding \in Nat
    /\ epoch \in 0 .. MaxEpoch /\ session \in 0 .. MaxEpoch

PlacesOK ==
    /\ queued \subseteq Entries /\ thunks \subseteq Entries
    /\ pending \subseteq Entries /\ held \subseteq Entries
    /\ suppressed \subseteq Jobs
    /\ loop \in {"off", "top", "model", "polling", "stopPolling", "stopping"}
    /\ runner \in {"none", "prompt", "flush"}
    /\ phase \in {"none", "aborting", "draining", "cancelling", "settling",
                  "switching", "clearing"}
    /\ goal \in {"stop", "new", "clear"}
    /\ disposed \in {"no", "begun", "aborted"}

FunctionsOK ==
    /\ receipt \in [Entries -> {"none", "pending", "resolved", "rejected"}]
    /\ call \in [Jobs -> {"none", "due", "formatting", "waiting", "done"}]
    /\ born \in [Jobs -> 0 .. MaxEpoch]
    /\ home \in [Entries -> 0 .. MaxEpoch]
    /\ told \in [Entries -> Nat]

LEMMA TypeParts == TypeOK <=> FlagsOK /\ NumbersOK /\ PlacesOK /\ FunctionsOK
BY DEF TypeOK, FlagsOK, NumbersOK, PlacesOK, FunctionsOK

\* The flags stay flags.
LEMMA FlagsStep ==
    ASSUME TypeOK, [Next]_vars
    PROVE  FlagsOK'
<1>1. ASSUME NEW j \in Jobs, JobFinishes(j) PROVE FlagsOK'
  BY <1>1
     DEF JobFinishes, flushVars, turnVars, TypeOK, FlagsOK
<1>2. ASSUME NEW j \in Jobs, SinkCalled(j) PROVE FlagsOK'
  BY <1>2
     DEF SinkCalled, flushVars, turnVars, TypeOK, FlagsOK
<1>3. ASSUME NEW j \in Jobs, Formatted(j) PROVE FlagsOK'
  BY <1>3
     DEF Formatted, flushVars, Enqueue, turnVars, Schedule, TypeOK, FlagsOK
<1>4. ASSUME NEW j \in Jobs, SinkReturns(j) PROVE FlagsOK'
  BY <1>4
     DEF SinkReturns, flushVars, turnVars, TypeOK, FlagsOK
<1>5. ASSUME NEW j \in Jobs, Snapshot(j) PROVE FlagsOK'
  BY <1>5
     DEF Snapshot, flushVars, turnVars, TypeOK, FlagsOK
<1>6. ASSUME NEW x \in Exits, ExitArrives(x) PROVE FlagsOK'
  BY <1>6
     DEF ExitArrives, flushVars, turnVars, Schedule, TypeOK, FlagsOK
<1>7. CASE PromptBegins
  BY <1>7
     DEF PromptBegins, flushVars, TypeOK, FlagsOK
<1>8. CASE PromptRuns
  BY <1>8
     DEF PromptRuns, flushVars, TypeOK, FlagsOK
<1>9. CASE PromptDrops
  BY <1>9
     DEF PromptDrops, flushVars, TypeOK, FlagsOK
<1>10. CASE PromptReturns
  BY <1>10
     DEF PromptReturns, EndInFlight, RequestIdleFlush, Schedule, TypeOK,
         FlagsOK
<1>11. CASE FlushReturns
  BY <1>11
     DEF FlushReturns, EndInFlight, RequestIdleFlush, Schedule, TypeOK,
         FlagsOK
<1>12. CASE Commit
  BY <1>12
     DEF Commit, GoesOn, LoopUnchanged, flushVars, TypeOK, FlagsOK
<1>13. CASE DeadlineExpires
  BY <1>13
     DEF DeadlineExpires, LoopEnds, LoopUnchanged, flushVars, TypeOK, FlagsOK
<1>14. CASE MidPoll
  BY <1>14
     DEF MidPoll, GoesOn, LoopUnchanged, flushVars, TypeOK, FlagsOK
<1>15. CASE Polled
  BY <1>15
     DEF Polled, GoesOn, LoopUnchanged, flushVars, TypeOK, FlagsOK
<1>16. CASE StopPoll
  BY <1>16
     DEF StopPoll, GoesOn, LoopUnchanged, flushVars, TypeOK, FlagsOK
<1>17. CASE StopPolled
  BY <1>17
     DEF StopPolled, GoesOn, LoopUnchanged, flushVars, TypeOK, FlagsOK
<1>18. CASE FollowUps
  BY <1>18
     DEF FollowUps, GoesOn, LoopUnchanged, flushVars, TypeOK, FlagsOK
<1>19. CASE StopEnds
  BY <1>19
     DEF StopEnds, LoopEnds, LoopUnchanged, flushVars, TypeOK, FlagsOK
<1>20. CASE ModelStops
  BY <1>20
     DEF ModelStops, LoopEnds, LoopUnchanged, flushVars, TypeOK, FlagsOK
<1>21. CASE TaskFires
  BY <1>21
     DEF TaskFires, FlushIdle, TypeOK, FlagsOK
<1>22. CASE SkipRuns
  BY <1>22
     DEF SkipRuns, turnVars, TypeOK, FlagsOK
<1>23. CASE AbortBegins("stop") \/ AbortBegins("new")
  BY <1>23
     DEF AbortBegins, CancelTasks, AbortTurn, TypeOK, FlagsOK
<1>24. CASE AbortDrains
  BY <1>24
     DEF AbortDrains, AbortUnchanged, turnVars, flushVars, TypeOK, FlagsOK
<1>25. CASE AbortCancels
  BY <1>25
     DEF AbortCancels, CancelTasks, AbortUnchanged, turnVars, TypeOK, FlagsOK
<1>26. CASE AbortSettles
  BY <1>26
     DEF AbortSettles, AbortUnchanged, turnVars, flushVars, TypeOK, FlagsOK
<1>27. CASE AbortEnds
  BY <1>27
     DEF AbortEnds, RequestIdleFlush, Schedule, TypeOK, FlagsOK
<1>28. CASE SessionAdopted
  BY <1>28
     DEF SessionAdopted, flushVars, turnVars, TypeOK, FlagsOK
<1>29. CASE ClearBegins
  BY <1>29
     DEF ClearBegins, CancelTasks, AbortTurn, TypeOK, FlagsOK
<1>30. CASE ClearEnds
  BY <1>30
     DEF ClearEnds, flushVars, turnVars, TypeOK, FlagsOK
<1>31. CASE DisposeBegins
  BY <1>31
     DEF DisposeBegins, turnVars, TypeOK, FlagsOK
<1>32. CASE DisposeAborts
  BY <1>32
     DEF DisposeAborts, CancelTasks, AbortTurn, TypeOK, FlagsOK
<1>33. CASE UNCHANGED vars
  BY <1>33
     DEF vars, flushVars, turnVars, TypeOK, FlagsOK
<1> QED
  BY <1>1, <1>2, <1>3, <1>4, <1>5, <1>6, <1>7, <1>8, <1>9, <1>10, <1>11,
     <1>12, <1>13, <1>14, <1>15, <1>16, <1>17, <1>18, <1>19, <1>20, <1>21,
     <1>22, <1>23, <1>24, <1>25, <1>26, <1>27, <1>28, <1>29, <1>30, <1>31,
     <1>32, <1>33
     DEF Next, LoopNext, SessionNext

\* The counters keep their ranges: at most one flush task, and the bounds.
LEMMA NumbersStep ==
    ASSUME TypeOK, FlushInv, PhaseInv, [Next]_vars
    PROVE  NumbersOK'
<1>1. ASSUME NEW j \in Jobs, JobFinishes(j) PROVE NumbersOK'
  BY <1>1
     DEF JobFinishes, flushVars, turnVars, sessionVars, TypeOK, NumbersOK,
         FlushInv, PhaseInv
<1>2. ASSUME NEW j \in Jobs, SinkCalled(j) PROVE NumbersOK'
  BY <1>2
     DEF SinkCalled, flushVars, turnVars, sessionVars, TypeOK, NumbersOK,
         FlushInv, PhaseInv
<1>3. ASSUME NEW j \in Jobs, Formatted(j) PROVE NumbersOK'
  BY <1>3
     DEF Formatted, Outdated, flushVars, Enqueue, Streaming, turnVars,
         sessionVars, Schedule, TypeOK, NumbersOK, FlushInv, PhaseInv
<1>4. ASSUME NEW j \in Jobs, SinkReturns(j) PROVE NumbersOK'
  BY <1>4
     DEF SinkReturns, flushVars, turnVars, sessionVars, TypeOK, NumbersOK,
         FlushInv, PhaseInv
<1>5. ASSUME NEW j \in Jobs, Snapshot(j) PROVE NumbersOK'
  BY <1>5
     DEF Snapshot, flushVars, turnVars, sessionVars, TypeOK, NumbersOK,
         FlushInv, PhaseInv
<1>6. ASSUME NEW x \in Exits, ExitArrives(x) PROVE NumbersOK'
  BY <1>6
     DEF ExitArrives, flushVars, turnVars, sessionVars, Schedule, TypeOK,
         NumbersOK, FlushInv, PhaseInv
<1>7. CASE PromptBegins
  BY <1>7
     DEF PromptBegins, Streaming, flushVars, sessionVars, TypeOK, NumbersOK,
         FlushInv, PhaseInv
<1>8. CASE PromptRuns
  BY <1>8
     DEF PromptRuns, flushVars, sessionVars, TypeOK, NumbersOK, FlushInv,
         PhaseInv
<1>9. CASE PromptDrops
  BY <1>9
     DEF PromptDrops, flushVars, sessionVars, TypeOK, NumbersOK, FlushInv,
         PhaseInv
<1>10. CASE PromptReturns
  BY <1>10
     DEF PromptReturns, EndInFlight, RequestIdleFlush, sessionVars, Schedule,
         TypeOK, NumbersOK, FlushInv, PhaseInv
<1>11. CASE FlushReturns
  BY <1>11
     DEF FlushReturns, EndInFlight, RequestIdleFlush, sessionVars, Schedule,
         TypeOK, NumbersOK, FlushInv, PhaseInv
<1>12. CASE Commit
  BY <1>12
     DEF Commit, GoesOn, LoopUnchanged, flushVars, sessionVars, TypeOK,
         NumbersOK, FlushInv, PhaseInv
<1>13. CASE DeadlineExpires
  BY <1>13
     DEF DeadlineExpires, LoopEnds, LoopUnchanged, flushVars, sessionVars,
         TypeOK, NumbersOK, FlushInv, PhaseInv
<1>14. CASE MidPoll
  BY <1>14
     DEF MidPoll, GoesOn, LoopUnchanged, flushVars, sessionVars, TypeOK,
         NumbersOK, FlushInv, PhaseInv
<1>15. CASE Polled
  BY <1>15
     DEF Polled, GoesOn, LoopUnchanged, flushVars, sessionVars, TypeOK,
         NumbersOK, FlushInv, PhaseInv
<1>16. CASE StopPoll
  BY <1>16
     DEF StopPoll, GoesOn, LoopUnchanged, flushVars, sessionVars, TypeOK,
         NumbersOK, FlushInv, PhaseInv
<1>17. CASE StopPolled
  BY <1>17
     DEF StopPolled, GoesOn, LoopUnchanged, flushVars, sessionVars, TypeOK,
         NumbersOK, FlushInv, PhaseInv
<1>18. CASE FollowUps
  BY <1>18
     DEF FollowUps, GoesOn, LoopUnchanged, flushVars, sessionVars, TypeOK,
         NumbersOK, FlushInv, PhaseInv
<1>19. CASE StopEnds
  BY <1>19
     DEF StopEnds, LoopEnds, LoopUnchanged, flushVars, sessionVars, TypeOK,
         NumbersOK, FlushInv, PhaseInv
<1>20. CASE ModelStops
  BY <1>20
     DEF ModelStops, LoopEnds, LoopUnchanged, flushVars, sessionVars, TypeOK,
         NumbersOK, FlushInv, PhaseInv
<1>21. CASE TaskFires
  BY <1>21
     DEF TaskFires, Streaming, FlushIdle, sessionVars, TypeOK, NumbersOK,
         FlushInv, PhaseInv
<1>22. CASE SkipRuns
  BY <1>22
     DEF SkipRuns, turnVars, sessionVars, TypeOK, NumbersOK, FlushInv,
         PhaseInv
<1>23. CASE AbortBegins("stop") \/ AbortBegins("new")
  <2>1. CancelTasks /\ AbortTurn /\ UNCHANGED <<epoch, session>>
    BY <1>23 DEF AbortBegins
  <2> QED
    BY <2>1 DEF CancelTasks, AbortTurn, TypeOK, NumbersOK, FlushInv
<1>24. CASE AbortDrains
  BY <1>24
     DEF AbortDrains, AbortUnchanged, turnVars, flushVars, TypeOK, NumbersOK,
         FlushInv, PhaseInv
<1>25. CASE AbortCancels
  BY <1>25
     DEF AbortCancels, CancelTasks, AbortUnchanged, turnVars, TypeOK,
         NumbersOK, FlushInv, PhaseInv
<1>26. CASE AbortSettles
  BY <1>26
     DEF AbortSettles, AbortUnchanged, turnVars, flushVars, TypeOK, NumbersOK,
         FlushInv, PhaseInv
<1>27. CASE AbortEnds
  <2>1. tasks' \in 0 .. 1 /\ skips' \in 0 .. 1
    BY <1>27, FlushStep DEF AbortEnds, RequestIdleFlush, Schedule, FlushInv, TypeOK
  <2>2. epoch' \in 0 .. MaxEpoch
    <3>1. goal = "new" => epoch < MaxEpoch
      BY <1>27 DEF AbortEnds, PhaseInv
    <3> QED
      BY <1>27, <3>1, BoundAssumption DEF AbortEnds, CancelOwnJobs, TypeOK
  <2> QED
    BY <1>27, <2>1, <2>2 DEF AbortEnds, TypeOK, NumbersOK
<1>28. CASE SessionAdopted
  <2>1. session < epoch /\ session' = session + 1
    BY <1>28 DEF SessionAdopted, PhaseInv
  <2>2. session' \in 0 .. MaxEpoch
    BY <2>1, BoundAssumption DEF TypeOK
  <2> QED
    BY <1>28, <2>2 DEF SessionAdopted, TypeOK, NumbersOK, flushVars, turnVars
<1>29. CASE ClearBegins
  BY <1>29
     DEF ClearBegins, Streaming, CancelTasks, AbortTurn, TypeOK, NumbersOK,
         FlushInv, PhaseInv
<1>30. CASE ClearEnds
  <2>1. epoch < MaxEpoch /\ epoch' = epoch + 1
    BY <1>30 DEF ClearEnds, CancelOwnJobs, PhaseInv
  <2>2. epoch' \in 0 .. MaxEpoch
    BY <2>1, BoundAssumption DEF TypeOK
  <2> QED
    BY <1>30, <2>2 DEF ClearEnds, TypeOK, NumbersOK, flushVars, turnVars
<1>31. CASE DisposeBegins
  BY <1>31
     DEF DisposeBegins, turnVars, TypeOK, NumbersOK, FlushInv, PhaseInv
<1>32. CASE DisposeAborts
  BY <1>32
     DEF DisposeAborts, CancelTasks, AbortTurn, TypeOK, NumbersOK, FlushInv,
         PhaseInv
<1>33. CASE UNCHANGED vars
  BY <1>33
     DEF vars, flushVars, turnVars, sessionVars, TypeOK, NumbersOK, FlushInv,
         PhaseInv
<1> QED
  BY <1>1, <1>2, <1>3, <1>4, <1>5, <1>6, <1>7, <1>8, <1>9, <1>10, <1>11,
     <1>12, <1>13, <1>14, <1>15, <1>16, <1>17, <1>18, <1>19, <1>20, <1>21,
     <1>22, <1>23, <1>24, <1>25, <1>26, <1>27, <1>28, <1>29, <1>30, <1>31,
     <1>32, <1>33
     DEF Next, LoopNext, SessionNext

\* Entries stay entries, and the states of the machines their states.
LEMMA PlacesStep ==
    ASSUME TypeOK, [Next]_vars
    PROVE  PlacesOK'
<1>1. ASSUME NEW j \in Jobs, JobFinishes(j) PROVE PlacesOK'
  BY <1>1
     DEF JobFinishes, placeVars, turnVars, sessionVars, TypeOK, PlacesOK,
         Entries
<1>2. ASSUME NEW j \in Jobs, SinkCalled(j) PROVE PlacesOK'
  BY <1>2
     DEF SinkCalled, placeVars, turnVars, sessionVars, TypeOK, PlacesOK,
         Entries
<1>3. ASSUME NEW j \in Jobs, Formatted(j) PROVE PlacesOK'
  BY <1>3
     DEF Formatted, placeVars, Enqueue, turnVars, sessionVars, TypeOK,
         PlacesOK, Entries
<1>4. ASSUME NEW j \in Jobs, SinkReturns(j) PROVE PlacesOK'
  BY <1>4
     DEF SinkReturns, placeVars, turnVars, sessionVars, TypeOK, PlacesOK,
         Entries
<1>5. ASSUME NEW j \in Jobs, Snapshot(j) PROVE PlacesOK'
  BY <1>5
     DEF Snapshot, placeVars, turnVars, sessionVars, TypeOK, PlacesOK, Entries
<1>6. ASSUME NEW x \in Exits, ExitArrives(x) PROVE PlacesOK'
  <2>1. x \in Entries /\ queued' \subseteq queued \union {x}
        /\ UNCHANGED <<thunks, pending, held>>
    BY <1>6 DEF ExitArrives, Entries, placeVars
  <2> QED
    BY <1>6, <2>1 DEF ExitArrives, TypeOK, PlacesOK, jobVars, turnVars, sessionVars
<1>7. CASE PromptBegins
  BY <1>7
     DEF PromptBegins, placeVars, jobVars, sessionVars, TypeOK, PlacesOK,
         Entries
<1>8. CASE PromptRuns
  BY <1>8
     DEF PromptRuns, placeVars, jobVars, sessionVars, TypeOK, PlacesOK,
         Entries
<1>9. CASE PromptDrops
  BY <1>9
     DEF PromptDrops, placeVars, jobVars, sessionVars, TypeOK, PlacesOK,
         Entries
<1>10. CASE PromptReturns
  BY <1>10
     DEF PromptReturns, EndInFlight, placeVars, jobVars, sessionVars, TypeOK,
         PlacesOK, Entries
<1>11. CASE FlushReturns
  BY <1>11
     DEF FlushReturns, EndInFlight, placeVars, jobVars, sessionVars, TypeOK,
         PlacesOK, Entries
<1>12. CASE Commit
  BY <1>12
     DEF Commit, GoesOn, LoopUnchanged, jobVars, sessionVars, TypeOK,
         PlacesOK, Entries
<1>13. CASE DeadlineExpires
  BY <1>13
     DEF DeadlineExpires, LoopEnds, LoopUnchanged, jobVars, sessionVars,
         TypeOK, PlacesOK, Entries
<1>14. CASE MidPoll
  BY <1>14
     DEF MidPoll, Drain, GoesOn, LoopUnchanged, jobVars, sessionVars, TypeOK,
         PlacesOK, Entries
<1>15. CASE Polled
  BY <1>15
     DEF Polled, Resolve, Survivors, GoesOn, LoopUnchanged, jobVars,
         sessionVars, TypeOK, PlacesOK, Entries
<1>16. CASE StopPoll
  BY <1>16
     DEF StopPoll, Drain, GoesOn, LoopUnchanged, jobVars, sessionVars, TypeOK,
         PlacesOK, Entries
<1>17. CASE StopPolled
  BY <1>17
     DEF StopPolled, Resolve, Survivors, GoesOn, LoopUnchanged, jobVars,
         sessionVars, TypeOK, PlacesOK, Entries
<1>18. CASE FollowUps
  BY <1>18
     DEF FollowUps, GoesOn, LoopUnchanged, jobVars, sessionVars, TypeOK,
         PlacesOK, Entries
<1>19. CASE StopEnds
  BY <1>19
     DEF StopEnds, LoopEnds, LoopUnchanged, jobVars, sessionVars, TypeOK,
         PlacesOK, Entries
<1>20. CASE ModelStops
  BY <1>20
     DEF ModelStops, LoopEnds, LoopUnchanged, jobVars, sessionVars, TypeOK,
         PlacesOK, Entries
<1>21. CASE TaskFires
  BY <1>21
     DEF TaskFires, FlushIdle, jobVars, sessionVars, TypeOK, PlacesOK, Entries
<1>22. CASE SkipRuns
  BY <1>22
     DEF SkipRuns, placeVars, jobVars, turnVars, sessionVars, TypeOK,
         PlacesOK, Entries
<1>23. CASE AbortBegins("stop") \/ AbortBegins("new")
  BY <1>23
     DEF AbortBegins, AbortTurn, placeVars, jobVars, TypeOK, PlacesOK, Entries
<1>24. CASE AbortDrains
  BY <1>24
     DEF AbortDrains, AbortUnchanged, placeVars, jobVars, turnVars, TypeOK,
         PlacesOK, Entries
<1>25. CASE AbortCancels
  BY <1>25
     DEF AbortCancels, AbortUnchanged, placeVars, jobVars, turnVars, TypeOK,
         PlacesOK, Entries
<1>26. CASE AbortSettles
  BY <1>26
     DEF AbortSettles, AbortUnchanged, placeVars, jobVars, turnVars, TypeOK,
         PlacesOK, Entries
<1>27. CASE AbortEnds
  BY <1>27
     DEF AbortEnds, CancelOwnJobs, jobVars, TypeOK, PlacesOK, Entries
<1>28. CASE SessionAdopted
  BY <1>28
     DEF SessionAdopted, placeVars, jobVars, turnVars, TypeOK, PlacesOK,
         Entries
<1>29. CASE ClearBegins
  BY <1>29
     DEF ClearBegins, AbortTurn, placeVars, jobVars, TypeOK, PlacesOK, Entries
<1>30. CASE ClearEnds
  BY <1>30
     DEF ClearEnds, CancelOwnJobs, jobVars, turnVars, TypeOK, PlacesOK,
         Entries
<1>31. CASE DisposeBegins
  BY <1>31
     DEF DisposeBegins, jobVars, turnVars, TypeOK, PlacesOK, Entries
<1>32. CASE DisposeAborts
  BY <1>32
     DEF DisposeAborts, AbortTurn, placeVars, jobVars, TypeOK, PlacesOK,
         Entries
<1>33. CASE UNCHANGED vars
  BY <1>33
     DEF vars, placeVars, jobVars, turnVars, sessionVars, TypeOK, PlacesOK,
         Entries
<1> QED
  BY <1>1, <1>2, <1>3, <1>4, <1>5, <1>6, <1>7, <1>8, <1>9, <1>10, <1>11,
     <1>12, <1>13, <1>14, <1>15, <1>16, <1>17, <1>18, <1>19, <1>20, <1>21,
     <1>22, <1>23, <1>24, <1>25, <1>26, <1>27, <1>28, <1>29, <1>30, <1>31,
     <1>32, <1>33
     DEF Next, LoopNext, SessionNext

LEMMA SettledType ==
    ASSUME TypeOK, NEW A, NEW B
    PROVE  Settled(A, B) \in [Entries -> {"none", "pending", "resolved", "rejected"}]
BY DEF TypeOK, Settled

LEMMA InjectedType ==
    ASSUME TypeOK, NEW A
    PROVE  Injected(A) \in [Entries -> Nat]
BY DEF TypeOK, Injected

\* Receipts, deliveries and counts keep their types.
LEMMA FunctionsStep ==
    ASSUME TypeOK, [Next]_vars
    PROVE  FunctionsOK'
<1>1. ASSUME NEW j \in Jobs, JobFinishes(j) PROVE FunctionsOK'
  BY <1>1, SettledType, InjectedType
     DEF JobFinishes, TypeOK, FunctionsOK, Entries
<1>2. ASSUME NEW j \in Jobs, SinkCalled(j) PROVE FunctionsOK'
  BY <1>2, SettledType, InjectedType
     DEF SinkCalled, TypeOK, FunctionsOK, Entries
<1>3. ASSUME NEW j \in Jobs, Formatted(j) PROVE FunctionsOK'
  BY <1>3, SettledType, InjectedType
     DEF Formatted, Enqueue, TypeOK, FunctionsOK, Entries
<1>4. ASSUME NEW j \in Jobs, SinkReturns(j) PROVE FunctionsOK'
  BY <1>4, SettledType, InjectedType
     DEF SinkReturns, TypeOK, FunctionsOK, Entries
<1>5. ASSUME NEW j \in Jobs, Snapshot(j) PROVE FunctionsOK'
  BY <1>5, SettledType, InjectedType
     DEF Snapshot, TypeOK, FunctionsOK, Entries
<1>6. ASSUME NEW x \in Exits, ExitArrives(x) PROVE FunctionsOK'
  <2>1. x \in Entries
    BY DEF Entries
  <2>2. receipt' \in [Entries -> {"none", "pending", "resolved", "rejected"}]
    BY <1>6, <2>1 DEF ExitArrives, TypeOK
  <2>3. home' \in [Entries -> 0 .. MaxEpoch]
    BY <1>6, <2>1, BoundAssumption DEF ExitArrives, TypeOK
  <2> QED
    BY <1>6, <2>2, <2>3 DEF ExitArrives, TypeOK, FunctionsOK, jobVars
<1>7. CASE PromptBegins
  BY <1>7, SettledType, InjectedType
     DEF PromptBegins, jobVars, TypeOK, FunctionsOK, Entries
<1>8. CASE PromptRuns
  BY <1>8, SettledType, InjectedType
     DEF PromptRuns, jobVars, TypeOK, FunctionsOK, Entries
<1>9. CASE PromptDrops
  BY <1>9, SettledType, InjectedType
     DEF PromptDrops, jobVars, TypeOK, FunctionsOK, Entries
<1>10. CASE PromptReturns
  BY <1>10, SettledType, InjectedType
     DEF PromptReturns, EndInFlight, jobVars, TypeOK, FunctionsOK, Entries
<1>11. CASE FlushReturns
  BY <1>11, SettledType, InjectedType
     DEF FlushReturns, EndInFlight, jobVars, TypeOK, FunctionsOK, Entries
<1>12. CASE Commit
  BY <1>12, SettledType, InjectedType
     DEF Commit, GoesOn, LoopUnchanged, jobVars, TypeOK, FunctionsOK, Entries
<1>13. CASE DeadlineExpires
  BY <1>13, SettledType, InjectedType
     DEF DeadlineExpires, LoopEnds, LoopUnchanged, jobVars, TypeOK,
         FunctionsOK, Entries
<1>14. CASE MidPoll
  BY <1>14, SettledType, InjectedType
     DEF MidPoll, Drain, GoesOn, LoopUnchanged, jobVars, TypeOK, FunctionsOK,
         Entries
<1>15. CASE Polled
  BY <1>15, SettledType, InjectedType
     DEF Polled, Resolve, GoesOn, LoopUnchanged, jobVars, TypeOK, FunctionsOK,
         Entries
<1>16. CASE StopPoll
  BY <1>16, SettledType, InjectedType
     DEF StopPoll, Drain, GoesOn, LoopUnchanged, jobVars, TypeOK, FunctionsOK,
         Entries
<1>17. CASE StopPolled
  BY <1>17, SettledType, InjectedType
     DEF StopPolled, Resolve, GoesOn, LoopUnchanged, jobVars, TypeOK,
         FunctionsOK, Entries
<1>18. CASE FollowUps
  BY <1>18, SettledType, InjectedType
     DEF FollowUps, GoesOn, LoopUnchanged, jobVars, TypeOK, FunctionsOK,
         Entries
<1>19. CASE StopEnds
  BY <1>19, SettledType, InjectedType
     DEF StopEnds, LoopEnds, LoopUnchanged, jobVars, TypeOK, FunctionsOK,
         Entries
<1>20. CASE ModelStops
  BY <1>20, SettledType, InjectedType
     DEF ModelStops, LoopEnds, LoopUnchanged, jobVars, TypeOK, FunctionsOK,
         Entries
<1>21. CASE TaskFires
  BY <1>21, SettledType, InjectedType
     DEF TaskFires, FlushIdle, jobVars, TypeOK, FunctionsOK, Entries
<1>22. CASE SkipRuns
  BY <1>22, SettledType, InjectedType
     DEF SkipRuns, jobVars, TypeOK, FunctionsOK, Entries
<1>23. CASE AbortBegins("stop") \/ AbortBegins("new")
  BY <1>23, SettledType, InjectedType
     DEF AbortBegins, jobVars, TypeOK, FunctionsOK, Entries
<1>24. CASE AbortDrains
  BY <1>24, SettledType, InjectedType
     DEF AbortDrains, AbortUnchanged, jobVars, TypeOK, FunctionsOK, Entries
<1>25. CASE AbortCancels
  BY <1>25, SettledType, InjectedType
     DEF AbortCancels, AbortUnchanged, jobVars, TypeOK, FunctionsOK, Entries
<1>26. CASE AbortSettles
  BY <1>26, SettledType, InjectedType
     DEF AbortSettles, AbortUnchanged, jobVars, TypeOK, FunctionsOK, Entries
<1>27. CASE AbortEnds
  BY <1>27, SettledType, InjectedType
     DEF AbortEnds, CancelOwnJobs, jobVars, TypeOK, FunctionsOK, Entries
<1>28. CASE SessionAdopted
  BY <1>28, SettledType, InjectedType
     DEF SessionAdopted, jobVars, TypeOK, FunctionsOK, Entries
<1>29. CASE ClearBegins
  BY <1>29, SettledType, InjectedType
     DEF ClearBegins, jobVars, TypeOK, FunctionsOK, Entries
<1>30. CASE ClearEnds
  BY <1>30, SettledType, InjectedType
     DEF ClearEnds, CancelOwnJobs, jobVars, TypeOK, FunctionsOK, Entries
<1>31. CASE DisposeBegins
  BY <1>31, SettledType, InjectedType
     DEF DisposeBegins, jobVars, TypeOK, FunctionsOK, Entries
<1>32. CASE DisposeAborts
  BY <1>32, SettledType, InjectedType
     DEF DisposeAborts, jobVars, TypeOK, FunctionsOK, Entries
<1>33. CASE UNCHANGED vars
  BY <1>33, SettledType, InjectedType
     DEF vars, jobVars, TypeOK, FunctionsOK, Entries
<1> QED
  BY <1>1, <1>2, <1>3, <1>4, <1>5, <1>6, <1>7, <1>8, <1>9, <1>10, <1>11,
     <1>12, <1>13, <1>14, <1>15, <1>16, <1>17, <1>18, <1>19, <1>20, <1>21,
     <1>22, <1>23, <1>24, <1>25, <1>26, <1>27, <1>28, <1>29, <1>30, <1>31,
     <1>32, <1>33
     DEF Next, LoopNext, SessionNext

LEMMA TypeStep ==
    ASSUME TypeOK, FlushInv, PhaseInv, [Next]_vars
    PROVE  TypeOK'
<1>1. FlagsOK' /\ NumbersOK' /\ PlacesOK' /\ FunctionsOK'
  BY FlagsStep, NumbersStep, PlacesStep, FunctionsStep
<1> QED
  BY <1>1 DEF TypeOK, FlagsOK, NumbersOK, PlacesOK, FunctionsOK

-----------------------------------------------------------------------------
(* The theorems *)

LEMMA InitInvariant == Init => TypeOK /\ QueueInv
<1> SUFFICES ASSUME Init
             PROVE  TypeOK /\ QueueInv
  OBVIOUS
<1>1. TypeOK
  <2>1. FlagsOK
    BY DEF Init, FlagsOK
  <2>2. NumbersOK
    BY BoundAssumption DEF Init, NumbersOK
  <2>3. PlacesOK
    BY DEF Init, PlacesOK
  <2>4. FunctionsOK
    BY BoundAssumption DEF Init, FunctionsOK
  <2> QED
    BY <2>1, <2>2, <2>3, <2>4, TypeParts
<1>2. PlaceInv /\ FlushInv /\ PhaseInv /\ WakeInv
  BY BoundAssumption DEF Init, PlaceInv, FlushInv, PhaseInv, WakeInv
<1>3. ReceiptInv
  BY DEF Init, ReceiptInv, InSight, Entries
<1> QED
  BY <1>1, <1>2, <1>3 DEF QueueInv

LEMMA NextInvariant ==
    ASSUME TypeOK, QueueInv, [Next]_vars
    PROVE  TypeOK' /\ QueueInv'
<1>1. PlaceInv /\ FlushInv /\ PhaseInv /\ WakeInv /\ ReceiptInv
  BY DEF QueueInv
<1> QED
  BY <1>1, TypeStep, PlaceStep, FlushStep, PhaseStep, WakeStep, ReceiptStep DEF QueueInv

\* Every variable keeps its type, whatever the results, the exits, the bounds
\* and the behaviours: at most one flush task is ever scheduled (the latch of
\* #scheduleIdleFlush), and no epoch is skipped.
THEOREM QueueTypeCorrect == Spec => []TypeOK
<1>1. TypeOK /\ QueueInv /\ [Next]_vars => (TypeOK /\ QueueInv)'
  BY NextInvariant
<1> QED
  BY <1>1, InitInvariant, PTL DEF Spec

\* The inductive invariant: an entry is in one place, the latch is the flush
\* task or the cancelled one, a disposed queue is empty, and receipts tell the
\* truth.
THEOREM QueueInvariant == Spec => []QueueInv
<1>1. TypeOK /\ QueueInv /\ [Next]_vars => (TypeOK /\ QueueInv)'
  BY NextInvariant
<1> QED
  BY <1>1, InitInvariant, PTL DEF Spec

\* A job's result is never left in the queue of an idle session without a flush
\* on its way, however enqueues, prompts, aborts, skipped tasks and session
\* changes interleave.
THEOREM NoLostWakeups == Spec => []NoLostWakeup
<1>1. QueueInv => NoLostWakeup
  BY DEF QueueInv, WakeInv, NoLostWakeup
<1> QED
  BY <1>1, QueueInvariant, PTL

\* As long as the preparation of follow-ups does not throw, every pending
\* receipt belongs to an entry that some step can still settle: no delivery
\* waits for a receipt nobody holds.
THEOREM NoOrphanReceipts ==
    "followUpFails" \notin Behaviours => (Spec => []NoOrphanReceipt)
<1> SUFFICES ASSUME "followUpFails" \notin Behaviours
             PROVE  Spec => []NoOrphanReceipt
  OBVIOUS
<1>1. Init => NoOrphanReceipt
  BY DEF Init, NoOrphanReceipt
<1>2. TypeOK /\ QueueInv /\ NoOrphanReceipt /\ [Next]_vars => NoOrphanReceipt'
  BY OrphanStep DEF QueueInv
<1> QED
  BY <1>1, <1>2, QueueTypeCorrect, QueueInvariant, PTL DEF Spec


-----------------------------------------------------------------------------
(* The refinement: what a step does to the receipts *)

\* Only a pending receipt changes, and it settles.
Settling ==
    \A e \in Entries :
        \/ receipt'[e] = receipt[e]
        \/ receipt[e] = "pending" /\ receipt'[e] \in {"resolved", "rejected"}

\* A new or returned entry is submitted.
Submitting ==
    \E e \in Entries : /\ receipt[e] \in {"none", "rejected"}
                       /\ receipt' = [receipt EXCEPT ![e] = "pending"]

\* A new entry is handed back at once.
Refusing ==
    \E e \in Entries : /\ receipt[e] = "none"
                       /\ receipt' = [receipt EXCEPT ![e] = "rejected"]

ReceiptMove == Settling \/ Submitting \/ Refusing

LEMMA SettledSettles ==
    ASSUME TypeOK, NEW A, NEW B, receipt' = Settled(A, B)
    PROVE  ReceiptMove
BY DEF TypeOK, Settled, Settling, ReceiptMove

LEMMA SameReceipts ==
    ASSUME UNCHANGED receipt
    PROVE  ReceiptMove
BY DEF Settling, ReceiptMove

\* Every step settles pending receipts, submits one entry or refuses one.
LEMMA ReceiptMoves ==
    ASSUME TypeOK, ReceiptInv, [Next]_vars
    PROVE  ReceiptMove
<1>1. ASSUME NEW j \in Jobs, JobFinishes(j) PROVE ReceiptMove
  BY <1>1, SameReceipts DEF JobFinishes
<1>2. ASSUME NEW j \in Jobs, SinkCalled(j) PROVE ReceiptMove
  BY <1>2, SameReceipts DEF SinkCalled
<1>3. ASSUME NEW j \in Jobs, Formatted(j) PROVE ReceiptMove
  <2>1. CASE Outdated(j)
    BY <1>3, <2>1, SameReceipts DEF Formatted
  <2>2. CASE ~Outdated(j)
    <3>1. j \in Entries /\ receipt[j] \in {"none", "rejected"}
      BY <1>3 DEF Formatted, ReceiptInv, Entries
    <3> QED
      BY <1>3, <2>2, <3>1 DEF Formatted, Enqueue, Submitting, ReceiptMove
  <2> QED
    BY <2>1, <2>2
<1>4. ASSUME NEW j \in Jobs, SinkReturns(j) PROVE ReceiptMove
  BY <1>4, SameReceipts DEF SinkReturns
<1>5. ASSUME NEW j \in Jobs, Snapshot(j) PROVE ReceiptMove
  BY <1>5, SameReceipts DEF Snapshot
<1>6. ASSUME NEW x \in Exits, ExitArrives(x) PROVE ReceiptMove
  <2>1. x \in Entries
    BY DEF Entries
  <2> QED
    BY <1>6, <2>1 DEF ExitArrives, Submitting, Refusing, ReceiptMove
<1>7. CASE PromptBegins
  BY <1>7, SameReceipts DEF PromptBegins
<1>8. CASE PromptRuns
  BY <1>8, SameReceipts DEF PromptRuns
<1>9. CASE PromptDrops
  BY <1>9, SameReceipts DEF PromptDrops
<1>10. CASE PromptReturns
  BY <1>10, SameReceipts DEF PromptReturns, EndInFlight
<1>11. CASE FlushReturns
  BY <1>11, SameReceipts DEF FlushReturns, EndInFlight
<1>12. CASE Commit
  BY <1>12, SettledSettles DEF Commit
<1>13. CASE DeadlineExpires
  BY <1>13, SettledSettles DEF DeadlineExpires, LoopEnds
<1>14. CASE MidPoll
  BY <1>14, SameReceipts DEF MidPoll, Drain
<1>15. CASE Polled
  BY <1>15, SettledSettles DEF Polled, Resolve
<1>16. CASE StopPoll
  BY <1>16, SameReceipts DEF StopPoll, Drain
<1>17. CASE StopPolled
  BY <1>17, SettledSettles DEF StopPolled, Resolve
<1>18. CASE FollowUps
  BY <1>18, SameReceipts DEF FollowUps
<1>19. CASE StopEnds
  BY <1>19, SettledSettles DEF StopEnds, LoopEnds
<1>20. CASE ModelStops
  BY <1>20, SettledSettles DEF ModelStops, LoopEnds
<1>21. CASE TaskFires
  BY <1>21, SettledSettles, SameReceipts DEF TaskFires, FlushIdle
<1>22. CASE SkipRuns
  BY <1>22, SameReceipts DEF SkipRuns
<1>23. CASE AbortBegins("stop") \/ AbortBegins("new")
  BY <1>23, SameReceipts DEF AbortBegins
<1>24. CASE AbortDrains
  BY <1>24, SameReceipts DEF AbortDrains, AbortUnchanged
<1>25. CASE AbortCancels
  BY <1>25, SameReceipts DEF AbortCancels, AbortUnchanged
<1>26. CASE AbortSettles
  BY <1>26, SameReceipts DEF AbortSettles, AbortUnchanged
<1>27. CASE AbortEnds
  BY <1>27, SettledSettles, SameReceipts DEF AbortEnds, CancelOwnJobs
<1>28. CASE SessionAdopted
  BY <1>28, SameReceipts DEF SessionAdopted
<1>29. CASE ClearBegins
  BY <1>29, SameReceipts DEF ClearBegins
<1>30. CASE ClearEnds
  BY <1>30, SettledSettles DEF ClearEnds, CancelOwnJobs
<1>31. CASE DisposeBegins
  BY <1>31, SettledSettles DEF DisposeBegins
<1>32. CASE DisposeAborts
  BY <1>32, SameReceipts DEF DisposeAborts
<1>33. CASE UNCHANGED vars
  BY <1>33, SameReceipts DEF vars
<1> QED
  BY <1>1, <1>2, <1>3, <1>4, <1>5, <1>6, <1>7, <1>8, <1>9, <1>10, <1>11,
     <1>12, <1>13, <1>14, <1>15, <1>16, <1>17, <1>18, <1>19, <1>20, <1>21,
     <1>22, <1>23, <1>24, <1>25, <1>26, <1>27, <1>28, <1>29, <1>30, <1>31,
     <1>32, <1>33
     DEF Next, LoopNext, SessionNext

-----------------------------------------------------------------------------
(* The refinement *)

fate_ == [e \in Entries |-> Fate(e)]

FateOf(r) ==
    IF r = "none" THEN "none" ELSE IF r = "pending" THEN "pending"
    ELSE IF r = "resolved" THEN "told" ELSE "returned"

\* While receipts tell the truth, the receipt alone is the fate.
LEMMA FateIsReceipt ==
    ASSUME TypeOK, ReceiptInv, NEW e \in Entries
    PROVE  Fate(e) = FateOf(receipt[e])
<1>1. receipt[e] \in {"none", "pending", "resolved", "rejected"}
  BY DEF TypeOK
<1>2. told[e] = IF receipt[e] = "resolved" THEN 1 ELSE 0
  BY DEF ReceiptInv
<1> QED
  BY <1>1, <1>2 DEF Fate, FateOf

LEMMA FatesAreReceipts ==
    ASSUME TypeOK, ReceiptInv
    PROVE  fate_ = [e \in Entries |-> FateOf(receipt[e])]
BY FateIsReceipt DEF fate_

LEMMA LedgerInit == Init => L!Init
BY DEF Init, L!Init, Fate

\* Every step of the queue and the loop is a step of the ledger or leaves it.
LEMMA LedgerStep ==
    ASSUME TypeOK, ReceiptInv, TypeOK', ReceiptInv', [Next]_vars
    PROVE  [L!Next]_fate_
<1> DEFINE old == [e \in Entries |-> FateOf(receipt[e])]
           new == [e \in Entries |-> FateOf(receipt'[e])]
<1>1. fate_ = old /\ fate_' = new
  <2>1. fate_ = old
    BY FatesAreReceipts
  <2>2. fate_' = new
    <3>1. \A e \in Entries : Fate(e)' = FateOf(receipt'[e])
      <4> SUFFICES ASSUME NEW e \in Entries
                   PROVE  Fate(e)' = FateOf(receipt'[e])
        OBVIOUS
      <4>1. receipt'[e] \in {"none", "pending", "resolved", "rejected"}
        BY DEF TypeOK
      <4>2. told'[e] = IF receipt'[e] = "resolved" THEN 1 ELSE 0
        BY DEF ReceiptInv
      <4> QED
        BY <4>1, <4>2 DEF Fate, FateOf
    <3> QED
      BY <3>1 DEF fate_
  <2> QED
    BY <2>1, <2>2
<1>2. receipt \in [Entries -> {"none", "pending", "resolved", "rejected"}]
  BY DEF TypeOK
<1>3. CASE Settling
  <2> DEFINE T == {e \in Entries : receipt[e] = "pending" /\ receipt'[e] = "resolved"}
             R == {e \in Entries : receipt[e] = "pending" /\ receipt'[e] = "rejected"}
  <2>1. \A i \in T \union R : fate_[i] = "pending"
    BY <1>1 DEF FateOf
  <2>2. new = [i \in Entries |-> IF i \in T THEN "told"
                                 ELSE IF i \in R THEN "returned" ELSE old[i]]
    BY <1>2, <1>3 DEF Settling, FateOf
  <2>3. L!Settle(T, R)
    BY <1>1, <2>1, <2>2 DEF L!Settle, fate_
  <2> QED
    BY <2>3 DEF L!Next
<1>4. CASE Submitting
  <2>1. PICK e \in Entries : /\ receipt[e] \in {"none", "rejected"}
                             /\ receipt' = [receipt EXCEPT ![e] = "pending"]
    BY <1>4 DEF Submitting
  <2>2. old[e] \in {"none", "returned"} /\ new = [old EXCEPT ![e] = "pending"]
    BY <1>2, <2>1 DEF FateOf
  <2>3. L!Submit(e)
    BY <1>1, <2>2 DEF L!Submit, fate_
  <2> QED
    BY <2>3 DEF L!Next
<1>5. CASE Refusing
  <2>1. PICK e \in Entries : /\ receipt[e] = "none"
                             /\ receipt' = [receipt EXCEPT ![e] = "rejected"]
    BY <1>5 DEF Refusing
  <2>2. old[e] = "none" /\ new = [old EXCEPT ![e] = "returned"]
    BY <1>2, <2>1 DEF FateOf
  <2>3. L!Refuse(e)
    BY <1>1, <2>2 DEF L!Refuse, fate_
  <2> QED
    BY <2>3 DEF L!Next
<1> QED
  BY <1>3, <1>4, <1>5, ReceiptMoves DEF ReceiptMove

\* The queue and the loop implement the ledger: an entry is told at most once,
\* its receipt resolves in the step that tells it, is rejected only when it was
\* not told, and only what came back is submitted again.
THEOREM LedgerImplemented == Spec => ImplementsLedger
<1>1. TypeOK /\ ReceiptInv /\ (TypeOK /\ ReceiptInv)' /\ [Next]_vars => [L!Next]_fate_
  BY LedgerStep
<1>2. QueueInv => ReceiptInv
  BY DEF QueueInv
<1> QED
  BY <1>1, <1>2, LedgerInit, QueueTypeCorrect, QueueInvariant, PTL
     DEF Spec, ImplementsLedger, L!Spec, fate_

-----------------------------------------------------------------------------
(* A result is seen once *)

\* Nothing that is about to enter the context has been consumed by a snapshot,
\* and what a snapshot has consumed never entered it.
SeenInv ==
    /\ (pending \union held) \intersect suppressed = {}
    /\ \A j \in suppressed : told[j] = 0

LEMMA SeenStep ==
    ASSUME TypeOK, PlaceInv, ReceiptInv, SeenInv, [Next]_vars
    PROVE  SeenInv'
<1>1. ASSUME NEW j \in Jobs, JobFinishes(j) PROVE SeenInv'
  BY <1>1
     DEF JobFinishes, placeVars, TypeOK, PlaceInv, SeenInv, Injected,
         Survivors, Stale, Entries
<1>2. ASSUME NEW j \in Jobs, SinkCalled(j) PROVE SeenInv'
  BY <1>2
     DEF SinkCalled, placeVars, TypeOK, PlaceInv, SeenInv, Injected,
         Survivors, Stale, Entries
<1>3. ASSUME NEW j \in Jobs, Formatted(j) PROVE SeenInv'
  BY <1>3
     DEF Formatted, placeVars, Enqueue, TypeOK, PlaceInv, SeenInv, Injected,
         Survivors, Stale, Entries
<1>4. ASSUME NEW j \in Jobs, SinkReturns(j) PROVE SeenInv'
  BY <1>4
     DEF SinkReturns, placeVars, TypeOK, PlaceInv, SeenInv, Injected,
         Survivors, Stale, Entries
<1>5. ASSUME NEW j \in Jobs, Snapshot(j) PROVE SeenInv'
  BY <1>5
     DEF Snapshot, placeVars, TypeOK, PlaceInv, SeenInv, Injected, Survivors,
         Stale, Entries
<1>6. ASSUME NEW x \in Exits, ExitArrives(x) PROVE SeenInv'
  BY <1>6
     DEF ExitArrives, placeVars, jobVars, TypeOK, PlaceInv, SeenInv, Injected,
         Survivors, Stale, Entries
<1>7. CASE PromptBegins
  BY <1>7
     DEF PromptBegins, placeVars, jobVars, TypeOK, PlaceInv, SeenInv,
         Injected, Survivors, Stale, Entries
<1>8. CASE PromptRuns
  BY <1>8
     DEF PromptRuns, placeVars, jobVars, TypeOK, PlaceInv, SeenInv, Injected,
         Survivors, Stale, Entries
<1>9. CASE PromptDrops
  BY <1>9
     DEF PromptDrops, placeVars, jobVars, TypeOK, PlaceInv, SeenInv, Injected,
         Survivors, Stale, Entries
<1>10. CASE PromptReturns
  BY <1>10
     DEF PromptReturns, EndInFlight, placeVars, jobVars, TypeOK, PlaceInv,
         SeenInv, Injected, Survivors, Stale, Entries
<1>11. CASE FlushReturns
  BY <1>11
     DEF FlushReturns, EndInFlight, placeVars, jobVars, TypeOK, PlaceInv,
         SeenInv, Injected, Survivors, Stale, Entries
<1>12. CASE Commit
  BY <1>12
     DEF Commit, GoesOn, LoopUnchanged, jobVars, TypeOK, PlaceInv, SeenInv,
         Injected, Survivors, Stale, Entries
<1>13. CASE DeadlineExpires
  BY <1>13
     DEF DeadlineExpires, LoopEnds, LoopUnchanged, jobVars, TypeOK, PlaceInv,
         SeenInv, Injected, Survivors, Stale, Entries
<1>14. CASE MidPoll
  BY <1>14
     DEF MidPoll, Drain, GoesOn, LoopUnchanged, jobVars, TypeOK, PlaceInv,
         SeenInv, Injected, Survivors, Stale, Entries
<1>15. CASE Polled
  BY <1>15
     DEF Polled, Resolve, GoesOn, LoopUnchanged, jobVars, TypeOK, PlaceInv,
         SeenInv, Injected, Survivors, Stale, Entries
<1>16. CASE StopPoll
  BY <1>16
     DEF StopPoll, Drain, GoesOn, LoopUnchanged, jobVars, TypeOK, PlaceInv,
         SeenInv, Injected, Survivors, Stale, Entries
<1>17. CASE StopPolled
  BY <1>17
     DEF StopPolled, Resolve, GoesOn, LoopUnchanged, jobVars, TypeOK,
         PlaceInv, SeenInv, Injected, Survivors, Stale, Entries
<1>18. CASE FollowUps
  BY <1>18
     DEF FollowUps, GoesOn, LoopUnchanged, jobVars, TypeOK, PlaceInv, SeenInv,
         Injected, Survivors, Stale, Entries
<1>19. CASE StopEnds
  BY <1>19
     DEF StopEnds, LoopEnds, LoopUnchanged, jobVars, TypeOK, PlaceInv,
         SeenInv, Injected, Survivors, Stale, Entries
<1>20. CASE ModelStops
  BY <1>20
     DEF ModelStops, LoopEnds, LoopUnchanged, jobVars, TypeOK, PlaceInv,
         SeenInv, Injected, Survivors, Stale, Entries
<1>21. CASE TaskFires
  BY <1>21
     DEF TaskFires, FlushIdle, jobVars, TypeOK, PlaceInv, SeenInv, Injected,
         Survivors, Stale, Entries
<1>22. CASE SkipRuns
  BY <1>22
     DEF SkipRuns, placeVars, jobVars, TypeOK, PlaceInv, SeenInv, Injected,
         Survivors, Stale, Entries
<1>23. CASE AbortBegins("stop") \/ AbortBegins("new")
  BY <1>23
     DEF AbortBegins, placeVars, jobVars, TypeOK, PlaceInv, SeenInv, Injected,
         Survivors, Stale, Entries
<1>24. CASE AbortDrains
  BY <1>24
     DEF AbortDrains, AbortUnchanged, placeVars, jobVars, TypeOK, PlaceInv,
         SeenInv, Injected, Survivors, Stale, Entries
<1>25. CASE AbortCancels
  BY <1>25
     DEF AbortCancels, AbortUnchanged, placeVars, jobVars, TypeOK, PlaceInv,
         SeenInv, Injected, Survivors, Stale, Entries
<1>26. CASE AbortSettles
  BY <1>26
     DEF AbortSettles, AbortUnchanged, placeVars, jobVars, TypeOK, PlaceInv,
         SeenInv, Injected, Survivors, Stale, Entries
<1>27. CASE AbortEnds
  BY <1>27
     DEF AbortEnds, CancelOwnJobs, jobVars, TypeOK, PlaceInv, SeenInv,
         Injected, Survivors, Stale, Entries
<1>28. CASE SessionAdopted
  BY <1>28
     DEF SessionAdopted, placeVars, jobVars, TypeOK, PlaceInv, SeenInv,
         Injected, Survivors, Stale, Entries
<1>29. CASE ClearBegins
  BY <1>29
     DEF ClearBegins, placeVars, jobVars, TypeOK, PlaceInv, SeenInv, Injected,
         Survivors, Stale, Entries
<1>30. CASE ClearEnds
  BY <1>30
     DEF ClearEnds, CancelOwnJobs, jobVars, TypeOK, PlaceInv, SeenInv,
         Injected, Survivors, Stale, Entries
<1>31. CASE DisposeBegins
  BY <1>31
     DEF DisposeBegins, jobVars, TypeOK, PlaceInv, SeenInv, Injected,
         Survivors, Stale, Entries
<1>32. CASE DisposeAborts
  BY <1>32
     DEF DisposeAborts, placeVars, jobVars, TypeOK, PlaceInv, SeenInv,
         Injected, Survivors, Stale, Entries
<1>33. CASE UNCHANGED vars
  BY <1>33
     DEF vars, placeVars, jobVars, TypeOK, PlaceInv, SeenInv, Injected,
         Survivors, Stale, Entries
<1> QED
  BY <1>1, <1>2, <1>3, <1>4, <1>5, <1>6, <1>7, <1>8, <1>9, <1>10, <1>11,
     <1>12, <1>13, <1>14, <1>15, <1>16, <1>17, <1>18, <1>19, <1>20, <1>21,
     <1>22, <1>23, <1>24, <1>25, <1>26, <1>27, <1>28, <1>29, <1>30, <1>31,
     <1>32, <1>33
     DEF Next, LoopNext, SessionNext

\* A job's result reaches the model as a follow-up or as what a tool returned,
\* never as both: a snapshot taken while the result is queued, drained or being
\* formatted keeps it out, and one taken after it was told does not count it.
THEOREM ResultSeenOnce == Spec => []SeenOnce
<1>1. Init => SeenInv
  BY DEF Init, SeenInv
<1>2. TypeOK /\ QueueInv /\ SeenInv /\ [Next]_vars => SeenInv'
  BY SeenStep DEF QueueInv
<1>3. TypeOK /\ QueueInv /\ SeenInv => SeenOnce
  BY DEF TypeOK, QueueInv, ReceiptInv, SeenInv, SeenOnce, Entries
<1> QED
  BY <1>1, <1>2, <1>3, QueueTypeCorrect, QueueInvariant, PTL DEF Spec

-----------------------------------------------------------------------------
(* Nothing crosses into the next conversation.  What the loop holds was built
   in the conversation that is current (HereInv), because the loop is off when
   that one is replaced (StillInv): the abort awaits the turn, and neither a
   prompt nor an idle flush begins another one meanwhile.  What is built is
   compared with the epoch at the call of the sink, and that is the epoch the
   job belongs to, for as long as the result is under way (CallInv). *)

\* From the end of its abort on, a /new or /clear has the session to itself.
StillInv ==
    /\ InTransition /\ phase # "aborting" => loop = "off"
    /\ InTransition => ~prompt

\* A result under way is of the conversation its sink was called in, and the
\* manager awaits the receipt of a queued one.
CallInv ==
    /\ \A j \in Jobs : call[j] \in {"formatting", "waiting"} => born[j] = home[j]
    /\ \A j \in Jobs : j \in InSight => call[j] = "waiting"

\* What the loop holds belongs here.
HereInv ==
    /\ \A j \in Jobs : j \in pending \union held => born[j] = epoch
    /\ \A x \in Exits : x \in pending \union held => home[x] = session

HomeInv == StillInv /\ CallInv /\ HereInv

LEMMA StillStep ==
    ASSUME PhaseInv, PlaceInv, StillInv, [Next]_vars,
           "flushInTransition" \notin Behaviours, "busyPrompt" \notin Behaviours
    PROVE  StillInv'
<1>1. CASE SessionNext
  <2>1. CASE AbortBegins("stop") \/ AbortBegins("new")
    BY <2>1 DEF AbortBegins, AbortTurn, StillInv, InTransition
  <2>2. CASE AbortDrains
    BY <2>2 DEF AbortDrains, AbortUnchanged, turnVars, StillInv, InTransition
  <2>3. CASE AbortCancels \/ AbortSettles
    BY <2>3 DEF AbortCancels, AbortSettles, AbortUnchanged, turnVars, StillInv,
                InTransition
  <2>4. CASE AbortEnds
    BY <2>4 DEF AbortEnds, StillInv, InTransition
  <2>5. CASE SessionAdopted \/ ClearEnds
    BY <2>5 DEF SessionAdopted, ClearEnds, StillInv, InTransition
  <2>6. CASE ClearBegins
    BY <2>6 DEF ClearBegins, AbortTurn, Streaming, StillInv, InTransition
  <2>7. CASE DisposeBegins
    BY <2>7 DEF DisposeBegins, turnVars, StillInv, InTransition
  <2>8. CASE DisposeAborts
    BY <2>8 DEF DisposeAborts, AbortTurn, StillInv, InTransition
  <2> QED
    BY <1>1, <2>1, <2>2, <2>3, <2>4, <2>5, <2>6, <2>7, <2>8 DEF SessionNext
<1>2. CASE UNCHANGED sessionVars
  <2>1. CASE PromptBegins
    BY <1>2, <2>1 DEF PromptBegins, PhaseInv, StillInv, InTransition, sessionVars
  <2>2. CASE PromptRuns
    BY <1>2, <2>2 DEF PromptRuns, StillInv, InTransition, sessionVars
  <2>3. CASE LoopNext
    <3>1. loop # "off"
      BY <2>3 DEF LoopNext, Commit, DeadlineExpires, MidPoll, Polled, StopPoll,
                  StopPolled, FollowUps, StopEnds, ModelStops
    <3>2. prompt' = prompt
      BY <2>3 DEF LoopNext, Commit, DeadlineExpires, MidPoll, Polled, StopPoll,
                  StopPolled, FollowUps, StopEnds, ModelStops, GoesOn, LoopUnchanged
    <3> QED
      BY <1>2, <3>1, <3>2 DEF StillInv, InTransition, sessionVars
  <2>4. CASE TaskFires
    BY <1>2, <2>4 DEF TaskFires, StillInv, InTransition, sessionVars
  <2>5. CASE UNCHANGED loop /\ (prompt' => prompt)
    BY <1>2, <2>5 DEF StillInv, InTransition, sessionVars
  <2>6. PromptBegins \/ PromptRuns \/ LoopNext \/ TaskFires \/ SessionNext
        \/ (UNCHANGED loop /\ (prompt' => prompt))
    BY DEF Next, vars, turnVars, JobFinishes, SinkCalled, Formatted, SinkReturns,
           Snapshot, ExitArrives, PromptDrops, PromptReturns, FlushReturns,
           EndInFlight, SkipRuns
  <2> QED
    BY <1>1, <2>1, <2>2, <2>3, <2>4, <2>5, <2>6
<1> QED
  BY <1>1, <1>2, SessionFrame

\* What the calls and what is in sight depend on
LEMMA CallFrame ==
    ASSUME [Next]_vars
    PROVE  \/ \E j \in Jobs : JobFinishes(j) \/ SinkCalled(j) \/ Formatted(j) \/ SinkReturns(j)
           \/ \E x \in Exits : ExitArrives(x)
           \/ UNCHANGED <<call, born, home>> /\ InSight' \subseteq InSight
<1>1. CASE \E j \in Jobs : Snapshot(j)
  BY <1>1 DEF Snapshot, InSight, placeVars
<1>2. CASE PromptBegins \/ PromptRuns \/ PromptDrops \/ PromptReturns \/ FlushReturns
  BY <1>2 DEF PromptBegins, PromptRuns, PromptDrops, PromptReturns, FlushReturns,
              EndInFlight, InSight, placeVars, jobVars
<1>3. CASE Commit \/ DeadlineExpires \/ ModelStops \/ StopEnds \/ FollowUps
  BY <1>3 DEF Commit, DeadlineExpires, ModelStops, StopEnds, FollowUps, LoopEnds, GoesOn,
              LoopUnchanged, InSight, jobVars
<1>4. CASE MidPoll \/ StopPoll
  BY <1>4 DEF MidPoll, StopPoll, Drain, GoesOn, LoopUnchanged, InSight, jobVars
<1>5. CASE Polled \/ StopPolled
  BY <1>5 DEF Polled, StopPolled, Resolve, Survivors, GoesOn, LoopUnchanged, InSight, jobVars
<1>6. CASE TaskFires \/ SkipRuns
  BY <1>6 DEF TaskFires, FlushIdle, SkipRuns, InSight, placeVars, jobVars
<1>7. CASE SessionNext
  BY <1>7 DEF SessionNext, AbortBegins, AbortUnchanged, AbortDrains, AbortCancels,
              AbortSettles, AbortEnds, CancelOwnJobs, SessionAdopted, ClearBegins,
              ClearEnds, DisposeBegins, DisposeAborts, InSight, placeVars, jobVars
<1>8. CASE UNCHANGED vars
  BY <1>8 DEF vars, InSight, placeVars, jobVars
<1> QED
  BY <1>1, <1>2, <1>3, <1>4, <1>5, <1>6, <1>7, <1>8 DEF Next, LoopNext

LEMMA CallStep ==
    ASSUME TypeOK, ReceiptInv, CallInv, [Next]_vars
    PROVE  CallInv'
<1>1. ASSUME NEW j \in Jobs, JobFinishes(j) PROVE CallInv'
  <2>1. InSight' = InSight /\ j \notin InSight
    BY <1>1 DEF JobFinishes, InSight, placeVars, CallInv
  <2> QED
    BY <1>1, <2>1 DEF JobFinishes, CallInv, TypeOK, Entries
<1>2. ASSUME NEW j \in Jobs, SinkCalled(j) PROVE CallInv'
  <2>1. InSight' = InSight /\ j \notin InSight
    BY <1>2 DEF SinkCalled, InSight, placeVars, CallInv
  <2> QED
    BY <1>2, <2>1 DEF SinkCalled, Evicted, CallInv, TypeOK
<1>3. ASSUME NEW j \in Jobs, Formatted(j) PROVE CallInv'
  <2>1. InSight' \subseteq InSight \union {j} /\ j \notin InSight
    BY <1>3 DEF Formatted, Enqueue, InSight, placeVars, CallInv
  <2>2. UNCHANGED <<born, home>> /\ call' \in {[call EXCEPT ![j] = "done"], [call EXCEPT ![j] = "waiting"]}
    BY <1>3 DEF Formatted
  <2>3. j \in InSight' => call' = [call EXCEPT ![j] = "waiting"]
    BY <1>3, <2>1 DEF Formatted, InSight, placeVars
  <2>4. call[j] = "formatting"
    BY <1>3 DEF Formatted
  <2> QED
    BY <2>1, <2>2, <2>3, <2>4 DEF CallInv, TypeOK
<1>4. ASSUME NEW j \in Jobs, SinkReturns(j) PROVE CallInv'
  <2>1. InSight' = InSight /\ j \notin InSight
    BY <1>4 DEF SinkReturns, InSight, placeVars, ReceiptInv
  <2> QED
    BY <1>4, <2>1 DEF SinkReturns, CallInv, TypeOK
<1>5. ASSUME NEW x \in Exits, ExitArrives(x) PROVE CallInv'
  <2>1. InSight' \subseteq InSight \union {x} /\ x \notin Jobs
    BY <1>5, KindAssumption DEF ExitArrives, InSight, placeVars
  <2>2. UNCHANGED <<call, born>> /\ \A j \in Jobs : home'[j] = home[j]
    BY <1>5, <2>1 DEF ExitArrives, jobVars, TypeOK, Entries
  <2> QED
    BY <2>1, <2>2 DEF CallInv
<1>6. CASE UNCHANGED <<call, born, home>> /\ InSight' \subseteq InSight
  BY <1>6 DEF CallInv
<1> QED
  BY <1>1, <1>2, <1>3, <1>4, <1>5, <1>6, CallFrame

\* The survivors of a batch belong here.
LEMMA SurvivorsHere ==
    /\ \A E : \A j \in Jobs : j \in Survivors(E) => j \in E /\ born[j] = epoch
    /\ \A E : \A x \in Exits : x \in Survivors(E) => x \in E /\ home[x] = session
BY KindAssumption DEF Survivors, Stale

LEMMA HereStep ==
    ASSUME TypeOK, PlaceInv, ReceiptInv, PhaseInv, StillInv, CallInv, HereInv, [Next]_vars
    PROVE  HereInv'
<1>1. CASE LoopNext
  <2>1. UNCHANGED <<born, home, epoch, session>>
    BY <1>1 DEF LoopNext, Commit, DeadlineExpires, MidPoll, Polled, StopPoll,
                StopPolled, FollowUps, StopEnds, ModelStops, GoesOn, LoopUnchanged,
                jobVars, sessionVars
  <2>2. CASE Polled
    <3>1. pending' = Survivors(thunks) /\ held' = held
      BY <2>2 DEF Polled, Resolve
    <3> QED
      BY <2>1, <3>1, SurvivorsHere DEF HereInv
  <2>3. CASE StopPolled
    <3>1. held' = Survivors(thunks) /\ pending' = pending
      BY <2>3 DEF StopPolled, Resolve
    <3> QED
      BY <2>1, <3>1, SurvivorsHere DEF HereInv
  <2>4. CASE Commit \/ DeadlineExpires \/ MidPoll \/ StopPoll \/ FollowUps \/ StopEnds \/ ModelStops
    <3>1. pending' \union held' \subseteq pending \union held
      BY <2>4 DEF Commit, DeadlineExpires, MidPoll, StopPoll, FollowUps, StopEnds,
                  ModelStops, LoopEnds, Drain
    <3> QED
      BY <2>1, <3>1 DEF HereInv
  <2> QED
    BY <1>1, <2>2, <2>3, <2>4 DEF LoopNext
<1>2. CASE UNCHANGED <<pending, held>> /\ UNCHANGED <<epoch, session>>
  <2>1. ASSUME NEW j \in Jobs, SinkCalled(j) PROVE HereInv'
    <3>1. j \notin pending \union held
      BY <2>1 DEF SinkCalled, CallInv, InSight
    <3>2. /\ UNCHANGED home
          /\ born' = [born EXCEPT ![j] = epoch]
      BY <2>1 DEF SinkCalled
    <3> QED
      BY <1>2, <3>1, <3>2 DEF HereInv, TypeOK
  <2>2. ASSUME NEW j \in Jobs, JobFinishes(j) PROVE HereInv'
    <3>1. UNCHANGED born /\ \A x \in Exits : home'[x] = home[x]
      BY <2>2, KindAssumption DEF JobFinishes, TypeOK, Entries
    <3> QED
      BY <1>2, <3>1 DEF HereInv
  <2>3. ASSUME NEW x \in Exits, ExitArrives(x) PROVE HereInv'
    <3>1. x \notin pending \union held
      BY <2>3 DEF ExitArrives, ReceiptInv, InSight
    <3>2. UNCHANGED born /\ \A y \in Exits \ {x} : home'[y] = home[y]
      BY <2>3 DEF ExitArrives, jobVars, TypeOK, Entries
    <3> QED
      BY <1>2, <3>1, <3>2 DEF HereInv
  <2>4. CASE UNCHANGED <<born, home>>
    BY <1>2, <2>4 DEF HereInv
  <2>5. ASSUME NEW j \in Jobs, Formatted(j) \/ SinkReturns(j) PROVE UNCHANGED <<born, home>>
    BY <2>5 DEF Formatted, SinkReturns
  <2> QED
    BY <2>1, <2>2, <2>3, <2>4, <2>5, CallFrame
<1>3. CASE SessionNext /\ ~UNCHANGED <<epoch, session>>
  <2>1. (AbortEnds /\ goal = "new") \/ SessionAdopted \/ ClearEnds
    BY <1>3 DEF SessionNext, AbortBegins, AbortDrains, AbortCancels, AbortSettles,
                AbortEnds, AbortUnchanged, ClearBegins, DisposeBegins, DisposeAborts
  <2>2. loop = "off" /\ UNCHANGED <<pending, held>>
    BY <2>1 DEF AbortEnds, SessionAdopted, ClearEnds, PhaseInv, StillInv, InTransition,
                placeVars
  <2> QED
    BY <2>2 DEF PlaceInv, HereInv
<1>4. UNCHANGED <<epoch, session>> \/ SessionNext
  BY SessionFrame DEF sessionVars
<1>5. UNCHANGED <<pending, held>> \/ LoopNext
  BY LoopFrameStep DEF LoopFrame, PromptRuns, TaskFires, placeVars
<1> QED
  BY <1>1, <1>2, <1>3, <1>4, <1>5

\* What enters the context does so from the loop's pending messages, or from the
\* queue as an idle flush fires.
LEMMA ToldStep ==
    ASSUME TypeOK, QueueInv, HomeInv, [Next]_vars
    PROVE  /\ \A j \in Jobs : told'[j] # told[j] => home[j] = epoch
           /\ \A x \in Exits : told'[x] # told[x] => home[x] = session
<1>1. CASE Commit
  <2>1. \A e \in Entries : told'[e] # told[e] => e \in pending
    BY <1>1 DEF Commit, Injected
  <2>2. \A j \in Jobs : j \in pending => born[j] = home[j]
    BY DEF HomeInv, CallInv, InSight
  <2> QED
    BY <2>1, <2>2 DEF HomeInv, HereInv, Entries
<1>2. CASE TaskFires
  <2>1. \A e \in Entries : told'[e] # told[e] => e \in Survivors(queued)
    BY <1>2 DEF TaskFires, FlushIdle, Injected
  <2>2. \A j \in Jobs : j \in queued => born[j] = home[j]
    BY DEF HomeInv, CallInv, InSight
  <2> QED
    BY <2>1, <2>2, SurvivorsHere DEF Entries
<1>3. CASE UNCHANGED told
  BY <1>3
<1>4. Commit \/ TaskFires \/ UNCHANGED told
  BY DEF Next, vars, JobFinishes, SinkCalled, Formatted, SinkReturns, Snapshot,
         ExitArrives, PromptBegins, PromptRuns, PromptDrops, PromptReturns,
         FlushReturns, EndInFlight, LoopNext, DeadlineExpires, MidPoll, Polled,
         StopPoll, StopPolled, FollowUps, StopEnds, ModelStops, Drain, SkipRuns,
         SessionNext, AbortBegins, AbortUnchanged, AbortDrains, AbortCancels,
         AbortSettles, AbortEnds, SessionAdopted, ClearBegins, ClearEnds,
         DisposeBegins, DisposeAborts
<1> QED
  BY <1>1, <1>2, <1>3, <1>4

\* As long as no idle flush fires inside a transition and no prompt outlives an
\* abort, what enters the context belongs to the conversation and the session
\* that are current, however late it was formatted, drained, built or committed.
THEOREM ResultsStayInConversation ==
    "flushInTransition" \notin Behaviours /\ "busyPrompt" \notin Behaviours
    => (Spec => StaysInConversation)
<1> SUFFICES ASSUME "flushInTransition" \notin Behaviours, "busyPrompt" \notin Behaviours
             PROVE  Spec => StaysInConversation
  OBVIOUS
<1>1. Init => HomeInv
  BY DEF Init, HomeInv, StillInv, CallInv, HereInv, InSight, InTransition
<1>2. TypeOK /\ QueueInv /\ HomeInv /\ [Next]_vars => HomeInv'
  BY StillStep, CallStep, HereStep DEF QueueInv, HomeInv
<1>3. TypeOK /\ QueueInv /\ HomeInv /\ [Next]_vars
      => [/\ \A j \in Jobs : told'[j] # told[j] => home[j] = epoch
          /\ \A x \in Exits : told'[x] # told[x] => home[x] = session]_vars
  BY ToldStep
<1> QED
  BY <1>1, <1>2, <1>3, QueueTypeCorrect, QueueInvariant, PTL DEF Spec, StaysInConversation
=============================================================================
