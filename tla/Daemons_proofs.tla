---------------------------- MODULE Daemons_proofs ----------------------------
(***************************************************************************)
(* What Daemons keeps for any number of requests, launches, crashes and    *)
(* shutdowns.  The types hold whatever Behaviours includes.  The record,   *)
(* the processes and the disk agree, and what was stopped stays down,      *)
(* where no request falls into one of the windows (Behaviours = {}): the   *)
(* invariant IInv says what each of them may be, by what the requests, the *)
(* shutdown and the writes in progress have done so far; there is a lemma  *)
(* per action.                                                             *)
(***************************************************************************)
EXTENDS Daemons, TLAPS, SequenceTheorems

Ats == {"idle", "check", "killing", "waiting", "relaunch", "closed", "written"}
Kinds == {"none", "stop", "close"} \union Launching
Calls == [kind : Kinds, at : Ats, of : 0 .. MaxLaunch, target : 0 .. MaxLaunch]

TypedInv == TypeOK /\ (rec.timer => armed > 0)

-----------------------------------------------------------------------------
(* The values of the variables                                              *)

LEMMA ImageTyped == ASSUME NEW r \in Records PROVE Image(r) \in Images
BY DEF Image, Images, Records

LEMMA NoRecordTyped == NoRecord \in Records
BY BoundAssumption DEF NoRecord, Records, States

LEMMA IdleTyped == Idle \in Calls
BY BoundAssumption DEF Idle, Calls, Kinds, Ats

LEMMA PersistedTyped ==
    ASSUME NEW q \in Seq(Images), NEW i \in Images
    PROVE  Persisted(q, i) \in Seq(Images)
<1>1. Append(q, i) \in Seq(Images)
  OBVIOUS
<1> QED
  BY <1>1, Zenon DEF Persisted

LEMMA BegunFields ==
    ASSUME NEW r \in Records, NEW g, NEW b, b = Begun(r, g)
    PROVE  b = [state |-> "running", id |-> r.id, gen |-> g, pid |-> 0,
                own |-> r.own, stop |-> FALSE, timer |-> r.timer]
BY DEF Begun, Records

LEMMA RelaunchFields ==
    ASSUME NEW g, NEW b, b = [NoRecord EXCEPT !.id = g]
    PROVE  b = [state |-> "none", id |-> g, gen |-> 0, pid |-> 0,
                own |-> FALSE, stop |-> FALSE, timer |-> FALSE]
BY DEF NoRecord

LEMMA BegunTyped ==
    ASSUME NEW r \in Records, NEW g \in 0 .. MaxLaunch
    PROVE  /\ Begun(r, g) \in Records /\ Spawned(r, g) \in Records
           /\ Begun(r, g).timer = r.timer /\ Spawned(r, g).timer = r.timer
<1>1. Begun(r, g) = [state |-> "running", id |-> r.id, gen |-> g, pid |-> 0,
                     own |-> r.own, stop |-> FALSE, timer |-> r.timer]
  BY BegunFields
<1>2. Begun(r, g) \in Records
  BY <1>1, BoundAssumption DEF Records, States
<1>3. Spawned(r, g) \in Records /\ Spawned(r, g).timer = r.timer
  BY DEF Spawned, Records
<1> QED
  BY <1>1, <1>2, <1>3

LEMMA LaunchTyped ==
    ASSUME TypeOK, NEW r \in Records, LaunchNow(r)
    PROVE  /\ launched' \in 0 .. MaxLaunch /\ rec' \in Records
           /\ proc' \in [Launches -> {"none", "alive", "dead"}]
           /\ watched' \subseteq Launches /\ opening' \subseteq Launches
           /\ reading' \in [Launches -> Nat] /\ writes' \in Seq(Images)
           /\ rec'.timer = r.timer
<1> DEFINE g == launched + 1
           begun == Begun(r, g)
           running == Spawned(begun, g)
<1>1. g \in Launches /\ g \in 0 .. MaxLaunch /\ launched' = g
  BY BoundAssumption DEF LaunchNow, TypeOK, Launches
<1>2. begun \in Records
  BY <1>1, BegunTyped
<1>3. running \in Records
  BY <1>1, <1>2, BegunTyped
<1>4. Persisted(writes, Image(begun)) \in Seq(Images)
  BY <1>2, ImageTyped, PersistedTyped DEF TypeOK
<1>5. Persisted(Persisted(writes, Image(begun)), Image(running)) \in Seq(Images)
  BY <1>3, <1>4, ImageTyped, PersistedTyped
<1>6. begun.timer = r.timer /\ running.timer = r.timer
  BY DEF Begun, Spawned, Records
<1>7. /\ rec' \in {begun, running}
      /\ proc' \in {[proc EXCEPT ![g] = "alive"], [proc EXCEPT ![g] = "dead"], proc}
      /\ watched' \subseteq watched \union {g} /\ opening' \subseteq opening \union {g}
      /\ reading' \in {reading, [reading EXCEPT ![g] = @ + 1]}
      /\ writes' \in {Persisted(writes, Image(begun)),
                      Persisted(Persisted(writes, Image(begun)), Image(running))}
  BY DEF LaunchNow, Persist
<1> HIDE DEF g, begun, running
<1> QED
  BY <1>1, <1>2, <1>3, <1>4, <1>5, <1>6, <1>7 DEF TypeOK

LEMMA OpTyped ==
    ASSUME TypeOK
    PROVE  /\ op \in [Handlers -> Calls]
           /\ op' \in [Handlers -> Calls] <=>
              op' \in [Handlers -> [kind : {"none", "stop", "close"} \union Launching,
                            at : {"idle", "check", "killing", "waiting", "relaunch", "closed",
                                  "written"},
                            of : 0 .. MaxLaunch, target : 0 .. MaxLaunch]]
BY Zenon DEF TypeOK, Calls, Kinds, Ats

LEMMA KillingOp ==
    ASSUME NEW o \in [Handlers -> Calls], NEW h \in Handlers, NEW p \in 0 .. MaxLaunch,
           NEW oo, oo = [o EXCEPT ![h].at = "killing", ![h].target = p]
    PROVE  /\ oo \in [Handlers -> Calls]
           /\ \A k \in Handlers : k # h => oo[k] = o[k]
           /\ oo[h].kind = o[h].kind /\ oo[h].of = o[h].of
           /\ oo[h].at = "killing" /\ oo[h].target = p
<1>1. oo \in [Handlers -> Calls]
  BY DEF Calls, Ats
<1>2. \A k \in Handlers : k # h => oo[k] = o[k]
  OBVIOUS
<1>3. oo[h].kind = o[h].kind /\ oo[h].of = o[h].of /\ oo[h].target = p
  BY DEF Calls
<1>4. oo[h].at = "killing"
  BY DEF Calls
<1> QED
  BY <1>1, <1>2, <1>3, <1>4

LEMMA AnsweredTyped ==
    ASSUME TypeOK, NEW h \in Handlers, Answered(h)
    PROVE  op' \in [Handlers -> Calls] /\ starting' \in BOOLEAN /\ stopped' \in BOOLEAN
<1>1. op' \in [Handlers -> Calls]
  BY OpTyped, IdleTyped DEF Answered
<1>2. starting' \in BOOLEAN /\ stopped' \in BOOLEAN
  BY Zenon DEF Answered
<1> QED
  BY <1>1, <1>2

LEMMA ProceedsTyped ==
    ASSUME TypeOK, NEW h \in Handlers, Proceeds(h)
    PROVE  op' \in [Handlers -> Calls] /\ starting' \in BOOLEAN /\ stopped' \in BOOLEAN
<1>1. CASE op[h].kind = "stop"
  BY <1>1, AnsweredTyped DEF Proceeds
<1>2. CASE op[h].kind # "stop"
  <2>1. /\ \E a \in Ats : op' = [op EXCEPT ![h].at = a]
        /\ starting' = starting /\ stopped' = stopped
    BY <1>2 DEF Proceeds, Ats
  <2>2. op' \in [Handlers -> Calls]
    BY <2>1, OpTyped DEF Calls
  <2> QED
    BY <2>1, <2>2, Zenon DEF TypeOK
<1> QED
  BY <1>1, <1>2

LEMMA CalledTyped ==
    ASSUME TypeOK, NEW h \in Requests, NEW k \in {"start", "replace", "restart", "stop"},
           Called(h, k)
    PROVE  op' \in [Handlers -> Calls]
<1>1. [kind |-> k, at |-> "check", of |-> rec.id, target |-> 0] \in Calls
  BY BoundAssumption DEF TypeOK, Records, Calls, Kinds, Ats, Launching
<1> QED
  BY <1>1, OpTyped DEF Called, Handlers

LEMMA SettleTyped ==
    ASSUME TypeOK, NEW g, SettleCalled(g)
    PROVE  reading' \in [Launches -> Nat]
BY DEF SettleCalled, TypeOK

\* The types that the requests change, and those that their steps do.
LEMMA CallTyped ==
    ASSUME TypedInv, NEW h \in Requests, StartCalled(h) \/ RestartCalled(h) \/ StopCalled(h)
    PROVE  TypedInv'
<1> USE DEF TypedInv
<1>1. \E k \in {"start", "replace", "restart", "stop"} : Called(h, k)
  BY Zenon DEF StartCalled, RestartCalled, StopCalled
<1>2. op' \in [Handlers -> Calls]
  BY <1>1, CalledTyped
<1>3. starting' \in BOOLEAN /\ stopped' \in BOOLEAN
  BY Zenon DEF StartCalled, RestartCalled, StopCalled, TypeOK
<1>4. UNCHANGED <<spec, broker, rec, armed, opening, watched, reading, writes, disk, worldVars,
                  downs, lost>>
  BY <1>1, Zenon DEF Called
<1> QED
  BY <1>2, <1>3, <1>4, OpTyped, Zenon DEF TypeOK, worldVars

LEMMA ReplacedTyped ==
    ASSUME TypeOK, LaunchReplaced
    PROVE  /\ launched' \in 0 .. MaxLaunch
           /\ proc' \in [Launches -> {"none", "alive", "dead"}]
           /\ writes' \in Seq(Images)
           /\ UNCHANGED <<rec, opening, watched, reading>>
<1> DEFINE g == launched + 1
           i == [state |-> "running", gen |-> g, pid |-> g]
<1>1. /\ launched' = g /\ launched < MaxLaunch /\ proc' = [proc EXCEPT ![g] = "alive"]
      /\ writes' = Persisted(writes, i) /\ UNCHANGED <<rec, opening, watched, reading>>
  BY DEF LaunchReplaced
<1>2. g \in 0 .. MaxLaunch
  BY <1>1, BoundAssumption DEF TypeOK
<1>3. i \in Images
  BY <1>2 DEF Images, States
<1> HIDE DEF i
<1>4. writes' \in Seq(Images)
  BY <1>1, <1>3, PersistedTyped DEF TypeOK
<1> QED
  BY <1>1, <1>2, <1>4 DEF TypeOK

LEMMA StopTyped ==
    ASSUME TypedInv, NEW h \in Handlers, HandlerStep(h)
    PROVE  TypedInv'
<1> USE DEF TypedInv
<1>0. /\ op \in [Handlers -> Calls] /\ rec \in Records /\ op[h] \in Calls
  BY OpTyped DEF TypeOK
<1>1. CASE StartRefused(h)
  <2>1. op' \in [Handlers -> Calls] /\ starting' \in BOOLEAN /\ stopped' \in BOOLEAN
    BY <1>1, AnsweredTyped DEF StartRefused
  <2> QED
    BY <1>1, <2>1, OpTyped, Zenon DEF StartRefused, TypeOK, worldVars
<1>2. CASE StopBegins(h)
  <2>1. /\ op' \in [Handlers -> Calls] /\ starting' \in BOOLEAN /\ stopped' \in BOOLEAN
    <3>1. CASE Proceeds(h)
      BY <3>1, ProceedsTyped
    <3>2. CASE op' = [op EXCEPT ![h].at = "killing", ![h].target = rec.pid]
               /\ UNCHANGED <<starting, stopped>>
      <4>1. rec.pid \in 0 .. MaxLaunch
        BY <1>0 DEF Records
      <4>2. op' \in [Handlers -> Calls]
        BY <1>0, <3>2, <4>1, KillingOp
      <4> QED
        BY <3>2, <4>2, Zenon DEF TypeOK
    <3>3. \/ Proceeds(h)
          \/ /\ op' = [op EXCEPT ![h].at = "killing", ![h].target = rec.pid]
             /\ UNCHANGED <<starting, stopped>>
      BY <1>2, Zenon DEF StopBegins
    <3> QED
      BY <3>1, <3>2, <3>3, Zenon DEF TypeOK
  <2>2. rec' \in Records /\ writes' \in Seq(Images) /\ armed' \in Nat /\ (rec'.timer => armed' > 0)
    <3>1. CASE UNCHANGED <<rec, armed, writes>>
      BY <3>1 DEF TypeOK
    <3>2. CASE rec.timer /\ TimerCleared
      <4>1. rec' \in Records /\ ~rec'.timer
        BY <3>2, <1>0 DEF TimerCleared, TimerTaken, Records, States
      <4>2. armed' \in Nat
        BY <3>2 DEF TimerCleared, TypeOK
      <4>3. writes' \in Seq(Images)
        BY <3>2, <4>1, ImageTyped, PersistedTyped DEF TimerCleared, Persist, TypeOK
      <4> QED
        BY <4>1, <4>2, <4>3
    <3>3. CASE /\ rec' = [rec EXCEPT !.stop = TRUE, !.state = "stopping"]
               /\ Persist(rec') /\ UNCHANGED armed
      <4>1. rec' \in Records /\ rec'.timer = rec.timer
        BY <3>3, <1>0 DEF Records, States
      <4>2. writes' \in Seq(Images)
        BY <3>3, <4>1, ImageTyped, PersistedTyped DEF Persist, TypeOK
      <4> QED
        BY <3>3, <4>1, <4>2 DEF TypeOK
    <3> QED
      BY <1>2, <3>1, <3>2, <3>3 DEF StopBegins
  <2> QED
    BY <1>2, <2>1, <2>2, OpTyped, Zenon DEF StopBegins, TypeOK, worldVars
<1>3. CASE StopKills(h)
  <2>1. op' \in [Handlers -> Calls]
    BY <1>0, <1>3 DEF StopKills, Calls, Ats
  <2>2. proc' \in [Launches -> {"none", "alive", "dead"}]
    BY <1>3 DEF StopKills, TypeOK
  <2> QED
    BY <1>3, <2>1, <2>2, OpTyped, Zenon DEF StopKills, TypeOK, ghosts
<1>4. CASE StopEnds(h)
  <2>1. op' \in [Handlers -> Calls] /\ starting' \in BOOLEAN /\ stopped' \in BOOLEAN
    BY <1>4, AnsweredTyped, ProceedsTyped DEF StopEnds
  <2> QED
    BY <1>4, <2>1, OpTyped, Zenon DEF StopEnds, TypeOK, worldVars
<1>5. CASE Relaunches(h)
  <2>1. op' \in [Handlers -> Calls] /\ starting' \in BOOLEAN /\ stopped' \in BOOLEAN
    BY <1>5, AnsweredTyped DEF Relaunches
  <2> DEFINE r0 == [NoRecord EXCEPT !.id = launched + 1]
  <2>2. /\ r0 \in Records \/ launched = MaxLaunch
        /\ ~r0.timer
    <3>1. r0 = [state |-> "none", id |-> launched + 1, gen |-> 0, pid |-> 0,
                own |-> FALSE, stop |-> FALSE, timer |-> FALSE]
      BY RelaunchFields
    <3> HIDE DEF r0
    <3> QED
      BY <3>1, BoundAssumption DEF Records, States, TypeOK
  <2>3. LaunchReplaced \/ \E r \in {rec, r0} : LaunchNow(r)
    BY <1>5 DEF Relaunches
  <2> HIDE DEF r0
  <2>4. /\ launched' \in 0 .. MaxLaunch /\ rec' \in Records
        /\ proc' \in [Launches -> {"none", "alive", "dead"}]
        /\ watched' \subseteq Launches /\ opening' \subseteq Launches
        /\ reading' \in [Launches -> Nat] /\ writes' \in Seq(Images)
        /\ rec'.timer => rec.timer
    <3>1. CASE LaunchReplaced
      BY <3>1, <1>0, ReplacedTyped DEF TypeOK
    <3>2. ASSUME NEW r \in {rec, r0}, LaunchNow(r)
          PROVE  /\ launched' \in 0 .. MaxLaunch /\ rec' \in Records
                 /\ proc' \in [Launches -> {"none", "alive", "dead"}]
                 /\ watched' \subseteq Launches /\ opening' \subseteq Launches
                 /\ reading' \in [Launches -> Nat] /\ writes' \in Seq(Images)
                 /\ rec'.timer => rec.timer
      <4>1. launched < MaxLaunch
        BY <3>2, Zenon DEF LaunchNow
      <4>2. launched # MaxLaunch
        BY <4>1, BoundAssumption DEF TypeOK
      <4>3. r \in Records /\ (r.timer => rec.timer)
        BY <2>2, <4>2, <1>0, Zenon
      <4> QED
        BY <3>2, <4>3, LaunchTyped
    <3> QED
      BY <2>3, <3>1, <3>2
  <2>5. rec'.timer => armed' > 0
    BY <1>5, <2>4 DEF Relaunches
  <2> QED
    BY <1>5, <2>1, <2>4, <2>5, OpTyped, Zenon DEF Relaunches, TypeOK
<1> QED
  BY <1>1, <1>2, <1>3, <1>4, <1>5 DEF HandlerStep

\* The steps of the processes and of the broker's callbacks.
LEMMA ProcessTyped ==
    ASSUME TypedInv,
           \/ \E g \in Launches : Opened(g) \/ ProcessDies(g) \/ ExitSeen(g) \/ SettleResumes(g)
           \/ TimerFires \/ RefreshSees \/ Write
    PROVE  TypedInv'
<1> USE DEF TypedInv
<1>0. rec \in Records /\ writes \in Seq(Images) /\ disk \in Images
  BY DEF TypeOK
<1>1. ASSUME NEW g \in Launches, Opened(g)
      PROVE  TypedInv'
  <2>1. rec' \in Records /\ rec'.timer = rec.timer
    <3>1. rec' = Spawned(rec, g) /\ g \in 0 .. MaxLaunch
      BY <1>1, BoundAssumption DEF Opened, Launches
    <3> QED
      BY <1>0, <3>1, BegunTyped
  <2>2. writes' \in Seq(Images)
    BY <1>0, <1>1, <2>1, ImageTyped, PersistedTyped DEF Opened, Persist
  <2>3. /\ proc' \in [Launches -> {"none", "alive", "dead"}]
        /\ watched' \subseteq Launches /\ opening' \subseteq Launches
    BY <1>1 DEF Opened, TypeOK
  <2> QED
    BY <1>1, <2>1, <2>2, <2>3, Zenon DEF Opened, TypeOK, ghosts
<1>2. ASSUME NEW g \in Launches, ProcessDies(g)
      PROVE  TypedInv'
  <2>1. proc' \in [Launches -> {"none", "alive", "dead"}]
    BY <1>2 DEF ProcessDies, TypeOK
  <2> QED
    BY <1>2, <2>1, Zenon DEF ProcessDies, TypeOK, ghosts, brokerVars
<1>3. ASSUME NEW g \in Launches, ExitSeen(g)
      PROVE  TypedInv'
  <2>1. reading' \in [Launches -> Nat] /\ watched' \subseteq Launches
    BY <1>3, SettleTyped DEF ExitSeen, TypeOK
  <2> QED
    BY <1>3, <2>1, Zenon DEF ExitSeen, TypeOK, ghosts, worldVars
<1>4. ASSUME NEW g \in Launches, SettleResumes(g)
      PROVE  TypedInv'
  <2>1. reading' \in [Launches -> Nat]
    BY <1>4 DEF SettleResumes, TypeOK
  <2>2. rec' \in Records /\ writes' \in Seq(Images) /\ armed' \in Nat /\ (rec'.timer => armed' > 0)
    <3>1. CASE UNCHANGED <<rec, armed, writes>>
      BY <3>1 DEF TypeOK
    <3>2. CASE /\ rec' = [rec EXCEPT !.state = "restarting", !.pid = 0, !.own = FALSE,
                                     !.timer = TRUE]
               /\ armed' = armed + 1 /\ Persist(rec')
      <4>1. rec' = [state |-> "restarting", id |-> rec.id, gen |-> rec.gen, pid |-> 0,
                    own |-> FALSE, stop |-> rec.stop, timer |-> TRUE]
        BY <1>0, <3>2 DEF Records
      <4>2. rec' \in Records
        BY <1>0, <4>1, BoundAssumption DEF Records, States
      <4>3. armed' \in Nat /\ armed' > 0
        BY <3>2 DEF TypeOK
      <4> QED
        BY <1>0, <3>2, <4>2, <4>3, ImageTyped, PersistedTyped DEF Persist
    <3>3. CASE /\ rec' = [rec EXCEPT !.state = "exited", !.pid = 0, !.own = FALSE]
               /\ UNCHANGED armed /\ Persist(rec')
      <4>0. rec' = [state |-> "exited", id |-> rec.id, gen |-> rec.gen, pid |-> 0,
                    own |-> FALSE, stop |-> rec.stop, timer |-> rec.timer]
        BY <1>0, <3>3 DEF Records
      <4>1. rec' \in Records /\ rec'.timer = rec.timer
        BY <1>0, <4>0, BoundAssumption DEF Records, States
      <4> QED
        BY <1>0, <3>3, <4>1, ImageTyped, PersistedTyped DEF Persist, TypeOK
    <3> QED
      BY <1>4, <3>1, <3>2, <3>3 DEF SettleResumes
  <2> QED
    BY <1>4, <2>1, <2>2, Zenon DEF SettleResumes, TypeOK, ghosts, worldVars
<1>5. CASE TimerFires
  <2>1. TimerTaken \in Records /\ ~TimerTaken.timer
    BY <1>0 DEF TimerTaken, Records
  <2>2. LaunchNow(TimerTaken) /\ armed' \in Nat
    BY <1>5 DEF TimerFires, TypeOK
  <2>3. /\ launched' \in 0 .. MaxLaunch /\ rec' \in Records
        /\ proc' \in [Launches -> {"none", "alive", "dead"}]
        /\ watched' \subseteq Launches /\ opening' \subseteq Launches
        /\ reading' \in [Launches -> Nat] /\ writes' \in Seq(Images)
        /\ ~rec'.timer
    BY <2>1, <2>2, LaunchTyped
  <2> QED
    BY <1>5, <2>2, <2>3, Zenon DEF TimerFires, TypeOK, ghosts
<1>6. CASE RefreshSees
  <2>1. reading' \in [Launches -> Nat]
    BY <1>6, SettleTyped DEF RefreshSees
  <2> QED
    BY <1>6, <2>1, Zenon DEF RefreshSees, TypeOK, ghosts, worldVars
<1>7. CASE Write
  <2>1. disk' \in Images /\ writes' \in Seq(Images)
    BY <1>0, <1>7 DEF Write
  <2> QED
    BY <1>7, <2>1, Zenon DEF Write, TypeOK, ghosts, worldVars, brokerVars
<1> QED
  BY <1>1, <1>2, <1>3, <1>4, <1>5, <1>6, <1>7, Zenon

LEMMA BrokerTyped ==
    ASSUME TypedInv, Crash \/ ShutdownBegins \/ ShutdownWritten \/ ShutdownEnds \/ Recover
    PROVE  TypedInv'
<1> USE DEF TypedInv
<1>0. rec \in Records /\ writes \in Seq(Images) /\ disk \in Images /\ op \in [Handlers -> Calls]
  BY OpTyped DEF TypeOK
<1>1. ASSUME Gone
      PROVE  /\ broker' = "down" /\ rec' \in Records /\ armed' \in Nat /\ ~rec'.timer
             /\ opening' \subseteq Launches /\ watched' \subseteq Launches
             /\ reading' \in [Launches -> Nat] /\ starting' \in BOOLEAN
             /\ op' \in [Handlers -> Calls] /\ writes' \in Seq(Images)
  <2>1. rec' \in Records /\ ~rec'.timer
    BY <1>1, NoRecordTyped DEF Gone, NoRecord
  <2>2. op' \in [Handlers -> Calls]
    BY <1>1, IdleTyped DEF Gone
  <2>3. reading' \in [Launches -> Nat] /\ armed' \in Nat
    BY <1>1 DEF Gone
  <2>4. writes' \in Seq(Images)
    BY <1>1 DEF Gone
  <2> QED
    BY <1>1, <2>1, <2>2, <2>3, <2>4, Zenon DEF Gone
<1>2. CASE Crash
  <2>1. downs' \in 0 .. MaxDowns /\ lost' \subseteq Launches
    BY <1>2, BoundAssumption DEF Crash, TypeOK
  <2> QED
    BY <1>1, <1>2, <2>1, OpTyped, Zenon DEF Crash, TypeOK, worldVars
<1>3. CASE ShutdownBegins
  <2>1. downs' \in 0 .. MaxDowns
    BY <1>3, BoundAssumption DEF ShutdownBegins, TypeOK
  <2>2. rec' \in Records /\ rec'.timer = rec.timer
    BY <1>0, <1>3, BoundAssumption DEF ShutdownBegins, Records
  <2>3. op' \in [Handlers -> Calls]
    <3> DEFINE a == IF Outlives \/ Terminal THEN "closed" ELSE "check"
    <3>1. [kind |-> "close", at |-> a, of |-> rec.id, target |-> 0] \in Calls
      BY <1>0, BoundAssumption DEF Calls, Kinds, Ats, Records
    <3> QED
      BY <1>0, <1>3, <3>1 DEF ShutdownBegins, Handlers
  <2>4. rec'.timer => armed' > 0
    BY <1>3, <2>2, Zenon DEF ShutdownBegins
  <2>5. /\ broker' = "closing"
        /\ UNCHANGED <<spec, armed, opening, watched, reading, starting, writes, disk, worldVars,
                       ghosts>>
    BY <1>3, Zenon DEF ShutdownBegins
  <2> QED
    BY <2>1, <2>2, <2>3, <2>4, <2>5, OpTyped, Zenon DEF TypeOK, worldVars, ghosts
<1>4. CASE ShutdownWritten
  <2>1. op' \in [Handlers -> Calls]
    BY <1>0, <1>4 DEF ShutdownWritten, Calls, Ats
  <2> QED
    BY <1>4, <2>1, OpTyped, Zenon DEF ShutdownWritten, TypeOK, worldVars, ghosts
<1>5. CASE ShutdownEnds
  BY <1>1, <1>5, OpTyped, Zenon DEF ShutdownEnds, TypeOK, worldVars, ghosts
<1>6. CASE Recover
  <2>1. CASE disk.state = "none"
    BY <1>6, <2>1, Zenon DEF Recover, TypeOK, ghosts
  <2>2. CASE disk.state # "none"
    <3>1. /\ rec' \in Records /\ ~rec'.timer
          /\ proc' \in [Launches -> {"none", "alive", "dead"}]
      <4>1. CASE Adoptable
        <5>1. rec' = [NoRecord EXCEPT !.state = "running", !.id = disk.gen,
                                      !.gen = disk.gen, !.pid = disk.pid] /\ UNCHANGED proc
          BY <1>6, <2>2, <4>1 DEF Recover
        <5>2. rec' = [state |-> "running", id |-> disk.gen, gen |-> disk.gen, pid |-> disk.pid,
                      own |-> FALSE, stop |-> FALSE, timer |-> FALSE]
          BY <5>1 DEF NoRecord
        <5>3. rec' \in Records /\ ~rec'.timer
          BY <5>2, <1>0 DEF Records, Images, States
        <5> QED
          BY <5>1, <5>3 DEF TypeOK
      <4>2. CASE ~Adoptable
        <5>1. Reap
          BY <1>6, <2>2, <4>2 DEF Recover
        <5>2. rec' = [state |-> "exited", id |-> disk.gen, gen |-> disk.gen, pid |-> 0,
                      own |-> FALSE, stop |-> TRUE, timer |-> FALSE]
          BY <5>1 DEF NoRecord, Reap
        <5>3. rec' \in Records /\ ~rec'.timer
          BY <5>2, <1>0, BoundAssumption DEF Records, Images, States
        <5>4. proc' \in [Launches -> {"none", "alive", "dead"}]
          BY <5>1 DEF Reap, TypeOK
        <5> QED
          BY <5>3, <5>4
      <4> QED
        BY <4>1, <4>2
    <3>2. Persist(rec')
      BY <1>6, <2>2 DEF Recover
    <3>3. writes' \in Seq(Images)
      BY <1>0, <3>1, <3>2, ImageTyped, PersistedTyped DEF Persist
    <3> QED
      BY <1>6, <3>1, <3>3, Zenon DEF Recover, TypeOK, ghosts
  <2> QED
    BY <2>1, <2>2
<1> QED
  BY <1>2, <1>3, <1>4, <1>5, <1>6

LEMMA TypedStep == TypedInv /\ [Next]_vars => TypedInv'
<1> SUFFICES ASSUME TypedInv, [Next]_vars
             PROVE  TypedInv'
  OBVIOUS
<1>1. CASE UNCHANGED vars
  BY <1>1, Zenon DEF TypedInv, TypeOK, vars, brokerVars, worldVars, ghosts
<1>2. CASE Next
  BY <1>2, CallTyped, StopTyped, ProcessTyped, BrokerTyped, Zenon DEF Next
<1> QED
  BY <1>1, <1>2

\* The types of the broker's record, requests and queue and of the processes, with
\* the broker's windows open or closed: no timer is ever cleared that is not armed.
THEOREM TypeCorrect == Spec => []TypeOK
<1>1. Init => TypedInv
  <2> SUFFICES ASSUME Init
               PROVE  TypedInv
    OBVIOUS
  <2>1. rec \in Records /\ ~rec.timer /\ disk \in Images /\ writes \in Seq(Images)
    BY NoRecordTyped, ImageTyped DEF Init, NoRecord
  <2>2. op \in [Handlers -> Calls]
    BY IdleTyped DEF Init
  <2>3. op \in [Handlers -> [kind : {"none", "stop", "close"} \union Launching,
                            at : {"idle", "check", "killing", "waiting", "relaunch", "closed",
                                  "written"},
                            of : 0 .. MaxLaunch, target : 0 .. MaxLaunch]]
    BY <2>2, Zenon DEF Calls, Kinds, Ats
  <2>4. /\ launched \in 0 .. MaxLaunch /\ downs \in 0 .. MaxDowns /\ armed \in Nat
        /\ reading \in [Launches -> Nat] /\ proc \in [Launches -> {"none", "alive", "dead"}]
    BY BoundAssumption DEF Init
  <2> QED
    BY <2>1, <2>3, <2>4 DEF Init, TypeOK, TypedInv
<1>2. TypedInv => TypeOK
  BY DEF TypedInv
<1> QED
  BY <1>1, <1>2, TypedStep, PTL DEF Spec

-----------------------------------------------------------------------------
(* What the broker keeps                                                    *)

\* Launch g has a process that is not lost.
Runs(g) == g \notin lost /\ proc[g] = "alive"
NoneRuns == \A g \in Launches : ~Runs(g)

\* What is, or is to be, on disk, and the last of it
Stored == {disk} \union {writes[i] : i \in 1 .. Len(writes)}
Newest == IF writes = <<>> THEN disk ELSE Last(writes)

Relauncher(h) == op[h].kind \in Launching

TimersInv ==
    /\ armed = IF rec.timer THEN 1 ELSE 0
    /\ rec.timer <=> rec.state = "restarting"
    /\ rec.timer => ~rec.stop

\* Nothing is known of a launch to come.
FreshInv ==
    /\ \A g \in Launches : g > launched => /\ proc[g] = "none" /\ g \notin lost
                                           /\ g \notin watched /\ reading[g] = 0
    /\ rec.gen <= launched
    /\ \A w \in Stored : w.gen <= launched

GoneInv ==
    broker = "down" => /\ rec = NoRecord /\ opening = {} /\ writes = <<>>
                       /\ \A h \in Handlers : op[h] = Idle

\* A pid belongs to a record that is up, and the last image has the record's.
StoredInv ==
    /\ rec.pid # 0 => rec.state \in {"running", "stopping"} /\ rec.gen \in {0, rec.pid}
    /\ \A w \in Stored : /\ w.pid # 0 => w.state \in {"running", "stopping"} /\ w.gen \in {0, w.pid}
                         /\ w.state = "none" => w.pid = 0
                         /\ w.pid \notin lost
    /\ rec.pid \notin lost
    /\ broker # "down" => Newest.pid = rec.pid

\* While a launch waits for its log file, nothing else is done.
OpenInv ==
    \A g \in opening :
        /\ opening = {g} /\ broker = "up"
        /\ rec.gen = g /\ rec.pid = 0 /\ rec.state = "running" /\ ~rec.timer /\ ~rec.stop
        /\ g \notin watched /\ reading[g] = 0 /\ g \notin lost
        /\ \A h \in Handlers : op[h] = Idle

\* Nothing else is to launch, but a request that has yet to look at the daemon: a
\* restart beside a restart, or a start beside either.
Alone(h) ==
    \A k \in Requests \ {h} : Relauncher(k) =>
        op[k].at = "check" /\ (op[h].kind # "restart" => op[k].kind # "restart")

\* Requests and shutdowns by their kinds; one start at a time; past its look at
\* the daemon, a request that is to launch is alone; and there is none in a broker
\* that shuts down.
OpsInv ==
    /\ op[Closer].kind \in {"none", "close"} /\ \A h \in Requests : op[h].kind # "close"
    /\ \A h \in Requests : op[h].at \notin {"closed", "written"}
    /\ \A h \in Handlers : /\ op[h].at = "relaunch" => Relauncher(h)
                           /\ op[h].kind = "none" \/ op[h].at = "idle" => op[h] = Idle
                           /\ Relauncher(h) => broker = "up" /\ op[h].of = rec.id
                           /\ op[h].kind = "close" => broker = "closing" /\ op[h].of = rec.id
    /\ \A h \in Requests : Relauncher(h) /\ op[h].at # "check" => Alone(h)
    /\ \A h, k \in Requests :
           op[h].kind \in {"start", "replace"} /\ op[k].kind \in {"start", "replace"}
              => h = k
    /\ \A h \in Requests : op[h].kind \in {"start", "replace"} => starting
    /\ op[Closer].kind = "close" <=> broker = "closing"

\* A process that was told to stop has somebody to terminate it; a request that
\* waits for the end of a process it has terminated finds none afterwards.
StopInv ==
    /\ broker # "down" /\ rec.stop =>
         \A g \in Launches : Runs(g) =>
             \E h \in Handlers : op[h].at = "killing" /\ op[h].target = g
    /\ \A h \in Handlers : op[h].kind # "stop" =>
         /\ op[h].at = "killing" =>
                /\ ~rec.timer /\ \A g \in Launches : Runs(g) => op[h].target = g
                /\ Relauncher(h) => rec.stop
         /\ op[h].at \in {"waiting", "relaunch"} =>
                /\ ~rec.timer /\ NoneRuns
                /\ Relauncher(h) => rec.stop \/ Terminal

\* A shutdown ends when nothing runs, or with the pid of what runs on disk.
CloseInv ==
    /\ op[Closer].at \in {"closed", "written"} => ~rec.timer /\ (NoneRuns \/ rec.gen = 0)
    /\ op[Closer].at = "written" =>
         \A g \in Launches : Runs(g) => \A w \in Stored : w.pid = g

\* Somebody is to hear of the end of the record's process, and what is being
\* settled is over.
HeardInv ==
    /\ broker = "up" /\ rec.pid # 0 =>
          \/ spec.detached /\ ~rec.own
          \/ rec.gen \in Launches /\ (rec.gen \in watched \/ reading[rec.gen] > 0)
    /\ \A g \in Launches : reading[g] > 0 => ~Runs(g)

\* What was stopped has nothing that could bring it back.
StoppedInv ==
    stopped =>
        /\ NoneRuns
        /\ broker # "down" => /\ opening = {} /\ ~rec.timer /\ (Terminal \/ rec.stop)
                              /\ \A h \in Requests : ~Relauncher(h)

IInv ==
    /\ TypeOK /\ TimersInv /\ FreshInv /\ GoneInv /\ StoredInv /\ OpenInv /\ OpsInv
    /\ StopInv /\ CloseInv /\ HeardInv /\ StoppedInv /\ ProcessTracked

LEMMA Types ==
    ASSUME TypeOK
    PROVE  /\ rec \in Records /\ writes \in Seq(Images) /\ disk \in Images
           /\ op \in [Handlers -> Calls] /\ launched \in 0 .. MaxLaunch /\ launched \in Nat
           /\ reading \in [Launches -> Nat] /\ proc \in [Launches -> {"none", "alive", "dead"}]
BY OpTyped, BoundAssumption DEF TypeOK

LEMMA StoredTyped ==
    ASSUME TypeOK
    PROVE  /\ Stored \subseteq Images
           /\ \A w \in Stored : w.gen \in Nat
           /\ rec.gen \in Nat /\ launched \in Nat
<1>1. Stored \subseteq Images
  BY Types DEF Stored
<1>2. \A w \in Images : w.gen \in Nat
  BY BoundAssumption DEF Images
<1> QED
  BY <1>1, <1>2, Types, BoundAssumption DEF Records

StoredIn(q) == {disk} \union {q[i] : i \in 1 .. Len(q)}
NewestIn(q) == IF q = <<>> THEN disk ELSE Last(q)

LEMMA PersistedStored ==
    ASSUME NEW q \in Seq(Images), NEW i \in Images
    PROVE  /\ StoredIn(Persisted(q, i)) \subseteq StoredIn(q) \union {i}
           /\ NewestIn(Persisted(q, i)) = i
<1> DEFINE p == Persisted(q, i)
<1>1. CASE i = NewestIn(q)
  <2>1. p = q
    BY <1>1 DEF Persisted, NewestIn
  <2> QED
    BY <1>1, <2>1 DEF StoredIn
<1>2. CASE i # NewestIn(q)
  <2>1. p = Append(q, i)
    BY <1>2 DEF Persisted, NewestIn
  <2> HIDE DEF p
  <2>2. /\ Len(p) = Len(q) + 1 /\ Len(q) \in Nat /\ p # <<>> /\ p[Len(q) + 1] = i
        /\ \A n \in 1 .. Len(q) : p[n] = q[n]
    BY <2>1, AppendProperties
  <2>3. NewestIn(p) = i
    BY <2>2 DEF NewestIn, Last
  <2>4. StoredIn(p) \subseteq StoredIn(q) \union {i}
    BY <2>2 DEF StoredIn
  <2> QED
    BY <2>3, <2>4 DEF p
<1> QED
  BY <1>1, <1>2

LEMMA PersistStored ==
    ASSUME TypeOK, NEW r \in Records, Persist(r), disk' = disk
    PROVE  Stored' \subseteq Stored \union {Image(r)} /\ Newest' = Image(r)
<1>1. Image(r) \in Images /\ writes \in Seq(Images)
  BY ImageTyped, Types
<1>2. /\ StoredIn(Persisted(writes, Image(r))) \subseteq StoredIn(writes) \union {Image(r)}
      /\ NewestIn(Persisted(writes, Image(r))) = Image(r)
  BY <1>1, PersistedStored
<1>3. /\ Stored = StoredIn(writes)
      /\ Stored' = StoredIn(writes') /\ Newest' = NewestIn(writes')
  BY DEF Stored, Newest, StoredIn, NewestIn
<1>4. writes' = Persisted(writes, Image(r))
  BY DEF Persist
<1> QED
  BY <1>2, <1>3, <1>4

LEMMA PersistTwice ==
    ASSUME TypeOK, NEW r \in Records, NEW s \in Records, disk' = disk,
           writes' = Persisted(Persisted(writes, Image(r)), Image(s))
    PROVE  Stored' \subseteq Stored \union {Image(r), Image(s)} /\ Newest' = Image(s)
<1> DEFINE p == Persisted(writes, Image(r))
<1>1. Image(r) \in Images /\ Image(s) \in Images /\ p \in Seq(Images)
  BY ImageTyped, PersistedTyped, Types
<1>2. StoredIn(p) \subseteq StoredIn(writes) \union {Image(r)}
  BY <1>1, PersistedStored, Types
<1> HIDE DEF p
<1>3. /\ StoredIn(Persisted(p, Image(s))) \subseteq StoredIn(p) \union {Image(s)}
      /\ NewestIn(Persisted(p, Image(s))) = Image(s)
  BY <1>1, PersistedStored
<1>4. /\ Stored = StoredIn(writes)
      /\ Stored' = StoredIn(writes') /\ Newest' = NewestIn(writes')
  BY DEF Stored, Newest, StoredIn, NewestIn
<1>5. writes' = Persisted(p, Image(s))
  BY DEF p
<1> QED
  BY <1>2, <1>3, <1>4, <1>5

LEMMA WriteStored ==
    ASSUME TypeOK, Write
    PROVE  Stored' \subseteq Stored /\ Newest' = Newest
<1>0. writes \in Seq(Images) /\ writes # <<>>
  BY Types DEF Write
<1>1. /\ disk' = writes[1] /\ Len(writes') = Len(writes) - 1 /\ Len(writes) \in Nat
      /\ Len(writes) > 0 /\ writes' \in Seq(Images)
      /\ \A n \in 1 .. Len(writes) - 1 : writes'[n] = writes[n + 1]
  BY <1>0 DEF Write
<1>2. Stored' \subseteq Stored
  BY <1>1 DEF Stored
<1>3. CASE Len(writes) = 1
  <2>1. writes' = <<>>
    BY <1>1, <1>3, EmptySeq
  <2> QED
    BY <1>0, <1>1, <1>2, <1>3, <2>1 DEF Newest, Last
<1>4. CASE Len(writes) # 1
  <2>1. writes' # <<>>
    BY <1>1, <1>4
  <2>2. Last(writes') = Last(writes)
    BY <1>1, <1>4 DEF Last
  <2> QED
    BY <1>0, <1>2, <2>1, <2>2 DEF Newest
<1> QED
  BY <1>3, <1>4

LEMMA SpawnedFields ==
    ASSUME NEW r \in Records, NEW g, NEW b, b = Spawned(r, g)
    PROVE  b = [state |-> r.state, id |-> r.id, gen |-> r.gen, pid |-> g,
                own |-> TRUE, stop |-> r.stop, timer |-> r.timer]
BY DEF Spawned, Records

\* What a launch leaves behind.
Launched(r) ==
    LET g == launched + 1 IN
    /\ launched < MaxLaunch /\ launched' = g /\ rec' \in Records
    /\ rec'.state = "running" /\ rec'.id = r.id /\ rec'.gen = g /\ rec'.pid \in {0, g}
    /\ ~rec'.stop /\ rec'.timer = r.timer
    /\ \A w \in Stored' : w \in Stored \/ (w.gen = g /\ w.state = "running" /\ w.pid \in {0, g})
    /\ Newest'.pid = rec'.pid
    /\ \A k \in Launches : k # g => proc'[k] = proc[k] /\ reading'[k] = reading[k]
                                    /\ (k \in watched' <=> k \in watched)
    /\ proc[g] # "alive" /\ proc'[g] = "alive" => rec'.pid = g
    /\ rec'.pid = g => g \in watched'
    /\ reading[g] = 0 /\ reading'[g] > 0 => proc'[g] # "alive"
    /\ opening' # opening =>
          /\ opening' = opening \union {g} /\ rec'.pid = 0 /\ OpensAlone
          /\ watched' = watched /\ reading' = reading /\ proc' = proc

LEMMA LaunchEffect ==
    ASSUME TypeOK, NEW r \in Records, LaunchNow(r), disk' = disk
    PROVE  Launched(r)
<1> DEFINE g == launched + 1
           begun == Begun(r, g)
           running == Spawned(begun, g)
<1>0. launched < MaxLaunch /\ g \in Launches /\ g \in 0 .. MaxLaunch /\ launched' = g /\ g # 0
  BY Types, BoundAssumption DEF LaunchNow, Launches
<1>1. begun \in Records /\ running \in Records
  BY <1>0, BegunTyped
<1>2. begun = [state |-> "running", id |-> r.id, gen |-> g, pid |-> 0,
               own |-> r.own, stop |-> FALSE, timer |-> r.timer]
  BY BegunFields
<1>3. running = [state |-> "running", id |-> r.id, gen |-> g, pid |-> g,
                 own |-> TRUE, stop |-> FALSE, timer |-> r.timer]
  <2> HIDE DEF begun
  <2>1. running = [state |-> begun.state, id |-> begun.id, gen |-> begun.gen, pid |-> g,
                   own |-> TRUE, stop |-> begun.stop, timer |-> begun.timer]
    BY <1>1, SpawnedFields
  <2> HIDE DEF running
  <2> QED
    BY <1>2, <2>1
<1>4. /\ Image(begun) = [state |-> "running", gen |-> g, pid |-> 0]
      /\ Image(running) = [state |-> "running", gen |-> g, pid |-> g]
  BY <1>2, <1>3 DEF Image
<1>5. /\ reading \in [Launches -> Nat] /\ proc \in [Launches -> {"none", "alive", "dead"}]
      /\ watched \subseteq Launches
  BY Types DEF TypeOK
<1>6. CASE /\ rec' = running /\ proc' = [proc EXCEPT ![g] = "alive"]
           /\ watched' = watched \union {g}
           /\ writes' = Persisted(Persisted(writes, Image(begun)), Image(running))
           /\ UNCHANGED <<opening, reading>>
  <2>1. Stored' \subseteq Stored \union {Image(begun), Image(running)} /\ Newest' = Image(running)
    BY <1>1, <1>6, PersistTwice
  <2> HIDE DEF g, begun, running
  <2>2. /\ rec'.state = "running" /\ rec'.id = r.id /\ rec'.gen = g /\ rec'.pid = g
        /\ ~rec'.stop /\ rec'.timer = r.timer
    BY <1>3, <1>6
  <2>3. Newest'.pid = rec'.pid
    BY <1>4, <2>1, <2>2
  <2>4. ASSUME NEW w \in Stored'
        PROVE  w \in Stored \/ (w.gen = g /\ w.state = "running" /\ w.pid \in {0, g})
    BY <1>4, <2>1, <2>4
  <2>5. \A k \in Launches : k # g => proc'[k] = proc[k] /\ reading'[k] = reading[k]
                                    /\ (k \in watched' <=> k \in watched)
    BY <1>5, <1>6
  <2>6. /\ g \in watched' /\ rec' \in Records /\ opening' = opening
        /\ ~(reading[g] = 0 /\ reading'[g] > 0)
    BY <1>0, <1>1, <1>5, <1>6
  <2> QED
    BY <1>0, <2>2, <2>3, <2>4, <2>5, <2>6 DEF Launched, g
<1>7. CASE /\ rec' = begun /\ Persist(begun)
           /\ \/ /\ proc' = [proc EXCEPT ![g] = "dead"]
                 /\ reading' = [reading EXCEPT ![g] = @ + 1]
                 /\ UNCHANGED <<opening, watched>>
              \/ /\ spec.detached /\ OpensAlone
                 /\ opening' = opening \union {g}
                 /\ UNCHANGED <<proc, watched, reading>> 
  <2>1. Stored' \subseteq Stored \union {Image(begun)} /\ Newest' = Image(begun)
    BY <1>1, <1>7, PersistStored
  <2> HIDE DEF g, begun, running
  <2>2. /\ rec'.state = "running" /\ rec'.id = r.id /\ rec'.gen = g /\ rec'.pid = 0
        /\ ~rec'.stop /\ rec'.timer = r.timer
    BY <1>2, <1>7
  <2>3. Newest'.pid = rec'.pid
    BY <1>4, <2>1, <2>2
  <2>4. ASSUME NEW w \in Stored'
        PROVE  w \in Stored \/ (w.gen = g /\ w.state = "running" /\ w.pid \in {0, g})
    BY <1>4, <2>1, <2>4
  <2>5. \A k \in Launches : k # g => proc'[k] = proc[k] /\ reading'[k] = reading[k]
                                    /\ (k \in watched' <=> k \in watched)
    BY <1>5, <1>7
  <2>6. /\ proc'[g] = "alive" => proc[g] = "alive" /\ proc' = proc
        /\ rec' \in Records
        /\ reading[g] = 0 /\ reading'[g] > 0 => proc'[g] # "alive"
        /\ opening' # opening =>
              /\ opening' = opening \union {g} /\ OpensAlone
              /\ watched' = watched /\ reading' = reading /\ proc' = proc
    BY <1>0, <1>1, <1>5, <1>7
  <2> QED
    BY <1>0, <2>2, <2>3, <2>4, <2>5, <2>6 DEF Launched, g
<1> QED
  BY <1>6, <1>7 DEF LaunchNow

LEMMA LaunchKeeps ==
    ASSUME IInv, TypeOK', Behaviours = {}, NEW r, Launched(r), broker # "down",
           NoneRuns, opening = {}, ~r.timer, armed' = 0, ~stopped',
           UNCHANGED <<spec, broker, disk, lost>>, op'[Closer] = op[Closer],
           \A k \in Handlers :
               \/ op'[k] = Idle
               \/ op'[k] = op[k] /\ (op[k].kind = "stop" \/ op[k].at = "check"),
           \/ rec'.id = rec.id
           \/ \A k \in Handlers : op'[k] # Idle => op[k].kind = "stop",
           \A k \in Requests : op'[k].kind \in {"start", "replace"} => starting'
    PROVE  IInv'
<1> DEFINE g == launched + 1
<1> USE DEF IInv
<1>0. /\ g \in Launches /\ g # 0 /\ launched \in Nat /\ launched' = g
      /\ proc[g] = "none" /\ g \notin lost /\ g \notin watched /\ reading[g] = 0
  <2>1. g \in Launches /\ launched \in Nat /\ launched' = g /\ g # 0
    BY Types, BoundAssumption DEF Launched, Launches
  <2> QED
    BY <2>1 DEF FreshInv
<1>1. /\ rec'.state = "running" /\ rec'.id = r.id /\ rec'.gen = g /\ rec'.pid \in {0, g}
      /\ ~rec'.stop /\ ~rec'.timer
      /\ \A w \in Stored' : w \in Stored \/ (w.gen = g /\ w.state = "running" /\ w.pid \in {0, g})
      /\ Newest'.pid = rec'.pid
      /\ \A k \in Launches : k # g => proc'[k] = proc[k] /\ reading'[k] = reading[k]
                                      /\ (k \in watched' <=> k \in watched)
      /\ proc'[g] = "alive" => rec'.pid = g
      /\ rec'.pid = g => g \in watched'
      /\ reading'[g] > 0 => proc'[g] # "alive"
      /\ opening' # {} =>
          /\ opening' = {g} /\ rec'.pid = 0 /\ OpensAlone
          /\ watched' = watched /\ reading' = reading
  BY <1>0 DEF Launched
<1> HIDE DEF g
<1>2. TimersInv'
  BY <1>1 DEF TimersInv
<1>3. FreshInv'
  <2>1. ASSUME NEW k \in Launches, k > g
        PROVE  /\ proc'[k] = "none" /\ k \notin lost' /\ k \notin watched' /\ reading'[k] = 0
    BY <1>0, <1>1, <2>1 DEF FreshInv, g, Launches
  <2>2. ASSUME NEW w \in Stored'
        PROVE  w.gen <= launched'
    <3>1. CASE w \in Stored
      BY <1>0, <3>1, StoredTyped DEF FreshInv, g
    <3>2. CASE w.gen = g
      BY <1>0, <3>2 DEF g
    <3> QED
      BY <1>1, <3>1, <3>2
  <2>3. rec'.gen <= launched'
    BY <1>0, <1>1 DEF g
  <2> QED
    BY <1>0, <2>1, <2>2, <2>3 DEF FreshInv
<1>4. GoneInv'
  BY DEF GoneInv
<1>5. StoredInv'
  <2>1. 0 \notin lost
    BY DEF TypeOK, Launches
  <2> QED
    BY <1>0, <1>1, <2>1 DEF StoredInv
<1>6. OpenInv'
  <2>1. CASE opening' # {}
    <3>1. opening' = {g} /\ rec'.pid = 0 /\ watched' = watched /\ reading' = reading
      BY <1>1, <2>1
    <3>2. \A h \in Handlers : op'[h] = Idle
      BY <1>1, <2>1 DEF OpensAlone
    <3>3. broker' = "up"
      <4>1. op[Closer].kind # "close"
        BY <3>2 DEF Handlers, Idle
      <4> QED
        BY <4>1 DEF OpsInv, TypeOK
    <3> QED
      BY <1>0, <1>1, <3>1, <3>2, <3>3 DEF OpenInv
  <2> QED
    BY <2>1 DEF OpenInv
<1>7. OpsInv'
  <2>1. /\ Idle.kind = "none" /\ Idle.at = "idle" /\ Idle.kind \notin Launching
    BY DEF Idle, Launching
  <2>2. \A h \in Requests : /\ op'[h].kind # "close" /\ op'[h].at \notin {"closed", "written"}
    BY <2>1 DEF OpsInv, Handlers
  <2>3. ASSUME NEW h \in Handlers
        PROVE  /\ op'[h].at = "relaunch" => op'[h].kind \in Launching
               /\ op'[h].kind = "none" \/ op'[h].at = "idle" => op'[h] = Idle
               /\ op'[h].kind \in Launching => broker' = "up" /\ op'[h].of = rec'.id
               /\ op'[h].kind = "close" => broker' = "closing" /\ op'[h].of = rec'.id
    <3>1. CASE op'[h] = Idle
      BY <2>1, <3>1
    <3>2. CASE op'[h] # Idle
      <4>1. op'[h] = op[h] /\ (op[h].kind = "stop" \/ rec'.id = rec.id)
        BY <3>2
      <4>2. "stop" \notin Launching
        BY DEF Launching
      <4> QED
        BY <4>1, <4>2 DEF OpsInv, Relauncher
    <3> QED
      BY <3>1, <3>2
  <2>4. /\ \A h \in Requests : op'[h].kind \in Launching => op'[h].at = "check"
        /\ \A h, k \in Requests :
               op'[h].kind \in {"start", "replace"} /\ op'[k].kind \in {"start", "replace"}
                  => h = k
    <3>1. \A h \in Requests : op'[h].kind \in Launching => op'[h] = op[h] /\ op[h].at = "check"
      BY <2>1 DEF Handlers, Launching
    <3> QED
      BY <3>1 DEF OpsInv, Launching
  <2>5. /\ op'[Closer].kind \in {"none", "close"}
        /\ op'[Closer].kind = "close" <=> broker' = "closing"
    BY DEF OpsInv
  <2> QED
    BY <2>2, <2>3, <2>4, <2>5, Zenon DEF OpsInv, Relauncher
<1>8. StopInv'
  BY <1>1 DEF StopInv, OpsInv, Relauncher, Handlers, Idle
<1>9. CloseInv'
  BY <1>1 DEF CloseInv, OpsInv, Handlers, Idle
<1>10. HeardInv'
  BY <1>0, <1>1 DEF HeardInv, Runs
<1>11. StoppedInv'
  BY DEF StoppedInv
<1>12. ProcessTracked'
  BY <1>0, <1>1 DEF ProcessTracked, NoneRuns, Runs, Settled, Terminal
<1> QED
  BY <1>2, <1>3, <1>4, <1>5, <1>6, <1>7, <1>8, <1>9, <1>10, <1>11, <1>12

LEMMA TimerKeeps ==
    ASSUME IInv, TypeOK', Behaviours = {}, TimerFires
    PROVE  IInv'
<1> USE DEF IInv
<1>1. /\ broker # "down" /\ armed > 0 /\ armed' = armed - 1 /\ LaunchNow(TimerTaken)
      /\ UNCHANGED <<spec, broker, starting, op, disk, stopped, lost>>
  BY DEF TimerFires, ghosts
<1>2. rec.timer /\ armed = 1 /\ rec.state = "restarting" /\ ~rec.stop
  BY <1>1 DEF TimersInv
<1>3. TimerTaken \in Records /\ ~TimerTaken.timer /\ TimerTaken.id = rec.id
  BY Types DEF TimerTaken, Records
<1>4. Launched(TimerTaken)
  BY <1>1, <1>3, LaunchEffect
<1>5. NoneRuns /\ opening = {} /\ ~stopped'
  BY <1>1, <1>2 DEF NoneRuns, Runs, ProcessTracked, Settled, OpenInv, StoppedInv
<1>6. \A k \in Handlers :
        op[k] = Idle \/ op[k].kind = "stop" \/ op[k].at = "check"
  <2> SUFFICES ASSUME NEW k \in Handlers, op[k].kind # "stop"
               PROVE  op[k] = Idle \/ op[k].at = "check"
    OBVIOUS
  <2>1. op[k].at \in Ats
    BY Types DEF Calls
  <2>2. op[k].at \notin {"killing", "waiting", "relaunch"}
    BY <1>2 DEF StopInv
  <2>3. op[k].at \notin {"closed", "written"}
    BY <1>2 DEF CloseInv, OpsInv, Handlers
  <2> QED
    BY <2>1, <2>2, <2>3 DEF OpsInv, Ats
<1>7. rec'.id = rec.id
  BY <1>3, <1>4 DEF Launched
<1>8. \A k \in Requests : op'[k].kind \in {"start", "replace"} => starting'
  BY <1>1 DEF OpsInv
<1>9. op' = op /\ armed' = 0
  BY <1>1, <1>2
<1> QED
  BY <1>1, <1>3, <1>4, <1>5, <1>6, <1>7, <1>8, <1>9, LaunchKeeps

\* What an answer leaves of the requests in progress.
LEMMA AnsweredCalls ==
    ASSUME TypeOK, NEW h \in Handlers, Answered(h)
    PROVE  /\ op'[h] = Idle /\ \A k \in Handlers : k # h => op'[k] = op[k]
           /\ stopped' => stopped \/ op[h].kind = "stop"
           /\ op[h].kind \notin {"start", "replace"} => starting' = starting
<1>1. op' = [op EXCEPT ![h] = Idle]
  BY DEF Answered
<1>2. stopped' => stopped \/ op[h].kind = "stop"
  BY Zenon DEF Answered
<1>3. op[h].kind \notin {"start", "replace"} => starting' = starting
  BY DEF Answered, TypeOK
<1> QED
  BY <1>1, <1>2, <1>3, Types

LEMMA RelaunchKeeps ==
    ASSUME IInv, TypeOK', Behaviours = {}, NEW h \in Handlers, Relaunches(h)
    PROVE  IInv'
<1> USE DEF IInv
<1> DEFINE r0 == [NoRecord EXCEPT !.id = launched + 1]
           r == IF op[h].kind = "restart" THEN rec ELSE r0
<1>1. /\ op[h].at = "relaunch" /\ broker # "down" /\ Answered(h)
      /\ LaunchNow(r)
      /\ UNCHANGED <<spec, broker, armed, disk, lost>>
  BY DEF Relaunches, OpsInv, Relauncher
<1>2. /\ h \in Requests /\ Relauncher(h) /\ broker = "up" /\ op[h].of = rec.id
      /\ op[h].kind # "stop" /\ Alone(h)
  BY <1>1 DEF OpsInv, Handlers, Relauncher, Launching
<1>3. /\ ~rec.timer /\ NoneRuns /\ armed = 0 /\ op[h] # Idle
  BY <1>1, <1>2 DEF StopInv, TimersInv, Idle
<1>4. /\ r0 \in Records \/ launched = MaxLaunch
      /\ ~r0.timer
  <2>1. r0 = [state |-> "none", id |-> launched + 1, gen |-> 0, pid |-> 0,
              own |-> FALSE, stop |-> FALSE, timer |-> FALSE]
    BY RelaunchFields
  <2> HIDE DEF r0
  <2>2. launched + 1 \in 0 .. MaxLaunch \/ launched = MaxLaunch
    BY Types, BoundAssumption
  <2> QED
    BY <2>1, <2>2, BoundAssumption DEF Records, States
<1>5. launched # MaxLaunch
  BY <1>1, Types, BoundAssumption DEF LaunchNow
<1>6. r \in Records /\ ~r.timer /\ (op[h].kind = "restart" => r = rec)
  BY <1>3, <1>4, <1>5, Types
<1> HIDE DEF r0, r
<1>7. Launched(r)
  BY <1>1, <1>6, LaunchEffect
<1>8. opening = {} /\ ~stopped
  BY <1>2, <1>3 DEF OpenInv, StoppedInv
<1>9. /\ op'[h] = Idle /\ \A k \in Handlers : k # h => op'[k] = op[k]
      /\ ~stopped'
      /\ op[h].kind = "restart" => starting' = starting
  BY <1>1, <1>2, <1>8, AnsweredCalls
<1>10. op[Closer] = Idle /\ h # Closer
  BY <1>2, CloserAssumption DEF OpsInv, Handlers
<1>11. ASSUME NEW k \in Handlers, op'[k] # Idle
       PROVE  /\ k \in Requests /\ k # h /\ op'[k] = op[k]
              /\ op[k].kind = "stop" \/ (Relauncher(k) /\ op[k].at = "check")
              /\ op[h].kind # "restart" => op[k].kind = "stop"
  <2>1. k \in Requests /\ k # h /\ op'[k] = op[k]
    BY <1>9, <1>10, <1>11 DEF Handlers
  <2>2. op[k].kind = "stop" \/ Relauncher(k)
    <3>1. op[k].kind # "close" /\ op[k] \in Calls /\ (op[k].kind = "none" => op[k] = Idle)
      BY <2>1, Types DEF OpsInv
    <3> QED
      BY <1>11, <2>1, <3>1 DEF Calls, Kinds, Relauncher
  <2>3. Relauncher(k) => op[k].at = "check" /\ (op[h].kind # "restart" => op[k].kind # "restart")
    BY <1>2, <2>1 DEF Alone
  <2>4. op[h].kind # "restart" /\ Relauncher(k) => op[k].kind = "restart"
    BY <1>2, <2>1 DEF OpsInv, Relauncher, Launching
  <2> QED
    BY <2>1, <2>2, <2>3, <2>4
<1>12. \A k \in Requests : op'[k].kind \in {"start", "replace"} => starting'
  <2> SUFFICES ASSUME NEW k \in Requests, op'[k].kind \in {"start", "replace"}
               PROVE  starting'
    OBVIOUS
  <2>1. op'[k] # Idle /\ k \in Handlers
    BY DEF Idle, Handlers
  <2>2. op'[k] = op[k] /\ op[h].kind = "restart"
    BY <1>11, <2>1
  <2> QED
    BY <1>9, <2>2 DEF OpsInv
<1>13. op'[Closer] = op[Closer]
  BY <1>9, <1>10 DEF Handlers
<1>14. \A k \in Handlers :
         \/ op'[k] = Idle
         \/ op'[k] = op[k] /\ (op[k].kind = "stop" \/ op[k].at = "check")
  BY <1>11
<1>15. \/ rec'.id = rec.id
       \/ \A k \in Handlers : op'[k] # Idle => op[k].kind = "stop"
  BY <1>6, <1>7, <1>11 DEF Launched
<1> QED
  BY <1>1, <1>2, <1>3, <1>6, <1>7, <1>8, <1>9, <1>12, <1>13, <1>14, <1>15, LaunchKeeps

LEMMA SameStored ==
    ASSUME UNCHANGED <<disk, writes>>
    PROVE  Stored' = Stored /\ Newest' = Newest
BY DEF Stored, Newest

LEMMA CallKeeps ==
    ASSUME IInv, TypeOK', Behaviours = {}, NEW h \in Requests,
           StartCalled(h) \/ RestartCalled(h) \/ StopCalled(h)
    PROVE  IInv'
<1> USE DEF IInv
<1>1. PICK k \in {"start", "replace", "restart", "stop"} : Called(h, k) /\
         \/ k \in {"start", "replace"} /\ StartAdmitted /\ starting' /\ ~stopped'
         \/ k = "restart" /\ RestartAdmitted /\ ~stopped' /\ UNCHANGED starting
         \/ k = "stop" /\ UNCHANGED <<starting, stopped>>
  BY Zenon DEF StartCalled, RestartCalled, StopCalled
<1> DEFINE c == [kind |-> k, at |-> "check", of |-> rec.id, target |-> 0]
<1>2. /\ broker = "up" \/ (broker = "closing" /\ k = "stop")
      /\ op[h] = Idle /\ opening = {} /\ op' = [op EXCEPT ![h] = c]
      /\ UNCHANGED <<spec, broker, rec, armed, opening, watched, reading, writes, disk, launched,
                     proc, downs, lost>>
  BY <1>1 DEF Called, NoneOpens, worldVars
<1>3. /\ c.kind = k /\ c.at = "check" /\ c.of = rec.id
      /\ h \in Handlers /\ h # Closer
  BY CloserAssumption DEF Handlers
<1> HIDE DEF c
<1>4. op'[h] = c /\ \A j \in Handlers : j # h => op'[j] = op[j]
  BY <1>2, <1>3, Types
<1>5. Stored' = Stored /\ Newest' = Newest
  BY <1>2, SameStored
<1>6. TimersInv' /\ FreshInv' /\ GoneInv' /\ StoredInv' /\ OpenInv' /\ HeardInv' /\ ProcessTracked'
  BY <1>2, <1>5 DEF TimersInv, FreshInv, GoneInv, StoredInv, OpenInv, HeardInv, ProcessTracked,
                    Settled, Terminal, Runs
<1>7. OpsInv'
  <2>1. \A i, j \in Requests :
            op'[i].kind \in {"start", "replace"} /\ op'[j].kind \in {"start", "replace"}
               => i = j
    <3>1. k \in {"start", "replace"} => \A j \in Requests : op[j].kind \notin {"start", "replace"}
      BY <1>1 DEF StartAdmitted, OpsInv
    <3>2. op'[h].kind = k /\ \A j \in Requests : j # h => op'[j] = op[j]
      BY <1>3, <1>4 DEF Handlers
    <3>3. \A i, j \in Requests :
              op[i].kind \in {"start", "replace"} /\ op[j].kind \in {"start", "replace"}
                 => i = j
      BY DEF OpsInv
    <3> QED
      BY <3>1, <3>2, <3>3
  <2>2. op'[Closer] = op[Closer]
    BY <1>3, <1>4 DEF Handlers
  <2>5. ASSUME NEW i \in Requests, op'[i].kind \in Launching, op'[i].at # "check",
               NEW j \in Requests \ {i}, op'[j].kind \in Launching
        PROVE  op'[j].at = "check" /\ (op'[i].kind # "restart" => op'[j].kind # "restart")
    <3>1. i # h /\ op'[i] = op[i] /\ Alone(i)
      BY <1>3, <1>4, <2>5 DEF OpsInv, Relauncher, Handlers
    <3>2. CASE j # h
      BY <1>4, <2>5, <3>1, <3>2 DEF Alone, Relauncher, Handlers
    <3>3. CASE j = h
      <4>1. op[i].kind \in {"start", "replace"} => k # "restart"
        BY <1>1, <2>5, <3>1 DEF RestartAdmitted
      <4> QED
        BY <1>3, <1>4, <2>5, <3>1, <3>3, <4>1 DEF Launching
    <3> QED
      BY <3>2, <3>3
  <2>3. k # "none" /\ k # "close" /\ (k \in Launching => broker = "up")
    BY <1>2 DEF Launching
  <2>4. \A i \in Requests : op'[i].kind \in {"start", "replace"} => starting'
    BY <1>1, <1>3, <1>4 DEF OpsInv, Handlers
  <2> QED
    BY <1>2, <1>3, <1>4, <2>1, <2>2, <2>3, <2>4, <2>5 DEF OpsInv, Alone, Relauncher, Handlers
<1>8. StopInv'
  <2>1. op[h].at = "idle"
    BY <1>2 DEF Idle
  <2> QED
    BY <1>2, <1>3, <1>4, <2>1 DEF StopInv, NoneRuns, Runs, Relauncher, Terminal
<1>9. CloseInv'
  <2>1. op'[Closer] = op[Closer]
    BY <1>3, <1>4 DEF Handlers
  <2> QED
    BY <1>2, <1>5, <2>1 DEF CloseInv, NoneRuns, Runs
<1>10. StoppedInv'
  <2>1. stopped' => stopped /\ k = "stop" /\ k \notin Launching
    BY <1>1 DEF Launching
  <2> QED
    BY <1>2, <1>3, <1>4, <2>1 DEF StoppedInv, NoneRuns, Runs, Relauncher, Terminal, Handlers
<1> QED
  BY <1>6, <1>7, <1>8, <1>9, <1>10

LEMMA ProceedsCalls ==
    ASSUME TypeOK, NEW h \in Handlers, Proceeds(h)
    PROVE  /\ \A k \in Handlers : k # h => op'[k] = op[k]
           /\ op[h].kind = "stop" => op'[h] = Idle /\ Answered(h)
           /\ op[h].kind # "stop" =>
                /\ op'[h].kind = op[h].kind /\ op'[h].of = op[h].of
                /\ op'[h].at = IF op[h].kind = "close" THEN "closed" ELSE "relaunch"
                /\ stopped' = stopped
           /\ op[h].kind \notin {"start", "replace"} \/ op[h].kind # "stop" => starting' = starting
<1>1. CASE op[h].kind = "stop"
  BY <1>1, AnsweredCalls DEF Proceeds
<1>2. CASE op[h].kind # "stop"
  BY <1>2, Types DEF Proceeds, Calls
<1> QED
  BY <1>1, <1>2

\* What a stop leaves when it is answered.
LEMMA AnsweredStopped ==
    ASSUME IInv, NEW h \in Handlers, Answered(h), op[h] # Idle, UNCHANGED <<broker, opening>>,
           TimersInv', StopInv', ProcessTracked',
           stopped => NoneRuns' /\ ~rec'.timer /\ (Terminal' \/ rec'.stop)
    PROVE  StoppedInv'
<1> USE DEF IInv
<1>1. op'[h] = Idle /\ \A k \in Handlers : k # h => op'[k] = op[k]
  BY AnsweredCalls
<1>2. opening' = {} /\ broker' # "down" /\ Idle.at = "idle" /\ Idle.kind \notin Launching
  BY DEF OpenInv, GoneInv, Idle, Launching
<1>3. CASE stopped
  BY <1>1, <1>2, <1>3 DEF StoppedInv, Relauncher, Handlers
<1>4. CASE ~stopped /\ stopped'
  <2>1. /\ rec'.stop \/ rec'.state = "exited"
        /\ ~Active(Launching) /\ \A k \in Handlers : op[k].at # "killing"
    BY <1>4 DEF Answered
  <2>2. ~rec'.timer /\ (Terminal' \/ rec'.stop)
    BY <2>1 DEF TimersInv, Terminal
  <2>3. \A k \in Handlers : op'[k].at # "killing"
    BY <1>1, <1>2, <2>1
  <2>4. NoneRuns'
    BY <1>2, <2>1, <2>3 DEF NoneRuns, StopInv, Runs, ProcessTracked, Settled, Terminal
  <2>5. \A k \in Requests : op'[k].kind \notin Launching
    BY <1>1, <1>2, <2>1 DEF Active, Handlers
  <2> QED
    BY <1>2, <2>2, <2>4, <2>5 DEF StoppedInv, Relauncher
<1> QED
  BY <1>3, <1>4 DEF StoppedInv

\* Handler h goes on, or is done.
MovesOn(h) ==
    /\ \A k \in Handlers : k # h => op'[k] = op[k]
    /\ op[h] # Idle
    /\ \/ /\ op'[h] = Idle /\ h \in Requests
          /\ op[h].kind \notin {"start", "replace"} => starting' = starting
       \/ /\ op'[h].kind = op[h].kind /\ op'[h].of = op[h].of /\ op'[h].at # "idle"
          /\ op'[h].at = "relaunch" => Relauncher(h)
          /\ op'[h].at \in {"closed", "written"} => h = Closer
          /\ starting' = starting

\* It goes on from its look at the daemon in its turn.
InTurn(h) == op'[h] # Idle /\ op[h].at = "check" /\ Relauncher(h) => Alone(h)

LEMMA TurnAlone ==
    ASSUME IInv, Behaviours = {}, NEW h \in Handlers, Turn(h)
    PROVE  Relauncher(h) => Alone(h)
<1> SUFFICES ASSUME Relauncher(h), NEW k \in Requests \ {h}, Relauncher(k)
             PROVE  op[k].at = "check" /\ (op[h].kind # "restart" => op[k].kind # "restart")
  BY DEF Alone
<1>1. h \in Requests /\ op[h].kind \in Launching /\ op[k].kind \in Launching
  BY DEF IInv, OpsInv, Relauncher, Handlers, Launching
<1>2. \/ op[h].kind = "restart" /\ op[k].kind = "restart"
      \/ op[h].kind = "restart" /\ op[k].kind \in {"start", "replace"}
      \/ op[h].kind \in {"start", "replace"} /\ op[k].kind = "restart"
  BY <1>1 DEF IInv, OpsInv, Launching
<1>3. CASE op[h].kind = "restart" /\ op[k].kind = "restart"
  BY <1>3 DEF Turn
<1>4. CASE op[h].kind # op[k].kind
  <2>1. /\ "restart" \in {op[h].kind, op[k].kind}
        /\ {op[h].kind, op[k].kind} \intersect {"start", "replace"} # {}
    BY <1>2, <1>4
  <2>2. op[h].kind = "restart" /\ op[k].at = "check"
    BY <2>1 DEF Turn
  <2> QED
    BY <2>2
<1> QED
  BY <1>2, <1>3, <1>4

LEMMA OpsMove ==
    ASSUME IInv, NEW h \in Handlers, MovesOn(h), InTurn(h), rec'.id = rec.id, UNCHANGED broker
    PROVE  OpsInv'
<1> USE DEF IInv
<1>1. /\ Idle.kind = "none" /\ Idle.at = "idle" /\ Idle.kind \notin Launching
      /\ Closer \in Handlers /\ Closer \notin Requests
  BY CloserAssumption DEF Idle, Launching, Handlers
<1>2. op[h].kind # "none" /\ op[h].at # "idle"
  BY DEF OpsInv, MovesOn
<1>3. CASE op'[h] = Idle
  <2>1. h \in Requests /\ op'[Closer] = op[Closer]
    BY <1>1, <1>2, <1>3 DEF MovesOn
  <2>2. ASSUME NEW k \in Requests, op'[k].kind \in {"start", "replace"}
        PROVE  starting'
    <3>1. k # h /\ k \in Handlers /\ op[k].kind \in {"start", "replace"} /\ Relauncher(k)
      BY <1>1, <1>3, <2>2 DEF MovesOn, Handlers, Relauncher, Launching
    <3>2. op[h].kind \notin {"start", "replace"}
      BY <2>1, <3>1 DEF OpsInv
    <3>3. starting' = starting
      BY <1>1, <1>2, <1>3, <3>2 DEF MovesOn
    <3> QED
      BY <2>2, <3>1, <3>3 DEF OpsInv
  <2>3. \A k \in Requests : op'[k].kind \in Launching => op'[k] = op[k]
    BY <1>1, <1>3 DEF MovesOn, Handlers
  <2>4. \A k \in Requests : op'[k].kind \in Launching /\ op'[k].at # "check" => Alone(k)'
    BY <2>3 DEF OpsInv, Alone, Relauncher
  <2> QED
    BY <1>1, <1>3, <2>1, <2>2, <2>3, <2>4 DEF OpsInv, MovesOn, Relauncher, Handlers, Launching
<1>4. CASE op'[h] # Idle
  <2>1. /\ op'[h].kind = op[h].kind /\ op'[h].of = op[h].of /\ op'[h].at # "idle"
        /\ op'[h].at = "relaunch" => Relauncher(h)
        /\ op'[h].at \in {"closed", "written"} => h = Closer
        /\ starting' = starting
    BY <1>4 DEF MovesOn
  <2>2. \A k \in Handlers : op'[k].kind = op[k].kind /\ op'[k].of = op[k].of
    BY <2>1 DEF MovesOn
  <2>3. \A k \in Requests : op'[k].at \notin {"closed", "written"}
    BY <1>1, <2>1 DEF OpsInv, MovesOn, Handlers
  <2>4. ASSUME NEW k \in Handlers
        PROVE  /\ op'[k].at = "relaunch" => op'[k].kind \in Launching
               /\ op'[k].kind = "none" \/ op'[k].at = "idle" => op'[k] = Idle
    <3>1. CASE k = h
      BY <1>2, <2>1, <3>1 DEF Relauncher
    <3>2. CASE k # h
      BY <3>2 DEF OpsInv, MovesOn, Relauncher
    <3> QED
      BY <3>1, <3>2
  <2>5. ASSUME NEW k \in Requests, op'[k].kind \in Launching, op'[k].at # "check"
        PROVE  Alone(k)'
    <3>1. CASE k = h
      <4>1. Alone(h)
        BY <1>4, <2>2, <2>5, <3>1 DEF OpsInv, InTurn, Relauncher, Handlers
      <4>2. \A j \in Requests \ {h} : op'[j] = op[j]
        BY DEF MovesOn, Handlers
      <4> QED
        BY <2>1, <3>1, <4>1, <4>2 DEF Alone, Relauncher
    <3>2. CASE k # h
      <4>1. op'[k] = op[k] /\ Alone(k)
        BY <2>5, <3>2 DEF OpsInv, MovesOn, Relauncher, Handlers
      <4>2. ~(h \in Requests /\ Relauncher(h))
        <5> SUFFICES ASSUME h \in Requests, Relauncher(h)
                     PROVE  FALSE
          OBVIOUS
        <5>1. op[h].at = "check"
          BY <3>2, <4>1 DEF Alone
        <5>2. Alone(h)
          BY <1>4, <5>1 DEF InTurn
        <5> QED
          BY <2>5, <3>2, <4>1, <5>2 DEF Alone, Relauncher
      <4>3. \A j \in Requests : op'[j].kind \in Launching => op'[j] = op[j]
        BY <2>1, <4>2 DEF MovesOn, Relauncher, Handlers
      <4> QED
        BY <4>1, <4>3 DEF Alone, Relauncher
    <3> QED
      BY <3>1, <3>2
  <2> QED
    BY <1>1, <2>1, <2>2, <2>3, <2>4, <2>5 DEF OpsInv, Relauncher, Handlers
<1> QED
  BY <1>3, <1>4

LEMMA OthersSame ==
    ASSUME IInv, UNCHANGED <<spec, broker, rec, armed, opening, watched, reading, writes, disk,
                             launched, proc, lost>>
    PROVE  TimersInv' /\ FreshInv' /\ StoredInv' /\ HeardInv' /\ ProcessTracked'
<1> USE DEF IInv
<1>1. Stored' = Stored /\ Newest' = Newest
  BY SameStored
<1> QED
  BY <1>1 DEF TimersInv, FreshInv, StoredInv, HeardInv, ProcessTracked, Settled, Terminal,
                Runs

\* A request or a shutdown gets no further than a stop that has nothing to do, or
\* ends without one.
LEMMA OpKeeps ==
    ASSUME IInv, TypeOK', NEW h \in Handlers, MovesOn(h), InTurn(h),
           UNCHANGED <<spec, broker, rec, armed, opening, watched, reading, writes, disk,
                       launched, proc, lost>>,
           op[h].at # "killing",
           op'[h].at \in {"idle", "closed", "relaunch"},
           op'[h].at # "idle" => ~rec.timer /\ NoneRuns /\ (Relauncher(h) => rec.stop \/ Terminal),
           \/ stopped' => stopped
           \/ Answered(h)
    PROVE  IInv'
<1> USE DEF IInv
<1>1. Stored' = Stored /\ Newest' = Newest
  BY SameStored
<1>2. TimersInv' /\ FreshInv' /\ StoredInv' /\ HeardInv' /\ ProcessTracked'
  BY OthersSame
<1>3. opening = {} /\ opening' = {} /\ broker # "down" /\ broker' # "down" /\ Closer \in Handlers
  BY DEF OpenInv, GoneInv, MovesOn, Handlers
<1>4. GoneInv' /\ OpenInv'
  BY <1>3 DEF GoneInv, OpenInv
<1>5. OpsInv'
  BY OpsMove
<1>6. StopInv'
  <2>1. ASSUME rec'.stop, NEW g \in Launches, Runs(g)'
        PROVE  \E k \in Handlers : op'[k].at = "killing" /\ op'[k].target = g
    <3>1. PICK k \in Handlers : op[k].at = "killing" /\ op[k].target = g
      BY <1>3, <2>1 DEF StopInv, Runs
    <3> QED
      BY <3>1 DEF MovesOn
  <2>2. ASSUME NEW k \in Handlers, op'[k].kind # "stop"
        PROVE  /\ op'[k].at = "killing" =>
                   /\ ~rec'.timer /\ \A g \in Launches : Runs(g)' => op'[k].target = g
                   /\ op'[k].kind \in Launching => rec'.stop
               /\ op'[k].at \in {"waiting", "relaunch"} =>
                   /\ ~rec'.timer /\ NoneRuns'
                   /\ op'[k].kind \in Launching => rec'.stop \/ Terminal'
    <3>1. CASE k = h
      <4>1. \/ op'[k].at = "idle"
            \/ /\ ~rec.timer /\ NoneRuns /\ op'[k].kind = op[h].kind
               /\ Relauncher(h) => rec.stop \/ Terminal
        BY <3>1 DEF MovesOn, Idle
      <4> QED
        BY <3>1, <4>1 DEF Runs, NoneRuns, Relauncher, Terminal
    <3>2. CASE k # h
      BY <2>2, <3>2 DEF MovesOn, StopInv, Runs, NoneRuns, Terminal, Relauncher
    <3> QED
      BY <3>1, <3>2
  <2> QED
    BY <2>1, <2>2 DEF StopInv, Relauncher
<1>7. CloseInv'
  BY <1>1, <1>3 DEF CloseInv, MovesOn, NoneRuns, Runs, Idle
<1>8. StoppedInv'
  <2>1. CASE stopped' => stopped
    <3>1. \A k \in Requests : op'[k].kind \in Launching => op[k].kind \in Launching
      BY DEF MovesOn, Idle, Launching, Handlers
    <3> QED
      BY <2>1, <3>1 DEF StoppedInv, NoneRuns, Runs, Relauncher, Terminal
  <2>2. CASE Answered(h)
    <3>1. stopped => NoneRuns' /\ ~rec'.timer /\ (Terminal' \/ rec'.stop)
      BY <1>3 DEF StoppedInv, NoneRuns, Runs, Terminal
    <3>2. op[h] # Idle
      BY DEF MovesOn
    <3> QED
      BY <1>2, <1>6, <2>2, <3>1, <3>2, AnsweredStopped
  <2> QED
    BY <2>1, <2>2
<1> QED
  BY <1>2, <1>4, <1>5, <1>6, <1>7, <1>8

LEMMA ProceedsMoves ==
    ASSUME IInv, NEW h \in Handlers, Proceeds(h), op[h].at \notin {"idle", "relaunch"}
    PROVE  /\ MovesOn(h) /\ op'[h].at \in {"idle", "closed", "relaunch"}
           /\ (stopped' => stopped) \/ Answered(h)
           /\ op'[h].at # "idle" => op[h].kind # "stop"
<1> USE DEF IInv
<1>1. op[h] # Idle /\ op[h].kind # "none" /\ op[h] \in Calls /\ Idle.at = "idle"
  BY Types DEF Idle, OpsInv
<1>2. CASE op[h].kind = "stop"
  <2>1. op'[h] = Idle /\ Answered(h)
    BY <1>2, ProceedsCalls
  <2>2. h \in Requests
    BY <1>2 DEF OpsInv, Handlers
  <2>3. starting' = starting /\ \A k \in Handlers : k # h => op'[k] = op[k]
    BY <1>2, <2>1, AnsweredCalls
  <2> QED
    BY <1>1, <2>1, <2>2, <2>3 DEF MovesOn
<1>3. CASE op[h].kind # "stop"
  <2>1. /\ op'[h].kind = op[h].kind /\ op'[h].of = op[h].of
        /\ op'[h].at = IF op[h].kind = "close" THEN "closed" ELSE "relaunch"
        /\ stopped' = stopped /\ starting' = starting
        /\ \A k \in Handlers : k # h => op'[k] = op[k]
    BY <1>3, ProceedsCalls
  <2>2. op[h].kind = "close" => h = Closer
    BY DEF OpsInv, Handlers
  <2>3. op[h].kind # "close" => Relauncher(h)
    BY <1>1, <1>3 DEF Calls, Kinds, Relauncher
  <2> QED
    BY <1>1, <1>3, <2>1, <2>2, <2>3, Zenon DEF MovesOn
<1> QED
  BY <1>2, <1>3

LEMMA RefusedKeeps ==
    ASSUME IInv, TypeOK', NEW h \in Handlers, StartRefused(h)
    PROVE  IInv'
<1> USE DEF IInv
<1>1. /\ op[h].at = "check" /\ op[h].kind \in {"start", "replace"} /\ Answered(h)
      /\ UNCHANGED <<spec, broker, rec, armed, opening, watched, reading, writes, disk,
                     launched, proc, lost>>
  BY DEF StartRefused, worldVars
<1>2. op'[h] = Idle /\ (\A k \in Handlers : k # h => op'[k] = op[k]) /\ (stopped' => stopped)
  BY <1>1, AnsweredCalls
<1>3. h \in Requests /\ op[h] # Idle /\ Idle.at = "idle"
  BY <1>1 DEF OpsInv, Handlers, Idle
<1>4. MovesOn(h)
  BY <1>1, <1>2, <1>3 DEF MovesOn
<1> QED
  BY <1>1, <1>2, <1>3, <1>4, OpKeeps DEF InTurn

LEMMA StopEndsKeeps ==
    ASSUME IInv, TypeOK', NEW h \in Handlers, StopEnds(h)
    PROVE  IInv'
<1> USE DEF IInv
<1>1. /\ op[h].at = "waiting"
      /\ UNCHANGED <<spec, broker, rec, armed, opening, watched, reading, writes, disk,
                     launched, proc, lost>>
  BY DEF StopEnds, worldVars
<1>2. CASE op[h].kind = "replace" /\ Answered(h)
  <2>1. op'[h] = Idle /\ (\A k \in Handlers : k # h => op'[k] = op[k]) /\ (stopped' => stopped)
    BY <1>2, AnsweredCalls
  <2>2. h \in Requests /\ op[h] # Idle /\ Idle.at = "idle"
    BY <1>1, <1>2 DEF OpsInv, Handlers, Idle
  <2>3. MovesOn(h)
    BY <1>1, <1>2, <2>1, <2>2 DEF MovesOn
  <2> QED
    BY <1>1, <2>1, <2>2, <2>3, OpKeeps DEF InTurn
<1>3. CASE Proceeds(h)
  <2>1. /\ MovesOn(h) /\ op'[h].at \in {"idle", "closed", "relaunch"}
        /\ (stopped' => stopped) \/ Answered(h)
        /\ op'[h].at # "idle" => op[h].kind # "stop"
    BY <1>1, <1>3, ProceedsMoves
  <2>2. op[h].kind # "stop" => ~rec.timer /\ NoneRuns /\ (Relauncher(h) => rec.stop \/ Terminal)
    BY <1>1 DEF StopInv
  <2> QED
    BY <1>1, <2>1, <2>2, OpKeeps DEF InTurn
<1> QED
  BY <1>2, <1>3 DEF StopEnds

LEMMA KillsKeeps ==
    ASSUME IInv, TypeOK', NEW h \in Handlers, StopKills(h)
    PROVE  IInv'
<1> USE DEF IInv
<1>1. /\ op[h].at = "killing" /\ op' = [op EXCEPT ![h].at = "waiting"]
      /\ proc' = IF Alive(op[h].target) THEN [proc EXCEPT ![op[h].target] = "dead"] ELSE proc
      /\ UNCHANGED <<spec, broker, rec, armed, opening, watched, reading, starting, writes, disk,
                     launched, lost, stopped>>
  BY DEF StopKills, ghosts
<1>2. /\ \A k \in Handlers : k # h => op'[k] = op[k]
      /\ op'[h].at = "waiting" /\ op'[h].kind = op[h].kind /\ op'[h].of = op[h].of
      /\ op[h] # Idle
  BY <1>1, Types DEF Calls, Idle
<1>3. MovesOn(h)
  BY <1>1, <1>2 DEF MovesOn
<1>4. \A g \in Launches :
        /\ proc'[g] = "alive" => proc[g] = "alive" /\ g # op[h].target
        /\ proc[g] = "none" => proc'[g] = "none"
  BY <1>1, Types DEF Alive, Launches
<1>5. Stored' = Stored /\ Newest' = Newest
  BY <1>1, SameStored
<1>6. \A g \in Launches : Runs(g)' => Runs(g) /\ g # op[h].target
  BY <1>1, <1>4 DEF Runs
<1>7. opening = {} /\ broker # "down"
  BY <1>2 DEF OpenInv, GoneInv
<1>8. TimersInv' /\ FreshInv' /\ GoneInv' /\ StoredInv' /\ OpenInv' /\ HeardInv'
  BY <1>1, <1>4, <1>5, <1>6, <1>7 DEF TimersInv, FreshInv, GoneInv, StoredInv, OpenInv, HeardInv
<1>9. ProcessTracked'
  BY <1>1, <1>4, <1>7 DEF ProcessTracked, Settled, Terminal
<1>10. OpsInv'
  BY <1>1, <1>3, OpsMove DEF InTurn
<1>11. StopInv'
  <2>1. ASSUME rec'.stop, NEW g \in Launches, Runs(g)'
        PROVE  \E k \in Handlers : op'[k].at = "killing" /\ op'[k].target = g
    <3>1. PICK k \in Handlers : op[k].at = "killing" /\ op[k].target = g
      BY <1>1, <1>6, <1>7, <2>1 DEF StopInv
    <3> QED
      BY <1>2, <1>6, <2>1, <3>1
  <2>2. ASSUME NEW k \in Handlers, op'[k].kind # "stop"
        PROVE  /\ op'[k].at = "killing" =>
                   /\ ~rec'.timer /\ \A g \in Launches : Runs(g)' => op'[k].target = g
                   /\ op'[k].kind \in Launching => rec'.stop
               /\ op'[k].at \in {"waiting", "relaunch"} =>
                   /\ ~rec'.timer /\ NoneRuns'
                   /\ op'[k].kind \in Launching => rec'.stop \/ Terminal'
    <3>1. CASE k = h
      BY <1>1, <1>2, <1>6, <2>2, <3>1 DEF StopInv, NoneRuns, Relauncher
    <3>2. CASE k # h
      BY <1>1, <1>2, <1>6, <2>2, <3>2 DEF StopInv, NoneRuns, Terminal, Relauncher
    <3> QED
      BY <3>1, <3>2
  <2> QED
    BY <2>1, <2>2 DEF StopInv, Relauncher
<1>12. CloseInv'
  BY <1>1, <1>2, <1>5, <1>6 DEF CloseInv, NoneRuns, Handlers
<1>13. StoppedInv'
  BY <1>1, <1>2, <1>6 DEF StoppedInv, NoneRuns, Relauncher, Terminal, Handlers
<1> QED
  BY <1>8, <1>9, <1>10, <1>11, <1>12, <1>13

LEMMA StopOver ==
    ASSUME IInv, TypeOK', NEW h \in Handlers, op[h].at = "check", InTurn(h), Over(h), Proceeds(h),
           UNCHANGED <<spec, broker, rec, armed, opening, watched, reading, writes, disk,
                       launched, proc, lost>>
    PROVE  IInv'
<1> USE DEF IInv
<1>1. /\ MovesOn(h) /\ op'[h].at \in {"idle", "closed", "relaunch"}
      /\ (stopped' => stopped) \/ Answered(h)
      /\ op'[h].at # "idle" => op[h].kind # "stop"
  BY ProceedsMoves
<1>2. ASSUME op[h].kind # "stop"
      PROVE  Terminal
  <2>1. op[h].kind \in Launching \union {"close"}
    BY <1>1, <1>2, Types DEF Calls, Kinds, OpsInv, MovesOn
  <2>2. op[h].of = rec.id
    BY <2>1 DEF OpsInv, Relauncher
  <2> QED
    BY <2>2 DEF Over
<1>3. Terminal => ~rec.timer /\ NoneRuns
  <2>1. broker # "down"
    BY <1>1 DEF GoneInv, MovesOn
  <2> QED
    BY <2>1 DEF Terminal, TimersInv, NoneRuns, Runs, ProcessTracked, Settled
<1> QED
  BY <1>1, <1>2, <1>3, OpKeeps

LEMMA StopClears ==
    ASSUME IInv, TypeOK', NEW h \in Handlers, op[h].at = "check", InTurn(h), rec.timer,
           TimerCleared, Proceeds(h),
           UNCHANGED <<spec, broker, opening, watched, reading, disk, launched, proc, lost>>
    PROVE  IInv'
<1> USE DEF IInv
<1>1. /\ MovesOn(h) /\ op'[h].at \in {"idle", "closed", "relaunch"}
      /\ (stopped' => stopped) \/ Answered(h)
      /\ op'[h].at # "idle" => op[h].kind # "stop"
  BY ProceedsMoves
<1>2. /\ broker # "down" /\ opening = {} /\ rec \in Records
      /\ Idle.at = "idle" /\ Idle.kind \notin Launching
  BY Types DEF GoneInv, OpenInv, MovesOn, Idle, Launching
<1>3. armed = 1 /\ rec.state = "restarting" /\ rec.pid = 0 /\ rec.gen <= launched
  BY DEF TimersInv, StoredInv, FreshInv
<1>4. /\ armed' = 0 /\ rec'.state = "exited" /\ rec'.stop /\ ~rec'.timer /\ rec'.pid = 0
      /\ rec'.gen = rec.gen /\ rec'.id = rec.id /\ rec'.own = rec.own
  BY <1>2, <1>3 DEF TimerCleared, TimerTaken, Records
<1>5. Stored' \subseteq Stored \union {Image(rec')} /\ Newest' = Image(rec')
  BY PersistStored DEF TimerCleared, TypeOK
<1>6. Image(rec') = [state |-> "exited", gen |-> rec.gen, pid |-> 0]
  BY <1>4 DEF Image
<1>7. NoneRuns /\ NoneRuns'
  BY <1>2, <1>3 DEF NoneRuns, Runs, ProcessTracked, Settled
<1>8. 0 \notin lost
  BY DEF TypeOK, Launches
<1>9. TimersInv' /\ GoneInv' /\ OpenInv' /\ HeardInv'
  BY <1>2, <1>4 DEF TimersInv, GoneInv, OpenInv, HeardInv, Runs
<1>10. FreshInv'
  <2>1. \A w \in Stored' : w.gen <= launched'
    BY <1>3, <1>5, <1>6 DEF FreshInv
  <2> QED
    BY <1>3, <1>4, <2>1 DEF FreshInv
<1>11. StoredInv'
  <2>1. ASSUME NEW w \in Stored'
        PROVE  /\ w.pid # 0 => w.state \in {"running", "stopping"} /\ w.gen \in {0, w.pid}
               /\ w.state = "none" => w.pid = 0
               /\ w.pid \notin lost'
    BY <1>5, <1>6, <1>8, <2>1 DEF StoredInv
  <2>2. Newest'.pid = rec'.pid
    BY <1>4, <1>5, <1>6
  <2> QED
    BY <1>4, <1>8, <2>1, <2>2 DEF StoredInv
<1>12. ProcessTracked'
  BY <1>2, <1>7 DEF ProcessTracked, NoneRuns, Runs
<1>13. OpsInv'
  BY <1>1, <1>4, OpsMove
<1>14. StopInv'
  <2>1. ASSUME NEW k \in Handlers
        PROVE  op'[k] = Idle \/ op'[k].at \in {"closed", "relaunch"} \/ op'[k] = op[k]
    BY <1>1 DEF MovesOn
  <2>2. ASSUME NEW k \in Handlers, op'[k].kind # "stop"
        PROVE  op'[k].at # "killing"
    BY <1>2, <2>1, <2>2 DEF StopInv
  <2> QED
    BY <1>4, <1>7, <2>2 DEF StopInv, NoneRuns, Terminal
<1>15. CloseInv'
  BY <1>4, <1>7 DEF CloseInv, NoneRuns
<1>16. StoppedInv'
  <2>1. ~stopped
    BY <1>2 DEF StoppedInv
  <2>2. CASE Answered(h)
    BY <1>1, <1>9, <1>12, <1>14, <2>1, <2>2, AnsweredStopped DEF MovesOn
  <2> QED
    BY <1>1, <2>1, <2>2 DEF StoppedInv
<1> QED
  BY <1>9, <1>10, <1>11, <1>12, <1>13, <1>14, <1>15, <1>16

LEMMA StopTells ==
    ASSUME IInv, TypeOK', NEW h \in Handlers, op[h].at = "check", InTurn(h), ~Over(h),
           op[h].kind # "start", ~rec.timer,
           rec' = [rec EXCEPT !.stop = TRUE, !.state = "stopping"],
           op' = [op EXCEPT ![h].at = "killing", ![h].target = rec.pid], Persist(rec'),
           UNCHANGED <<spec, broker, armed, opening, watched, reading, starting, stopped, disk,
                       launched, proc, lost>>
    PROVE  IInv'
<1> USE DEF IInv
<1>1. /\ \A k \in Handlers : k # h => op'[k] = op[k]
      /\ op'[h].kind = op[h].kind /\ op'[h].of = op[h].of
      /\ op'[h].at = "killing" /\ op'[h].target = rec.pid
  <2>1. rec.pid \in 0 .. MaxLaunch
    BY Types DEF Records
  <2> QED
    BY <2>1, Types, KillingOp
<1>2. MovesOn(h)
  <2>1. op[h] # Idle
    BY DEF Idle
  <2>2. starting' = starting
    OBVIOUS
  <2> QED
    BY <1>1, <2>1, <2>2, Zenon DEF MovesOn
<1>3. broker # "down" /\ opening = {} /\ rec \in Records /\ Idle.at = "idle"
  BY <1>2, Types DEF GoneInv, OpenInv, MovesOn, Idle
<1>4. /\ rec'.state = "stopping" /\ rec'.stop /\ rec'.timer = rec.timer /\ rec'.pid = rec.pid
      /\ rec'.gen = rec.gen /\ rec'.id = rec.id /\ rec'.own = rec.own
  BY <1>3 DEF Records
<1>5. rec.state \in {"running", "stopping"}
  BY <1>3 DEF Over, Terminal, TimersInv, Records, States
<1>6. Stored' \subseteq Stored \union {Image(rec')} /\ Newest' = Image(rec')
  BY PersistStored DEF TypeOK
<1>7. Image(rec') = [state |-> "stopping", gen |-> rec.gen, pid |-> rec.pid]
  BY <1>4 DEF Image
<1>8. \A g \in Launches : Runs(g) => g = rec.pid
  BY <1>3 DEF Runs, ProcessTracked
<1>9. TimersInv' /\ GoneInv' /\ OpenInv' /\ HeardInv'
  BY <1>3, <1>4 DEF TimersInv, GoneInv, OpenInv, HeardInv, Runs
<1>10. FreshInv'
  <2>1. \A w \in Stored' : w.gen <= launched'
    BY <1>6, <1>7 DEF FreshInv
  <2> QED
    BY <1>4, <2>1 DEF FreshInv
<1>11. StoredInv'
  <2>1. ASSUME NEW w \in Stored'
        PROVE  /\ w.pid # 0 => w.state \in {"running", "stopping"} /\ w.gen \in {0, w.pid}
               /\ w.state = "none" => w.pid = 0
               /\ w.pid \notin lost'
    BY <1>6, <1>7, <2>1 DEF StoredInv
  <2>2. Newest'.pid = rec'.pid
    BY <1>4, <1>6, <1>7
  <2> QED
    BY <1>4, <2>1, <2>2 DEF StoredInv
<1>12. ProcessTracked'
  BY <1>3, <1>4 DEF ProcessTracked, Settled, Terminal
<1>13. OpsInv'
  BY <1>2, <1>4, OpsMove
<1>14. StopInv'
  <2>1. \A g \in Launches : Runs(g)' => Runs(g)
    BY DEF Runs
  <2>2. ASSUME NEW k \in Handlers, op'[k].kind # "stop"
        PROVE  /\ op'[k].at = "killing" =>
                   /\ ~rec'.timer /\ \A g \in Launches : Runs(g)' => op'[k].target = g
                   /\ op'[k].kind \in Launching => rec'.stop
               /\ op'[k].at \in {"waiting", "relaunch"} =>
                   /\ ~rec'.timer /\ NoneRuns'
                   /\ op'[k].kind \in Launching => rec'.stop \/ Terminal'
    <3>1. CASE k = h
      BY <1>1, <1>4, <1>8, <2>1, <3>1
    <3>2. CASE k # h
      <4>1. op'[k] = op[k]
        BY <1>1, <3>2
      <4>2. /\ op[k].at = "killing" => \A g \in Launches : Runs(g) => op[k].target = g
            /\ op[k].at \in {"waiting", "relaunch"} => NoneRuns
        BY <2>2, <4>1 DEF StopInv
      <4> QED
        BY <1>4, <2>1, <4>1, <4>2 DEF NoneRuns
    <3> QED
      BY <3>1, <3>2
  <2> QED
    BY <1>1, <1>8, <2>1, <2>2 DEF StopInv, Relauncher
<1>15. CloseInv'
  <2>1. op'[Closer].at \in {"closed", "written"} => op'[Closer] = op[Closer]
    BY <1>1 DEF Handlers
  <2>2. ASSUME op'[Closer].at = "written", NEW g \in Launches, Runs(g), NEW w \in Stored'
        PROVE  w.pid = g
    BY <1>6, <1>7, <1>8, <2>1, <2>2 DEF CloseInv
  <2> QED
    BY <1>4, <2>1, <2>2 DEF CloseInv, NoneRuns, Runs
<1>16. StoppedInv'
  <2>1. \A k \in Requests : op'[k].kind = op[k].kind
    BY <1>1 DEF Handlers
  <2> QED
    BY <1>3, <1>4, <2>1 DEF StoppedInv, NoneRuns, Runs, Relauncher
<1> QED
  BY <1>9, <1>10, <1>11, <1>12, <1>13, <1>14, <1>15, <1>16

LEMMA StopBeginsKeeps ==
    ASSUME IInv, TypeOK', Behaviours = {}, NEW h \in Handlers, StopBegins(h)
    PROVE  IInv'
<1>1. /\ op[h].at = "check" /\ InTurn(h)
      /\ UNCHANGED <<spec, broker, opening, watched, reading, disk, launched, proc, lost>>
  BY TurnAlone DEF StopBegins, worldVars, InTurn
<1>2. CASE Over(h) /\ UNCHANGED <<rec, armed, writes>> /\ Proceeds(h)
  BY <1>1, <1>2, StopOver
<1>3. CASE ~Over(h) /\ rec.timer /\ TimerCleared /\ Proceeds(h)
  BY <1>1, <1>3, StopClears
<1>4. CASE /\ ~Over(h) /\ op[h].kind # "start" /\ ~rec.timer
           /\ rec' = [rec EXCEPT !.stop = TRUE, !.state = "stopping"]
           /\ op' = [op EXCEPT ![h].at = "killing", ![h].target = rec.pid]
           /\ Persist(rec') /\ UNCHANGED <<armed, starting, stopped>>
  BY <1>1, <1>4, StopTells
<1> QED
  BY <1>2, <1>3, <1>4, Zenon DEF StopBegins

LEMMA DiesKeeps ==
    ASSUME IInv, TypeOK', NEW d \in Launches, ProcessDies(d)
    PROVE  IInv'
<1> USE DEF IInv
<1>1. /\ proc[d] = "alive" /\ proc' = [proc EXCEPT ![d] = "dead"]
      /\ UNCHANGED <<spec, broker, rec, armed, opening, watched, reading, starting, op, writes,
                     disk, launched, stopped, lost>>
  BY DEF ProcessDies, brokerVars, ghosts
<1>2. \A g \in Launches :
        /\ proc'[g] = "alive" => proc[g] = "alive"
        /\ proc[g] = "none" => proc'[g] = "none"
  BY <1>1, Types
<1>3. \A g \in Launches : Runs(g)' => Runs(g)
  BY <1>1, <1>2 DEF Runs
<1>4. Stored' = Stored /\ Newest' = Newest
  BY <1>1, SameStored
<1>5. TimersInv' /\ FreshInv' /\ GoneInv' /\ StoredInv' /\ OpenInv' /\ OpsInv' /\ HeardInv'
  BY <1>1, <1>2, <1>3, <1>4 DEF TimersInv, FreshInv, GoneInv, StoredInv, OpenInv, OpsInv, HeardInv,
                                Relauncher, Alone
<1>6. StopInv'
  BY <1>1, <1>3 DEF StopInv, NoneRuns, Relauncher, Terminal
<1>7. CloseInv' /\ StoppedInv'
  BY <1>1, <1>3, <1>4 DEF CloseInv, StoppedInv, NoneRuns, Relauncher, Terminal
<1>8. ProcessTracked'
  BY <1>1, <1>2 DEF ProcessTracked, Settled, Terminal
<1> QED
  BY <1>5, <1>6, <1>7, <1>8

\* What the calls of #settle read and what the broker hears of
LEMMA ReadingKeeps ==
    ASSUME IInv, TypeOK', NEW g \in Launches, opening = {}, broker # "down", g <= launched,
           watched' \subseteq watched,
           \A k \in Launches :
               k # g => (k \in watched' <=> k \in watched) /\ reading'[k] = reading[k],
           g = rec.gen /\ ~Settled => g \in watched' \/ reading'[g] > 0,
           reading'[g] > 0 => reading[g] > 0 \/ ~Runs(g),
           UNCHANGED <<spec, broker, rec, armed, opening, starting, op, writes, disk, launched,
                       proc, stopped, lost>>
    PROVE  IInv'
<1> USE DEF IInv
<1>1. Stored' = Stored /\ Newest' = Newest
  BY SameStored
<1>2. TimersInv' /\ GoneInv' /\ StoredInv' /\ OpenInv' /\ OpsInv' /\ ProcessTracked'
  BY <1>1 DEF TimersInv, GoneInv, StoredInv, OpenInv, OpsInv, Relauncher, Alone, ProcessTracked, Settled,
              Terminal
<1>3. FreshInv'
  <2>1. ASSUME NEW k \in Launches, k > launched
        PROVE  k # g /\ k \notin watched' /\ reading'[k] = 0
    BY <2>1, Types DEF FreshInv, Launches
  <2> QED
    BY <1>1, <2>1 DEF FreshInv
<1>4. StopInv' /\ CloseInv' /\ StoppedInv'
  BY <1>1 DEF StopInv, CloseInv, StoppedInv, NoneRuns, Runs, Relauncher, Terminal
<1>5. HeardInv'
  BY DEF HeardInv, StoredInv, Settled, Terminal, Runs
<1> QED
  BY <1>2, <1>3, <1>4, <1>5

LEMMA ExitKeeps ==
    ASSUME IInv, TypeOK', NEW g \in Launches, ExitSeen(g)
    PROVE  IInv'
<1> USE DEF IInv
<1>1. /\ broker # "down" /\ g \in watched /\ watched' = watched \ {g} /\ ~Runs(g)
      /\ IF g # rec.gen \/ Settled THEN UNCHANGED reading
         ELSE reading' = [reading EXCEPT ![g] = @ + 1]
      /\ UNCHANGED <<spec, broker, rec, armed, opening, starting, op, writes, disk, launched,
                     proc, stopped, lost>>
  BY DEF ExitSeen, SettleCalled, worldVars, ghosts, Runs
<1>2. g <= launched
  BY <1>1, Types DEF FreshInv, Launches
<1>3. /\ \A k \in Launches : k # g => reading'[k] = reading[k]
      /\ g = rec.gen /\ ~Settled => reading'[g] > 0
  BY <1>1, Types
<1>4. CASE opening = {}
  BY <1>1, <1>2, <1>3, <1>4, ReadingKeeps
<1>5. CASE opening # {}
  <2>1. PICK k \in opening : TRUE
    BY <1>5
  <2>2. k \in Launches /\ rec.gen = k /\ k \notin watched
    BY <2>1 DEF OpenInv, TypeOK
  <2>3. g # k /\ reading' = reading
    BY <1>1, <2>2
  <2>4. Stored' = Stored /\ Newest' = Newest
    BY <1>1, SameStored
  <2>5. TimersInv' /\ GoneInv' /\ StoredInv' /\ OpenInv' /\ OpsInv' /\ ProcessTracked'
    BY <1>1, <2>3, <2>4 DEF TimersInv, GoneInv, StoredInv, OpenInv, OpsInv, Relauncher, Alone,
                            ProcessTracked, Settled, Terminal
  <2>6. FreshInv' /\ StopInv' /\ CloseInv' /\ StoppedInv'
    BY <1>1, <2>3, <2>4 DEF FreshInv, StopInv, CloseInv, StoppedInv, NoneRuns, Runs, Relauncher,
                            Terminal
  <2>7. HeardInv'
    BY <1>1, <2>2, <2>3 DEF HeardInv, OpenInv, Runs
  <2> QED
    BY <2>5, <2>6, <2>7
<1> QED
  BY <1>4, <1>5

LEMMA RefreshKeeps ==
    ASSUME IInv, TypeOK', Behaviours = {}, RefreshSees
    PROVE  IInv'
<1> USE DEF IInv
<1> DEFINE g == rec.gen
<1>1. /\ broker # "down" /\ opening = {} /\ ~Settled /\ g # 0 /\ ~Alive(rec.pid)
      /\ IF g # rec.gen \/ Settled THEN UNCHANGED reading
         ELSE reading' = [reading EXCEPT ![g] = @ + 1]
      /\ UNCHANGED <<spec, broker, rec, armed, opening, watched, starting, op, writes, disk,
                     launched, proc, stopped, lost>>
  BY DEF RefreshSees, SettleCalled, NoneOpens, worldVars, ghosts
<1>2. g <= launched /\ g \in Launches
  BY <1>1, Types, BoundAssumption DEF FreshInv, Launches, Records
<1>3. /\ \A k \in Launches : k # g => reading'[k] = reading[k]
      /\ g = rec.gen /\ ~Settled => reading'[g] > 0
  BY <1>1, <1>2, Types
<1>4. ~Runs(g)
  BY <1>1, <1>2 DEF Runs, ProcessTracked, Alive
<1> HIDE DEF g
<1> QED
  BY <1>1, <1>2, <1>3, <1>4, ReadingKeeps

LEMMA WriteKeeps ==
    ASSUME IInv, TypeOK', Write
    PROVE  IInv'
<1> USE DEF IInv
<1>1. /\ broker # "down"
      /\ UNCHANGED <<spec, broker, rec, armed, opening, watched, reading, starting, op, launched,
                     proc, stopped, lost>>
  BY DEF Write, brokerVars, worldVars, ghosts
<1>2. Stored' \subseteq Stored /\ Newest' = Newest
  BY WriteStored
<1>3. TimersInv' /\ FreshInv' /\ GoneInv' /\ StoredInv' /\ OpenInv'
  BY <1>1, <1>2 DEF TimersInv, FreshInv, GoneInv, StoredInv, OpenInv
<1>4. OpsInv' /\ StopInv' /\ StoppedInv' /\ HeardInv'
  BY <1>1 DEF OpsInv, StopInv, StoppedInv, HeardInv, NoneRuns, Runs, Relauncher, Alone, Terminal
<1>5. CloseInv' /\ ProcessTracked'
  BY <1>1, <1>2 DEF CloseInv, ProcessTracked, NoneRuns, Runs, Settled, Terminal
<1> QED
  BY <1>3, <1>4, <1>5

LEMMA OpenedKeeps ==
    ASSUME IInv, TypeOK', NEW g \in Launches, Opened(g)
    PROVE  IInv'
<1> USE DEF IInv
<1>1. /\ g \in opening /\ opening' = opening \ {g}
      /\ rec' = Spawned(rec, g) /\ proc' = [proc EXCEPT ![g] = "alive"]
      /\ watched' = watched \union {g} /\ Persist(rec')
      /\ UNCHANGED <<spec, broker, armed, reading, starting, op, disk, launched, stopped, lost>>
  BY DEF Opened, ghosts
<1>2. /\ opening = {g} /\ broker = "up"
      /\ rec.gen = g /\ rec.pid = 0 /\ rec.state = "running" /\ ~rec.timer /\ ~rec.stop
      /\ g \notin lost /\ reading[g] = 0
      /\ \A h \in Handlers : op[h] = Idle
  BY <1>1 DEF OpenInv
<1>3. rec' = [state |-> "running", id |-> rec.id, gen |-> g, pid |-> g,
              own |-> TRUE, stop |-> rec.stop, timer |-> rec.timer]
  BY <1>1, <1>2, Types, SpawnedFields
<1>4. Image(rec') = [state |-> "running", gen |-> g, pid |-> g]
  BY <1>3 DEF Image
<1>5. Stored' \subseteq Stored \union {Image(rec')} /\ Newest' = Image(rec')
  BY <1>1, PersistStored DEF TypeOK
<1>6. g <= launched /\ g # 0 /\ launched \in Nat
  BY <1>2, Types DEF FreshInv, Launches
<1>7. /\ Idle.at = "idle" /\ Idle.kind = "none" /\ Closer \in Handlers
      /\ \A k \in Launches : k # g => proc'[k] = proc[k]
      /\ ~stopped /\ \A k \in Launches : ~Runs(k)
  <2>1. \A k \in Launches : k # g => proc'[k] = proc[k]
    BY <1>1, Types
  <2>2. \A k \in Launches : ~Runs(k)
    BY <1>2 DEF Runs, ProcessTracked, Launches
  <2>3. ~stopped
    BY <1>1, <1>2 DEF StoppedInv
  <2> QED
    BY <2>1, <2>2, <2>3 DEF Idle, Handlers
<1>8. TimersInv' /\ GoneInv' /\ OpenInv' /\ StoppedInv'
  BY <1>1, <1>2, <1>3, <1>7 DEF TimersInv, GoneInv, OpenInv, StoppedInv
<1>9. FreshInv'
  <2>1. \A w \in Stored' : w.gen <= launched'
    BY <1>1, <1>4, <1>5, <1>6 DEF FreshInv
  <2>2. \A k \in Launches : k > launched => k # g
    BY <1>6 DEF Launches
  <2> QED
    BY <1>1, <1>2, <1>3, <1>6, <1>7, <2>1, <2>2 DEF FreshInv
<1>10. StoredInv'
  <2>1. ASSUME NEW w \in Stored'
        PROVE  /\ w.pid # 0 => w.state \in {"running", "stopping"} /\ w.gen \in {0, w.pid}
               /\ w.state = "none" => w.pid = 0
               /\ w.pid \notin lost'
    BY <1>1, <1>2, <1>4, <1>5, <2>1 DEF StoredInv
  <2>2. Newest'.pid = rec'.pid
    BY <1>3, <1>4, <1>5
  <2> QED
    BY <1>1, <1>2, <1>3, <2>1, <2>2 DEF StoredInv
<1>11. OpsInv' /\ CloseInv'
  BY <1>1, <1>2, <1>3, <1>7 DEF OpsInv, CloseInv, Relauncher, Alone
<1>12. StopInv'
  BY <1>1, <1>2, <1>3, <1>7 DEF StopInv
<1>13. HeardInv'
  BY <1>1, <1>2, <1>3, <1>7 DEF HeardInv, Runs
<1>14. ProcessTracked'
  BY <1>1, <1>2, <1>3, <1>7 DEF ProcessTracked, Settled, Terminal, Runs
<1> QED
  BY <1>8, <1>9, <1>10, <1>11, <1>12, <1>13, <1>14

LEMMA SettleKeeps ==
    ASSUME IInv, TypeOK', NEW g \in Launches, SettleResumes(g)
    PROVE  IInv'
<1> USE DEF IInv
<1>1. /\ broker # "down" /\ reading[g] > 0 /\ reading' = [reading EXCEPT ![g] = @ - 1]
      /\ UNCHANGED <<spec, broker, opening, watched, starting, op, disk, launched, proc,
                     stopped, lost>>
  BY DEF SettleResumes, worldVars, ghosts
<1>2. /\ g <= launched
      /\ \A k \in Launches : k # g => reading'[k] = reading[k]
  BY <1>1, Types DEF FreshInv, Launches
<1>3. CASE ~ToSettle(g)
  <2>1. UNCHANGED <<rec, armed, writes>>
    BY <1>3 DEF SettleResumes
  <2>2. CASE opening = {}
    <3>1. watched' \subseteq watched /\ \A k \in Launches : k \in watched' <=> k \in watched
      BY <1>1
    <3>2. g = rec.gen /\ ~Settled => g \in watched' \/ reading'[g] > 0
      BY <1>3 DEF ToSettle
    <3> QED
      BY <1>1, <1>2, <2>1, <2>2, <3>1, <3>2, ReadingKeeps
  <2>3. CASE opening # {}
    <3>1. PICK k \in opening : TRUE
      BY <2>3
    <3>2. k \in Launches /\ opening = {k} /\ rec.pid = 0 /\ reading[k] = 0
      BY <3>1 DEF OpenInv, TypeOK
    <3>3. reading'[k] = 0
      BY <1>1, <1>2, <3>2
    <3>4. Stored' = Stored /\ Newest' = Newest
      BY <1>1, <2>1, SameStored
    <3>5. TimersInv' /\ GoneInv' /\ StoredInv' /\ OpenInv' /\ OpsInv' /\ ProcessTracked'
      BY <1>1, <2>1, <3>2, <3>3, <3>4 DEF TimersInv, GoneInv, StoredInv, OpenInv, OpsInv,
                            Relauncher, Alone, ProcessTracked, Settled, Terminal
    <3>6. \A j \in Launches : j > launched => j # g
      BY <1>2, Types DEF Launches
    <3>7. FreshInv'
      BY <1>1, <1>2, <2>1, <3>4, <3>6 DEF FreshInv
    <3>8. StopInv' /\ CloseInv' /\ StoppedInv'
      BY <1>1, <2>1, <3>4 DEF StopInv, CloseInv, StoppedInv, NoneRuns, Runs, Relauncher, Terminal
    <3>9. HeardInv'
      BY <1>1, <1>2, <2>1, <3>2 DEF HeardInv, Runs
    <3> QED
      BY <3>5, <3>7, <3>8, <3>9
  <2> QED
    BY <2>2, <2>3
<1>4. CASE ToSettle(g)
  <2>1. /\ g = rec.gen /\ ~Settled /\ opening = {} /\ ~rec.timer /\ armed = 0
        /\ rec \in Records /\ 0 \notin lost /\ g # 0
    <3>1. g = rec.gen /\ ~Settled
      BY <1>4 DEF ToSettle
    <3>2. opening = {}
      BY <1>1, <3>1 DEF OpenInv
    <3>3. ~rec.timer /\ armed = 0
      BY <3>1 DEF TimersInv, Settled
    <3>4. 0 \notin lost /\ g # 0 /\ rec \in Records
      BY Types DEF TypeOK, Launches
    <3> QED
      BY <3>1, <3>2, <3>3, <3>4
  <2>2. NoneRuns
    BY <1>1, <2>1 DEF NoneRuns, Runs, ProcessTracked, HeardInv, StoredInv, Launches
  <2>3. /\ rec'.pid = 0 /\ rec'.gen = g /\ rec'.id = rec.id /\ rec'.stop = rec.stop
        /\ rec'.state \in {"exited", "restarting"}
        /\ rec'.timer <=> rec'.state = "restarting"
        /\ rec'.timer => ~rec.stop /\ broker = "up"
        /\ armed' = IF rec'.timer THEN 1 ELSE 0
        /\ Persist(rec')
    <3>1. CASE /\ MayRestart
               /\ rec' = [rec EXCEPT !.state = "restarting", !.pid = 0, !.own = FALSE,
                                     !.timer = TRUE]
               /\ armed' = armed + 1 /\ Persist(rec')
      <4>1. rec' = [state |-> "restarting", id |-> rec.id, gen |-> rec.gen, pid |-> 0,
                    own |-> FALSE, stop |-> rec.stop, timer |-> TRUE]
        BY <2>1, <3>1 DEF Records
      <4> QED
        BY <2>1, <3>1, <4>1 DEF MayRestart
    <3>2. CASE /\ rec' = [rec EXCEPT !.state = "exited", !.pid = 0, !.own = FALSE]
               /\ UNCHANGED armed /\ Persist(rec')
      <4>1. rec' = [state |-> "exited", id |-> rec.id, gen |-> rec.gen, pid |-> 0,
                    own |-> FALSE, stop |-> rec.stop, timer |-> rec.timer]
        BY <2>1, <3>2 DEF Records
      <4> QED
        BY <2>1, <3>2, <4>1
    <3> QED
      BY <1>4, <3>1, <3>2 DEF SettleResumes
  <2>4. Stored' \subseteq Stored \union {Image(rec')} /\ Newest' = Image(rec')
    BY <1>1, <2>3, PersistStored DEF TypeOK
  <2>5. Image(rec') = [state |-> rec'.state, gen |-> g, pid |-> 0]
    BY <2>3 DEF Image
  <2>6. TimersInv' /\ GoneInv' /\ OpenInv'
    BY <1>1, <2>1, <2>3 DEF TimersInv, GoneInv, OpenInv
  <2>7. FreshInv'
    <3>1. \A w \in Stored' : w.gen <= launched'
      BY <1>1, <1>2, <2>4, <2>5 DEF FreshInv
    <3>2. \A j \in Launches : j > launched => j # g
      BY <1>2, Types DEF Launches
    <3> QED
      BY <1>1, <1>2, <2>3, <3>1, <3>2 DEF FreshInv
  <2>8. StoredInv'
    <3>1. ASSUME NEW w \in Stored'
          PROVE  /\ w.pid # 0 => w.state \in {"running", "stopping"} /\ w.gen \in {0, w.pid}
                 /\ w.state = "none" => w.pid = 0
                 /\ w.pid \notin lost'
      BY <1>1, <2>1, <2>4, <2>5, <3>1 DEF StoredInv
    <3>2. Newest'.pid = rec'.pid
      BY <2>3, <2>4, <2>5
    <3> QED
      BY <1>1, <2>1, <2>3, <3>1, <3>2 DEF StoredInv
  <2>9. NoneRuns'
    BY <1>1, <2>2 DEF NoneRuns, Runs
  <2>10. OpsInv'
    BY <1>1, <2>3 DEF OpsInv, Relauncher, Alone
  <2>11. StopInv'
    <3>1. ASSUME NEW k \in Handlers, op[k].kind # "stop",
                 op[k].at \in {"killing", "waiting", "relaunch"}
          PROVE  rec'.timer => FALSE
      <4>1. Relauncher(k) => rec.stop \/ Terminal
        BY <3>1 DEF StopInv
      <4>2. op[k].kind = "close" \/ Relauncher(k)
        BY <3>1, Types DEF Calls, Kinds, Relauncher, OpsInv, Idle
      <4> QED
        BY <2>1, <2>3, <4>1, <4>2 DEF OpsInv, Settled
    <3>2. rec.stop => rec'.stop
      BY <2>3
    <3>3. ~rec'.timer => Terminal'
      BY <2>3 DEF Terminal
    <3>4. \A k \in Handlers : Relauncher(k)' <=> Relauncher(k)
      BY <1>1 DEF Relauncher
    <3>5. ASSUME NEW k \in Handlers, op'[k].kind # "stop"
          PROVE  /\ op'[k].at = "killing" =>
                     /\ ~rec'.timer /\ \A d \in Launches : Runs(d)' => op'[k].target = d
                     /\ Relauncher(k)' => rec'.stop
                 /\ op'[k].at \in {"waiting", "relaunch"} =>
                     /\ ~rec'.timer /\ NoneRuns'
                     /\ Relauncher(k)' => rec'.stop \/ Terminal'
      <4>1. op[k].at = "killing" /\ Relauncher(k) => rec.stop
        BY <1>1, <3>5 DEF StopInv
      <4> QED
        BY <1>1, <2>9, <3>1, <3>2, <3>3, <3>4, <3>5, <4>1 DEF NoneRuns
    <3> QED
      BY <2>9, <3>5 DEF StopInv, NoneRuns
  <2>12. CloseInv'
    <3>1. op[Closer].at \in {"closed", "written"} => broker # "up"
      BY DEF OpsInv, Idle, Handlers
    <3> QED
      BY <1>1, <2>3, <2>9, <3>1 DEF CloseInv, NoneRuns
  <2>13. HeardInv'
    BY <2>3, <2>9 DEF HeardInv, NoneRuns
  <2>14. StoppedInv'
    BY <1>1, <2>1, <2>3, <2>9 DEF StoppedInv, Relauncher, Settled, Terminal
  <2>15. ProcessTracked'
    BY <1>1, <2>9 DEF ProcessTracked, NoneRuns, Runs
  <2> QED
    BY <2>6, <2>7, <2>8, <2>10, <2>11, <2>12, <2>13, <2>14, <2>15
<1> QED
  BY <1>3, <1>4

-----------------------------------------------------------------------------
(* The end of a broker, and the next one                                    *)

LEMMA GoneKeeps ==
    ASSUME IInv, TypeOK', Gone, UNCHANGED <<spec, disk, launched, proc, stopped>>,
           lost \subseteq lost', disk.pid \notin lost',
           \A g \in Launches : Runs(g)' => g = disk.pid,
           \A g \in lost' : g \in lost \/ (g \in Launches /\ proc[g] = "alive")
    PROVE  IInv'
<1> USE DEF IInv
<1>1. /\ broker' = "down" /\ rec' = NoRecord /\ armed' = 0
      /\ opening' = {} /\ watched' = {} /\ reading' = [g \in Launches |-> 0]
      /\ starting' = FALSE /\ op' = [h \in Handlers |-> Idle] /\ writes' = <<>>
  BY DEF Gone
<1>2. /\ NoRecord.state = "none" /\ NoRecord.gen = 0 /\ NoRecord.pid = 0 /\ ~NoRecord.timer
      /\ ~NoRecord.stop
      /\ Idle.kind = "none" /\ Idle.at = "idle" /\ Idle.kind \notin Launching
  BY DEF NoRecord, Idle, Launching
<1>3. \A h \in Handlers : op'[h] = Idle
  BY <1>1
<1>4. Stored' = {disk} /\ disk \in Stored /\ Closer \in Handlers /\ 0 \notin lost'
  BY <1>1 DEF Stored, Handlers, TypeOK, Launches
<1>5. \A g \in Launches : Runs(g)' => Runs(g)
  BY DEF Runs
<1>6. TimersInv' /\ GoneInv' /\ OpenInv' /\ HeardInv'
  BY <1>1, <1>2, <1>3 DEF TimersInv, GoneInv, OpenInv, HeardInv
<1>7. FreshInv'
  BY <1>1, <1>2, <1>4, StoredTyped DEF FreshInv
<1>8. StoredInv'
  BY <1>1, <1>2, <1>4 DEF StoredInv
<1>9. OpsInv'
  BY <1>1, <1>2, <1>3, <1>4 DEF OpsInv, Relauncher, Handlers
<1>10. StopInv'
  BY <1>1, <1>2, <1>3 DEF StopInv
<1>11. CloseInv'
  BY <1>1, <1>2, <1>3, <1>4 DEF CloseInv
<1>12. StoppedInv'
  BY <1>1, <1>5 DEF StoppedInv, NoneRuns
<1>13. ProcessTracked'
  <2>1. ASSUME NEW g \in Launches, Runs(g)'
        PROVE  disk.pid = g /\ disk.state # "exited"
    BY <1>4, <2>1 DEF StoredInv, Launches
  <2> QED
    BY <1>1, <2>1 DEF ProcessTracked, Runs
<1> QED
  BY <1>6, <1>7, <1>8, <1>9, <1>10, <1>11, <1>12, <1>13

LEMMA CrashKeeps ==
    ASSUME IInv, TypeOK', Crash
    PROVE  IInv'
<1>1. /\ Gone /\ lost' = lost \union {g \in Launches : proc[g] = "alive" /\ g # disk.pid}
      /\ UNCHANGED <<spec, disk, launched, proc, stopped>>
  BY DEF Crash, worldVars
<1>2. disk.pid \notin lost'
  BY <1>1 DEF IInv, StoredInv, Stored
<1>3. \A g \in Launches : Runs(g)' => g = disk.pid
  BY <1>1 DEF Runs
<1> QED
  BY <1>1, <1>2, <1>3, GoneKeeps

LEMMA EndKeeps ==
    ASSUME IInv, TypeOK', ShutdownEnds
    PROVE  IInv'
<1> USE DEF IInv
<1>1. /\ Gone /\ op[Closer].at = "written"
      /\ UNCHANGED <<spec, disk, launched, proc, stopped, lost>>
  BY DEF ShutdownEnds, worldVars, ghosts
<1>2. disk \in Stored
  BY DEF Stored
<1>3. disk.pid \notin lost'
  BY <1>1, <1>2 DEF StoredInv
<1>4. \A g \in Launches : Runs(g)' => g = disk.pid
  BY <1>1, <1>2 DEF CloseInv, Runs
<1> QED
  BY <1>1, <1>3, <1>4, GoneKeeps

LEMMA ShutdownKeeps ==
    ASSUME IInv, TypeOK', Behaviours = {}, ShutdownBegins
    PROVE  IInv'
<1> USE DEF IInv
<1> DEFINE c == [kind |-> "close", at |-> IF Outlives \/ Terminal THEN "closed" ELSE "check",
                 of |-> rec.id, target |-> 0]
<1>1. /\ broker = "up" /\ opening = {} /\ ~Active(Launching) /\ broker' = "closing"
      /\ rec' = IF Outlives THEN [rec EXCEPT !.gen = 0] ELSE rec
      /\ op' = [op EXCEPT ![Closer] = c]
      /\ UNCHANGED <<spec, armed, opening, watched, reading, starting, writes, disk, launched,
                     proc, stopped, lost>>
  BY DEF ShutdownBegins, NoneOpens, worldVars, ghosts
<1>2. /\ c.kind = "close" /\ c.at = (IF Outlives \/ Terminal THEN "closed" ELSE "check")
      /\ c.of = rec.id /\ Closer \in Handlers /\ Closer \notin Requests
  BY CloserAssumption DEF Handlers
<1> HIDE DEF c
<1>3. op'[Closer] = c /\ \A k \in Requests : op'[k] = op[k] /\ k \in Handlers
  BY <1>1, <1>2, Types DEF Handlers
<1>4. /\ rec \in Records
      /\ rec'.state = rec.state /\ rec'.id = rec.id /\ rec'.pid = rec.pid /\ rec'.own = rec.own
      /\ rec'.stop = rec.stop /\ rec'.timer = rec.timer
      /\ rec'.gen \in {0, rec.gen} /\ (Outlives => rec'.gen = 0)
  BY <1>1, Types DEF Records
<1>5. Stored' = Stored /\ Newest' = Newest
  BY <1>1, SameStored
<1>6. \A k \in Requests : op[k].kind \notin Launching /\ op[k].kind # "close"
  BY <1>1 DEF Active, OpsInv
<1>7. op[Closer] = Idle
  BY <1>1, <1>2 DEF OpsInv
<1>8. Outlives \/ Terminal => ~rec.timer /\ (NoneRuns \/ rec'.gen = 0)
  BY <1>1, <1>4 DEF Outlives, TimersInv, StoredInv, Terminal, NoneRuns, Runs, ProcessTracked,
                    Settled
<1>9. TimersInv' /\ GoneInv' /\ StoredInv' /\ OpenInv'
  BY <1>1, <1>4, <1>5 DEF TimersInv, GoneInv, StoredInv, OpenInv
<1>10. FreshInv'
  BY <1>1, <1>4, <1>5, StoredTyped DEF FreshInv
<1>11. OpsInv'
  <2>1. "close" \notin Launching /\ op'[Closer].at \in {"closed", "check"}
    BY <1>2, <1>3 DEF Launching
  <2> QED
    BY <1>1, <1>2, <1>3, <1>4, <1>6, <2>1 DEF OpsInv, Relauncher, Handlers
<1>12. StopInv'
  <2>1. op'[Closer].at \in {"closed", "check"}
    BY <1>2, <1>3
  <2>2. ASSUME rec'.stop, NEW g \in Launches, Runs(g)'
        PROVE  \E k \in Handlers : op'[k].at = "killing" /\ op'[k].target = g
    <3>1. PICK k \in Handlers : op[k].at = "killing" /\ op[k].target = g
      BY <1>1, <1>4, <2>2 DEF StopInv, Runs
    <3> QED
      BY <1>3, <1>7, <3>1 DEF Handlers, Idle
  <2>3. ASSUME NEW k \in Handlers, op'[k].kind # "stop"
        PROVE  op'[k].at \notin {"killing", "waiting", "relaunch"}
    <3>1. CASE k = Closer
      BY <2>1, <3>1
    <3>2. CASE k # Closer
      <4>1. k \in Requests /\ op'[k] = op[k]
        BY <1>3, <3>2 DEF Handlers
      <4>2. op[k] = Idle
        BY <1>6, <2>3, <4>1, Types DEF OpsInv, Calls, Kinds, Handlers
      <4> QED
        BY <4>1, <4>2 DEF Idle
    <3> QED
      BY <3>1, <3>2
  <2> QED
    BY <2>2, <2>3 DEF StopInv
<1>13. CloseInv'
  BY <1>1, <1>2, <1>3, <1>4, <1>8 DEF CloseInv, NoneRuns, Runs
<1>14. HeardInv'
  BY <1>1 DEF HeardInv, Runs
<1>15. StoppedInv'
  BY <1>1, <1>3, <1>4 DEF StoppedInv, NoneRuns, Runs, Relauncher, Terminal
<1>16. ProcessTracked'
  BY <1>1, <1>4 DEF ProcessTracked, Settled, Terminal
<1> QED
  BY <1>9, <1>10, <1>11, <1>12, <1>13, <1>14, <1>15, <1>16

LEMMA WrittenKeeps ==
    ASSUME IInv, TypeOK', ShutdownWritten
    PROVE  IInv'
<1> USE DEF IInv
<1>1. /\ op[Closer].at = "closed" /\ writes = <<>>
      /\ op' = [op EXCEPT ![Closer].at = "written"]
      /\ UNCHANGED <<spec, broker, rec, armed, opening, watched, reading, starting, writes, disk,
                     launched, proc, stopped, lost>>
  BY DEF ShutdownWritten, worldVars, ghosts
<1>2. /\ \A k \in Handlers : k # Closer => op'[k] = op[k]
      /\ op'[Closer].at = "written" /\ op'[Closer].kind = op[Closer].kind
      /\ op'[Closer].of = op[Closer].of /\ Closer \in Handlers /\ Closer \notin Requests
      /\ op[Closer] # Idle
  BY <1>1, Types, CloserAssumption DEF Calls, Handlers, Idle
<1>3. MovesOn(Closer)
  BY <1>1, <1>2 DEF MovesOn
<1>4. Stored' = Stored /\ Stored = {disk} /\ Newest = disk
  BY <1>1 DEF Stored, Newest
<1>5. broker # "down" /\ opening = {}
  BY <1>2 DEF GoneInv, OpenInv
<1>6. TimersInv' /\ FreshInv' /\ StoredInv' /\ HeardInv' /\ ProcessTracked'
  BY <1>1, OthersSame
<1>7. GoneInv' /\ OpenInv'
  BY <1>1, <1>5 DEF GoneInv, OpenInv
<1>8. OpsInv'
  BY <1>1, <1>2, <1>3, OpsMove DEF InTurn
<1>9. StopInv'
  BY <1>1, <1>2 DEF StopInv, NoneRuns, Runs, Relauncher, Terminal
<1>10. CloseInv'
  <2>1. \A g \in Launches : Runs(g) => disk.pid = g
    BY <1>4, <1>5 DEF StoredInv, ProcessTracked, Runs
  <2> QED
    BY <1>1, <1>2, <1>4, <2>1 DEF CloseInv, NoneRuns, Runs
<1>11. StoppedInv'
  BY <1>1, <1>2 DEF StoppedInv, NoneRuns, Runs, Relauncher, Terminal, Handlers
<1> QED
  BY <1>6, <1>7, <1>8, <1>9, <1>10, <1>11

LEMMA RecoverKeeps ==
    ASSUME IInv, TypeOK', Recover
    PROVE  IInv'
<1> USE DEF IInv
<1>1. /\ broker = "down" /\ broker' = "up"
      /\ UNCHANGED <<spec, armed, opening, watched, reading, starting, op, disk, launched,
                     stopped, lost>>
  BY DEF Recover, ghosts
<1>2. /\ rec = NoRecord /\ opening = {} /\ writes = <<>> /\ (\A h \in Handlers : op[h] = Idle)
      /\ Stored = {disk} /\ Newest = disk
  BY <1>1 DEF GoneInv, Stored, Newest
<1>3. /\ NoRecord.state = "none" /\ NoRecord.gen = 0 /\ NoRecord.pid = 0 /\ ~NoRecord.timer
      /\ ~NoRecord.stop
      /\ Idle.kind = "none" /\ Idle.at = "idle" /\ Idle.kind \notin Launching
      /\ Closer \in Handlers /\ 0 \notin lost
  BY DEF NoRecord, Idle, Launching, Handlers, TypeOK, Launches
<1>4. armed = 0
  BY <1>2, <1>3 DEF TimersInv
<1>5. \A g \in Launches : Runs(g) => disk.pid = g /\ disk.state # "exited"
  BY <1>1 DEF ProcessTracked, Runs
<1>6. /\ disk.pid # 0 => disk.state \in {"running", "stopping"} /\ disk.gen \in {0, disk.pid}
      /\ disk.state = "none" => disk.pid = 0
      /\ disk.pid \notin lost /\ disk.gen <= launched /\ disk \in Images
  BY <1>2, Types DEF StoredInv, FreshInv
<1>7. /\ rec'.pid \in {0, disk.pid} /\ ~rec'.timer /\ rec'.gen <= launched /\ armed' = 0
      /\ rec'.state # "restarting"
      /\ rec'.pid # 0 => /\ rec'.state = "running" /\ rec'.gen \in {0, rec'.pid} /\ ~rec'.own
                         /\ spec.detached /\ Alive(disk.pid) /\ ~rec'.stop
      /\ \A w \in Stored' : w = disk \/ (w.gen = rec'.gen /\ w.pid = rec'.pid /\ w.state = rec'.state
                                         /\ w.state # "none")
      /\ Newest'.pid = rec'.pid
      /\ \A g \in Launches :
            /\ proc'[g] = "alive" => proc[g] = "alive"
            /\ proc[g] = "none" => proc'[g] = "none"
      /\ rec'.pid = 0 => \A g \in Launches : ~Runs(g)'
      /\ rec'.pid = 0 => rec'.state \in {"none", "exited"}
  <2>1. CASE disk.state = "none"
    <3>1. UNCHANGED <<rec, writes, proc>>
      BY <2>1 DEF Recover
    <3>2. Stored' = Stored /\ Newest' = Newest
      BY <1>1, <3>1, SameStored
    <3>3. \A g \in Launches : ~Runs(g)'
      BY <1>1, <1>5, <1>6, <2>1, <3>1 DEF Runs, Launches
    <3>4. rec' = NoRecord /\ armed' = 0 /\ 0 <= launched
      BY <1>1, <1>2, <1>4, <3>1, Types
    <3> QED
      BY <1>2, <1>3, <1>6, <2>1, <3>1, <3>2, <3>3, <3>4
  <2>2. CASE disk.state # "none"
    <3>1. Persist(rec') /\ rec' \in Records /\ armed' = 0
      BY <1>1, <1>4, <2>2 DEF Recover, TypeOK
    <3>2. Stored' \subseteq Stored \union {Image(rec')} /\ Newest' = Image(rec')
      BY <1>1, <3>1, PersistStored
    <3>3. Image(rec') = [state |-> rec'.state, gen |-> rec'.gen, pid |-> rec'.pid]
      BY DEF Image
    <3>4. CASE Adoptable
      <4>1. rec' = [NoRecord EXCEPT !.state = "running", !.id = disk.gen,
                                    !.gen = disk.gen, !.pid = disk.pid] /\ UNCHANGED proc
        BY <2>2, <3>4 DEF Recover
      <4>2. rec' = [state |-> "running", id |-> disk.gen, gen |-> disk.gen, pid |-> disk.pid,
                    own |-> FALSE, stop |-> FALSE, timer |-> FALSE]
        BY <4>1 DEF NoRecord
      <4>3. disk.pid # 0 /\ spec.detached /\ Alive(disk.pid)
        BY <3>4 DEF Adoptable, Alive
      <4>4. /\ rec'.pid = disk.pid /\ ~rec'.timer /\ rec'.gen = disk.gen
            /\ rec'.state = "running" /\ ~rec'.own /\ ~rec'.stop
        BY <4>2
      <4>5. /\ \A w \in Stored' : w = disk \/ (w.gen = rec'.gen /\ w.pid = rec'.pid /\ w.state = rec'.state
                                         /\ w.state # "none")
            /\ Newest'.pid = rec'.pid
        BY <1>2, <3>2, <3>3, <4>4
      <4> QED
        BY <1>6, <3>1, <4>1, <4>3, <4>4, <4>5
    <3>5. CASE ~Adoptable
      <4>1. Reap
        BY <2>2, <3>5 DEF Recover
      <4>2. rec' = [state |-> "exited", id |-> disk.gen, gen |-> disk.gen, pid |-> 0,
                    own |-> FALSE, stop |-> TRUE, timer |-> FALSE]
        BY <4>1 DEF NoRecord, Reap
      <4>3. \A g \in Launches :
              /\ proc'[g] = "alive" => proc[g] = "alive"
              /\ proc[g] = "none" => proc'[g] = "none"
              /\ g = disk.pid /\ disk.state # "exited" => proc'[g] # "alive"
        BY <4>1, Types DEF Reap, Alive, Launches
      <4>4. \A g \in Launches : ~Runs(g)'
        BY <1>1, <1>5, <4>3 DEF Runs
      <4> QED
        BY <1>2, <1>6, <3>1, <3>2, <3>3, <4>2, <4>3, <4>4
    <3> QED
      BY <3>4, <3>5
  <2> QED
    BY <2>1, <2>2
<1>8. TimersInv' /\ GoneInv' /\ OpenInv'
  BY <1>1, <1>2, <1>7 DEF TimersInv, GoneInv, OpenInv
<1>9. FreshInv'
  BY <1>1, <1>6, <1>7 DEF FreshInv
<1>10. StoredInv'
  <2>1. ASSUME NEW w \in Stored'
        PROVE  /\ w.pid # 0 => w.state \in {"running", "stopping"} /\ w.gen \in {0, w.pid}
               /\ w.state = "none" => w.pid = 0
               /\ w.pid \notin lost'
    BY <1>1, <1>3, <1>6, <1>7, <2>1
  <2> QED
    BY <1>1, <1>3, <1>6, <1>7, <2>1 DEF StoredInv
<1>11. OpsInv'
  BY <1>1, <1>2, <1>3 DEF OpsInv, Relauncher, Handlers
<1>12. CloseInv'
  BY <1>1, <1>2, <1>3 DEF CloseInv
<1>13. ASSUME NEW g \in Launches, Runs(g)'
       PROVE  Runs(g) /\ rec'.pid = g /\ rec'.pid # 0 /\ rec'.state = "running" /\ ~rec'.stop
  BY <1>1, <1>5, <1>7, <1>13 DEF Runs, Launches
<1>14. StopInv'
  BY <1>1, <1>2, <1>3, <1>13 DEF StopInv
<1>15. HeardInv'
  <2>1. \A g \in Launches : reading'[g] > 0 => ~Runs(g)'
    BY <1>1, <1>13 DEF HeardInv
  <2> QED
    BY <1>1, <1>7, <2>1 DEF HeardInv
<1>16. StoppedInv'
  <2>1. ASSUME stopped
        PROVE  NoneRuns' /\ rec'.pid = 0
    <3>1. NoneRuns
      BY <2>1 DEF StoppedInv
    <3>2. rec'.pid = 0
      BY <1>6, <1>7, <3>1 DEF NoneRuns, Runs, Alive, Launches, Images
    <3> QED
      BY <1>13, <3>1, <3>2 DEF NoneRuns
  <2> QED
    BY <1>1, <1>2, <1>3, <1>7, <2>1 DEF StoppedInv, Relauncher, Terminal, Handlers
<1>17. ProcessTracked'
  BY <1>1, <1>13 DEF ProcessTracked, Runs, Settled, Terminal
<1> QED
  BY <1>8, <1>9, <1>10, <1>11, <1>12, <1>14, <1>15, <1>16, <1>17

-----------------------------------------------------------------------------
(* The theorems                                                             *)

LEMMA InductiveInit == Init => IInv
<1> SUFFICES ASSUME Init
             PROVE  IInv
  OBVIOUS
<1>1. TypeOK
  <2>1. rec \in Records /\ disk \in Images /\ writes \in Seq(Images)
    BY NoRecordTyped, ImageTyped DEF Init
  <2>2. op \in [Handlers -> [kind : {"none", "stop", "close"} \union Launching,
                            at : {"idle", "check", "killing", "waiting", "relaunch", "closed",
                                  "written"},
                            of : 0 .. MaxLaunch, target : 0 .. MaxLaunch]]
    BY IdleTyped, Zenon DEF Init, Calls, Kinds, Ats
  <2>3. /\ launched \in 0 .. MaxLaunch /\ downs \in 0 .. MaxDowns /\ armed \in Nat
        /\ reading \in [Launches -> Nat] /\ proc \in [Launches -> {"none", "alive", "dead"}]
    BY BoundAssumption DEF Init
  <2> QED
    BY <2>1, <2>2, <2>3 DEF Init, TypeOK
<1>2. /\ broker = "up" /\ rec = NoRecord /\ armed = 0 /\ opening = {} /\ writes = <<>>
      /\ disk = Image(NoRecord) /\ launched = 0 /\ ~stopped /\ lost = {} /\ watched = {}
      /\ \A h \in Handlers : op[h] = Idle
      /\ \A g \in Launches : reading[g] = 0 /\ proc[g] = "none"
  BY DEF Init
<1>3. /\ NoRecord.state = "none" /\ NoRecord.gen = 0 /\ NoRecord.pid = 0 /\ ~NoRecord.timer
      /\ ~NoRecord.stop
      /\ Image(NoRecord) = [state |-> "none", gen |-> 0, pid |-> 0]
      /\ Idle.kind = "none" /\ Idle.at = "idle" /\ Idle.kind \notin Launching
      /\ Closer \in Handlers
  BY DEF NoRecord, Image, Idle, Launching, Handlers
<1>4. Stored = {Image(NoRecord)} /\ Newest = Image(NoRecord)
  BY <1>2 DEF Stored, Newest
<1>5. TimersInv /\ FreshInv /\ GoneInv /\ StoredInv /\ OpenInv
  BY <1>2, <1>3, <1>4 DEF TimersInv, FreshInv, GoneInv, StoredInv, OpenInv
<1>6. OpsInv /\ StopInv /\ CloseInv
  BY <1>2, <1>3 DEF OpsInv, StopInv, CloseInv, Relauncher, Handlers
<1>7. HeardInv /\ StoppedInv /\ ProcessTracked
  BY <1>2, <1>3 DEF HeardInv, StoppedInv, ProcessTracked
<1> QED
  BY <1>1, <1>5, <1>6, <1>7 DEF IInv

LEMMA InductiveStep ==
    ASSUME IInv, TypeOK', Behaviours = {}, [Next]_vars
    PROVE  IInv'
<1>1. CASE \E h \in Requests : StartCalled(h) \/ RestartCalled(h) \/ StopCalled(h)
  BY <1>1, CallKeeps
<1>2. CASE \E h \in Handlers : HandlerStep(h)
  BY <1>2, StopBeginsKeeps, KillsKeeps, StopEndsKeeps, RelaunchKeeps, RefusedKeeps DEF HandlerStep
<1>3. CASE \E g \in Launches : Opened(g) \/ ProcessDies(g) \/ ExitSeen(g) \/ SettleResumes(g)
  BY <1>3, OpenedKeeps, DiesKeeps, ExitKeeps, SettleKeeps
<1>4. CASE TimerFires \/ RefreshSees \/ Write
  BY <1>4, TimerKeeps, RefreshKeeps, WriteKeeps
<1>5. CASE Crash \/ ShutdownBegins \/ ShutdownWritten \/ ShutdownEnds \/ Recover
  BY <1>5, CrashKeeps, ShutdownKeeps, WrittenKeeps, EndKeeps, RecoverKeeps
<1>6. CASE UNCHANGED vars
  <2>1. UNCHANGED <<spec, broker, rec, armed, opening, watched, reading, starting, op, writes, disk,
                    launched, proc, stopped, lost>>
    BY <1>6 DEF vars, brokerVars, worldVars, ghosts
  <2>2. Stored' = Stored /\ Newest' = Newest
    BY <2>1, SameStored
  <2> QED
    BY <2>1, <2>2 DEF IInv, TimersInv, FreshInv, GoneInv, StoredInv, OpenInv, OpsInv, StopInv,
       CloseInv, HeardInv, StoppedInv, ProcessTracked, NoneRuns, Runs, Relauncher, Alone, Settled,
       Terminal
<1> QED
  BY <1>1, <1>2, <1>3, <1>4, <1>5, <1>6, Zenon DEF Next

\* Outside the windows that Behaviours names (two restarts, or a restart and a
\* start, past their look at the daemon; a launch that waits for its log file, or
\* comes during the shutdown): what the broker knows of the process, on disk and
\* in memory, in every state.
THEOREM Inductive ==
    ASSUME Behaviours = {}
    PROVE  Spec => []IInv
<1>1. IInv /\ TypeOK' /\ [Next]_vars => IInv'
  BY InductiveStep
<1> QED
  BY <1>1, InductiveInit, TypeCorrect, PTL DEF Spec

\* Outside those windows the record of a daemon and its process agree, however
\* often the broker crashes or shuts down: no process runs beside the one the record, or the disk, names,
\* its death is heard of, and one timer is armed exactly when a restart is due.
THEOREM RecordsTrue ==
    ASSUME Behaviours = {}
    PROVE  Spec => []RecordTrue
<1>1. IInv => RecordTrue
  BY DEF IInv, RecordTrue, DeathNoticed, HeardInv, TimersInv
<1> QED
  BY <1>1, Inductive, PTL

\* Only a launch makes a process.
LEMMA OldProcesses ==
    ASSUME TypeOK, [Next]_vars, ~TimerFires, \A h \in Handlers : ~Relaunches(h),
           \A g \in Launches : ~Opened(g)
    PROVE  /\ launched' = launched /\ lost \subseteq lost'
           /\ \A g \in Launches : proc'[g] = "alive" => proc[g] = "alive"
<1>1. CASE UNCHANGED <<launched, proc, lost>>
  BY <1>1
<1>2. ASSUME NEW h \in Handlers, StopKills(h)
      PROVE  /\ launched' = launched /\ lost \subseteq lost'
             /\ \A g \in Launches : proc'[g] = "alive" => proc[g] = "alive"
  BY <1>2, Types DEF StopKills, Launches, ghosts
<1>3. ASSUME NEW g \in Launches, ProcessDies(g)
      PROVE  /\ launched' = launched /\ lost \subseteq lost'
             /\ \A d \in Launches : proc'[d] = "alive" => proc[d] = "alive"
  BY <1>3, Types DEF ProcessDies, ghosts
<1>4. CASE Crash
  BY <1>4 DEF Crash, worldVars
<1>5. CASE Recover
  BY <1>5, Types DEF Recover, Reap, Launches, ghosts
<1>6. CASE \E h \in Requests : StartCalled(h) \/ RestartCalled(h) \/ StopCalled(h)
  BY <1>1, <1>6 DEF StartCalled, RestartCalled, StopCalled, Called, worldVars
<1>7. ASSUME NEW h \in Handlers, StopBegins(h) \/ StopEnds(h) \/ StartRefused(h)
      PROVE  UNCHANGED <<launched, proc, lost>>
  BY <1>7 DEF StopBegins, StopEnds, StartRefused, worldVars
<1>8. ASSUME NEW g \in Launches, ExitSeen(g) \/ SettleResumes(g)
      PROVE  UNCHANGED <<launched, proc, lost>>
  BY <1>8 DEF ExitSeen, SettleResumes, worldVars, ghosts
<1>9. CASE RefreshSees \/ Write \/ ShutdownBegins \/ ShutdownWritten \/ ShutdownEnds \/ UNCHANGED vars
  BY <1>1, <1>9 DEF RefreshSees, Write, ShutdownBegins, ShutdownWritten, ShutdownEnds, vars,
                    worldVars, ghosts
<1> QED
  BY <1>1, <1>2, <1>3, <1>4, <1>5, <1>6, <1>7, <1>8, <1>9 DEF Next, HandlerStep

\* Outside those windows what was stopped stays down until somebody asks for it:
\* neither a timer, nor a settlement, nor the recovery of the next broker brings
\* it back.
THEOREM StoppedStays ==
    ASSUME Behaviours = {}
    PROVE  Spec => StaysStopped
<1>1. IInv /\ [Next]_vars =>
        [stopped =>
          /\ launched' = launched
          /\ \A g \in Launches \ lost' : proc'[g] # "alive"]_vars
  <2> SUFFICES ASSUME IInv, [Next]_vars, stopped
               PROVE  /\ launched' = launched
                      /\ \A g \in Launches \ lost' : proc'[g] # "alive"
    OBVIOUS
  <2>1. NoneRuns
    BY DEF IInv, StoppedInv
  <2>2. ~TimerFires
    BY DEF TimerFires, IInv, StoppedInv, TimersInv
  <2>3. opening = {}
    BY DEF IInv, StoppedInv, GoneInv
  <2>4. ASSUME NEW h \in Handlers
        PROVE  ~Relaunches(h)
    BY DEF IInv, StoppedInv, OpsInv, Relaunches, Relauncher, Handlers, Launching
  <2>5. \A g \in Launches : ~Opened(g)
    BY <2>3 DEF Opened
  <2>6. /\ launched' = launched /\ lost \subseteq lost'
        /\ \A g \in Launches : proc'[g] = "alive" => proc[g] = "alive"
    BY <2>2, <2>4, <2>5, OldProcesses DEF IInv
  <2> QED
    BY <2>1, <2>6 DEF NoneRuns, Runs
<1> QED
  BY <1>1, Inductive, PTL DEF Spec, StaysStopped
===============================================================================
