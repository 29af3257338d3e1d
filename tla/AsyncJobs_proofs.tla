--------------------------- MODULE AsyncJobs_proofs ---------------------------
(***************************************************************************)
(* Proofs about AsyncJobs, for any number of runs, owners, names, waits    *)
(* and any cap.                                                            *)
(*                                                                         *)
(* LiveRunInv is the inductive invariant for the rows of the table, and    *)
(* DeliveryInv, inductive together with it, the one for the results: which *)
(* runs are silent, what the marks of a finished row say, which jobs a     *)
(* wait holds, and which numbers the generated ids may carry.  One lemma   *)
(* per group of actions shows that it is kept.                             *)
(***************************************************************************)
EXTENDS AsyncJobs, TLAPS

-----------------------------------------------------------------------------
(* Lemmas about the counting helpers *)

\* Counting up or dropping entries keeps every count a natural number.
LEMMA CountsType ==
    ASSUME NEW c \in [Runs -> Nat], NEW R, NEW I
    PROVE  /\ Added(c, R) \in [Runs -> Nat]
           /\ Dropped(c, I) \in [Runs -> Nat]
BY DEF Added, Dropped

\* Taking one entry that is there leaves a natural number.
LEMMA TakenType ==
    ASSUME NEW c \in [Runs -> Nat], NEW r \in Runs, c[r] > 0
    PROVE  Taken(c, r) \in [Runs -> Nat]
BY DEF Taken

\* The ids of registered or unregistered runs are ids.
LEMMA IdsOfType ==
    ASSUME TypeOK, NEW R \in SUBSET Runs
    PROVE  IdsOf(R) \subseteq Ids
BY DEF IdsOf, TypeOK

\* Re-arming keeps the timers pairs of an id and a kind.
LEMMA RearmedType ==
    ASSUME TypeOK, NEW I \in SUBSET Ids, NEW k \in {"full", "short"}
    PROVE  /\ Rearmed(I, k) \subseteq Ids \X {"full", "short"}
           /\ ArmShort(I) \subseteq Ids \X {"full", "short"}
BY DEF Rearmed, ArmShort, TypeOK

-----------------------------------------------------------------------------
(* Type correctness *)

LEMMA InitTypeOK == Init => TypeOK
<1> SUFFICES ASSUME Init PROVE TypeOK
  OBVIOUS
<1>1. <<AutoPrefix, 0>> \in Ids
  BY DEF Ids
<1>2. Idle \in [mode : {"idle", "all", "unsuppressed"},
                awaited : SUBSET Ids, pending : SUBSET Runs]
  BY DEF Idle
<1> QED
  BY <1>1, <1>2 DEF Init, TypeOK

\* Evicting ids keeps the collections it touches well-typed.
LEMMA EvictType ==
    ASSUME TypeOK, NEW I, Evict(I)
    PROVE  /\ table' \subseteq Runs
           /\ timers' \subseteq Ids \X {"full", "short"}
           /\ suppressed' \subseteq Ids
           /\ watched' \subseteq Ids
           /\ consumed' \subseteq Ids
BY DEF TypeOK, Evict

\* Discarding also hands a generated id back, and the counter stays natural.
LEMMA DiscardType ==
    ASSUME TypeOK, NEW r \in Runs, Discard(jobId[r])
    PROVE  /\ Evict({jobId[r]})
           /\ released' \subseteq Ids
           /\ nextAutoId' \in Nat
<1>1. jobId[r] \in Ids
  BY DEF TypeOK
<1>2. nextAutoId - 1 \in Int /\ (jobId[r] = <<AutoPrefix, nextAutoId - 1>> => nextAutoId - 1 \in Nat)
  BY <1>1 DEF TypeOK, Ids
<1> QED
  BY <1>2 DEF Discard, TypeOK

\* A snapshot leaves the manager's collections well-typed.
LEMMA SnapshotType ==
    ASSUME TypeOK, NEW R \in SUBSET Runs, TakeSnapshot(R), UNCHANGED jobId
    PROVE  /\ surfaced' \in [Runs -> Nat]
           /\ suppressed' \subseteq Ids
           /\ deliveries' \in [Runs -> Nat]
           /\ consumed' \subseteq Ids
           /\ timers' \subseteq Ids \X {"full", "short"}
<1>1. Latest(R) \subseteq Runs
  BY DEF Latest, Row, TypeOK
<1> DEFINE ended == IdsOf({r \in Latest(R) : status[r] # "running"})
           newly == (IdsOf(table \intersect settled) \intersect ended) \ consumed
           armed == {id \in newly : \A r \in Runs : jobId[r] = id => inFlight[r] = 0}
<1>2. ended \in SUBSET Ids
  BY <1>1, IdsOfType
<1>3. newly \in SUBSET Ids /\ armed \in SUBSET Ids
  BY <1>2
<1> HIDE DEF ended, newly, armed
<1>4. /\ surfaced' = Added(surfaced, Shown(R))
      /\ suppressed' = suppressed \union ended
      /\ deliveries' = IF ended = {} THEN deliveries
                       ELSE Dropped(deliveries, suppressed' \union watched)
      /\ consumed' = consumed \union newly
      /\ timers' = ArmShort(armed)
  BY Zenon DEF TakeSnapshot, ended, newly, armed
<1>5. surfaced \in [Runs -> Nat] /\ deliveries \in [Runs -> Nat]
  BY DEF TypeOK
<1>6. surfaced' \in [Runs -> Nat] /\ deliveries' \in [Runs -> Nat]
  BY <1>4, <1>5, CountsType
<1>7. timers' \subseteq Ids \X {"full", "short"}
  BY <1>3, <1>4, RearmedType
<1> QED
  BY <1>2, <1>3, <1>4, <1>6, <1>7 DEF TypeOK

LEMMA RegisterType ==
    ASSUME TypeOK, NEW r \in Runs, NEW o \in Owners, NEW id \in Ids,
           NEW fg, NEW q, Register(r, o, id, fg, q), nextAutoId' \in Nat
    PROVE  TypeOK'
BY DEF TypeOK, Register, callVars, ghostVars

LEMMA OwnerTurnType ==
    ASSUME TypeOK, NEW o \in Owners, NEW mode \in {"all", "unsuppressed"},
           NEW awaited \in SUBSET Ids, WaitForOwnerTurn(o, mode, awaited),
           OwnerWaitUnchanged
    PROVE  TypeOK'
<1> DEFINE Waits == [mode : {"idle", "all", "unsuppressed"},
                     awaited : SUBSET Ids, pending : SUBSET Runs]
           pending == Pending(o, mode, awaited)
           next == IF pending = {} THEN Idle
                   ELSE [mode |-> mode, awaited |-> awaited \union IdsOf(pending),
                         pending |-> pending]
<1>1. pending \in SUBSET Runs
  BY DEF Pending, TypeOK
<1>2. IdsOf(pending) \subseteq Ids
  BY <1>1, IdsOfType
<1> HIDE DEF pending
<1>3. next \in Waits
  BY <1>1, <1>2 DEF Idle
<1> HIDE DEF next
<1>4. ownerWait' = [ownerWait EXCEPT ![o] = next]
  BY Zenon DEF WaitForOwnerTurn, next, pending
<1>5. ownerWait' \in [Owners -> Waits]
  BY <1>3, <1>4 DEF TypeOK
<1> QED
  BY <1>5 DEF TypeOK, OwnerWaitUnchanged, jobVars, markVars, ghostVars

\* Every action keeps the type invariant.
LEMMA NextTypeOK == TypeOK /\ [Next]_vars => TypeOK'
<1> SUFFICES ASSUME TypeOK, [Next]_vars PROVE TypeOK'
  OBVIOUS
<1> USE DEF jobVars, markVars, callVars, ghostVars
<1>1. ASSUME NEW r \in Runs, NEW o \in Owners, NEW fg \in BOOLEAN,
             RegisterAuto(r, o, fg)
      PROVE  TypeOK'
  <2>1. PICK n \in nextAutoId .. MaxId :
             /\ Register(r, o, <<AutoPrefix, n>>, fg, FALSE)
             /\ nextAutoId' = n + 1
    BY <1>1 DEF RegisterAuto
  <2>2. n \in Nat /\ <<AutoPrefix, n>> \in Ids
    BY MaxIdAssumption DEF TypeOK, Ids
  <2>3. nextAutoId' \in Nat
    BY <2>1, <2>2
  <2> QED
    BY <2>1, <2>2, <2>3, RegisterType
<1>2. ASSUME NEW r \in Runs, NEW o \in Owners, NEW name \in Names,
             NEW q \in BOOLEAN, RegisterNamed(r, o, name, q)
      PROVE  TypeOK'
  <2>1. PICK n \in 1 .. MaxId :
             /\ Register(r, o, <<name, n>>, FALSE, q)
             /\ UNCHANGED nextAutoId
    BY <1>2 DEF RegisterNamed
  <2>2. <<name, n>> \in Ids
    BY MaxIdAssumption DEF Ids
  <2>3. nextAutoId' \in Nat
    BY <2>1 DEF TypeOK
  <2> QED
    BY <2>1, <2>2, <2>3, RegisterType
<1>3. ASSUME NEW r \in Runs, MarkRunning(r) PROVE TypeOK'
  BY <1>3 DEF TypeOK, MarkRunning
<1>4. ASSUME NEW r \in Runs, Settle(r) PROVE TypeOK'
  <2>1. deliveries' \in [Runs -> Nat]
    BY <1>4, CountsType DEF Settle, TypeOK
  <2>2. jobId[r] \in Ids
    BY DEF TypeOK
  <2>3. CASE jobId[r] \in released
    <3>1. Discard(jobId[r])
      BY <1>4, <2>3 DEF Settle
    <3>2. /\ Evict({jobId[r]})
          /\ released' \subseteq Ids
          /\ nextAutoId' \in Nat
      BY <3>1, DiscardType
    <3> QED
      BY <1>4, <2>1, <3>2, EvictType DEF Settle, TypeOK
  <2>4. CASE jobId[r] \notin released
    <3>1. timers' \subseteq Ids \X {"full", "short"}
      BY <1>4, <2>2, <2>4, RearmedType DEF Settle, TypeOK
    <3> QED
      BY <1>4, <2>1, <2>4, <3>1 DEF Settle, TypeOK
  <2> QED
    BY <2>3, <2>4
<1>5. ASSUME NEW r \in Runs, Cancel(r) \/ CancelAndReport(r) PROVE TypeOK'
  <2>1. CASE Cancel(r)
    BY <2>1 DEF TypeOK, Cancel
  <2>2. CASE CancelAndReport(r)
    <3>1. deliveries' \in [Runs -> Nat]
      BY <2>2, CountsType DEF CancelAndReport, TypeOK
    <3> QED
      BY <2>2, <3>1 DEF TypeOK, CancelAndReport
  <2> QED
    BY <1>5, <2>1, <2>2
<1>6. ASSUME NEW r \in Runs, Background(r) PROVE TypeOK'
  <2>1. deliveries' \in [Runs -> Nat]
    BY <1>6, CountsType DEF Background, TypeOK
  <2> QED
    BY <1>6, <2>1 DEF TypeOK, Background
<1>7. ASSUME NEW r \in Runs, ReleaseForeground(r) PROVE TypeOK'
  <2>1. CASE r \in settled /\ Discard(jobId[r])
    <3>1. /\ Evict({jobId[r]})
          /\ released' \subseteq Ids
          /\ nextAutoId' \in Nat
      BY <2>1, DiscardType
    <3> QED
      BY <1>7, <3>1, EvictType DEF ReleaseForeground, TypeOK
  <2>2. CASE ~(r \in settled /\ Discard(jobId[r]))
    BY <1>7, <2>2 DEF ReleaseForeground, TypeOK
  <2> QED
    BY <2>1, <2>2
<1>8. ASSUME NEW r \in Runs, StartDelivery(r) PROVE TypeOK'
  <2>0. deliveries \in [Runs -> Nat] /\ inFlight \in [Runs -> Nat]
    BY DEF TypeOK
  <2>1. deliveries' \in [Runs -> Nat] /\ inFlight' \in [Runs -> Nat]
    <3>1. deliveries' \in [Runs -> Nat]
      BY <1>8, <2>0, TakenType DEF StartDelivery
    <3>2. Added(inFlight, {r}) \in [Runs -> Nat]
      BY <2>0, CountsType
    <3> QED
      BY <1>8, <2>0, <3>1, <3>2 DEF StartDelivery
  <2>2. deadLettered' \subseteq Runs
    BY <1>8 DEF StartDelivery, TypeOK
  <2> QED
    BY <1>8, <2>1, <2>2 DEF TypeOK, StartDelivery
<1>9. ASSUME NEW r \in Runs, DropMuted(r) PROVE TypeOK'
  <2>1. deliveries' \in [Runs -> Nat]
    BY <1>9, TakenType DEF DropMuted, TypeOK
  <2> QED
    BY <1>9, <2>1 DEF TypeOK, DropMuted
<1>10. ASSUME NEW r \in Runs, SinkResolves(r) PROVE TypeOK'
  <2>1. inFlight' \in [Runs -> Nat] /\ surfaced' \in [Runs -> Nat]
    BY <1>10, CountsType, TakenType DEF SinkResolves, TypeOK
  <2>2. jobId[r] \in Ids
    BY DEF TypeOK
  <2>3. consumed' \subseteq Ids
    BY <1>10, <2>2 DEF SinkResolves, TypeOK
  <2>4. ArmShort({jobId[r]}) \subseteq Ids \X {"full", "short"}
    BY <2>2, RearmedType
  <2>5. timers' = ArmShort({jobId[r]}) \/ timers' = timers
    BY <1>10, Zenon DEF SinkResolves
  <2>6. timers' \subseteq Ids \X {"full", "short"}
    BY <2>4, <2>5 DEF TypeOK
  <2> QED
    BY <1>10, <2>1, <2>3, <2>6 DEF TypeOK, SinkResolves
<1>11. ASSUME NEW r \in Runs, SinkRejects(r) PROVE TypeOK'
  <2>1. inFlight' \in [Runs -> Nat] /\ deliveries' \in [Runs -> Nat]
    BY <1>11, CountsType, TakenType DEF SinkRejects, TypeOK
  <2> QED
    BY <1>11, <2>1 DEF TypeOK, SinkRejects
<1>12. ASSUME NEW o \in Owners, RegisterDeliverySink(o) \/ UnregisterDeliverySink(o)
       PROVE  TypeOK'
  BY <1>12 DEF TypeOK, RegisterDeliverySink, UnregisterDeliverySink
<1>13. ASSUME NEW o \in Owners, NEW R \in SUBSET table, Snapshot(o, R)
       PROVE  TypeOK'
  <2>1. R \in SUBSET Runs /\ TakeSnapshot(R) /\ UNCHANGED jobId
    BY <1>13 DEF Snapshot, TypeOK
  <2> QED
    BY <1>13, <2>1, SnapshotType DEF TypeOK, Snapshot
<1>14. ASSUME NEW w \in Waiters, NEW o \in Owners, WaitBlock(w, o) PROVE TypeOK'
  <2>1. RunningJobs(o) \in SUBSET Runs
    BY DEF RunningJobs, Visible, TypeOK
  <2>2. IdsOf(RunningJobs(o)) \subseteq Ids
    BY <2>1, IdsOfType
  <2> QED
    BY <1>14, <2>1, <2>2 DEF TypeOK, WaitBlock
<1>15. ASSUME NEW w \in Waiters, WaitReport(w) PROVE TypeOK'
  <2>1. waiting[w] \in SUBSET Runs /\ TakeSnapshot(waiting[w]) /\ UNCHANGED jobId
    BY <1>15 DEF Unwatch, WaitReport, TypeOK
  <2> QED
    BY <1>15, <2>1, SnapshotType DEF TypeOK, Unwatch, WaitReport
<1>16. ASSUME NEW w \in Waiters, WaitInterrupted(w) PROVE TypeOK'
  <2>1. deliveries' \in [Runs -> Nat]
    BY <1>16, CountsType DEF Unwatch, WaitInterrupted, TypeOK
  <2> QED
    BY <1>16, <2>1 DEF TypeOK, Unwatch, WaitInterrupted
<1>17. ASSUME NEW o \in Owners, NEW mode \in {"all", "unsuppressed"},
              WaitForOwnerJobs(o, mode)
       PROVE  TypeOK'
  BY <1>17, OwnerTurnType DEF WaitForOwnerJobs
<1>18. ASSUME NEW o \in Owners, WaitForOwnerResumes(o) PROVE TypeOK'
  <2>1. ownerWait[o].awaited \in SUBSET Ids
    BY DEF TypeOK
  <2>2. CASE ownerWait[o].mode = "idle"
    <3>1. Pending(o, "idle", ownerWait[o].awaited) \in SUBSET Runs
      BY DEF Pending, TypeOK
    <3> QED
      BY <1>18, <2>1, <2>2, <3>1, IdsOfType
      DEF WaitForOwnerResumes, WaitForOwnerTurn, OwnerWaitUnchanged, Idle, TypeOK
  <2>3. CASE ownerWait[o].mode \in {"all", "unsuppressed"}
    BY <1>18, <2>1, <2>3, OwnerTurnType DEF WaitForOwnerResumes
  <2> QED
    BY <2>2, <2>3 DEF TypeOK
<1>19. ASSUME NEW t \in timers, EvictionTimer(t) PROVE TypeOK'
  <2>1. Evict({t[1]})
    BY <1>19 DEF EvictionTimer
  <2> QED
    BY <1>19, <2>1, EvictType DEF TypeOK, EvictionTimer
<1>20. ASSUME NEW o \in Owners, CancelOwnJobs(o) PROVE TypeOK'
  <2> DEFINE done == IdsOf({r \in table : owner[r] = o} \intersect Finished)
  <2>1. Evict(done)
    BY <1>20 DEF CancelOwnJobs
  <2>2. deliveries' \in [Runs -> Nat]
    BY <1>20, CountsType DEF CancelOwnJobs, TypeOK
  <2>3. status' \in [Runs -> {"unregistered", "running", "finished", "cancelled"}]
    BY <1>20 DEF CancelOwnJobs, TypeOK
  <2> QED
    BY <1>20, <2>1, <2>2, <2>3, EvictType DEF TypeOK, CancelOwnJobs
<1>21. CASE DisposeBegin
  BY <1>21 DEF TypeOK, DisposeBegin
<1>22. CASE DisposeEnd
  BY <1>22 DEF TypeOK, DisposeEnd
<1>23. CASE UNCHANGED vars
  BY <1>23 DEF TypeOK, vars
<1> QED
  BY <1>1, <1>2, <1>3, <1>4, <1>5, <1>6, <1>7, <1>8, <1>9, <1>10, <1>11,
     <1>12, <1>13, <1>14, <1>15, <1>16, <1>17, <1>18, <1>19, <1>20, <1>21,
     <1>22, <1>23
  DEF Next, RegisterSome

\* Every reachable state of the manager is well-typed.
THEOREM TypeCorrect == Spec => []TypeOK
BY InitTypeOK, NextTypeOK, PTL DEF Spec

-----------------------------------------------------------------------------
(* A run that executes keeps its row *)

\* The parts of the invariant that evicting rows could break, when the run ids
\* do not change, no run becomes unsettled, and every evicted row has settled.
LEMMA EvictKeepsRows ==
    ASSUME LiveRunInv, NEW I, Evict(I), UNCHANGED <<jobId, disposed>>,
           settled \subseteq settled', settled' \subseteq Registered',
           Registered' = Registered,
           \A r \in table : jobId[r] \in I => r \in settled'
    PROVE  /\ UniqueRows'
           /\ LiveRunTracked'
           /\ \A t \in timers' : HasSettledRow(t[1])'
           /\ \A id \in consumed' : HasSettledRow(id)'
           /\ table' \subseteq table
<1>1. table' = {r \in table : jobId[r] \notin I}
  BY DEF Evict
<1>2. UniqueRows'
  BY <1>1 DEF LiveRunInv, UniqueRows
<1>3. LiveRunTracked'
  <2> SUFFICES ASSUME NEW r \in Registered' \ settled', disposed' # "done"
               PROVE  r \in table'
    BY DEF LiveRunTracked
  <2> QED
    BY <1>1 DEF LiveRunInv, LiveRunTracked
<1>4. ASSUME NEW id, id \notin I, HasSettledRow(id) PROVE HasSettledRow(id)'
  BY <1>1, <1>4 DEF HasSettledRow
<1>5. \A t \in timers' : HasSettledRow(t[1])'
  BY <1>4 DEF Evict, LiveRunInv
<1>6. \A id \in consumed' : HasSettledRow(id)'
  BY <1>4 DEF Evict, LiveRunInv
<1> QED
  BY <1>1, <1>2, <1>3, <1>5, <1>6

\* A step that only re-arms timers of, or consumes, settled rows.
LEMMA SameRows ==
    ASSUME LiveRunInv, UNCHANGED <<jobId, status, settled, table, disposed>>,
           \A t \in timers' : t \in timers \/ HasSettledRow(t[1]),
           \A id \in consumed' : id \in consumed \/ HasSettledRow(id),
           TypeOK'
    PROVE  LiveRunInv'
<1>1. \A id : HasSettledRow(id) => HasSettledRow(id)'
  BY DEF HasSettledRow
<1>2. \A t \in timers' : HasSettledRow(t[1])'
  BY <1>1 DEF LiveRunInv
<1>3. \A id \in consumed' : HasSettledRow(id)'
  BY <1>1 DEF LiveRunInv
<1> QED
  BY <1>2, <1>3 DEF LiveRunInv, UniqueRows, StatusInv, LiveRunTracked,
                    Registered, Finished

\* What ArmShort and a snapshot arm or consume has a settled row.
LEMMA SnapshotRows ==
    ASSUME LiveRunInv, NEW R, TakeSnapshot(R)
    PROVE  /\ \A t \in timers' : t \in timers \/ HasSettledRow(t[1])
           /\ \A id \in consumed' : id \in consumed \/ HasSettledRow(id)
<1> DEFINE ended == IdsOf({r \in Latest(R) : status[r] # "running"})
           newly == (IdsOf(table \intersect settled) \intersect ended) \ consumed
           armed == {id \in newly : \A r \in Runs : jobId[r] = id => inFlight[r] = 0}
<1>1. \A id \in newly : HasSettledRow(id)
  BY DEF IdsOf, HasSettledRow
<1> HIDE DEF ended, newly
<1>2. consumed' = consumed \union newly /\ timers' = ArmShort(armed)
  BY Zenon DEF TakeSnapshot, ended, newly
<1> QED
  BY <1>1, <1>2 DEF ArmShort, Rearmed

\* A fresh row takes a free id, so no timer and no mark refers to it.
LEMMA RegisterRows ==
    ASSUME LiveRunInv, NEW r \in Runs, NEW o \in Owners, NEW id,
           NEW fg, NEW q, Register(r, o, id, fg, q), Row(id) = {}, TypeOK'
    PROVE  LiveRunInv'
<1>1. /\ r \notin Registered /\ r \notin table /\ r \notin settled
      /\ table' = table \union {r} /\ settled' = settled
      /\ timers' = timers /\ consumed' = consumed \ {id}
      /\ disposed = "no" /\ disposed' = disposed
  BY DEF Register, LiveRunInv, StatusInv
<1>2. /\ jobId' = [jobId EXCEPT ![r] = id]
      /\ status' = [status EXCEPT ![r] = "running"]
  BY DEF Register
<1>3. /\ jobId'[r] = id /\ status'[r] = "running"
      /\ \A s \in Runs \ {r} : jobId'[s] = jobId[s] /\ status'[s] = status[s]
  BY <1>2 DEF LiveRunInv, TypeOK
<1>4. \A s \in table : jobId[s] # id
  BY DEF Row
<1>5. table \subseteq Runs
  BY DEF LiveRunInv, TypeOK
<1>6. UniqueRows'
  BY <1>1, <1>3, <1>4, <1>5 DEF LiveRunInv, UniqueRows
<1>7. StatusInv'
  BY <1>1, <1>3, <1>5 DEF LiveRunInv, StatusInv, Registered, Finished, TypeOK
<1>8. LiveRunTracked'
  BY <1>1, <1>3 DEF LiveRunInv, LiveRunTracked, Registered
<1>9. ASSUME NEW i, HasSettledRow(i) PROVE HasSettledRow(i)'
  BY <1>1, <1>3, <1>5, <1>9 DEF HasSettledRow
<1> QED
  BY <1>1, <1>6, <1>7, <1>8, <1>9 DEF LiveRunInv

LEMMA InitLiveRunInv == Init => LiveRunInv
BY InitTypeOK DEF Init, LiveRunInv, UniqueRows, StatusInv, LiveRunTracked,
                  Registered, Finished

\* Every action keeps the invariant: the evicting ones name settled rows only.
LEMMA NextLiveRunInv == LiveRunInv /\ [Next]_vars => LiveRunInv'
<1> SUFFICES ASSUME LiveRunInv, [Next]_vars PROVE LiveRunInv'
  OBVIOUS
<1> USE DEF jobVars, markVars, callVars, ghostVars
<1>0. TypeOK /\ TypeOK'
  BY NextTypeOK DEF LiveRunInv
<1>1. ASSUME NEW r \in Runs, NEW o \in Owners, NEW fg \in BOOLEAN,
             RegisterAuto(r, o, fg)
      PROVE  LiveRunInv'
  BY <1>0, <1>1, RegisterRows DEF RegisterAuto, FirstFree
<1>2. ASSUME NEW r \in Runs, NEW o \in Owners, NEW name \in Names,
             NEW q \in BOOLEAN, RegisterNamed(r, o, name, q)
      PROVE  LiveRunInv'
  BY <1>0, <1>2, RegisterRows DEF RegisterNamed, FirstFree
<1>3. ASSUME NEW r \in Runs, MarkRunning(r) PROVE LiveRunInv'
  BY <1>0, <1>3, SameRows DEF MarkRunning
<1>4. ASSUME NEW r \in Runs, Settle(r) PROVE LiveRunInv'
  <2>1. /\ r \in Registered \ settled /\ settled' = settled \union {r}
        /\ status' = [status EXCEPT ![r] = IF @ = "running" THEN "finished" ELSE @]
        /\ UNCHANGED <<jobId, disposed>>
    BY <1>4 DEF Settle
  <2>2. Registered' = Registered /\ StatusInv'
    <3>1. \A s \in Runs : s # r => status'[s] = status[s]
      BY <2>1, <1>0 DEF TypeOK
    <3>2. status[r] # "unregistered" /\ status'[r] \in {"finished", "cancelled"}
      BY <2>1, <1>0 DEF TypeOK, Registered, LiveRunInv, StatusInv, Finished
    <3>3. Registered' = Registered
      BY <2>1, <3>1, <3>2 DEF Registered
    <3>4. table' \subseteq table
      BY <1>4 DEF Settle, Discard, Evict
    <3> QED
      BY <2>1, <3>1, <3>2, <3>3, <3>4, <1>0 DEF LiveRunInv, StatusInv, Finished, TypeOK
  <2>3. CASE jobId[r] \in released
    <3>1. Evict({jobId[r]})
      BY <1>4, <2>3 DEF Settle, Discard
    <3>2. \A s \in table : jobId[s] \in {jobId[r]} => s \in settled'
      BY <2>1 DEF LiveRunInv, UniqueRows, LiveRunTracked
    <3>3. settled \subseteq settled' /\ settled' \subseteq Registered'
      BY <2>1, <2>2 DEF LiveRunInv, StatusInv
    <3>4. /\ UniqueRows' /\ LiveRunTracked'
          /\ \A t \in timers' : HasSettledRow(t[1])'
          /\ \A id \in consumed' : HasSettledRow(id)'
          /\ table' \subseteq table
      BY <2>1, <2>2, <3>1, <3>2, <3>3, EvictKeepsRows
    <3> QED
      BY <1>0, <2>1, <2>2, <3>4 DEF LiveRunInv
  <2>4. CASE jobId[r] \notin released
    <3>1. UNCHANGED <<table, consumed>>
      BY <1>4, <2>4 DEF Settle
    <3>2. \/ timers' = timers
          \/ disposed = "no" /\ timers' = Rearmed({jobId[r]}, "full")
      BY <1>4, <2>4 DEF Settle
    <3>3. \A id : HasSettledRow(id) => HasSettledRow(id)'
      BY <2>1, <3>1 DEF HasSettledRow
    <3>4. disposed = "no" => HasSettledRow(jobId[r])'
      BY <2>1, <3>1 DEF HasSettledRow, LiveRunInv, LiveRunTracked
    <3>5. ASSUME NEW t \in timers' PROVE HasSettledRow(t[1])'
      <4>1. CASE t \in timers
        BY <3>3, <4>1 DEF LiveRunInv
      <4>2. CASE t \notin timers
        <5>1. disposed = "no" /\ t \in {jobId[r]} \X {"full"}
          BY <3>2, <4>2, <3>5 DEF Rearmed
        <5>2. t[1] = jobId[r]
          BY <5>1
        <5> QED
          BY <2>1, <3>4, <5>1, <5>2 DEF HasSettledRow
      <4> QED
        BY <4>1, <4>2
    <3>6. UniqueRows' /\ LiveRunTracked'
      BY <2>1, <2>2, <3>1 DEF LiveRunInv, UniqueRows, LiveRunTracked
    <3>7. \A id \in consumed' : HasSettledRow(id)'
      BY <3>1, <3>3 DEF LiveRunInv
    <3> QED
      BY <1>0, <2>1, <2>2, <3>1, <3>5, <3>6, <3>7 DEF LiveRunInv
  <2> QED
    BY <2>3, <2>4
<1>5. ASSUME NEW r \in Runs, Cancel(r) \/ CancelAndReport(r) PROVE LiveRunInv'
  <2>1. /\ status[r] = "running" /\ status' = [status EXCEPT ![r] = "cancelled"]
        /\ UNCHANGED <<jobId, settled, table, timers, consumed, disposed>>
    BY <1>5 DEF Cancel, CancelAndReport
  <2>2. /\ status'[r] = "cancelled"
        /\ \A s \in Runs : s # r => status'[s] = status[s]
    BY <2>1, <1>0 DEF TypeOK
  <2>3. Registered' = Registered
    BY <2>1, <2>2 DEF Registered
  <2>4. StatusInv'
    BY <2>1, <2>2, <2>3, <1>0 DEF LiveRunInv, StatusInv, Finished, TypeOK
  <2> QED
    BY <1>0, <2>1, <2>3, <2>4 DEF LiveRunInv, UniqueRows, LiveRunTracked, HasSettledRow
<1>6. ASSUME NEW r \in Runs, Background(r) PROVE LiveRunInv'
  BY <1>0, <1>6, SameRows DEF Background
<1>7. ASSUME NEW r \in Runs, ReleaseForeground(r) PROVE LiveRunInv'
  <2>1. /\ r \in table
        /\ UNCHANGED <<jobId, status, settled, disposed>>
    BY <1>7 DEF ReleaseForeground, AwaitedByCall
  <2>2. CASE r \in settled /\ Discard(jobId[r])
    <3>1. Evict({jobId[r]}) /\ Registered' = Registered
      BY <2>1, <2>2 DEF Discard, Registered
    <3>2. \A s \in table : jobId[s] \in {jobId[r]} => s \in settled'
      BY <2>1, <2>2 DEF LiveRunInv, UniqueRows
    <3>3. settled \subseteq settled' /\ settled' \subseteq Registered'
      BY <2>1, <3>1 DEF LiveRunInv, StatusInv
    <3>4. /\ UniqueRows' /\ LiveRunTracked'
          /\ \A t \in timers' : HasSettledRow(t[1])'
          /\ \A id \in consumed' : HasSettledRow(id)'
          /\ table' \subseteq table
      BY <2>1, <3>1, <3>2, <3>3, EvictKeepsRows
    <3> QED
      BY <1>0, <2>1, <3>1, <3>4 DEF LiveRunInv, StatusInv, Finished
  <2>3. CASE ~(r \in settled /\ Discard(jobId[r]))
    BY <1>0, <1>7, <2>3, SameRows DEF ReleaseForeground
  <2> QED
    BY <2>2, <2>3
<1>8. ASSUME NEW r \in Runs, StartDelivery(r) PROVE LiveRunInv'
  BY <1>0, <1>8, SameRows DEF StartDelivery
<1>9. ASSUME NEW r \in Runs, DropMuted(r) PROVE LiveRunInv'
  BY <1>0, <1>9, SameRows DEF DropMuted
<1>10. ASSUME NEW r \in Runs, SinkResolves(r) PROVE LiveRunInv'
  <2> DEFINE settledRow == Row(jobId[r]) \intersect settled # {}
  <2>1. settledRow => HasSettledRow(jobId[r])
    BY DEF Row, HasSettledRow
  <2>2. jobId[r] \in consumed => HasSettledRow(jobId[r])
    BY DEF LiveRunInv
  <2>3. /\ consumed' = IF settledRow THEN consumed \union {jobId[r]} ELSE consumed
        /\ \/ timers' = timers
           \/ timers' = ArmShort({jobId[r]}) /\ (jobId[r] \in consumed \/ settledRow)
        /\ UNCHANGED <<jobId, status, settled, table, disposed>>
    BY <1>10, Zenon DEF SinkResolves
  <2> HIDE DEF settledRow
  <2>4. \A t \in timers' : t \in timers \/ HasSettledRow(t[1])
    BY <2>1, <2>2, <2>3 DEF ArmShort, Rearmed
  <2>5. \A id \in consumed' : id \in consumed \/ HasSettledRow(id)
    BY <2>1, <2>3
  <2> QED
    BY <1>0, <2>3, <2>4, <2>5, SameRows
<1>11. ASSUME NEW r \in Runs, SinkRejects(r) PROVE LiveRunInv'
  BY <1>0, <1>11, SameRows DEF SinkRejects
<1>12. ASSUME NEW o \in Owners, RegisterDeliverySink(o) \/ UnregisterDeliverySink(o)
       PROVE  LiveRunInv'
  BY <1>0, <1>12, SameRows DEF RegisterDeliverySink, UnregisterDeliverySink
<1>13. ASSUME NEW o \in Owners, NEW R \in SUBSET table, Snapshot(o, R)
       PROVE  LiveRunInv'
  BY <1>0, <1>13, SnapshotRows, SameRows DEF Snapshot
<1>14. ASSUME NEW w \in Waiters, NEW o \in Owners, WaitBlock(w, o)
       PROVE  LiveRunInv'
  BY <1>0, <1>14, SameRows DEF WaitBlock
<1>15. ASSUME NEW w \in Waiters, WaitReport(w) PROVE LiveRunInv'
  BY <1>0, <1>15, SnapshotRows, SameRows DEF Unwatch, WaitReport
<1>16. ASSUME NEW w \in Waiters, WaitInterrupted(w) PROVE LiveRunInv'
  BY <1>0, <1>16, SameRows DEF Unwatch, WaitInterrupted
<1>17. ASSUME NEW o \in Owners,
              \/ WaitForOwnerResumes(o)
              \/ \E mode \in {"all", "unsuppressed"} : WaitForOwnerJobs(o, mode)
       PROVE  LiveRunInv'
  BY <1>0, <1>17, SameRows
  DEF WaitForOwnerJobs, WaitForOwnerResumes, OwnerWaitUnchanged
<1>18. ASSUME NEW t \in timers, EvictionTimer(t) PROVE LiveRunInv'
  <2>1. Evict({t[1]}) /\ UNCHANGED <<jobId, status, settled, disposed>>
    BY <1>18 DEF EvictionTimer
  <2>2. \A s \in table : jobId[s] \in {t[1]} => s \in settled'
    BY <2>1 DEF LiveRunInv, HasSettledRow, UniqueRows
  <2>3. /\ settled \subseteq settled' /\ settled' \subseteq Registered'
        /\ Registered' = Registered
    BY <2>1 DEF LiveRunInv, StatusInv, Registered
  <2>4. /\ UniqueRows' /\ LiveRunTracked'
        /\ \A u \in timers' : HasSettledRow(u[1])'
        /\ \A id \in consumed' : HasSettledRow(id)'
        /\ table' \subseteq table
    BY <2>1, <2>2, <2>3, EvictKeepsRows
  <2> QED
    BY <1>0, <2>1, <2>3, <2>4 DEF LiveRunInv, StatusInv, Finished
<1>19. ASSUME NEW o \in Owners, CancelOwnJobs(o) PROVE LiveRunInv'
  <2> DEFINE own == {r \in table : owner[r] = o}
             done == IdsOf(own \intersect Finished)
  <2>1. /\ Evict(done)
        /\ status' = [r \in Runs |-> IF r \in own /\ status[r] = "running"
                                     THEN "cancelled" ELSE status[r]]
        /\ UNCHANGED <<jobId, settled, disposed>>
    BY <1>19 DEF CancelOwnJobs
  <2>2. \A s \in table : jobId[s] \in done => s \in settled'
    BY <2>1 DEF LiveRunInv, UniqueRows, StatusInv, IdsOf
  <2>3. Registered' = Registered
    BY <2>1, <1>0 DEF Registered, TypeOK
  <2>4. settled \subseteq settled' /\ settled' \subseteq Registered'
    BY <2>1, <2>3 DEF LiveRunInv, StatusInv
  <2> HIDE DEF done
  <2>5. /\ UniqueRows' /\ LiveRunTracked'
        /\ \A u \in timers' : HasSettledRow(u[1])'
        /\ \A id \in consumed' : HasSettledRow(id)'
        /\ table' \subseteq table
    BY <2>1, <2>2, <2>3, <2>4, EvictKeepsRows
  <2>6. StatusInv'
    BY <2>1, <2>3, <2>5, <1>0 DEF LiveRunInv, StatusInv, Finished, TypeOK
  <2> QED
    BY <1>0, <2>1, <2>5, <2>6 DEF LiveRunInv
<1>20. CASE DisposeBegin
  <2>1. /\ status' = [r \in Runs |-> IF r \in table /\ status[r] = "running"
                                     THEN "cancelled" ELSE status[r]]
        /\ timers' = {} /\ disposed = "no" /\ disposed' = "draining"
        /\ UNCHANGED <<jobId, settled, table, consumed>>
    BY <1>20 DEF DisposeBegin
  <2>2. Registered' = Registered
    BY <2>1, <1>0 DEF Registered, TypeOK
  <2>3. StatusInv'
    BY <2>1, <2>2, <1>0 DEF LiveRunInv, StatusInv, Finished, TypeOK
  <2> QED
    BY <1>0, <2>1, <2>2, <2>3 DEF LiveRunInv, UniqueRows, LiveRunTracked, HasSettledRow
<1>21. CASE DisposeEnd
  <2>1. /\ table' = {} /\ timers' = {} /\ consumed' = {} /\ disposed' = "done"
        /\ UNCHANGED <<jobId, status, settled>>
    BY <1>21 DEF DisposeEnd
  <2> QED
    BY <1>0, <2>1 DEF LiveRunInv, UniqueRows, StatusInv, LiveRunTracked,
                      Registered, Finished
<1>22. CASE UNCHANGED vars
  BY <1>0, <1>22, SameRows DEF vars
<1> QED
  BY <1>1, <1>2, <1>3, <1>4, <1>5, <1>6, <1>7, <1>8, <1>9, <1>10, <1>11, <1>12,
     <1>13, <1>14, <1>15, <1>16, <1>17, <1>18, <1>19, <1>20, <1>21, <1>22
  DEF Next, RegisterSome

\* The strengthened invariant holds in every reachable state.
THEOREM LiveRunInvariant == Spec => []LiveRunInv
BY InitLiveRunInv, NextLiveRunInv, PTL DEF Spec

\* A run that has not settled keeps its row until the manager is disposed, so
\* cancellation, reaps and the shutdown wait can always find it.
THEOREM LiveRunsStayTracked == Spec => []LiveRunTracked
<1>1. LiveRunInv => LiveRunTracked
  BY DEF LiveRunInv
<1> QED
  BY <1>1, LiveRunInvariant, PTL

-----------------------------------------------------------------------------
(* The results: DeliverySound *)

\* A result that was told, or that carries the id of an earlier run
Told(r) == surfaced[r] > 0 \/ Reused(r)

\* What nobody may be told of yet is not told: a foreground job, and one that has
\* not finished.
SilentInv ==
    \A r \in Runs : r \in foreground \/ status[r] # "finished" =>
        deliveries[r] = 0 /\ inFlight[r] = 0 /\ surfaced[r] = 0

\* A row that still backs its foreground call is suppressed, a row that runs in
\* the background is not, and what a mark says of a finished row is true.
MarkInv ==
    /\ \A r \in table \intersect foreground : jobId[r] \in suppressed
    /\ \A r \in table \ foreground : status[r] = "running" => jobId[r] \notin suppressed
    /\ \A r \in table \intersect Finished : jobId[r] \in consumed => Told(r)
    /\ \A r \in (table \intersect Finished) \ foreground : jobId[r] \in suppressed => Told(r)

\* The foreground calls and the manager's end
CallInv ==
    /\ foreground \subseteq Registered
    /\ \A r \in table : jobId[r] \in released => r \in foreground \ settled
    /\ disposed # "no" => \A r \in Runs : status[r] # "running"
    /\ disposed = "done" => released = {}

\* A blocked wait holds background jobs, and their rows last as long as it blocks.
WaitInv ==
    \A w \in Waiters : \A r \in waiting[w] :
        r \in Registered \ foreground /\ (r \in table \/ disposed = "done")

\* A generated id that was handed out again belongs to a job that only its own
\* foreground call saw.
HandedBack == foreground \ table
AutoInv ==
    \A r \in Registered \ HandedBack : jobId[r][1] = AutoPrefix =>
        /\ jobId[r][2] < nextAutoId
        /\ \A s \in Registered \ HandedBack : jobId[s] = jobId[r] => s = r

DeliveryInv ==
    /\ SilentInv
    /\ SingleDelivery
    /\ MarkInv
    /\ CallInv
    /\ NoFreshResultLost
    /\ WaitInv
    /\ WatchHeld
    /\ AutoInv
    /\ DisposedQuiet

-----------------------------------------------------------------------------

\* What the two invariants give to every step
LEMMA Facts ==
    ASSUME LiveRunInv, DeliveryInv
    PROVE  /\ status \in [Runs -> {"unregistered", "running", "finished", "cancelled"}]
           /\ foreground \subseteq Registered /\ settled \subseteq Registered
           /\ table \subseteq Registered
           /\ deliveries \in [Runs -> Nat] /\ inFlight \in [Runs -> Nat]
           /\ surfaced \in [Runs -> Nat]
           /\ jobId \in [Runs -> Ids] /\ waiting \in [Waiters -> SUBSET Runs]
           /\ \A r, s \in table : jobId[r] = jobId[s] => r = s
           /\ \A r \in Registered \ settled : disposed = "done" \/ r \in table
           /\ \A r \in settled : status[r] # "running"
           /\ Finished \subseteq settled
           /\ \A id \in consumed : HasSettledRow(id)
           /\ disposed = "done" => table = {}
BY DEF LiveRunInv, DeliveryInv, TypeOK, UniqueRows, StatusInv, LiveRunTracked, CallInv

\* An id that was used once stays used.
LEMMA ReusedStays ==
    ASSUME Registered \subseteq Registered', \A s \in Registered : jobId'[s] = jobId[s]
    PROVE  \A r \in Registered : Reused(r) => Reused(r)'
BY DEF Reused

\* The counter and the handed out ids stay apart while nothing is registered or
\* discarded.
LEMMA AutoStays ==
    ASSUME AutoInv, Registered' = Registered, HandedBack \subseteq HandedBack',
           UNCHANGED <<jobId, nextAutoId>>
    PROVE  AutoInv'
BY DEF AutoInv

\* A wait keeps what it holds while no job is promoted or loses its row.
LEMMA WaitStays ==
    ASSUME WaitInv, UNCHANGED waiting, Registered \subseteq Registered',
           \A r \in Registered \ foreground : r \notin foreground',
           disposed = "done" => disposed' = "done",
           \A w \in Waiters : \A r \in waiting[w] : r \in table => r \in table'
    PROVE  WaitInv'
BY DEF WaitInv

\* What is watched stays watched by a blocked wait when only marks go.
LEMMA WatchStays ==
    ASSUME LiveRunInv, WaitInv, WatchHeld, UNCHANGED waiting, watched' \subseteq watched,
           \A s \in Registered : jobId'[s] = jobId[s]
    PROVE  WatchHeld'
<1>1. \A w \in Waiters : IdsOf(waiting[w]) = IdsOf(waiting[w])'
  BY DEF WaitInv, IdsOf
<1> QED
  BY <1>1 DEF WatchHeld

-----------------------------------------------------------------------------

\* Registering: a fresh run under an id that has no row, a generated one being new.
LEMMA RegisterKeeps ==
    ASSUME LiveRunInv, DeliveryInv, NEW r \in Runs, NEW o \in Owners, NEW fg \in BOOLEAN,
           NEW q \in BOOLEAN, NEW p, NEW n \in Nat, Row(<<p, n>>) = {}, <<p, n>> \in Ids,
           Register(r, o, <<p, n>>, fg, q),
           \/ p = AutoPrefix /\ n >= nextAutoId /\ nextAutoId' = n + 1
           \/ p # AutoPrefix /\ nextAutoId' = nextAutoId
    PROVE  DeliveryInv'
<1> DEFINE id == <<p, n>>
<1>0. \A s \in table : jobId[s] # id
  BY DEF Row
<1>f. r \notin Registered /\ disposed = "no" /\ r \notin table /\ r \notin foreground
  BY Facts DEF Register, DeliveryInv, CallInv
<1>1. /\ Registered' = Registered \union {r}
      /\ Finished' = Finished
      /\ \A s \in Runs : jobId'[s] = IF s = r THEN id ELSE jobId[s]
      /\ \A s \in Runs : status'[s] = IF s = r THEN "running" ELSE status[s]
      /\ foreground' = IF fg THEN foreground \union {r} ELSE foreground
      /\ table' = table \union {r}
      /\ suppressed' = (suppressed \ {id}) \union (IF fg THEN {id} ELSE {})
      /\ consumed' = consumed \ {id}
      /\ released' = released \ {id}
      /\ UNCHANGED <<settled, deliveries, inFlight, watched, disposed, waiting, surfaced,
                     deadLettered>>
  BY Facts DEF Register, Registered, Finished, callVars, ghostVars
<1> HIDE DEF id
<1>2. \A s \in Registered : jobId'[s] = jobId[s] /\ (Reused(s) => Reused(s)')
  BY <1>1, <1>f, ReusedStays, Facts DEF Registered
<1>3. SilentInv' /\ SingleDelivery' /\ DisposedQuiet'
  BY Facts, <1>f, <1>1 DEF SilentInv, SingleDelivery, DisposedQuiet, DeliveryInv, Registered
<1>4. MarkInv'
  BY Facts, <1>0, <1>f, <1>1, <1>2 DEF MarkInv, DeliveryInv, Registered, Finished, Told
<1>5. NoFreshResultLost'
  BY Facts, <1>0, <1>f, <1>1, <1>2 DEF NoFreshResultLost, Accounted, DeliveryInv, Registered, Finished
<1>6. CallInv'
  <2>1. \A s \in table' : jobId'[s] \in released' => s \in foreground' \ settled'
    <3>1. \A s \in table : jobId[s] \in released => s \in foreground \ settled
      BY DEF DeliveryInv, CallInv
    <3> QED
      BY Facts, <1>f, <1>1, <3>1 DEF Registered
  <2>2. foreground' \subseteq Registered'
    BY Facts, <1>1
  <2> QED
    BY <1>f, <1>1, <2>1, <2>2 DEF CallInv
<1>7. WaitInv' /\ WatchHeld'
  BY Facts, <1>f, <1>1, <1>2, WaitStays, WatchStays DEF DeliveryInv
<1>8. AutoInv'
  <2>1. HandedBack' = HandedBack
    BY <1>1, <1>f DEF HandedBack
  <2>2. \A s \in Registered : jobId[s] \in Ids
    BY Facts DEF Registered
  <2>3. CASE p = AutoPrefix /\ n >= nextAutoId /\ nextAutoId' = n + 1
    <3>1. \A s \in Registered \ HandedBack : jobId[s] # id
      BY <2>3, <2>2 DEF AutoInv, DeliveryInv, Ids, id, LiveRunInv, TypeOK
    <3>2. id[1] = p /\ id[2] = n
      BY DEF id
    <3>3. nextAutoId \in Nat /\ \A s \in Registered : jobId[s][2] \in Nat
      BY <2>2 DEF LiveRunInv, TypeOK, Ids
    <3> QED
      BY <1>1, <1>2, <1>f, <2>1, <2>3, <3>1, <3>2, <3>3 DEF AutoInv, DeliveryInv
  <2>4. CASE p # AutoPrefix /\ nextAutoId' = nextAutoId
    <3>1. id[1] = p
      BY DEF id
    <3> QED
      BY <1>1, <1>2, <1>f, <2>1, <2>4, <3>1 DEF AutoInv, DeliveryInv
  <2> QED
    BY <2>3, <2>4
<1> QED
  BY <1>3, <1>4, <1>5, <1>6, <1>7, <1>8 DEF DeliveryInv

\* A job discarded by its foreground call gives its number back: nobody else
\* carries it.
LEMMA DiscardAuto ==
    ASSUME LiveRunInv, DeliveryInv, NEW r \in foreground \intersect table, Discard(jobId[r]),
           UNCHANGED <<jobId, foreground>>, Registered' = Registered
    PROVE  AutoInv'
<1>1. r \in HandedBack' /\ HandedBack \subseteq HandedBack' /\ r \in Registered \ HandedBack
  BY Facts DEF HandedBack, Discard, Evict
<1>2. nextAutoId \in Nat /\ \A s \in Registered : jobId[s] \in Ids
  BY DEF LiveRunInv, TypeOK, Registered
<1>3. CASE jobId[r] # <<AutoPrefix, nextAutoId - 1>>
  BY <1>1, <1>3, AutoStays DEF Discard, DeliveryInv
<1>4. CASE jobId[r] = <<AutoPrefix, nextAutoId - 1>>
  <2>1. nextAutoId' = nextAutoId - 1
    BY <1>4 DEF Discard
  <2>2. ASSUME NEW s \in Registered \ HandedBack', jobId[s][1] = AutoPrefix
        PROVE  jobId[s][2] < nextAutoId - 1
    <3>1. s # r /\ s \in Registered \ HandedBack
      BY <1>1, <2>2
    <3>2. jobId[s] # jobId[r] /\ jobId[s][2] < nextAutoId
      BY <1>1, <2>2, <3>1 DEF AutoInv, DeliveryInv
    <3>3. jobId[s] = <<AutoPrefix, jobId[s][2]>> /\ jobId[s][2] \in Nat
      BY <1>2, <2>2 DEF Ids
    <3> QED
      BY <1>2, <1>4, <3>2, <3>3
  <2> QED
    BY <1>1, <2>1, <2>2 DEF AutoInv, DeliveryInv
<1> QED
  BY <1>3, <1>4

\* What an eviction leaves in the table keeps its marks, and with them its result.
LEMMA RowsLeft ==
    ASSUME LiveRunInv, DeliveryInv, NEW ids, Evict(ids), Registered' = Registered,
           UNCHANGED <<jobId, foreground, inFlight, surfaced, deadLettered>>,
           \A s \in table : jobId[s] \notin ids =>
               /\ status'[s] = status[s] \/ status'[s] = "cancelled"
               /\ deliveries'[s] = deliveries[s] \/ jobId[s] \in Muted
    PROVE  MarkInv' /\ NoFreshResultLost'
<1>1. \A s \in table' :
          /\ s \in table
          /\ jobId[s] \in suppressed' <=> jobId[s] \in suppressed
          /\ jobId[s] \in watched' <=> jobId[s] \in watched
          /\ jobId[s] \in consumed' <=> jobId[s] \in consumed
          /\ status'[s] = status[s] \/ status'[s] = "cancelled"
          /\ deliveries'[s] = deliveries[s] \/ jobId[s] \in Muted
  BY DEF Evict
<1>2. \A s \in Registered : Reused(s) => Reused(s)'
  BY ReusedStays
<1>3. \A s \in table' : s \in Finished' => s \in Finished
  BY Facts, <1>1 DEF Finished
<1>4. MarkInv'
  BY Facts, <1>1, <1>2, <1>3 DEF MarkInv, DeliveryInv, Told
<1>5. NoFreshResultLost'
  BY Facts, <1>1, <1>2, <1>3 DEF NoFreshResultLost, Accounted, DeliveryInv, MarkInv, Told, Muted
<1> QED
  BY <1>4, <1>5

\* Settling: only a run that nobody waits for in the foreground is queued.
LEMMA SettleKeeps ==
    ASSUME LiveRunInv, DeliveryInv, NEW r \in Runs, Settle(r)
    PROVE  DeliveryInv'
<1>1. /\ r \in Registered /\ r \notin settled
      /\ r \in table \/ disposed = "done"
      /\ settled' = settled \union {r}
      /\ \A s \in Runs : status'[s] = IF s = r /\ status[r] = "running" THEN "finished" ELSE status[s]
      /\ UNCHANGED <<jobId, foreground, inFlight, disposed, waiting, surfaced, deadLettered>>
      /\ Registered' = Registered
  BY Facts DEF Settle, Registered, callVars, ghostVars
<1>2. /\ \A s \in Runs : deliveries'[s] = IF s = r /\ status[r] = "running" /\ jobId[r] \notin Muted
                                          THEN deliveries[s] + 1 ELSE deliveries[s]
  BY Facts DEF Settle, Added
<1>3. r \in foreground => status[r] # "running" \/ jobId[r] \in Muted
  BY Facts, <1>1 DEF DeliveryInv, CallInv, MarkInv, Muted
<1>4. SilentInv' /\ SingleDelivery' /\ DisposedQuiet'
  BY Facts, <1>1, <1>2, <1>3
     DEF DeliveryInv, SilentInv, SingleDelivery, DisposedQuiet, CallInv, Finished
<1>5. \A s \in Registered : Reused(s) => Reused(s)'
  BY <1>1, ReusedStays
<1>6. CASE jobId[r] \in released
  <2>1. r \in foreground \intersect table /\ Discard(jobId[r])
    BY <1>1, <1>6 DEF Settle, DeliveryInv, CallInv
  <2>2. /\ Evict({jobId[r]}) /\ released' = released \ {jobId[r]}
        /\ table' = table \ {r} /\ watched' \subseteq watched
    BY Facts, <2>1 DEF Discard, Evict
  <2>3. MarkInv' /\ NoFreshResultLost'
    <3>1. \A s \in table : jobId[s] \notin {jobId[r]} =>
              status'[s] = status[s] /\ deliveries'[s] = deliveries[s]
      BY <1>1, <1>2, Facts DEF Registered
    <3> QED
      BY <1>1, <2>2, <3>1, RowsLeft
  <2>4. CallInv'
    BY Facts, <1>1, <2>2 DEF DeliveryInv, CallInv
  <2>5. WaitInv' /\ WatchHeld'
    BY Facts, <1>1, <2>1, <2>2, WaitStays, WatchStays DEF DeliveryInv, WaitInv
  <2>6. AutoInv'
    BY <1>1, <2>1, DiscardAuto
  <2> QED
    BY <1>4, <2>3, <2>4, <2>5, <2>6 DEF DeliveryInv
<1>7. CASE jobId[r] \notin released
  <2>1. UNCHANGED <<table, markVars, released, nextAutoId>>
    BY <1>7 DEF Settle
  <2>2. MarkInv'
    <3>1. \A s \in table : s # r => jobId[s] # jobId[r]
      BY Facts, <1>1
    <3>2. r \in table => jobId[r] \notin consumed
      BY Facts, <1>1 DEF HasSettledRow
    <3>3. \A s \in table : s \in Finished' => (s = r /\ status[r] = "running") \/ s \in Finished
      BY Facts, <1>1 DEF Finished
    <3>4. \A s \in table : status'[s] = "running" => status[s] = "running"
      BY Facts, <1>1 DEF Registered
    <3>5. \A s \in Registered : Told(s) => Told(s)'
      BY <1>1, <1>5 DEF Told
    <3>6. MarkInv /\ UNCHANGED <<suppressed, consumed>>
      BY <2>1 DEF DeliveryInv, markVars
    <3>7. \A s \in table \intersect Finished' : jobId[s] \in consumed => Told(s)'
      BY Facts, <3>2, <3>3, <3>5, <3>6 DEF MarkInv
    <3>8. \A s \in (table \intersect Finished') \ foreground : jobId[s] \in suppressed => Told(s)'
      BY Facts, <1>1, <3>3, <3>5, <3>6 DEF MarkInv
    <3> QED
      BY <1>1, <2>1, <3>4, <3>6, <3>7, <3>8 DEF MarkInv
  <2>3. NoFreshResultLost'
    BY Facts, <1>1, <1>2, <1>5, <2>1
       DEF NoFreshResultLost, Accounted, DeliveryInv, MarkInv, Muted, Finished, markVars
  <2>4. CallInv'
    BY Facts, <1>1, <1>7, <2>1 DEF DeliveryInv, CallInv
  <2>5. WaitInv' /\ WatchHeld'
    BY <1>1, <2>1, WaitStays, WatchStays DEF DeliveryInv, markVars
  <2>6. AutoInv'
    BY <1>1, <2>1, AutoStays DEF DeliveryInv, HandedBack
  <2> QED
    BY <1>4, <2>2, <2>3, <2>4, <2>5, <2>6 DEF DeliveryInv
<1> QED
  BY <1>6, <1>7

\* Cancelling mutes at most the id of the cancelled run itself.
LEMMA CancelKeeps ==
    ASSUME LiveRunInv, DeliveryInv, NEW r \in Runs, Cancel(r) \/ CancelAndReport(r)
    PROVE  DeliveryInv'
<1>1. /\ r \in table /\ status[r] = "running"
      /\ \A s \in Runs : status'[s] = IF s = r THEN "cancelled" ELSE status[s]
      /\ UNCHANGED <<jobId, foreground, settled, table, inFlight, watched, consumed, released,
                     nextAutoId, disposed, waiting, surfaced, deadLettered>>
      /\ Registered' = Registered /\ Finished' = Finished
  BY Facts DEF Cancel, CancelAndReport, Registered, Finished, markVars, callVars, ghostVars
<1>2. \/ UNCHANGED <<suppressed, deliveries>>
      \/ /\ r \notin foreground /\ suppressed' = suppressed \union {jobId[r]}
         /\ \A s \in Runs : deliveries'[s] = IF jobId[s] \in suppressed' \union watched
                                             THEN 0 ELSE deliveries[s]
  BY DEF Cancel, CancelAndReport, Dropped, markVars
<1>3. \A s \in Registered : Reused(s) => Reused(s)'
  BY <1>1, ReusedStays
<1>4. SilentInv' /\ SingleDelivery' /\ DisposedQuiet'
  BY Facts, <1>1, <1>2 DEF DeliveryInv, SilentInv, SingleDelivery, DisposedQuiet
<1>5. MarkInv'
  <2>1. \A s \in Registered : Told(s) => Told(s)'
    BY <1>1, <1>3 DEF Told
  <2>2. \A s \in table : jobId[s] \in suppressed' => jobId[s] \in suppressed \/ s = r
    BY Facts, <1>1, <1>2
  <2>3. r \notin Finished
    BY <1>1 DEF Finished
  <2>4. suppressed \subseteq suppressed' /\ MarkInv
    BY <1>2 DEF DeliveryInv
  <2>5. \A s \in table \ foreground : status'[s] = "running" => jobId[s] \notin suppressed'
    BY Facts, <1>1, <2>2, <2>4 DEF MarkInv, Registered
  <2> QED
    BY Facts, <1>1, <2>1, <2>2, <2>3, <2>4, <2>5 DEF MarkInv
<1>6. NoFreshResultLost'
  BY Facts, <1>1, <1>2, <1>3, <1>5
     DEF DeliveryInv, NoFreshResultLost, Accounted, MarkInv, Told, Finished
<1>7. CallInv'
  BY Facts, <1>1 DEF DeliveryInv, CallInv
<1>8. WaitInv' /\ WatchHeld'
  BY <1>1, WaitStays, WatchStays DEF DeliveryInv
<1>9. AutoInv'
  BY <1>1, AutoStays DEF DeliveryInv, HandedBack
<1> QED
  BY <1>4, <1>5, <1>6, <1>7, <1>8, <1>9 DEF DeliveryInv

\* Promotion: a job that finished meanwhile is queued, for the first time.
LEMMA BackgroundKeeps ==
    ASSUME LiveRunInv, DeliveryInv, NEW r \in Runs, Background(r)
    PROVE  DeliveryInv'
<1>1. /\ r \in foreground \intersect table /\ jobId[r] \notin released
      /\ foreground' = foreground \ {r}
      /\ suppressed' = suppressed \ {jobId[r]}
      /\ \A s \in Runs : deliveries'[s] =
             IF s = r /\ status[r] = "finished" /\ jobId[r] \notin watched
             THEN deliveries[s] + 1 ELSE deliveries[s]
      /\ UNCHANGED <<jobId, status, settled, table, inFlight, watched, consumed, released,
                     nextAutoId, disposed, waiting, surfaced, deadLettered>>
      /\ Registered' = Registered /\ Finished' = Finished
  BY Facts DEF Background, AwaitedByCall, Added, Registered, Finished, callVars, ghostVars
<1>2. \A s \in table : s # r => jobId[s] # jobId[r]
  BY Facts, <1>1
<1>3. \A s \in Registered : Reused(s) => Reused(s)'
  BY <1>1, ReusedStays
<1>4. SilentInv' /\ SingleDelivery'
  BY Facts, <1>1 DEF DeliveryInv, SilentInv, SingleDelivery
<1>5. DisposedQuiet'
  BY Facts, <1>1 DEF DeliveryInv, DisposedQuiet
<1>6. MarkInv'
  BY Facts, <1>1, <1>2, <1>3 DEF DeliveryInv, MarkInv, Told
<1>7. NoFreshResultLost'
  BY Facts, <1>1, <1>3 DEF DeliveryInv, NoFreshResultLost, Accounted, Finished
<1>8. CallInv'
  BY Facts, <1>1, <1>2 DEF DeliveryInv, CallInv
<1>9. WaitInv' /\ WatchHeld'
  BY <1>1, WaitStays, WatchStays DEF DeliveryInv
<1>10. AutoInv'
  BY <1>1, AutoStays DEF DeliveryInv, HandedBack
<1> QED
  BY <1>4, <1>5, <1>6, <1>7, <1>8, <1>9, <1>10 DEF DeliveryInv

\* Releasing: a settled job loses its row and its number, the others keep theirs.
LEMMA ReleaseKeeps ==
    ASSUME LiveRunInv, DeliveryInv, NEW r \in Runs, ReleaseForeground(r)
    PROVE  DeliveryInv'
<1>1. /\ r \in foreground \intersect table
      /\ UNCHANGED <<jobId, status, foreground, settled, deliveries, inFlight, disposed, waiting,
                     surfaced, deadLettered>>
      /\ Registered' = Registered /\ Finished' = Finished
  BY DEF ReleaseForeground, AwaitedByCall, Registered, Finished, jobVars, callVars, ghostVars
<1>2. \A s \in Registered : Reused(s) => Reused(s)'
  BY <1>1, ReusedStays
<1>3. SilentInv' /\ SingleDelivery' /\ DisposedQuiet'
  BY <1>1 DEF DeliveryInv, SilentInv, SingleDelivery, DisposedQuiet
<1>4. CASE r \in settled /\ Discard(jobId[r])
  <2>1. /\ Evict({jobId[r]}) /\ released' = released \ {jobId[r]}
        /\ table' = table \ {r} /\ watched' \subseteq watched
    BY Facts, <1>1, <1>4 DEF Discard, Evict
  <2>2. MarkInv' /\ NoFreshResultLost'
    BY <1>1, <2>1, RowsLeft
  <2>3. CallInv'
    BY Facts, <1>1, <2>1 DEF DeliveryInv, CallInv
  <2>4. WaitInv' /\ WatchHeld'
    BY Facts, <1>1, <2>1, WaitStays, WatchStays DEF DeliveryInv, WaitInv
  <2>5. AutoInv'
    BY <1>1, <1>4, DiscardAuto
  <2> QED
    BY <1>3, <2>2, <2>3, <2>4, <2>5 DEF DeliveryInv
<1>5. CASE /\ r \notin settled
           /\ released' = released \union {jobId[r]}
           /\ UNCHANGED <<table, timers, markVars, nextAutoId>>
  <2>1. MarkInv' /\ NoFreshResultLost'
    BY Facts, <1>1, <1>2, <1>5 DEF DeliveryInv, MarkInv, NoFreshResultLost, Accounted, Told, markVars
  <2>2. CallInv'
    BY Facts, <1>1, <1>5 DEF DeliveryInv, CallInv
  <2>3. WaitInv' /\ WatchHeld'
    BY <1>1, <1>5, WaitStays, WatchStays DEF DeliveryInv, markVars
  <2>4. AutoInv'
    BY <1>1, <1>5, AutoStays DEF DeliveryInv, HandedBack
  <2> QED
    BY <1>3, <2>1, <2>2, <2>3, <2>4 DEF DeliveryInv
<1> QED
  BY <1>4, <1>5 DEF ReleaseForeground

\* A step of the pipeline that moves the delivery of one run, and tells at most
\* that one.
LEMMA MoveKeeps ==
    ASSUME LiveRunInv, DeliveryInv, NEW r \in Runs,
           UNCHANGED <<jobVars, table, suppressed, watched, released, nextAutoId, disposed,
                       waiting>>,
           \A s \in Runs \ {r} : /\ deliveries'[s] = deliveries[s] /\ inFlight'[s] = inFlight[s]
                                 /\ surfaced'[s] = surfaced[s],
           deliveries[r] + inFlight[r] > 0,
           deliveries'[r] \in Nat, inFlight'[r] \in Nat, surfaced'[r] \in Nat,
           deliveries'[r] + inFlight'[r] <= 1,
           deliveries'[r] <= deliveries[r] \/ Row(jobId[r]) # {},
           surfaced'[r] >= surfaced[r],
           \/ deliveries'[r] + inFlight'[r] > 0
           \/ surfaced'[r] > 0
           \/ jobId[r] \in Muted
           \/ Row(jobId[r]) = {}
           \/ r \in deadLettered',
           deadLettered \subseteq deadLettered',
           \A id \in consumed' : id \in consumed \/ (id = jobId[r] /\ surfaced'[r] > 0)
    PROVE  DeliveryInv'
<1>1. /\ UNCHANGED <<jobId, status, foreground, settled>>
      /\ Registered' = Registered /\ Finished' = Finished
  BY DEF jobVars, Registered, Finished
<1>2. r \notin foreground /\ r \in Finished
  BY Facts DEF DeliveryInv, SilentInv, Finished
<1>3. \A s \in Registered : Reused(s) => Reused(s)'
  BY <1>1, ReusedStays
<1>4. \A s \in Runs : surfaced[s] > 0 => surfaced'[s] > 0
  BY Facts
<1>5. SilentInv' /\ SingleDelivery'
  BY Facts, <1>1, <1>2 DEF DeliveryInv, SilentInv, SingleDelivery, Finished
<1>6. DisposedQuiet'
  BY Facts, <1>1 DEF DeliveryInv, DisposedQuiet, Row
<1>7. MarkInv'
  <2>1. \A s \in Registered : Told(s) => Told(s)'
    BY <1>3, <1>4, Facts DEF Told, Registered
  <2>2. \A s \in table : jobId[s] = jobId[r] /\ surfaced'[r] > 0 => Told(s)'
    BY Facts, <1>1, <1>2 DEF Told, Reused, Finished, Registered
  <2>3. MarkInv /\ UNCHANGED <<table, suppressed>>
    BY DEF DeliveryInv
  <2>4. \A s \in table \intersect Finished : jobId[s] \in consumed' => Told(s)'
    BY Facts, <2>1, <2>2, <2>3 DEF MarkInv
  <2>5. \A s \in (table \intersect Finished) \ foreground : jobId[s] \in suppressed => Told(s)'
    BY Facts, <2>1, <2>3 DEF MarkInv
  <2> QED
    BY <1>1, <2>3, <2>4, <2>5 DEF MarkInv
<1>8. NoFreshResultLost'
  <2> SUFFICES ASSUME NEW s \in (table \intersect Finished) \ foreground
               PROVE  Accounted(s)' \/ Reused(s)'
    BY <1>1 DEF NoFreshResultLost
  <2>1. (Accounted(s) \/ Reused(s)) /\ s \in Runs /\ s \in Registered
    BY Facts DEF DeliveryInv, NoFreshResultLost, Finished
  <2>2. CASE s # r
    BY <1>1, <1>3, <2>1, <2>2 DEF Accounted
  <2>3. CASE s = r
    <3>1. Row(jobId[r]) # {}
      BY <2>3 DEF Row
    <3>2. jobId[r] \in suppressed => Told(r)
      BY <2>3 DEF DeliveryInv, MarkInv
    <3> QED
      BY Facts, <1>1, <1>3, <1>4, <2>1, <2>3, <3>1, <3>2 DEF Accounted, Muted, Told
  <2> QED
    BY <2>2, <2>3
<1>9. CallInv'
  BY Facts, <1>1 DEF DeliveryInv, CallInv
<1>10. WaitInv' /\ WatchHeld'
  BY <1>1, WaitStays, WatchStays DEF DeliveryInv
<1>11. AutoInv'
  BY <1>1, AutoStays DEF DeliveryInv, HandedBack
<1> QED
  BY <1>5, <1>6, <1>7, <1>8, <1>9, <1>10, <1>11 DEF DeliveryInv

\* The delivery loop and the sinks move one delivery, count it or find it muted.
LEMMA DeliveryKeeps ==
    ASSUME LiveRunInv, DeliveryInv, NEW r \in Runs,
           StartDelivery(r) \/ DropMuted(r) \/ SinkResolves(r) \/ SinkRejects(r)
    PROVE  DeliveryInv'
<1> USE DEF markVars, callVars, ghostVars
<1>1. deliveries[r] + inFlight[r] <= 1 /\ deliveries[r] \in Nat /\ inFlight[r] \in Nat
      /\ surfaced[r] \in Nat
  BY Facts DEF DeliveryInv, SingleDelivery
<1>2. CASE StartDelivery(r)
  <2>1. CASE owner[r] \in sinks /\ inFlight' = Added(inFlight, {r}) /\ UNCHANGED deadLettered
    BY <1>1, <1>2, <2>1, Facts, MoveKeeps DEF StartDelivery, Taken, Added
  <2>2. CASE NoSink(r) /\ deadLettered' = deadLettered \union {r} /\ UNCHANGED inFlight
    BY <1>1, <1>2, <2>2, Facts, MoveKeeps DEF StartDelivery, Taken
  <2> QED
    BY <1>2, <2>1, <2>2 DEF StartDelivery
<1>3. CASE DropMuted(r)
  BY <1>1, <1>3, Facts, MoveKeeps DEF DropMuted, Taken
<1>4. CASE SinkResolves(r)
  BY <1>1, <1>4, Facts, MoveKeeps DEF SinkResolves, Taken, Added
<1>5. CASE SinkRejects(r)
  BY <1>1, <1>5, Facts, MoveKeeps DEF SinkRejects, Taken, Added
<1> QED
  BY <1>2, <1>3, <1>4, <1>5

-----------------------------------------------------------------------------

\* A snapshot of background jobs that still have their rows, or of jobs that
\* outlived the manager: what it mutes it has shown, or somebody has.
LEMMA SnapshotKeeps ==
    ASSUME LiveRunInv, DeliveryInv, NEW R \in SUBSET Runs, TakeSnapshot(R),
           \A s \in R : s \in Registered \ foreground /\ (s \in table \/ disposed = "done"),
           UNCHANGED <<jobVars, table, inFlight, released, nextAutoId, disposed, deadLettered>>,
           watched' \subseteq watched,
           \A s \in table : jobId[s] \in watched => jobId[s] \in watched' \/ s \in R
    PROVE  /\ SilentInv' /\ SingleDelivery' /\ DisposedQuiet' /\ MarkInv' /\ NoFreshResultLost'
           /\ CallInv' /\ AutoInv'
<1> DEFINE ended == IdsOf({s \in R : status[s] # "running"})
<1>1. /\ UNCHANGED <<jobId, status, foreground, settled, table>>
      /\ Registered' = Registered /\ Finished' = Finished
  BY DEF jobVars, Registered, Finished
<1>2. Latest(R) = R
  <2>1. \A s \in R : Row(jobId[s]) = IF s \in table THEN {s} ELSE {}
    BY Facts DEF Row
  <2> QED
    BY <2>1 DEF Latest
<1>3. /\ \A s \in Runs : surfaced'[s] = IF s \in R /\ s \in Finished /\ jobId[s] \notin consumed
                                        THEN surfaced[s] + 1 ELSE surfaced[s]
      /\ suppressed' = suppressed \union ended
      /\ \A s \in Runs : \/ deliveries'[s] = deliveries[s]
                         \/ deliveries'[s] = 0 /\ jobId[s] \in suppressed' \union watched
      /\ \A id \in consumed' : id \in consumed \/ id \in ended
      /\ consumed \subseteq consumed'
  <2>1. /\ surfaced' = Added(surfaced, Shown(R))
        /\ suppressed' = suppressed \union ended
        /\ deliveries' = IF ended = {} THEN deliveries
                         ELSE Dropped(deliveries, suppressed' \union watched)
        /\ consumed' = consumed \union ((IdsOf(table \intersect settled) \intersect ended) \ consumed)
    BY <1>2 DEF TakeSnapshot
  <2> HIDE DEF ended
  <2>2. \A s \in Runs : surfaced'[s] = IF s \in R /\ s \in Finished /\ jobId[s] \notin consumed
                                        THEN surfaced[s] + 1 ELSE surfaced[s]
    BY <1>2, <2>1 DEF Added, Shown
  <2> QED
    BY <2>1, <2>2 DEF Dropped
<1>4. \A s \in table : jobId[s] \in ended => s \in R /\ status[s] # "running"
  BY Facts DEF IdsOf
<1> HIDE DEF ended
<1>5. \A s \in Registered : /\ Reused(s) => Reused(s)'
                            /\ Told(s) => Told(s)'
  <2>1. \A s \in Registered : Reused(s) => Reused(s)'
    BY <1>1, ReusedStays
  <2> QED
    BY Facts, <1>3, <2>1 DEF Told, Registered
<1>6. SilentInv' /\ SingleDelivery' /\ DisposedQuiet'
  <2>1. \A s \in R : s \notin foreground
    OBVIOUS
  <2> QED
    BY Facts, <1>1, <1>3, <2>1
       DEF DeliveryInv, SilentInv, SingleDelivery, DisposedQuiet, Finished
<1>7. \A s \in table \intersect Finished : s \in R => Told(s)'
  <2> SUFFICES ASSUME NEW s \in table \intersect Finished, s \in R
               PROVE  Told(s)'
    OBVIOUS
  <2>1. CASE jobId[s] \in consumed
    BY Facts, <1>5, <2>1 DEF DeliveryInv, MarkInv
  <2>2. CASE jobId[s] \notin consumed
    BY Facts, <1>3, <2>2 DEF Told, Finished
  <2> QED
    BY <2>1, <2>2
<1>8. MarkInv'
  <2>1. MarkInv
    BY DEF DeliveryInv
  <2>2. \A s \in table \intersect Finished : jobId[s] \in consumed' => Told(s)'
    BY Facts, <1>3, <1>4, <1>5, <1>7, <2>1 DEF MarkInv
  <2>3. \A s \in (table \intersect Finished) \ foreground : jobId[s] \in suppressed' => Told(s)'
    BY Facts, <1>3, <1>4, <1>5, <1>7, <2>1 DEF MarkInv
  <2>4. \A s \in table \ foreground : status[s] = "running" => jobId[s] \notin suppressed'
    BY <1>3, <1>4, <2>1 DEF MarkInv
  <2>5. \A s \in table \intersect foreground : jobId[s] \in suppressed'
    BY <1>3, <2>1 DEF MarkInv
  <2> QED
    BY <1>1, <2>2, <2>3, <2>4, <2>5 DEF MarkInv
<1>9. NoFreshResultLost'
  <2> SUFFICES ASSUME NEW s \in (table \intersect Finished) \ foreground
               PROVE  Accounted(s)' \/ Reused(s)'
    BY <1>1 DEF NoFreshResultLost
  <2>1. /\ Accounted(s) \/ Reused(s)
        /\ s \in Runs /\ s \in Registered
    BY Facts DEF DeliveryInv, NoFreshResultLost, Finished
  <2>2. CASE Told(s)'
    BY <2>2 DEF Told, Accounted
  <2>3. CASE ~Told(s)'
    <3>1. s \notin R /\ jobId[s] \notin suppressed'
      BY <1>1, <1>7, <1>8, <2>3 DEF MarkInv
    <3>2. jobId[s] \in watched => jobId[s] \in watched'
      BY <3>1
    <3>3. jobId[s] \notin watched => deliveries'[s] = deliveries[s]
      BY <1>3, <2>1, <3>1
    <3>4. ~Reused(s) /\ ~(surfaced[s] > 0)
      BY <1>5, <2>1, <2>3 DEF Told
    <3> QED
      BY <1>1, <2>1, <3>2, <3>3, <3>4 DEF Accounted
  <2> QED
    BY <2>2, <2>3
<1>10. CallInv'
  BY <1>1 DEF DeliveryInv, CallInv
<1>11. AutoInv'
  BY <1>1, AutoStays DEF DeliveryInv, HandedBack
<1> QED
  BY <1>6, <1>8, <1>9, <1>10, <1>11

\* Snapshots and waits report what they mute, and a blocked wait holds what it watches.
LEMMA WaitKeeps ==
    ASSUME LiveRunInv, DeliveryInv,
           \/ \E o \in Owners, R \in SUBSET table : Snapshot(o, R)
           \/ \E w \in Waiters, o \in Owners : WaitBlock(w, o)
           \/ \E w \in Waiters : WaitReport(w)
    PROVE  DeliveryInv'
<1> USE DEF callVars, ghostVars
<1>0. table \subseteq Runs /\ foreground \subseteq Runs
  BY Facts DEF Registered
<1>1. ASSUME NEW o \in Owners, NEW R \in SUBSET table, Snapshot(o, R)
      PROVE  DeliveryInv'
  <2>1. R \subseteq Visible(o)
    BY <1>1 DEF Snapshot, Undelivered, RunningJobs
  <2>2. \A s \in R : s \in Registered \ foreground /\ (s \in table \/ disposed = "done")
    BY Facts, <2>1 DEF Visible
  <2>3. /\ TakeSnapshot(R)
        /\ UNCHANGED <<jobVars, table, inFlight, watched, released, nextAutoId, disposed,
                       deadLettered, waiting>>
    BY <1>1 DEF Snapshot
  <2>4. /\ SilentInv' /\ SingleDelivery' /\ DisposedQuiet' /\ MarkInv' /\ NoFreshResultLost'
        /\ CallInv' /\ AutoInv'
    BY <1>0, <2>2, <2>3, SnapshotKeeps
  <2>5. WaitInv' /\ WatchHeld'
    BY <2>3, WaitStays, WatchStays DEF DeliveryInv, jobVars, Registered
  <2> QED
    BY <2>4, <2>5 DEF DeliveryInv
<1>2. ASSUME NEW w \in Waiters, NEW o \in Owners, WaitBlock(w, o)
      PROVE  DeliveryInv'
  <2>1. /\ waiting' = [waiting EXCEPT ![w] = RunningJobs(o)]
        /\ watched' = watched \union IdsOf(RunningJobs(o))
        /\ waiting[w] = {}
        /\ UNCHANGED <<jobId, status, foreground, settled, table, deliveries, inFlight, suppressed,
                       consumed, released, nextAutoId, disposed, surfaced, deadLettered>>
        /\ Registered' = Registered /\ Finished' = Finished
    BY <1>2 DEF WaitBlock, jobVars, Registered, Finished
  <2>2. \A s \in Registered : Reused(s) => Reused(s)'
    BY <2>1, ReusedStays
  <2>3. RunningJobs(o) \subseteq table \ foreground
    BY DEF RunningJobs, Visible
  <2>4. SilentInv' /\ SingleDelivery' /\ DisposedQuiet' /\ CallInv'
    BY <2>1 DEF DeliveryInv, SilentInv, SingleDelivery, DisposedQuiet, CallInv
  <2>5. MarkInv' /\ NoFreshResultLost'
    BY Facts, <2>1, <2>2 DEF DeliveryInv, MarkInv, NoFreshResultLost, Accounted, Told
  <2>6. WaitInv'
    BY Facts, <2>1, <2>3 DEF DeliveryInv, WaitInv
  <2>7. WatchHeld'
    <3>1. \A v \in Waiters : IdsOf(waiting[v]) \subseteq IdsOf(waiting'[v])
      BY Facts, <2>1 DEF IdsOf
    <3>2. IdsOf(RunningJobs(o)) = IdsOf(waiting'[w])
      BY Facts, <2>1
    <3>3. \A v \in Waiters : IdsOf(waiting[v])' = IdsOf(waiting'[v])
      BY <2>1 DEF IdsOf
    <3> QED
      BY <2>1, <3>1, <3>2, <3>3 DEF DeliveryInv, WatchHeld
  <2>8. AutoInv'
    BY <2>1, AutoStays DEF DeliveryInv, HandedBack
  <2> QED
    BY <2>4, <2>5, <2>6, <2>7, <2>8 DEF DeliveryInv
<1>3. ASSUME NEW w \in Waiters, WaitReport(w)
      PROVE  DeliveryInv'
  <2>1. /\ TakeSnapshot(waiting[w])
        /\ waiting' = [waiting EXCEPT ![w] = {}]
        /\ watched' = watched \ IdsOf(waiting[w])
        /\ UNCHANGED <<jobVars, table, inFlight, released, nextAutoId, disposed, deadLettered>>
    BY <1>3 DEF WaitReport, Unwatch
  <2>2. waiting[w] \in SUBSET Runs
    BY Facts
  <2>3. \A s \in waiting[w] : s \in Registered \ foreground /\ (s \in table \/ disposed = "done")
    BY DEF DeliveryInv, WaitInv
  <2>4. \A s \in table : jobId[s] \in watched => jobId[s] \in watched' \/ s \in waiting[w]
    BY Facts, <2>1, <2>3 DEF IdsOf
  <2>5. /\ SilentInv' /\ SingleDelivery' /\ DisposedQuiet' /\ MarkInv' /\ NoFreshResultLost'
        /\ CallInv' /\ AutoInv'
    BY <2>1, <2>2, <2>3, <2>4, SnapshotKeeps
  <2>6. WaitInv' /\ WatchHeld'
    <3>1. /\ \A v \in Waiters : waiting'[v] = IF v = w THEN {} ELSE waiting[v]
          /\ Registered' = Registered /\ UNCHANGED <<jobId, foreground>>
      BY Facts, <2>1 DEF jobVars, Registered
    <3>2. WaitInv'
      BY <2>1, <3>1 DEF DeliveryInv, WaitInv
    <3>3. \A v \in Waiters : IdsOf(waiting[v])' = IF v = w THEN {} ELSE IdsOf(waiting[v])
      BY <3>1 DEF IdsOf
    <3> QED
      BY <2>1, <3>2, <3>3 DEF DeliveryInv, WatchHeld
  <2> QED
    BY <2>5, <2>6 DEF DeliveryInv
<1> QED
  BY <1>1, <1>2, <1>3

\* An interrupted wait gives back what finished meanwhile, unless it is queued or
\* was told.
LEMMA InterruptKeeps ==
    ASSUME LiveRunInv, DeliveryInv, NEW w \in Waiters, WaitInterrupted(w)
    PROVE  DeliveryInv'
<1> DEFINE ids == IdsOf(waiting[w])
<1>1. /\ waiting' = [waiting EXCEPT ![w] = {}]
      /\ watched' = watched \ ids
      /\ deliveries' = Added(deliveries, Skipped(ids))
      /\ UNCHANGED <<jobId, status, foreground, settled, table, inFlight, suppressed, consumed,
                     released, nextAutoId, disposed, surfaced, deadLettered>>
      /\ Registered' = Registered /\ Finished' = Finished
  BY DEF WaitInterrupted, Unwatch, jobVars, ghostVars, Registered, Finished
<1> HIDE DEF ids
<1>2. \A s \in Skipped(ids) :
          /\ s \in table /\ s \in Finished /\ jobId[s] \notin suppressed
          /\ deliveries[s] = 0 /\ inFlight[s] = 0
  BY Facts DEF Skipped, Outstanding, Registered
<1>3. \A s \in Runs : deliveries'[s] = IF s \in Skipped(ids) THEN deliveries[s] + 1 ELSE deliveries[s]
  BY <1>1 DEF Added
<1>4. \A s \in Registered : Reused(s) => Reused(s)'
  BY <1>1, ReusedStays
<1>5. \A s \in Skipped(ids) : s \notin foreground
  BY <1>2 DEF DeliveryInv, MarkInv
<1>6. SilentInv' /\ SingleDelivery' /\ DisposedQuiet'
  BY Facts, <1>1, <1>2, <1>3, <1>5
     DEF DeliveryInv, SilentInv, SingleDelivery, DisposedQuiet, Finished
<1>7. MarkInv'
  BY Facts, <1>1, <1>4 DEF DeliveryInv, MarkInv, Told
<1>8. NoFreshResultLost'
  <2> SUFFICES ASSUME NEW s \in (table \intersect Finished) \ foreground
               PROVE  Accounted(s)' \/ Reused(s)'
    BY <1>1 DEF NoFreshResultLost
  <2>1. /\ Accounted(s) \/ Reused(s)
        /\ s \in Runs /\ s \in Registered
    BY Facts DEF DeliveryInv, NoFreshResultLost, Finished
  <2>2. CASE jobId[s] \notin ids \intersect watched
    BY Facts, <1>1, <1>3, <1>4, <2>1, <2>2 DEF Accounted
  <2>3. CASE jobId[s] \in suppressed \union consumed
    BY Facts, <1>1, <1>4, <2>1, <2>3 DEF DeliveryInv, MarkInv, Told, Accounted
  <2>4. CASE Outstanding(jobId[s])
    <3>1. PICK u \in Runs : jobId[u] = jobId[s] /\ deliveries[u] + inFlight[u] > 0
      BY <2>4 DEF Outstanding
    <3>2. CASE u = s
      BY Facts, <1>1, <1>3, <2>1, <3>1, <3>2 DEF Accounted
    <3>3. CASE u # s
      <4>1. u \in Registered
        BY Facts, <3>1 DEF DeliveryInv, SilentInv, Registered
      <4> QED
        BY <1>4, <2>1, <3>1, <3>3, <4>1 DEF Reused
    <3> QED
      BY <3>2, <3>3
  <2>5. CASE s \in Skipped(ids)
    BY Facts, <1>1, <1>3, <2>1, <2>5 DEF Accounted
  <2> QED
    BY <2>2, <2>3, <2>4, <2>5 DEF Skipped
<1>9. CallInv'
  BY <1>1 DEF DeliveryInv, CallInv
<1>10. WaitInv' /\ WatchHeld'
  <2>1. \A v \in Waiters : waiting'[v] = IF v = w THEN {} ELSE waiting[v]
    BY Facts, <1>1
  <2>2. WaitInv'
    BY <1>1, <2>1 DEF DeliveryInv, WaitInv
  <2>3. \A v \in Waiters : IdsOf(waiting[v])' = IF v = w THEN {} ELSE IdsOf(waiting[v])
    BY <1>1, <2>1 DEF IdsOf
  <2> QED
    BY <1>1, <2>2, <2>3 DEF DeliveryInv, WatchHeld, ids
<1>11. AutoInv'
  BY <1>1, AutoStays DEF DeliveryInv, HandedBack
<1> QED
  BY <1>6, <1>7, <1>8, <1>9, <1>10, <1>11 DEF DeliveryInv

-----------------------------------------------------------------------------

\* Timers and session resets evict the rows of settled jobs that no wait holds.
LEMMA EvictionKeeps ==
    ASSUME LiveRunInv, DeliveryInv, NEW ids, Evict(ids),
           \A s \in table : jobId[s] \in ids => s \in settled,
           \A w \in Waiters : \A s \in waiting[w] : s \in table => jobId[s] \notin ids,
           \A s \in Runs : \/ status'[s] = status[s]
                           \/ status[s] = "running" /\ status'[s] = "cancelled",
           \A s \in Runs : \/ deliveries'[s] = deliveries[s]
                           \/ deliveries'[s] = 0 /\ jobId[s] \in Muted \union ids,
           status' \in [Runs -> {"unregistered", "running", "finished", "cancelled"}],
           UNCHANGED <<jobId, foreground, settled, inFlight, released, nextAutoId, disposed,
                       waiting, surfaced, deadLettered>>
    PROVE  DeliveryInv'
<1>1. Registered' = Registered
  BY Facts DEF Registered
<1>2. SilentInv' /\ SingleDelivery' /\ DisposedQuiet'
  BY Facts DEF DeliveryInv, SilentInv, SingleDelivery, DisposedQuiet
<1>3. MarkInv' /\ NoFreshResultLost'
  <2>1. \A s \in table : jobId[s] \notin ids =>
            /\ status'[s] = status[s] \/ status'[s] = "cancelled"
            /\ deliveries'[s] = deliveries[s] \/ jobId[s] \in Muted
    BY Facts DEF Registered
  <2> QED
    BY <1>1, <2>1, RowsLeft
<1>4. table' \subseteq table /\ watched' \subseteq watched
      /\ \A s \in table : jobId[s] \notin ids => s \in table'
  BY DEF Evict
<1>5. CallInv'
  BY Facts, <1>1, <1>4 DEF DeliveryInv, CallInv
<1>6. WaitInv' /\ WatchHeld'
  BY <1>1, <1>4, WaitStays, WatchStays DEF DeliveryInv
<1>7. AutoInv'
  BY <1>1, <1>4, AutoStays DEF DeliveryInv, HandedBack
<1> QED
  BY <1>2, <1>3, <1>5, <1>6, <1>7 DEF DeliveryInv

\* Both evictions spare the jobs that a wait holds: a timer by the order of the
\* event loop, a reset because it stops the waits of its owner first.
LEMMA EvictsKeep ==
    ASSUME LiveRunInv, DeliveryInv,
           (\E t \in timers : EvictionTimer(t)) \/ (\E o \in Owners : CancelOwnJobs(o))
    PROVE  DeliveryInv'
<1>1. ASSUME NEW t \in timers, EvictionTimer(t)
      PROVE  DeliveryInv'
  <2>1. /\ Evict({t[1]}) /\ ~WaitResuming
        /\ UNCHANGED <<jobId, status, foreground, settled, deliveries, inFlight, released,
                       nextAutoId, disposed, waiting, surfaced, deadLettered>>
    BY <1>1 DEF EvictionTimer, jobVars, callVars, ghostVars
  <2>2. \A s \in table : jobId[s] \in {t[1]} => s \in settled
    BY Facts DEF LiveRunInv, HasSettledRow
  <2>3. \A w \in Waiters : \A s \in waiting[w] : s \in table => jobId[s] \notin {t[1]}
    BY <2>1, <2>2 DEF WaitResuming
  <2> QED
    BY Facts, <2>1, <2>2, <2>3, EvictionKeeps
<1>2. ASSUME NEW o \in Owners, CancelOwnJobs(o)
      PROVE  DeliveryInv'
  <2> DEFINE own == {s \in table : owner[s] = o}
             done == IdsOf(own \intersect Finished)
  <2>1. /\ Evict(done)
        /\ \A w \in Waiters : \A s \in waiting[w] : owner[s] # o
        /\ status' = [s \in Runs |-> IF s \in own /\ status[s] = "running"
                                     THEN "cancelled" ELSE status[s]]
        /\ deliveries' = IF done = {} THEN deliveries ELSE Dropped(deliveries, Muted \union done)
        /\ UNCHANGED <<jobId, foreground, settled, inFlight, released, nextAutoId, disposed,
                       waiting, surfaced, deadLettered>>
    BY <1>2 DEF CancelOwnJobs, callVars, ghostVars
  <2>2. \A s \in table : jobId[s] \in done => s \in settled /\ owner[s] = o
    BY Facts DEF IdsOf
  <2> HIDE DEF done
  <2>3. /\ status' \in [Runs -> {"unregistered", "running", "finished", "cancelled"}]
        /\ \A s \in Runs : \/ status'[s] = status[s]
                           \/ status[s] = "running" /\ status'[s] = "cancelled"
    BY Facts, <2>1
  <2>4. \A s \in Runs : \/ deliveries'[s] = deliveries[s]
                        \/ deliveries'[s] = 0 /\ jobId[s] \in Muted \union done
    BY <2>1 DEF Dropped
  <2> QED
    BY <2>1, <2>2, <2>3, <2>4, EvictionKeeps
<1> QED
  BY <1>1, <1>2

\* dispose() cancels what runs, and ends with empty collections.
LEMMA DisposeKeeps ==
    ASSUME LiveRunInv, DeliveryInv, DisposeBegin \/ DisposeEnd
    PROVE  DeliveryInv'
<1>1. CASE DisposeBegin
  <2>1. /\ \A s \in Runs : status'[s] = IF s \in table /\ status[s] = "running"
                                        THEN "cancelled" ELSE status[s]
        /\ disposed = "no" /\ disposed' = "draining"
        /\ UNCHANGED <<jobId, foreground, settled, table, deliveries, inFlight, suppressed,
                       watched, consumed, released, nextAutoId, waiting, surfaced, deadLettered>>
    BY <1>1 DEF DisposeBegin, markVars, callVars, ghostVars
  <2>2. Registered' = Registered /\ Finished' = Finished
    BY Facts, <2>1 DEF Registered, Finished
  <2>3. \A s \in Runs : status'[s] # "running"
    BY Facts, <2>1 DEF Registered
  <2>4. \A s \in Registered : Reused(s) => Reused(s)'
    BY <2>1, <2>2, ReusedStays
  <2>5. SilentInv' /\ SingleDelivery' /\ DisposedQuiet'
    BY <2>1 DEF DeliveryInv, SilentInv, SingleDelivery, DisposedQuiet
  <2>6. MarkInv' /\ NoFreshResultLost'
    BY Facts, <2>1, <2>2, <2>3, <2>4
       DEF DeliveryInv, MarkInv, NoFreshResultLost, Accounted, Told, Registered
  <2>7. CallInv'
    BY <2>1, <2>2, <2>3 DEF DeliveryInv, CallInv
  <2>8. WaitInv' /\ WatchHeld'
    BY <2>1, <2>2, WaitStays, WatchStays DEF DeliveryInv
  <2>9. AutoInv'
    BY <2>1, <2>2, AutoStays DEF DeliveryInv, HandedBack
  <2> QED
    BY <2>5, <2>6, <2>7, <2>8, <2>9 DEF DeliveryInv
<1>2. CASE DisposeEnd
  <2>1. /\ disposed = "draining" /\ disposed' = "done"
        /\ table' = {} /\ \A s \in Runs : deliveries'[s] = 0
        /\ suppressed' = {} /\ watched' = {} /\ consumed' = {} /\ released' = {}
        /\ UNCHANGED <<jobId, status, foreground, settled, inFlight, nextAutoId, waiting,
                       surfaced, deadLettered>>
        /\ Registered' = Registered
    BY <1>2 DEF DisposeEnd, jobVars, callVars, ghostVars, Registered
  <2>2. SilentInv' /\ SingleDelivery' /\ DisposedQuiet'
    BY Facts, <2>1 DEF DeliveryInv, SilentInv, SingleDelivery, DisposedQuiet
  <2>3. MarkInv' /\ NoFreshResultLost' /\ WatchHeld'
    BY <2>1 DEF MarkInv, NoFreshResultLost, WatchHeld
  <2>4. CallInv' /\ WaitInv'
    BY <2>1 DEF DeliveryInv, CallInv, WaitInv
  <2>5. AutoInv'
    BY <2>1, AutoStays DEF DeliveryInv, HandedBack
  <2> QED
    BY <2>2, <2>3, <2>4, <2>5 DEF DeliveryInv
<1> QED
  BY <1>1, <1>2

\* The steps that touch neither results nor marks
LEMMA OthersKeep ==
    ASSUME LiveRunInv, DeliveryInv,
           UNCHANGED <<jobId, status, foreground, settled, table, deliveries, inFlight, markVars,
                       released, nextAutoId, disposed, waiting, surfaced, deadLettered>>
    PROVE  DeliveryInv'
<1>1. Registered' = Registered /\ Finished' = Finished
  BY DEF Registered, Finished
<1>2. \A s \in Registered : Reused(s) => Reused(s)'
  BY <1>1, ReusedStays
<1>3. SilentInv' /\ SingleDelivery' /\ DisposedQuiet' /\ CallInv'
  BY <1>1 DEF DeliveryInv, SilentInv, SingleDelivery, DisposedQuiet, CallInv
<1>4. MarkInv' /\ NoFreshResultLost'
  BY Facts, <1>1, <1>2 DEF DeliveryInv, MarkInv, NoFreshResultLost, Accounted, Told, markVars
<1>5. WaitInv' /\ WatchHeld'
  BY <1>1, WaitStays, WatchStays DEF DeliveryInv, markVars
<1>6. AutoInv'
  BY <1>1, AutoStays DEF DeliveryInv, HandedBack
<1> QED
  BY <1>3, <1>4, <1>5, <1>6 DEF DeliveryInv

-----------------------------------------------------------------------------

\* DeliveryInv is inductive together with LiveRunInv.
LEMMA InitDeliveryInv == Init => DeliveryInv
<1> SUFFICES ASSUME Init
             PROVE  DeliveryInv
  OBVIOUS
<1>1. SilentInv /\ SingleDelivery /\ DisposedQuiet
  BY DEF Init, SilentInv, SingleDelivery, DisposedQuiet
<1>2. MarkInv /\ NoFreshResultLost /\ WatchHeld
  BY DEF Init, MarkInv, NoFreshResultLost, WatchHeld
<1>3. CallInv /\ WaitInv /\ AutoInv
  BY DEF Init, CallInv, WaitInv, AutoInv, Registered
<1> QED
  BY <1>1, <1>2, <1>3 DEF DeliveryInv

LEMMA NextDeliveryInv == LiveRunInv /\ DeliveryInv /\ [Next]_vars => DeliveryInv'
<1> SUFFICES ASSUME LiveRunInv, DeliveryInv, [Next]_vars
             PROVE  DeliveryInv'
  OBVIOUS
<1>1. CASE RegisterSome
  <2>1. nextAutoId \in Nat
    BY DEF LiveRunInv, TypeOK
  <2>2. ASSUME NEW r \in Runs, NEW o \in Owners, NEW fg \in BOOLEAN, RegisterAuto(r, o, fg)
        PROVE  DeliveryInv'
    <3>1. PICK n \in nextAutoId .. MaxId :
               /\ FirstFree(AutoPrefix, nextAutoId, n)
               /\ Register(r, o, <<AutoPrefix, n>>, fg, FALSE)
               /\ nextAutoId' = n + 1
      BY <2>2 DEF RegisterAuto
    <3>2. n \in Nat /\ n >= nextAutoId /\ <<AutoPrefix, n>> \in Ids
      BY <2>1, MaxIdAssumption DEF Ids
    <3> QED
      BY <3>1, <3>2, RegisterKeeps DEF FirstFree
  <2>3. ASSUME NEW r \in Runs, NEW o \in Owners, NEW name \in Names, NEW q \in BOOLEAN,
               RegisterNamed(r, o, name, q)
        PROVE  DeliveryInv'
    <3>1. PICK n \in 1 .. MaxId :
               /\ FirstFree(name, 1, n)
               /\ Register(r, o, <<name, n>>, FALSE, q)
               /\ UNCHANGED nextAutoId
      BY <2>3 DEF RegisterNamed
    <3>2. n \in Nat /\ <<name, n>> \in Ids /\ name # AutoPrefix
      BY MaxIdAssumption, PrefixAssumption DEF Ids
    <3> QED
      BY <3>1, <3>2, RegisterKeeps DEF FirstFree
  <2> QED
    BY <1>1, <2>2, <2>3 DEF RegisterSome
<1>2. CASE \E r \in Runs : MarkRunning(r)
  BY <1>2, OthersKeep DEF MarkRunning, callVars, ghostVars
<1>3. CASE \E r \in Runs : Settle(r) \/ Cancel(r) \/ CancelAndReport(r)
  BY <1>3, SettleKeeps, CancelKeeps
<1>4. CASE \E r \in Runs : Background(r) \/ ReleaseForeground(r)
  BY <1>4, BackgroundKeeps, ReleaseKeeps
<1>5. CASE \E r \in Runs :
               StartDelivery(r) \/ DropMuted(r) \/ SinkResolves(r) \/ SinkRejects(r)
  BY <1>5, DeliveryKeeps
<1>6. CASE \E o \in Owners : RegisterDeliverySink(o) \/ UnregisterDeliverySink(o)
  BY <1>6, OthersKeep DEF RegisterDeliverySink, UnregisterDeliverySink, jobVars, callVars, ghostVars
<1>7. CASE \/ \E o \in Owners, R \in SUBSET table : Snapshot(o, R)
           \/ \E w \in Waiters, o \in Owners : WaitBlock(w, o)
           \/ \E w \in Waiters : WaitReport(w)
  BY <1>7, WaitKeeps
<1>8. CASE \E w \in Waiters : WaitInterrupted(w)
  BY <1>8, InterruptKeeps
<1>9. CASE \/ \E o \in Owners, mode \in {"all", "unsuppressed"} : WaitForOwnerJobs(o, mode)
           \/ \E o \in Owners : WaitForOwnerResumes(o)
  BY <1>9, OthersKeep
     DEF WaitForOwnerJobs, WaitForOwnerResumes, OwnerWaitUnchanged, jobVars, ghostVars
<1>10. CASE (\E t \in timers : EvictionTimer(t)) \/ (\E o \in Owners : CancelOwnJobs(o))
  BY <1>10, EvictsKeep
<1>11. CASE DisposeBegin \/ DisposeEnd
  BY <1>11, DisposeKeeps
<1>12. CASE UNCHANGED vars
  BY <1>12, OthersKeep DEF vars, jobVars, callVars, ghostVars
<1> QED
  BY <1>1, <1>2, <1>3, <1>4, <1>5, <1>6, <1>7, <1>8, <1>9, <1>10, <1>11, <1>12 DEF Next

\* DeliveryInv holds in every reachable state.
THEOREM DeliveryInvariant == Spec => []DeliveryInv
BY LiveRunInvariant, InitDeliveryInv, NextDeliveryInv, PTL DEF Spec

\* Every result goes to its owner by exactly one of the ways there are: what backs a
\* foreground call is told by that call alone, no run is in the pipeline twice, a
\* finished background job is told, on its way, held by a wait that gives it back, or
\* carries the id of an earlier run, and no two jobs that others saw share a bg_N.
THEOREM DeliveriesAreSound == Spec => []DeliverySound
<1>1. LiveRunInv /\ DeliveryInv => DeliverySound
  <2> SUFFICES ASSUME LiveRunInv, DeliveryInv
               PROVE  DeliverySound
    OBVIOUS
  <2>1. ForegroundSilent
    BY Facts DEF DeliveryInv, SilentInv, ForegroundSilent, Registered
  <2>2. AutoIdUnambiguous
    BY DEF DeliveryInv, AutoInv, HandedBack, AutoIdUnambiguous
  <2> QED
    BY <2>1, <2>2 DEF DeliveryInv, DeliverySound
<1> QED
  BY LiveRunInvariant, DeliveryInvariant, <1>1, PTL

-----------------------------------------------------------------------------
(* The owner waits *)

\* Every id a wait has awaited was carried by a job it awaits now, or by one that
\* has settled.
AwaitedInv ==
    \A o \in Owners : \A id \in ownerWait[o].awaited :
        \E s \in Registered : jobId[s] = id /\ s \in ownerWait[o].pending \union settled

\* Ids and settlements are for good, and an owner wait changes in its own turns.
LEMMA StepsKeepIds ==
    ASSUME LiveRunInv, [Next]_vars
    PROVE  /\ Registered \subseteq Registered' /\ settled \subseteq settled'
           /\ \A s \in Registered : jobId'[s] = jobId[s]
           /\ \/ UNCHANGED ownerWait
              \/ \E o \in Owners : \/ \E mode \in {"all", "unsuppressed"} : WaitForOwnerJobs(o, mode)
                                   \/ WaitForOwnerResumes(o)
<1> USE DEF jobVars, callVars
<1>0. jobId \in [Runs -> Ids] /\ status \in [Runs -> {"unregistered", "running", "finished", "cancelled"}]
  BY DEF LiveRunInv, TypeOK
<1>1. CASE RegisterSome
  BY <1>0, <1>1 DEF RegisterSome, RegisterAuto, RegisterNamed, Register, Registered
<1>2. CASE \E r \in Runs : Settle(r) \/ Cancel(r) \/ CancelAndReport(r)
  BY <1>0, <1>2 DEF Settle, Cancel, CancelAndReport, Registered
<1>3. CASE \E r \in Runs : MarkRunning(r) \/ Background(r) \/ ReleaseForeground(r)
  BY <1>3 DEF MarkRunning, Background, ReleaseForeground, Registered
<1>4. CASE \E r \in Runs :
               StartDelivery(r) \/ DropMuted(r) \/ SinkResolves(r) \/ SinkRejects(r)
  BY <1>4 DEF StartDelivery, DropMuted, SinkResolves, SinkRejects, Registered
<1>5. CASE \E o \in Owners : RegisterDeliverySink(o) \/ UnregisterDeliverySink(o)
  BY <1>5 DEF RegisterDeliverySink, UnregisterDeliverySink, Registered
<1>6. CASE \/ \E o \in Owners, R \in SUBSET table : Snapshot(o, R)
           \/ \E w \in Waiters, o \in Owners : WaitBlock(w, o)
           \/ \E w \in Waiters : WaitReport(w) \/ WaitInterrupted(w)
  BY <1>6 DEF Snapshot, WaitBlock, WaitReport, WaitInterrupted, Registered
<1>7. CASE \/ \E o \in Owners, mode \in {"all", "unsuppressed"} : WaitForOwnerJobs(o, mode)
           \/ \E o \in Owners : WaitForOwnerResumes(o)
  BY <1>7 DEF WaitForOwnerJobs, WaitForOwnerResumes, OwnerWaitUnchanged, Registered
<1>8. CASE (\E t \in timers : EvictionTimer(t)) \/ (\E o \in Owners : CancelOwnJobs(o))
  BY <1>0, <1>8 DEF EvictionTimer, CancelOwnJobs, Registered
<1>9. CASE DisposeBegin \/ DisposeEnd
  BY <1>0, <1>9 DEF DisposeBegin, DisposeEnd, Registered
<1>10. CASE UNCHANGED vars
  BY <1>10 DEF vars, Registered
<1> QED
  BY <1>1, <1>2, <1>3, <1>4, <1>5, <1>6, <1>7, <1>8, <1>9, <1>10 DEF Next

\* A turn of a wait awaits rows, and what it awaited before has settled.
LEMMA NextAwaitedInv == LiveRunInv /\ AwaitedInv /\ [Next]_vars => AwaitedInv'
<1> SUFFICES ASSUME LiveRunInv, AwaitedInv, [Next]_vars
             PROVE  AwaitedInv'
  OBVIOUS
<1>0. /\ \A o \in Owners : ownerWait[o].awaited \in SUBSET Ids
      /\ DOMAIN ownerWait = Owners
      /\ table \subseteq Registered
  BY DEF LiveRunInv, TypeOK, StatusInv
<1>1. /\ Registered \subseteq Registered' /\ settled \subseteq settled'
      /\ \A s \in Registered : jobId'[s] = jobId[s]
  BY StepsKeepIds
<1>2. CASE UNCHANGED ownerWait
  BY <1>1, <1>2 DEF AwaitedInv
<1>3. ASSUME NEW o \in Owners, NEW mode, NEW awaited \in SUBSET Ids,
             WaitForOwnerTurn(o, mode, awaited),
             \A id \in awaited : \E s \in Registered : jobId[s] = id /\ s \in settled
      PROVE  AwaitedInv'
  <2> DEFINE pending == Pending(o, mode, awaited)
             turn == IF pending = {} THEN Idle
                     ELSE [mode |-> mode, awaited |-> awaited \union IdsOf(pending),
                           pending |-> pending]
  <2>1. ownerWait' = [ownerWait EXCEPT ![o] = turn]
    BY <1>3 DEF WaitForOwnerTurn
  <2>2. pending \subseteq Registered
    BY <1>0 DEF Pending
  <2>3. \A id \in IdsOf(pending) : \E s \in Registered : jobId[s] = id /\ s \in pending
    BY <2>2 DEF IdsOf
  <2> HIDE DEF pending
  <2>4. \A id \in turn.awaited : \E s \in Registered : jobId[s] = id /\ s \in turn.pending \union settled
    BY <1>3, <2>3 DEF Idle
  <2> HIDE DEF turn
  <2>5. \A p \in Owners : ownerWait'[p] = IF p = o THEN turn ELSE ownerWait[p]
    BY <1>0, <2>1
  <2> QED
    BY <1>1, <2>4, <2>5 DEF AwaitedInv
<1>4. ASSUME NEW o \in Owners, NEW mode, WaitForOwnerJobs(o, mode)
      PROVE  AwaitedInv'
  BY <1>3, <1>4 DEF WaitForOwnerJobs
<1>5. ASSUME NEW o \in Owners, WaitForOwnerResumes(o)
      PROVE  AwaitedInv'
  <2>1. \A id \in ownerWait[o].awaited : \E s \in Registered : jobId[s] = id /\ s \in settled
    BY <1>5 DEF AwaitedInv, WaitForOwnerResumes
  <2> QED
    BY <1>0, <1>3, <1>5, <2>1 DEF WaitForOwnerResumes
<1> QED
  BY <1>2, <1>4, <1>5, StepsKeepIds

\* A wait for all jobs of an owner that returns has overlooked none but a job that
\* took over the id of one it awaited before.
THEOREM OwnerWaitsAreSound == Spec => OwnerWaitSoundByRun
<1>1. Init => AwaitedInv
  BY DEF Init, AwaitedInv, Idle
<1>2. LiveRunInv /\ AwaitedInv /\ [Next]_vars =>
          [\A o \in Owners : OwnerWaitReturns(o) => \A r \in LeftRunning(o) : Reused(r)]_vars
  <2> SUFFICES ASSUME LiveRunInv, AwaitedInv, [Next]_vars, NEW o \in Owners, OwnerWaitReturns(o),
                      NEW r \in LeftRunning(o)
               PROVE  Reused(r)
    OBVIOUS
  <2>1. ownerWait[o].mode = "all" /\ ownerWait'[o] = Idle /\ ownerWait[o] # Idle
    BY DEF OwnerWaitReturns, Idle
  <2>2. DOMAIN ownerWait = Owners
    BY DEF LiveRunInv, TypeOK
  <2>3. ASSUME NEW p \in Owners, NEW mode, WaitForOwnerJobs(p, mode)
        PROVE  FALSE
    BY <2>1, <2>2, <2>3 DEF WaitForOwnerJobs, WaitForOwnerTurn
  <2>4. WaitForOwnerResumes(o)
    <3>1. PICK p \in Owners : WaitForOwnerResumes(p)
      BY <2>1, <2>3, StepsKeepIds
    <3>2. p = o
      BY <2>1, <2>2, <3>1 DEF WaitForOwnerResumes, WaitForOwnerTurn
    <3> QED
      BY <3>1, <3>2
  <2>5. jobId[r] \in ownerWait[o].awaited
    <3>1. Pending(o, "all", ownerWait[o].awaited) = {}
      BY <2>1, <2>2, <2>4 DEF WaitForOwnerResumes, WaitForOwnerTurn, Idle
    <3> QED
      BY <3>1 DEF Pending, LeftRunning
  <2>6. PICK s \in Registered : jobId[s] = jobId[r] /\ s \in settled
    BY <2>4, <2>5 DEF AwaitedInv, WaitForOwnerResumes
  <2> QED
    BY <2>6 DEF Reused, LeftRunning
<1> QED
  BY LiveRunInvariant, NextAwaitedInv, <1>1, <1>2, PTL DEF Spec, OwnerWaitSoundByRun
=============================================================================
