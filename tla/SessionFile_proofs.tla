--------------------------- MODULE SessionFile_proofs ---------------------------
(***************************************************************************)
(* What SessionFile keeps for any number of calls, entries, batches and    *)
(* writers, and whatever fails.  The types are inductive together with     *)
(* what a call's place says of its turns (CallsInv).  That no entry is     *)
(* erased rests on what a job knows of the file it is about to replace     *)
(* (KnownInv), that batches stay undivided on the same of every set that   *)
(* the manager or a job holds (WholeInv).                                  *)
(*                                                                         *)
(* That completed entries and committed batches are on disk holds where    *)
(* the instance leaves the windows "between" and "late" out (Closed).  Its *)
(* argument: every step moves one call in one of a few ways, or restarts   *)
(* the epoch (StepMoves); so the work of the epoch stands in a line of     *)
(* which only the head is at work (ChainInv), alone but for a repair that  *)
(* supersedes it (RepairInv), and one call holds the persistence lock      *)
(* (LockInv); what the call at work relies on is therefore left alone by   *)
(* all others (OthersSpare), and what it has published, together with what *)
(* title changes behind it are to write, is all that is in memory          *)
(* (WorkInv, DiskInv).                                                     *)
(*                                                                         *)
(* That a batch reported as rolled back is gone needs more (Guarded): no   *)
(* other writer between its publish and its end.  As long as it is in the  *)
(* file and undecided, what the manager expects there, and what the call   *)
(* at work publishes over, is what is there (HeldInv), so no conflict      *)
(* reads its entries back; out of memory, they are in no body under way    *)
(* (OutInv).  What is expected is known to be in the file again because a  *)
(* conflict is tried more than once (EvenInv), and because a late write to *)
(* a file the session left did not happen (StaleInv).                      *)
(***************************************************************************)
EXTENDS SessionFile, TLAPS

Places == {"idle", "flushing", "decide", "rollback", "waiting"} \union InTask \union Ended
Modes == {"none", "rewrite", "ensure", "title", "fallback", "close", "repair"}
Works == (Ops \X (0 .. 2)) \union {NoWork}

\* A call has queued as often as its place says.
GoodTurn(c, j) ==
    /\ c = "idle" => j.turn = 0
    /\ c = "flushing" => j.turn < 2
    /\ j.mode = "ensure" => j.turn < 2
    /\ c = "conflicted" => MayRecover(j)

\* What a job has read and serialized stays, or the job is over.
SameSets(j, k) ==
    /\ k.body = j.body /\ k.exp = j.exp /\ k.seen = j.seen /\ k.file = j.file
    /\ k.tries = j.tries /\ (k.mode = "none" => j.mode = "none")
NoSets(k) == k.body = {} /\ k.exp = {} /\ k.seen = {} /\ k.file = "home" /\ k.tries = 0
JobsKept == \A q \in Ops : SameSets(job[q], job'[q]) \/ NoSets(job'[q])

CallsInv ==
    /\ pc \in [Ops -> Places] /\ job \in [Ops -> Jobs]
    /\ \A o \in Ops : GoodTurn(pc[o], job[o])

ManagerType ==
    /\ entries \subseteq Entries /\ expected \subseteq Entries /\ undone \subseteq Entries
    /\ disk \in [Paths -> SUBSET Entries]
    /\ path \in Paths /\ claim \in {"free", "mine", "other"}
    /\ current \in BOOLEAN /\ required \in BOOLEAN /\ dirty \in BOOLEAN
    /\ released \in BOOLEAN /\ failure \in BOOLEAN /\ broken \in BOOLEAN
    /\ fresh \subseteq Ops /\ fence \in BOOLEAN
    /\ batch \in Batches \union {None}
    /\ tail \in Works

LEMMA TypeParts == TypeOK <=> ManagerType /\ pc \in [Ops -> Places] /\ job \in [Ops -> Jobs]
BY Zenon DEF TypeOK, ManagerType, Places, Works

-----------------------------------------------------------------------------
(* Jobs *)

LEMMA NoJobTyped == NoJob \in Jobs
BY RecoveriesAssumption DEF NoJob, Jobs, NoWork, Paths

LEMMA JobQueued ==
    ASSUME NEW j \in Jobs, NEW m \in Modes \ {"none"}, NEW w \in Works, NEW n \in 0 .. 2
    PROVE  LET k == [j EXCEPT !.mode = m, !.behind = w, !.turn = n] IN
           k \in Jobs /\ SameSets(j, k)
BY DEF Jobs, Modes, Works, NoWork, SameSets

LEMMA JobRepairs ==
    ASSUME NEW j \in Jobs, NEW w \in Works
    PROVE  LET k == [j EXCEPT !.mode = "repair", !.behind = w] IN
           k \in Jobs /\ SameSets(j, k)
BY DEF Jobs, Works, NoWork, SameSets

LEMMA JobBehind ==
    ASSUME NEW j \in Jobs, NEW w \in Works
    PROVE  LET k == [j EXCEPT !.behind = w] IN k \in Jobs /\ SameSets(j, k)
BY DEF Jobs, Works, NoWork, SameSets

LEMMA JobFallsBack ==
    ASSUME NEW j \in Jobs
    PROVE  LET k == [j EXCEPT !.mode = "fallback"] IN k \in Jobs /\ SameSets(j, k)
BY DEF Jobs, SameSets

LEMMA JobSerialized ==
    ASSUME NEW j \in Jobs, NEW b \in SUBSET Entries, NEW x \in SUBSET Entries, NEW p \in Paths
    PROVE  [j EXCEPT !.body = b, !.exp = x, !.file = p] \in Jobs
BY DEF Jobs

LEMMA SerializedFields ==
    ASSUME NEW j \in Jobs, NEW b, NEW x, NEW p
    PROVE  LET k == [j EXCEPT !.body = b, !.exp = x, !.file = p] IN
           /\ k.mode = j.mode /\ k.turn = j.turn
           /\ k.body = b /\ k.exp = x /\ k.file = p /\ k.seen = j.seen /\ k.tries = j.tries
BY DEF Jobs

LEMMA JobReads ==
    ASSUME NEW j \in Jobs, NEW s \in SUBSET Entries, MayRecover(j)
    PROVE  LET k == [j EXCEPT !.seen = s, !.tries = j.tries + 1] IN
           /\ k \in Jobs /\ k.mode = j.mode /\ k.turn = j.turn
           /\ k.body = j.body /\ k.exp = j.exp /\ k.file = j.file /\ k.seen = s
<1> DEFINE n == j.tries + 1
<1>1. n \in 0 .. MaxRecoveries
  BY RecoveriesAssumption DEF Jobs, MayRecover
<1>2. LET k == [j EXCEPT !.seen = s, !.tries = n] IN
      /\ k \in Jobs /\ k.mode = j.mode /\ k.turn = j.turn
      /\ k.body = j.body /\ k.exp = j.exp /\ k.file = j.file /\ k.seen = s
  <2> HIDE DEF n
  <2> QED
    BY <1>1 DEF Jobs
<1> QED
  BY <1>2

LEMMA JobEnds ==
    ASSUME NEW n \in 0 .. 2, NEW w \in Works
    PROVE  /\ LET k == [NoJob EXCEPT !.turn = n] IN
              k \in Jobs /\ NoSets(k) /\ k.mode = "none" /\ k.turn = n
           /\ LET k == [NoJob EXCEPT !.turn = n, !.behind = w] IN
              k \in Jobs /\ NoSets(k) /\ k.mode = "none" /\ k.turn = n
<1>1. NoJob \in Jobs
  BY NoJobTyped
<1>2. NoJob.mode = "none" /\ NoSets(NoJob)
  BY DEF NoJob, NoSets
<1> HIDE DEF NoJob
<1>3. [NoJob EXCEPT !.turn = n] \in Jobs /\ [NoJob EXCEPT !.turn = n, !.behind = w] \in Jobs
  BY <1>1 DEF Jobs, Works, NoWork
<1>4. LET k == [NoJob EXCEPT !.turn = n] IN NoSets(k) /\ k.mode = "none" /\ k.turn = n
  BY <1>1, <1>2 DEF Jobs, NoSets
<1>5. LET k == [NoJob EXCEPT !.turn = n, !.behind = w] IN
      NoSets(k) /\ k.mode = "none" /\ k.turn = n
  BY <1>1, <1>2 DEF Jobs, NoSets
<1> QED
  BY <1>3, <1>4, <1>5

-----------------------------------------------------------------------------
(* Calls *)

LEMMA CallMoves ==
    ASSUME CallsInv, NEW o \in Ops, NEW c \in Places, NEW j \in Jobs, GoodTurn(c, j),
           pc' = [pc EXCEPT ![o] = c], job' = [job EXCEPT ![o] = j]
    PROVE  CallsInv' /\ (SameSets(job[o], j) \/ NoSets(j) => JobsKept)
<1>1. CallsInv'
  BY DEF CallsInv, GoodTurn, MayRecover
<1>2. \A q \in Ops : job'[q] = IF q = o THEN j ELSE job[q]
  BY DEF CallsInv
<1>3. ASSUME SameSets(job[o], j) \/ NoSets(j), NEW q \in Ops
      PROVE  SameSets(job[q], job'[q]) \/ NoSets(job'[q])
  <2>1. CASE q = o
    BY <1>2, <1>3, <2>1
  <2>2. CASE q # o
    BY <1>2, <2>2 DEF SameSets
  <2> QED
    BY <2>1, <2>2
<1> QED
  BY <1>1, <1>3 DEF JobsKept

LEMMA CallGoesOn ==
    ASSUME CallsInv, NEW o \in Ops, NEW c \in Places, c \notin {"idle", "flushing", "conflicted"},
           pc' = [pc EXCEPT ![o] = c], UNCHANGED job
    PROVE  CallsInv' /\ JobsKept
BY DEF CallsInv, GoodTurn, MayRecover, JobsKept, SameSets

LEMMA CallsStay == ASSUME CallsInv, UNCHANGED calls PROVE CallsInv' /\ JobsKept
BY DEF CallsInv, GoodTurn, MayRecover, calls, JobsKept, SameSets

LEMMA Scheduled ==
    ASSUME CallsInv, tail \in Works, fresh \subseteq Ops, NEW o \in Ops, NEW m \in Modes \ {"ensure", "none"}, Schedule(o, m),
           job[o].turn < 2
    PROVE  CallsInv' /\ JobsKept /\ tail' \in Works /\ fresh' \subseteq Ops
<1> DEFINE n == job[o].turn + 1
           j == [job[o] EXCEPT !.mode = m, !.behind = tail, !.turn = n]
<1>1. job[o] \in Jobs /\ pc[o] \in Places
  BY DEF CallsInv
<1>2. n \in 0 .. 2
  BY <1>1 DEF Jobs
<1>3. j \in Jobs /\ SameSets(job[o], j)
  BY <1>1, <1>2, JobQueued
<1>4. pc' = [pc EXCEPT ![o] = "queued"] /\ job' = [job EXCEPT ![o] = j]
  BY <1>1 DEF Schedule, CallsInv
<1>5. GoodTurn("queued", j)
  BY <1>1 DEF GoodTurn, Jobs
<1>6. CallsInv' /\ JobsKept
  <2> HIDE DEF j
  <2> QED
    BY <1>3, <1>4, <1>5, CallMoves, "queued" \in Places DEF Places, InTask
<1>7. tail' \in Works /\ fresh' \subseteq Ops
  BY <1>2 DEF Schedule, Works
<1> QED
  BY <1>6, <1>7

\* ensureOnDisk of a batch is the first that its call queues.
LEMMA Ensured ==
    ASSUME CallsInv, tail \in Works, fresh \subseteq Ops, NEW o \in Ops, Schedule(o, "ensure"),
           job[o].turn = 0
    PROVE  CallsInv' /\ JobsKept /\ tail' \in Works /\ fresh' \subseteq Ops
<1> DEFINE j == [job[o] EXCEPT !.mode = "ensure", !.behind = tail, !.turn = 1]
<1>1. job[o] \in Jobs /\ "ensure" \in Modes \ {"none"} /\ 1 \in 0 .. 2
  BY DEF CallsInv, Modes
<1>2. j \in Jobs /\ SameSets(job[o], j)
  <2> HIDE DEF Modes, Works, Jobs
  <2> QED
    BY <1>1, JobQueued
<1>3. j.turn = 1
  BY <1>1 DEF Jobs
<1>4. pc' = [pc EXCEPT ![o] = "queued"] /\ job' = [job EXCEPT ![o] = j]
  BY <1>1 DEF Schedule, CallsInv
<1>5. "queued" \in Places
  BY DEF Places, InTask
<1>6. tail' \in Works /\ fresh' \subseteq Ops
  BY DEF Schedule, Works
<1> HIDE DEF j
<1>7. GoodTurn("queued", j)
  BY <1>3 DEF GoodTurn
<1> QED
  BY <1>2, <1>4, <1>5, <1>6, <1>7, CallMoves

LEMMA Returns ==
    ASSUME CallsInv, tail \in Works, NEW o \in Ops, Resolves(o) \/ Rejected(o)
    PROVE  CallsInv' /\ JobsKept
<1>1. job[o] \in Jobs /\ GoodTurn(pc[o], job[o]) /\ NoWork \in Works
  BY DEF CallsInv, Works
<1>2. job[o].turn \in 0 .. 2
  BY <1>1 DEF Jobs
<1>3. CASE Resolves(o)
  <2> DEFINE w == IF job[o].mode = "ensure" THEN tail ELSE NoWork
             c == IF job[o].mode = "ensure" THEN "flushing"
                  ELSE IF o \in Batches THEN "decide" ELSE "done"
             j == [NoJob EXCEPT !.turn = job[o].turn, !.behind = w]
  <2>1. w \in Works
    BY <1>1
  <2>2. j \in Jobs /\ NoSets(j) /\ j.mode = "none" /\ j.turn = job[o].turn
    BY <1>2, <2>1, JobEnds
  <2>3. c \in Places /\ c \notin {"idle", "conflicted"}
    BY DEF Places, InTask, Ended
  <2>4. pc' = [pc EXCEPT ![o] = c] /\ job' = [job EXCEPT ![o] = j]
    BY <1>3 DEF Resolves
  <2> HIDE DEF j
  <2>5. GoodTurn(c, j)
    BY <1>1, <2>2, <2>3 DEF GoodTurn
  <2> HIDE DEF c
  <2> QED
    BY <2>2, <2>3, <2>4, <2>5, CallMoves
<1>4. CASE Rejected(o)
  <2> DEFINE c == IF o \in Batches THEN "rollback" ELSE "failed"
             j == [NoJob EXCEPT !.turn = job[o].turn]
  <2>2. j \in Jobs /\ NoSets(j) /\ j.mode = "none" /\ j.turn = job[o].turn
    BY <1>1, <1>2, JobEnds
  <2>3. c \in Places /\ c \notin {"idle", "flushing", "conflicted"}
    BY DEF Places, InTask, Ended
  <2>4. pc' = [pc EXCEPT ![o] = c] /\ job' = [job EXCEPT ![o] = j]
    BY <1>4 DEF Rejected
  <2> HIDE DEF j
  <2>5. GoodTurn(c, j)
    BY <2>2, <2>3 DEF GoodTurn
  <2> HIDE DEF c
  <2> QED
    BY <2>2, <2>3, <2>4, <2>5, CallMoves
<1> QED
  BY <1>3, <1>4

LEMMA RepairType ==
    ASSUME CallsInv, tail \in Works, NEW o \in Ops, RepairBegins(o)
    PROVE  CallsInv' /\ JobsKept /\ tail' \in Works /\ fresh' \subseteq Ops
<1> DEFINE j == [job[o] EXCEPT !.mode = "repair", !.behind = tail]
<1>1. job[o] \in Jobs
  BY DEF CallsInv
<1>2. j \in Jobs /\ SameSets(job[o], j)
  BY <1>1, JobRepairs
<1>3. j.mode = "repair"
  BY <1>1 DEF Jobs
<1>4. pc' = [pc EXCEPT ![o] = "waiting"] /\ job' = [job EXCEPT ![o] = j]
  BY DEF RepairBegins, CallsInv
<1>5. CallsInv' /\ JobsKept
  <2> HIDE DEF j
  <2>1. "waiting" \in Places
    BY DEF Places
  <2>2. GoodTurn("waiting", j)
    BY <1>3 DEF GoodTurn
  <2> QED
    BY <1>2, <1>4, <2>1, <2>2, CallMoves
<1> QED
  BY <1>5 DEF RepairBegins, Works

\* An action that ends the job of a call leaves it nothing.
LEMMA JobOver ==
    ASSUME CallsInv, NEW o \in Ops, NEW c \in Ended,
           pc' = [pc EXCEPT ![o] = c], job' = [job EXCEPT ![o] = NoJob]
    PROVE  CallsInv' /\ JobsKept
<1>1. NoJob.mode = "none" /\ NoJob.turn = 0 /\ NoSets(NoJob)
  BY DEF NoJob, NoSets
<1>2. c \in Places /\ c \notin {"idle", "flushing", "conflicted"}
  BY DEF Places, Ended
<1>3. GoodTurn(c, NoJob)
  BY <1>1, <1>2 DEF GoodTurn
<1> QED
  BY <1>1, <1>2, <1>3, NoJobTyped, CallMoves

LEMMA CallsStep ==
    ASSUME CallsInv, ManagerType, [Next]_vars
    PROVE  /\ CallsInv'
           /\ JobsKept \/ \E o \in Ops : ReadsBack(o) \/ (Serializes(o) /\ (Repairs(o) \/ ~Stale(o)))
<1>1. tail \in Works /\ fresh \subseteq Ops /\ expected \in SUBSET Entries /\ entries \in SUBSET Entries
      /\ path \in Paths /\ disk \in [Paths -> SUBSET Entries] /\ expected \subseteq Entries
  BY DEF ManagerType
<1>2. \A o \in Ops : job[o] \in Jobs /\ pc[o] \in Places /\ GoodTurn(pc[o], job[o])
  BY DEF CallsInv
<1>3. \A o \in Ops : pc[o] = "idle" => job[o].turn < 2
  BY <1>2 DEF GoodTurn
<1>4. CASE UNCHANGED calls
  BY <1>4, CallsStay
<1>5. ASSUME NEW t \in Titles, TitleSet(t)
      PROVE  CallsInv' /\ JobsKept
  <2>1. t \in Ops
    BY DEF Ops
  <2>2. CASE failure
    <3> DEFINE c == IF failure' THEN "failed" ELSE "done"
    <3>1. pc' = [pc EXCEPT ![t] = c] /\ UNCHANGED job
      BY <1>5, <2>2 DEF TitleSet
    <3>2. c \in Places /\ c \notin {"idle", "flushing", "conflicted"}
      BY DEF Places, Ended
    <3> HIDE DEF c
    <3> QED
      BY <2>1, <3>1, <3>2, CallGoesOn
  <2>3. CASE ~failure
    <3> DEFINE m == IF ~current \/ required \/ Lost THEN "rewrite" ELSE "title"
    <3>1. Schedule(t, m) /\ pc[t] = "idle"
      BY <1>5, <2>3 DEF TitleSet
    <3>2. m \in Modes \ {"ensure", "none"}
      BY DEF Modes
    <3> HIDE DEF m
    <3> QED
      BY <1>1, <1>3, <2>1, <3>1, <3>2, Scheduled
  <2> QED
    BY <2>2, <2>3
<1>6. ASSUME NEW r \in Rewrites, Rewrite(r)
      PROVE  CallsInv' /\ JobsKept
  BY <1>6, <1>1, <1>3, Scheduled DEF Rewrite, Modes, Ops
<1>7. ASSUME NEW c \in Closes, Close(c)
      PROVE  CallsInv' /\ JobsKept
  BY <1>7, <1>1, <1>3, Scheduled DEF Close, Modes, Ops
<1>8. ASSUME NEW b \in Batches, BatchCalled(b)
      PROVE  CallsInv' /\ JobsKept
  <2>1. b \in Ops /\ pc[b] = "idle" /\ job[b].turn = 0
    BY <1>2, <1>8 DEF BatchCalled, Ops, GoodTurn
  <2>2. CASE released \/ (current /\ ~required)
    <3> DEFINE j == [job[b] EXCEPT !.behind = tail]
    <3>1. j \in Jobs /\ SameSets(job[b], j)
      BY <1>1, <1>2, <2>1, JobBehind
    <3>5. j.turn = 0 /\ j.mode = job[b].mode
      BY <1>2, <2>1 DEF Jobs
    <3>2. pc' = [pc EXCEPT ![b] = "flushing"] /\ job' = [job EXCEPT ![b] = j]
      BY <1>8, <2>1, <2>2 DEF BatchCalled, CallsInv
    <3> HIDE DEF j
    <3>3. "flushing" \in Places
      BY DEF Places
    <3>4. GoodTurn("flushing", j)
      BY <3>5 DEF GoodTurn
    <3> QED
      BY <2>1, <3>1, <3>2, <3>3, <3>4, CallMoves
  <2>3. CASE ~(released \/ (current /\ ~required))
    <3>1. Schedule(b, "ensure")
      BY <1>8, <2>3 DEF BatchCalled
    <3> QED
      BY <1>1, <2>1, <3>1, Ensured
  <2> QED
    BY <2>2, <2>3
<1>9. ASSUME NEW v \in Recovers, Recover(v)
      PROVE  CallsInv' /\ JobsKept
  BY <1>1, <1>9, RepairType DEF Recover, Ops
<1>10. ASSUME NEW o \in Ops, WorkDropped(o) \/ WorkRefused(o) \/ CloseFails(o) \/ Verifies(o)
       PROVE  CallsInv' /\ JobsKept
  BY <1>1, <1>10, Returns DEF WorkDropped, WorkRefused, CloseFails, Verifies
<1>11. ASSUME NEW o \in Ops, RewriteStarts(o) \/ RepairStarts(o) \/ Contested(o) \/ Adopts(o)
       PROVE  CallsInv' /\ JobsKept
  <2>1. pc' = [pc EXCEPT ![o] = "closing"] /\ UNCHANGED job
    BY <1>11 DEF RewriteStarts, RepairStarts, Contested, Adopts, Retries, queue
  <2>2. "closing" \in Places
    BY DEF Places, InTask
  <2> QED
    BY <2>1, <2>2, CallGoesOn
<1>12. ASSUME NEW o \in Ops, Serializes(o)
       PROVE  CallsInv' /\ (JobsKept \/ Repairs(o) \/ ~Stale(o))
  <2>1. CASE ~Repairs(o) /\ Stale(o)
    BY <1>1, <1>12, <2>1, Returns DEF Serializes, Abandoned
  <2>2. CASE Repairs(o) \/ ~Stale(o)
    <3> DEFINE known == IF Lost THEN {} ELSE expected
               to == IF Lost THEN "sibling" ELSE path
               j == [job[o] EXCEPT !.body = entries, !.exp = known, !.file = to]
    <3>1. known \in SUBSET Entries /\ to \in Paths
      BY <1>1 DEF Paths
    <3>2. j \in Jobs /\ j.turn = job[o].turn /\ j.mode = job[o].mode
      <4>1. job[o] \in Jobs /\ entries \in SUBSET Entries
        BY <1>1, <1>2
      <4>2. j \in Jobs
        BY <3>1, <4>1, JobSerialized
      <4> HIDE DEF known, to
      <4>3. j.turn = job[o].turn /\ j.mode = job[o].mode
        BY <4>1, SerializedFields
      <4> QED
        BY <4>2, <4>3
    <3>4. pc' = [pc EXCEPT ![o] = "staging"] /\ job' = [job EXCEPT ![o] = j]
      BY <1>12, <2>2 DEF Serializes, CallsInv
    <3> HIDE DEF j
    <3>5. "staging" \in Places
      BY DEF Places, InTask
    <3>6. GoodTurn("staging", j)
      BY <1>2, <3>2 DEF GoodTurn
    <3> QED
      BY <2>2, <3>2, <3>4, <3>5, <3>6, CallMoves
  <2> QED
    BY <2>1, <2>2
<1>13. ASSUME NEW o \in Ops, Publishes(o)
       PROVE  CallsInv' /\ JobsKept
  <2>1. CASE pc' = [pc EXCEPT ![o] = "conflicted"] /\ MayRecover(job[o])
    <3>1. "conflicted" \in Places
      BY DEF Places, InTask
    <3>2. GoodTurn("conflicted", job[o]) /\ job' = [job EXCEPT ![o] = job[o]]
      BY <1>2, <1>13, <2>1 DEF GoodTurn, Publishes, CallsInv
    <3>3. SameSets(job[o], job[o])
      BY DEF SameSets
    <3> QED
      BY <1>2, <2>1, <3>1, <3>2, <3>3, CallMoves
  <2>2. ASSUME NEW c \in {"published", "unwritten"}, pc' = [pc EXCEPT ![o] = c]
        PROVE  CallsInv' /\ JobsKept
    <3>1. c \in Places /\ UNCHANGED job
      BY <1>13 DEF Places, InTask, Publishes
    <3> QED
      BY <2>2, <3>1, CallGoesOn
  <2> QED
    BY <1>13, <2>1, <2>2 DEF Publishes
<1>14. ASSUME NEW o \in Ops, ReadsBack(o)
       PROVE  CallsInv'
  <2> DEFINE j == [job[o] EXCEPT !.seen = disk[job[o].file], !.tries = job[o].tries + 1]
             c == IF Superseded(o) THEN "closing" ELSE "reread"
  <2>1. MayRecover(job[o])
    BY <1>2, <1>14 DEF ReadsBack, GoodTurn
  <2>2. disk[job[o].file] \in SUBSET Entries
    BY <1>1, <1>2 DEF Jobs
  <2>3. j \in Jobs
    BY <1>2, <2>1, <2>2, JobReads
  <2>4. j.mode = job[o].mode /\ j.turn = job[o].turn
    BY <1>2, <2>1, <2>2, JobReads
  <2>5. pc' = [pc EXCEPT ![o] = c] /\ job' = [job EXCEPT ![o] = j]
    BY <1>14 DEF ReadsBack, Retries, CallsInv
  <2>6. c \in Places /\ c \notin {"idle", "flushing", "conflicted"}
    BY DEF Places, InTask
  <2> HIDE DEF j, c
  <2>7. GoodTurn(c, j)
    BY <1>2, <2>4, <2>6 DEF GoodTurn
  <2> QED
    BY <2>3, <2>5, <2>6, <2>7, CallMoves
<1>15. ASSUME NEW o \in Ops, Recorded(o)
       PROVE  CallsInv' /\ JobsKept
  <2>1. CASE Stale(o)
    BY <1>1, <1>15, <2>1, Returns DEF Recorded, Abandoned
  <2>2. ASSUME NEW c \in {"closing", "marking"}, pc' = [pc EXCEPT ![o] = c], UNCHANGED job
        PROVE  CallsInv' /\ JobsKept
    <3>1. c \in Places
      BY DEF Places, InTask
    <3> QED
      BY <2>2, <3>1, CallGoesOn
  <2> QED
    BY <1>15, <2>1, <2>2 DEF Recorded, Retries
<1>16. ASSUME NEW o \in Ops, Marks(o)
       PROVE  CallsInv' /\ JobsKept
  BY <1>1, <1>16, Returns DEF Marks
<1>17. ASSUME NEW o \in Ops, RepairRecorded(o)
       PROVE  CallsInv' /\ JobsKept
  <2>1. CASE MoreToWrite
    <3>1. "closing" \in Places
      BY DEF Places, InTask
    <3> QED
      BY <1>17, <2>1, <3>1, CallGoesOn DEF RepairRecorded
  <2>2. CASE ~MoreToWrite
    <3> DEFINE c == IF o \in Batches THEN "refused" ELSE "done"
    <3>1. pc' = [pc EXCEPT ![o] = c] /\ job' = [job EXCEPT ![o] = NoJob]
      BY <1>17, <2>2 DEF RepairRecorded
    <3>2. c \in Ended
      BY DEF Ended
    <3> HIDE DEF c
    <3> QED
      BY <3>1, <3>2, JobOver
  <2> QED
    BY <2>1, <2>2
<1>18. ASSUME NEW o \in Ops, RepairFails(o)
       PROVE  CallsInv' /\ JobsKept
  BY <1>18, JobOver DEF RepairFails, Ended
<1>19. ASSUME NEW o \in Ops, CloseRuns(o)
       PROVE  CallsInv' /\ JobsKept
  <2> DEFINE c == IF broken \/ failure THEN "failed" ELSE "done"
  <2>1. c \in Ended /\ pc' = [pc EXCEPT ![o] = c] /\ job' = [job EXCEPT ![o] = NoJob]
    BY <1>19 DEF CloseRuns, Ended
  <2> HIDE DEF c
  <2> QED
    BY <2>1, JobOver
<1>20. ASSUME NEW o \in Ops, TitleAppends(o)
       PROVE  CallsInv' /\ JobsKept
  <2>1. CASE Rejected(o)
    BY <1>1, <2>1, Returns
  <2>2. CASE pc' = [pc EXCEPT ![o] = "titling"] /\ UNCHANGED job
    <3>1. "titling" \in Places
      BY DEF Places, InTask
    <3> QED
      BY <2>2, <3>1, CallGoesOn
  <2> QED
    BY <1>20, <2>1, <2>2 DEF TitleAppends
<1>21. ASSUME NEW o \in Ops, TitleSlot(o)
       PROVE  CallsInv' /\ JobsKept
  <2>1. CASE Resolves(o) \/ Rejected(o)
    BY <1>1, <2>1, Returns
  <2>2. CASE /\ job' = [job EXCEPT ![o].mode = "fallback"]
             /\ pc' = [pc EXCEPT ![o] = "closing"]
    <3> DEFINE j == [job[o] EXCEPT !.mode = "fallback"]
    <3>1. j \in Jobs /\ SameSets(job[o], j)
      BY <1>2, JobFallsBack
    <3>2. j.mode = "fallback" /\ "closing" \in Places
      BY <1>2 DEF Jobs, Places, InTask
    <3>3. job' = [job EXCEPT ![o] = j]
      BY <2>2 DEF CallsInv
    <3> HIDE DEF j
    <3>4. GoodTurn("closing", j)
      BY <3>2 DEF GoodTurn
    <3> QED
      BY <2>2, <3>1, <3>2, <3>3, <3>4, CallMoves
  <2> QED
    BY <1>21, <2>1, <2>2 DEF TitleSlot
<1>22. ASSUME NEW b \in Batches, BatchStaged(b)
       PROVE  CallsInv' /\ JobsKept
  <2>1. b \in Ops /\ pc[b] = "flushing" /\ job[b].turn < 2
    BY <1>2, <1>22 DEF BatchStaged, Ops, GoodTurn
  <2>2. ASSUME NEW c \in {"rollback", "dropped"}, pc' = [pc EXCEPT ![b] = c], UNCHANGED job
        PROVE  CallsInv' /\ JobsKept
    <3>1. c \in Places
      BY DEF Places, Ended
    <3> QED
      BY <2>1, <2>2, <3>1, CallGoesOn
  <2>3. CASE Schedule(b, "rewrite")
    BY <1>1, <2>1, <2>3, Scheduled DEF Modes
  <2> QED
    BY <1>22, <2>2, <2>3 DEF BatchStaged
<1>23. ASSUME NEW b \in Batches, BatchCommits(b)
       PROVE  CallsInv' /\ JobsKept
  <2>1. "committed" \in Places
    BY DEF Places, Ended
  <2> QED
    BY <1>23, <2>1, CallGoesOn DEF BatchCommits, Ops
<1>24. ASSUME NEW b \in Batches, BatchRollsBack(b)
       PROVE  CallsInv' /\ JobsKept
  <2>1. "unrepaired" \in Places /\ b \in Ops
    BY DEF Places, Ended, Ops
  <2>2. CASE released
    BY <1>24, <2>1, <2>2, CallGoesOn DEF BatchRollsBack
  <2>3. CASE ~released
    BY <1>1, <1>24, <2>1, <2>3, RepairType DEF BatchRollsBack
  <2> QED
    BY <2>2, <2>3
<1>25. ASSUME NEW o \in Ops, Continues(o)
       PROVE  /\ CallsInv'
              /\ JobsKept \/ ReadsBack(o) \/ (Serializes(o) /\ (Repairs(o) \/ ~Stale(o)))
  BY <1>10, <1>11, <1>12, <1>13, <1>14, <1>15, <1>16, <1>17, <1>18, <1>19, <1>20, <1>21,
     <1>22, <1>23, <1>24, <1>25 DEF Continues
<1>26. CASE \/ \E e \in Appends : Append(e)
            \/ FlushSync \/ Seal
            \/ \E x \in Foreign : ForeignAppends(x)
            \/ OwnerChanges
  BY <1>4, <1>26 DEF Append, FlushSync, Seal, ForeignAppends, OwnerChanges
<1> QED
  BY <1>4, <1>5, <1>6, <1>7, <1>8, <1>9, <1>25, <1>26 DEF Next, vars

-----------------------------------------------------------------------------
(* What a call is about *)

LEMMA ScheduledMode ==
    ASSUME CallsInv, NEW o \in Ops, NEW m, Schedule(o, m), NEW q \in Ops
    PROVE  job'[q].mode = IF q = o THEN m ELSE job[q].mode
<1> DEFINE j == [job[o] EXCEPT !.mode = m, !.behind = tail, !.turn = job[o].turn + 1]
<1>1. job' = [job EXCEPT ![o] = j] /\ job \in [Ops -> Jobs]
  BY DEF Schedule, CallsInv
<1>2. job[o] \in Jobs
  BY <1>1
<1>3. j.mode = m
  BY <1>2 DEF Jobs
<1> HIDE DEF j
<1> QED
  BY <1>1, <1>2, <1>3

LEMMA ReturnedMode ==
    ASSUME CallsInv, NEW o \in Ops, Resolves(o) \/ Rejected(o), NEW q \in Ops
    PROVE  job'[q].mode = IF q = o THEN "none" ELSE job[q].mode
<1> DEFINE w == IF job[o].mode = "ensure" THEN tail ELSE NoWork
           j == [NoJob EXCEPT !.turn = job[o].turn, !.behind = w]
           k == [NoJob EXCEPT !.turn = job[o].turn]
<1>1. job \in [Ops -> Jobs]
  BY DEF CallsInv
<1>2. NoJob.mode = "none" /\ NoJob \in Jobs
  BY NoJobTyped DEF NoJob
<1>3. j.mode = "none" /\ k.mode = "none"
  <2> HIDE DEF NoJob
  <2> QED
    BY <1>2 DEF Jobs
<1>4. job' = [job EXCEPT ![o] = j] \/ job' = [job EXCEPT ![o] = k]
  BY DEF Resolves, Rejected
<1> HIDE DEF j, k
<1> QED
  BY <1>1, <1>3, <1>4

LEMMA RepairMode ==
    ASSUME CallsInv, NEW o \in Ops, RepairBegins(o), NEW q \in Ops
    PROVE  job'[q].mode = IF q = o THEN "repair" ELSE job[q].mode
<1> DEFINE j == [job[o] EXCEPT !.mode = "repair", !.behind = tail]
<1>1. job' = [job EXCEPT ![o] = j] /\ job \in [Ops -> Jobs]
  BY DEF RepairBegins, CallsInv
<1>2. job[o] \in Jobs
  BY <1>1
<1>3. j.mode = "repair"
  BY <1>2 DEF Jobs
<1> HIDE DEF j
<1> QED
  BY <1>1, <1>3

\* Only setSessionName queues the line of a title change.
LEMMA TitleMode ==
    ASSUME CallsInv, [Next]_vars, NEW t \in Ops, job'[t].mode = "title"
    PROVE  job[t].mode = "title" \/ (t \in Titles /\ TitleSet(t))
<1>1. CASE UNCHANGED job
  BY <1>1
<1>2. ASSUME NEW q \in Titles, TitleSet(q), ~UNCHANGED job
      PROVE  job[t].mode = "title" \/ (t \in Titles /\ TitleSet(t))
  BY <1>2, ScheduledMode DEF TitleSet, Ops
<1>3. ASSUME NEW q \in Rewrites, Rewrite(q)
      PROVE  job[t].mode = "title"
  BY <1>3, ScheduledMode DEF Rewrite, Ops
<1>4. ASSUME NEW q \in Closes, Close(q)
      PROVE  job[t].mode = "title"
  BY <1>4, ScheduledMode DEF Close, Ops
<1>5. ASSUME NEW q \in Batches, BatchCalled(q)
      PROVE  job[t].mode = "title"
  <2>1. CASE Schedule(q, "ensure")
    BY <2>1, ScheduledMode DEF Ops
  <2>2. CASE job' = [job EXCEPT ![q].behind = tail]
    BY <2>2 DEF CallsInv, Jobs
  <2> QED
    BY <1>5, <2>1, <2>2 DEF BatchCalled
<1>6. ASSUME NEW q \in Recovers, Recover(q)
      PROVE  job[t].mode = "title"
  BY <1>6, RepairMode DEF Recover, Ops
<1>7. ASSUME NEW o \in Ops, Continues(o), ~UNCHANGED job
      PROVE  job[t].mode = "title"
  <2>1. CASE Resolves(o) \/ Rejected(o)
    BY <2>1, ReturnedMode
  <2>2. CASE job' = [job EXCEPT ![o] = NoJob]
    BY <2>2 DEF NoJob, CallsInv
  <2>3. CASE RepairBegins(o)
    BY <2>3, RepairMode
  <2>4. CASE Schedule(o, "rewrite")
    BY <2>4, ScheduledMode
  <2>5. CASE job' = [job EXCEPT ![o].mode = "fallback"]
    <3> DEFINE j == [job[o] EXCEPT !.mode = "fallback"]
    <3>1. job' = [job EXCEPT ![o] = j] /\ job \in [Ops -> Jobs]
      BY <2>5 DEF CallsInv
    <3>2. job[o] \in Jobs
      BY <3>1
    <3>3. j.mode = "fallback"
      BY <3>2 DEF Jobs
    <3> HIDE DEF j
    <3> QED
      BY <3>1, <3>3
  <2>6. CASE Serializes(o) /\ ~Resolves(o)
    <3> DEFINE known == IF Lost THEN {} ELSE expected
               to == IF Lost THEN "sibling" ELSE path
               j == [job[o] EXCEPT !.body = entries, !.exp = known, !.file = to]
    <3>1. job' = [job EXCEPT ![o] = j] /\ job \in [Ops -> Jobs]
      BY <2>6 DEF Serializes, Abandoned, CallsInv
    <3>2. job[o] \in Jobs
      BY <3>1
    <3>3. j.mode = job[o].mode
      BY <3>2, SerializedFields
    <3> HIDE DEF j
    <3> QED
      BY <1>7, <3>1, <3>3
  <2>7. CASE ReadsBack(o)
    <3> DEFINE j == [job[o] EXCEPT !.seen = disk[job[o].file], !.tries = job[o].tries + 1]
    <3>1. job' = [job EXCEPT ![o] = j] /\ job \in [Ops -> Jobs]
      BY <2>7 DEF ReadsBack, CallsInv
    <3>2. job[o] \in Jobs
      BY <3>1
    <3>3. j.mode = job[o].mode
      BY <3>2 DEF Jobs
    <3> HIDE DEF j
    <3> QED
      BY <3>1, <3>3
  <2> QED
    BY <1>7, <2>1, <2>2, <2>3, <2>4, <2>5, <2>6, <2>7
       DEF Continues, WorkDropped, WorkRefused, RewriteStarts, RepairStarts, CloseFails,
           Publishes, Contested, Adopts, Recorded, Abandoned, Marks, Verifies, RepairRecorded,
           RepairFails, CloseRuns, TitleAppends, TitleSlot, BatchStaged, BatchCommits,
           BatchRollsBack, queue, calls
<1>8. CASE \/ \E e \in Appends : Append(e)
           \/ FlushSync \/ Seal
           \/ \E x \in Foreign : ForeignAppends(x)
           \/ OwnerChanges
  BY <1>1, <1>8 DEF Append, FlushSync, Seal, ForeignAppends, OwnerChanges, calls
<1> QED
  BY <1>1, <1>2, <1>3, <1>4, <1>5, <1>6, <1>7, <1>8 DEF Next, vars, calls

-----------------------------------------------------------------------------
(* The store: entries, the files, and what is expected of them *)

\* What the manager expects of its file it knows, or has rolled back; and so
\* with what a job publishes, which lacks nothing it expects.
KnownInv ==
    /\ expected \subseteq entries \union undone
    /\ \A o \in Ops : /\ job[o].body \subseteq entries \union undone
                      /\ job[o].exp \subseteq job[o].body \union undone
    /\ \A t \in Titles : job[t].mode = "title" => TitleOf(t) \in entries \union undone

\* What a step may do to the store.
StoreMoves ==
    /\ undone \subseteq undone'
    /\ entries \subseteq entries' \union undone'
    /\ expected' \subseteq entries' \union undone'
    /\ \A p \in Paths : disk[p] \ disk'[p] \subseteq undone'

Sealed ==
    \A p \in Paths : disk'[p] \ disk[p] \subseteq Foreign /\ disk[p] \subseteq disk'[p]

LEMMA Rewritten ==
    ASSUME ManagerType, expected \subseteq entries \union undone,
           NEW mem \in SUBSET Entries, entries \subseteq mem,
           NEW cur \in BOOLEAN, NEW req \in BOOLEAN, RewriteNow(mem, cur, req)
    PROVE  /\ mem \subseteq entries' /\ entries' \subseteq Entries
           /\ expected' \subseteq entries' \union undone /\ expected' \subseteq Entries
           /\ \A p \in Paths : disk[p] \ disk'[p] \subseteq undone
           /\ disk' \in [Paths -> SUBSET Entries]
<1> DEFINE to == IF Lost THEN "sibling" ELSE path
           known == IF Lost THEN {} ELSE expected
           body == IF known = disk[to] THEN mem ELSE mem \union disk[to]
<1>1. to \in Paths /\ disk \in [Paths -> SUBSET Entries] /\ known \subseteq expected
      /\ expected \subseteq Entries
  BY DEF ManagerType, Paths
<1>2. disk[to] \in SUBSET Entries
  BY <1>1
<1>3. mem \subseteq body /\ body \subseteq Entries /\ disk[to] \subseteq body \union undone
  BY <1>1, <1>2
<1>4. \/ disk' = [disk EXCEPT ![to] = body] /\ entries' = body /\ expected' = body
      \/ UNCHANGED disk /\ entries' = mem /\ expected' = known
      \/ UNCHANGED disk /\ entries' = body /\ expected' = disk[to]
      \/ disk' = [disk EXCEPT ![to] = body] /\ entries' = body /\ expected' = disk[to]
  BY DEF RewriteNow
<1> HIDE DEF to, known, body
<1>5. CASE disk' = [disk EXCEPT ![to] = body]
  <2>1. disk' \in [Paths -> SUBSET Entries]
    BY <1>1, <1>3, <1>5
  <2>2. \A p \in Paths : disk'[p] = IF p = to THEN body ELSE disk[p]
    BY <1>1, <1>5
  <2>3. \A p \in Paths : disk[p] \ disk'[p] \subseteq undone
    BY <1>3, <2>2
  <2> QED
    BY <1>1, <1>2, <1>3, <1>4, <2>1, <2>3
<1>6. CASE UNCHANGED disk
  BY <1>1, <1>2, <1>3, <1>4, <1>6
<1> QED
  BY <1>4, <1>5, <1>6

LEMMA RewrittenFlags ==
    ASSUME ManagerType, NEW mem, NEW cur \in BOOLEAN, NEW req \in BOOLEAN, RewriteNow(mem, cur, req)
    PROVE  /\ path' \in Paths /\ claim' \in {"free", "mine", "other"}
           /\ current' \in BOOLEAN /\ required' \in BOOLEAN /\ failure' \in BOOLEAN
           /\ broken' \in BOOLEAN /\ fresh' \subseteq Ops /\ fence' \in BOOLEAN
           /\ tail' \in Works
<1>1. path' \in Paths /\ claim' \in {"free", "mine", "other"}
  BY DEF RewriteNow, Paths, ManagerType, Claimed
<1>2. broken' \in BOOLEAN /\ fresh' \subseteq Ops /\ fence' \in BOOLEAN /\ tail' \in Works
  BY DEF RewriteNow, EpochMoves, Works
<1>3. Lost \in BOOLEAN
  BY DEF Lost, ManagerType
<1>4. current' \in BOOLEAN /\ required' \in BOOLEAN /\ failure' \in BOOLEAN
  BY <1>3 DEF RewriteNow
<1> QED
  BY <1>1, <1>2, <1>4

EntryFacts == /\ Appends \subseteq Entries /\ Foreign \subseteq Entries
              /\ \A t \in Titles : TitleOf(t) \in Entries
              /\ \A b \in Batches : Staged(b) \subseteq Entries
LEMMA EntriesHold == EntryFacts
BY DEF EntryFacts, Entries

LEMMA StoreStep ==
    ASSUME ManagerType, CallsInv, KnownInv, [Next]_vars
    PROVE  StoreMoves /\ (released => Sealed)
<1>1. /\ entries \subseteq Entries /\ expected \subseteq entries \union undone
      /\ path \in Paths /\ disk \in [Paths -> SUBSET Entries] /\ failure \in BOOLEAN
      /\ current \in BOOLEAN /\ required \in BOOLEAN
  BY DEF ManagerType, KnownInv
<1>2. \A o \in Ops : /\ job[o].file \in Paths
                     /\ job[o].body \subseteq entries \union undone
                     /\ job[o].exp \subseteq job[o].body \union undone
  BY DEF CallsInv, Jobs, KnownInv
<1>3. CASE UNCHANGED <<entries, expected, undone, disk>>
  BY <1>1, <1>3 DEF StoreMoves, Sealed
<1>4. ASSUME NEW mem \in SUBSET Entries, entries \subseteq mem, NEW cur \in BOOLEAN,
             NEW req \in BOOLEAN, RewriteNow(mem, cur, req), UNCHANGED undone, ~released
      PROVE  StoreMoves /\ ~released
  BY <1>1, <1>4, Rewritten DEF StoreMoves
<1>5. ASSUME NEW e \in Appends, Append(e)
      PROVE  StoreMoves /\ (released => Sealed)
  <2>1. ~released /\ UNCHANGED undone
    BY <1>5 DEF Append
  <2>2. CASE RewriteNow(entries \union {e}, current /\ ~failure, required \/ failure)
    BY <1>1, <1>4, <2>1, <2>2, EntriesHold DEF EntryFacts
  <2>3. CASE /\ entries' = entries \union {e} /\ UNCHANGED <<disk, expected>>
    BY <1>1, <2>1, <2>3 DEF StoreMoves
  <2>4. CASE /\ entries' = entries \union {e} /\ expected' = expected \union {e}
             /\ disk' = [disk EXCEPT ![path] = @ \union {e}]
    BY <1>1, <2>1, <2>4 DEF StoreMoves
  <2> QED
    BY <1>5, <2>2, <2>3, <2>4 DEF Append, files
<1>6. CASE FlushSync
  BY <1>1, <1>4, <1>6 DEF FlushSync
<1>7. ASSUME NEW t \in Titles, TitleSet(t)
      PROVE  StoreMoves /\ (released => Sealed)
  <2>1. ~released /\ UNCHANGED undone /\ entries \union {TitleOf(t)} \in SUBSET Entries
    BY <1>1, <1>7, EntriesHold DEF TitleSet, EntryFacts
  <2>2. CASE RewriteNow(entries \union {TitleOf(t)}, FALSE, TRUE)
    BY <1>1, <1>4, <2>1, <2>2
  <2>3. CASE entries' = entries \union {TitleOf(t)} /\ UNCHANGED <<disk, expected>>
    BY <1>1, <2>1, <2>3 DEF StoreMoves
  <2> QED
    BY <1>7, <2>2, <2>3 DEF TitleSet
<1>8. ASSUME NEW b \in Batches, BatchStaged(b)
      PROVE  StoreMoves /\ (released => Sealed)
  BY <1>1, <1>8 DEF BatchStaged, StoreMoves, Sealed, files
<1>9. ASSUME NEW b \in Batches, BatchRollsBack(b)
      PROVE  StoreMoves /\ (released => Sealed)
  BY <1>1, <1>9 DEF BatchRollsBack, StoreMoves, Sealed, files
<1>10. ASSUME NEW t \in Titles, TitleAppends(t)
       PROVE  StoreMoves /\ (released => Sealed)
  <2>1. CASE UNCHANGED <<disk, expected>>
    BY <1>1, <1>10, <2>1 DEF TitleAppends, StoreMoves, Sealed
  <2>2. CASE /\ disk' = [disk EXCEPT ![path] = @ \union {TitleOf(t)}]
             /\ expected' = expected \union {TitleOf(t)}
    <3>1. ~released /\ UNCHANGED <<entries, undone>>
      BY <1>10 DEF TitleAppends, Runs
    <3>2. TitleOf(t) \in entries \union undone
      BY <1>10 DEF TitleAppends, KnownInv
    <3> QED
      BY <1>1, <2>2, <3>1, <3>2 DEF StoreMoves
  <2> QED
    BY <1>10, <2>1, <2>2 DEF TitleAppends
<1>11. ASSUME NEW o \in Ops, Serializes(o)
       PROVE  StoreMoves /\ (released => Sealed)
  BY <1>1, <1>11 DEF Serializes, StoreMoves, Sealed
<1>12. ASSUME NEW o \in Ops, Publishes(o)
       PROVE  StoreMoves /\ (released => Sealed)
  <2>1. CASE UNCHANGED disk
    BY <1>3, <1>12, <2>1 DEF Publishes
  <2>2. CASE /\ ~released /\ disk[job[o].file] = job[o].exp
             /\ disk' = [disk EXCEPT ![job[o].file] = job[o].body]
    <3>1. disk[job[o].file] \subseteq job[o].body \union undone
      BY <1>2, <2>2
    <3>2. \A p \in Paths : disk[p] \ disk'[p] \subseteq undone
      BY <1>1, <1>2, <2>2, <3>1
    <3> QED
      BY <1>1, <1>12, <2>2, <3>2 DEF Publishes, StoreMoves
  <2> QED
    BY <1>12, <2>1, <2>2 DEF Publishes, AsExpected
<1>13. ASSUME NEW o \in Ops, Contested(o)
       PROVE  StoreMoves /\ (released => Sealed)
  BY <1>1, <1>13 DEF Contested, StoreMoves
<1>14. ASSUME NEW o \in Ops, Adopts(o)
       PROVE  StoreMoves /\ (released => Sealed)
  BY <1>1, <1>14 DEF Adopts, StoreMoves, Sealed
<1>15. ASSUME NEW o \in Ops, Recorded(o) \/ Verifies(o) \/ RepairRecorded(o) \/ RepairFails(o)
       PROVE  StoreMoves /\ (released => Sealed)
  <2>1. UNCHANGED <<entries, undone, disk>> /\ expected' \in {expected, job[o].body}
    BY <1>15 DEF Recorded, Verifies, RepairRecorded, RepairFails
  <2> QED
    BY <1>1, <1>2, <2>1 DEF StoreMoves, Sealed
<1>16. ASSUME NEW x \in Foreign, ForeignAppends(x)
       PROVE  StoreMoves /\ (released => Sealed)
  BY <1>1, <1>16 DEF ForeignAppends, StoreMoves, Sealed
<1>17. ASSUME NEW o \in Ops, Continues(o)
       PROVE  StoreMoves /\ (released => Sealed)
  <2>1. CASE \/ WorkDropped(o) \/ WorkRefused(o) \/ RewriteStarts(o) \/ RepairStarts(o)
             \/ CloseFails(o) \/ ReadsBack(o) \/ Marks(o) \/ CloseRuns(o) \/ TitleSlot(o)
             \/ BatchCommits(o)
    BY <1>3, <2>1 DEF WorkDropped, WorkRefused, RewriteStarts, RepairStarts, CloseFails,
       ReadsBack, Marks, CloseRuns, TitleSlot, BatchCommits, files
  <2> QED
    BY <1>8, <1>9, <1>10, <1>11, <1>12, <1>13, <1>14, <1>15, <1>17, <2>1 DEF Continues
<1>18. CASE \/ \E r \in Rewrites : Rewrite(r)
            \/ \E c \in Closes : Close(c)
            \/ \E b \in Batches : BatchCalled(b)
            \/ \E v \in Recovers : Recover(v)
            \/ Seal \/ OwnerChanges
  BY <1>3, <1>18 DEF Rewrite, Close, BatchCalled, Recover, Seal, OwnerChanges, files
<1> QED
  BY <1>3, <1>5, <1>6, <1>7, <1>16, <1>17, <1>18 DEF Next, vars, files

-----------------------------------------------------------------------------
(* Types *)

LEMMA StoreTyped ==
    ASSUME ManagerType, CallsInv, KnownInv, [Next]_vars
    PROVE  /\ entries' \subseteq Entries /\ expected' \subseteq Entries /\ undone' \subseteq Entries
           /\ disk' \in [Paths -> SUBSET Entries]
<1>1. /\ entries \subseteq Entries /\ expected \subseteq Entries /\ undone \subseteq Entries
      /\ path \in Paths /\ disk \in [Paths -> SUBSET Entries] /\ failure \in BOOLEAN
      /\ current \in BOOLEAN /\ required \in BOOLEAN /\ expected \subseteq entries \union undone
  BY DEF ManagerType, KnownInv
<1>2. \A o \in Ops : /\ job[o].file \in Paths /\ job[o].body \subseteq Entries
                     /\ job[o].seen \subseteq Entries
  BY DEF CallsInv, Jobs
<1> DEFINE Goal == /\ entries' \subseteq Entries /\ expected' \subseteq Entries
                   /\ undone' \subseteq Entries /\ disk' \in [Paths -> SUBSET Entries]
<1>3. CASE UNCHANGED <<entries, expected, undone, disk>>
  BY <1>1, <1>3
<1>4. ASSUME NEW mem \in SUBSET Entries, entries \subseteq mem, NEW cur \in BOOLEAN,
             NEW req \in BOOLEAN, RewriteNow(mem, cur, req), UNCHANGED undone
      PROVE  Goal
  BY <1>1, <1>4, Rewritten
<1>5. ASSUME NEW e \in Appends, Append(e)
      PROVE  Goal
  <2>1. UNCHANGED undone /\ entries \union {e} \in SUBSET Entries
    BY <1>1, <1>5, EntriesHold DEF Append, EntryFacts
  <2>2. CASE RewriteNow(entries \union {e}, current /\ ~failure, required \/ failure)
    BY <1>1, <1>4, <2>1, <2>2
  <2>3. CASE /\ entries' = entries \union {e} /\ UNCHANGED <<disk, expected>>
    BY <1>1, <2>1, <2>3
  <2>4. CASE /\ entries' = entries \union {e} /\ expected' = expected \union {e}
             /\ disk' = [disk EXCEPT ![path] = @ \union {e}]
    BY <1>1, <2>1, <2>4
  <2> QED
    BY <1>5, <2>2, <2>3, <2>4 DEF Append, files
<1>6. CASE FlushSync
  BY <1>1, <1>4, <1>6 DEF FlushSync
<1>7. ASSUME NEW t \in Titles, TitleSet(t)
      PROVE  Goal
  <2>1. UNCHANGED undone /\ entries \union {TitleOf(t)} \in SUBSET Entries
    BY <1>1, <1>7, EntriesHold DEF TitleSet, EntryFacts
  <2>2. CASE RewriteNow(entries \union {TitleOf(t)}, FALSE, TRUE)
    BY <1>1, <1>4, <2>1, <2>2
  <2>3. CASE entries' = entries \union {TitleOf(t)} /\ UNCHANGED <<disk, expected>>
    BY <1>1, <2>1, <2>3
  <2> QED
    BY <1>7, <2>2, <2>3 DEF TitleSet
<1>8. ASSUME NEW b \in Batches, BatchStaged(b) \/ BatchRollsBack(b)
      PROVE  Goal
  <2>1. Staged(b) \subseteq Entries
    BY EntriesHold DEF EntryFacts
  <2>2. /\ entries' \in {entries, entries \union Staged(b), entries \ Staged(b)}
        /\ undone' \in {undone, undone \union Staged(b)} /\ UNCHANGED <<disk, expected>>
    BY <1>8 DEF BatchStaged, BatchRollsBack, files
  <2> QED
    BY <1>1, <2>1, <2>2
<1>9. ASSUME NEW t \in Titles, TitleAppends(t)
      PROVE  Goal
  <2>1. TitleOf(t) \in Entries /\ UNCHANGED <<entries, undone>>
    BY <1>9, EntriesHold DEF TitleAppends, EntryFacts
  <2>2. \/ UNCHANGED <<disk, expected>>
        \/ /\ disk' = [disk EXCEPT ![path] = @ \union {TitleOf(t)}]
           /\ expected' = expected \union {TitleOf(t)}
    BY <1>9 DEF TitleAppends
  <2> QED
    BY <1>1, <2>1, <2>2
<1>10. ASSUME NEW o \in Ops, Publishes(o)
       PROVE  Goal
  <2>1. /\ disk' = disk \/ disk' = [disk EXCEPT ![job[o].file] = job[o].body]
        /\ UNCHANGED <<entries, expected, undone>>
    BY <1>10 DEF Publishes
  <2> QED
    BY <1>1, <1>2, <2>1
<1>11. ASSUME NEW o \in Ops,
              Serializes(o) \/ Contested(o) \/ Recorded(o) \/ Verifies(o) \/ RepairRecorded(o)
                \/ RepairFails(o)
       PROVE  Goal
  <2>1. UNCHANGED <<entries, undone, disk>> /\ expected' \in {{}, expected, job[o].body}
    BY <1>11 DEF Serializes, Contested, Recorded, Verifies, RepairRecorded, RepairFails
  <2> QED
    BY <1>1, <1>2, <2>1
<1>12. ASSUME NEW o \in Ops, Adopts(o)
       PROVE  Goal
  BY <1>1, <1>2, <1>12 DEF Adopts
<1>13. ASSUME NEW x \in Foreign, ForeignAppends(x)
       PROVE  Goal
  BY <1>1, <1>13, EntriesHold DEF ForeignAppends, EntryFacts
<1>14. ASSUME NEW o \in Ops, Continues(o)
       PROVE  Goal
  <2>1. CASE \/ WorkDropped(o) \/ WorkRefused(o) \/ RewriteStarts(o) \/ RepairStarts(o)
             \/ CloseFails(o) \/ ReadsBack(o) \/ Marks(o) \/ CloseRuns(o) \/ TitleSlot(o)
             \/ BatchCommits(o)
    BY <1>3, <2>1 DEF WorkDropped, WorkRefused, RewriteStarts, RepairStarts, CloseFails,
       ReadsBack, Marks, CloseRuns, TitleSlot, BatchCommits, files
  <2> QED
    BY <1>8, <1>9, <1>10, <1>11, <1>12, <1>14, <2>1 DEF Continues
<1>15. CASE \/ \E r \in Rewrites : Rewrite(r)
            \/ \E c \in Closes : Close(c)
            \/ \E b \in Batches : BatchCalled(b)
            \/ \E v \in Recovers : Recover(v)
            \/ Seal \/ OwnerChanges
  BY <1>3, <1>15 DEF Rewrite, Close, BatchCalled, Recover, Seal, OwnerChanges, files
<1> QED
  BY <1>3, <1>5, <1>6, <1>7, <1>13, <1>14, <1>15 DEF Next, vars, files

FlagsType ==
    /\ path \in Paths /\ claim \in {"free", "mine", "other"}
    /\ current \in BOOLEAN /\ required \in BOOLEAN /\ dirty \in BOOLEAN
    /\ released \in BOOLEAN /\ failure \in BOOLEAN /\ broken \in BOOLEAN
    /\ fresh \subseteq Ops /\ fence \in BOOLEAN
    /\ batch \in Batches \union {None}
    /\ tail \in Works

LEMMA FlagsStep ==
    ASSUME ManagerType, CallsInv, [Next]_vars
    PROVE  FlagsType'
<1>1. FlagsType
  BY DEF ManagerType, FlagsType
<1>2. Lost \in BOOLEAN /\ Claimed \in {"free", "mine", "other"} /\ "sibling" \in Paths
  BY <1>1 DEF Lost, Claimed, FlagsType, Paths
<1>3. \A o \in Ops : FenceLeft(o) \in BOOLEAN /\ Repairs(o) \in BOOLEAN /\ Stale(o) \in BOOLEAN
  BY <1>1 DEF FenceLeft, FlagsType, Stale, Repairs
<1>4. \A o \in Ops : pc[o] = "idle" => job[o].turn < 2
  BY DEF CallsInv, GoodTurn
<1>5. CASE UNCHANGED vars
  BY <1>1, <1>5 DEF FlagsType, vars, flags, state, queue, files
<1>6. ASSUME NEW e \in Appends, Append(e)
      PROVE  FlagsType'
  <2>1. UNCHANGED <<released, batch>>
    BY <1>6 DEF Append
  <2>2. CASE /\ RewriteNow(entries \union {e}, current /\ ~failure, required \/ failure)
             /\ dirty' = (dirty \/ fence)
    <3>1. (current /\ ~failure) \in BOOLEAN /\ (required \/ failure) \in BOOLEAN
      BY <1>1 DEF FlagsType
    <3>2. dirty' \in BOOLEAN /\ released' \in BOOLEAN /\ batch' \in Batches \union {None}
      BY <1>1, <2>1, <2>2 DEF FlagsType
    <3> QED
      BY <2>2, <3>1, <3>2, RewrittenFlags DEF FlagsType
  <2>3. CASE /\ current' = FALSE /\ required' = TRUE /\ dirty' = TRUE
             /\ UNCHANGED <<files, failure, broken, fresh, fence, tail>>
    BY <1>1, <2>1, <2>3 DEF FlagsType, files
  <2>4. CASE /\ claim' = Claimed
             /\ \/ UNCHANGED <<flags, failure, broken>>
                \/ /\ current' = FALSE /\ required' = TRUE /\ failure' = TRUE /\ broken' = TRUE
                   /\ UNCHANGED dirty
             /\ UNCHANGED <<path, fresh, fence, tail>>
    BY <1>1, <1>2, <2>1, <2>4 DEF FlagsType, flags
  <2> QED
    BY <1>6, <2>2, <2>3, <2>4 DEF Append
<1>7. CASE FlushSync
  <2>1. RewriteNow(entries, current, required) /\ UNCHANGED <<dirty, released, batch>>
    BY <1>7 DEF FlushSync
  <2> QED
    BY <1>1, <2>1, RewrittenFlags DEF FlagsType
<1>8. CASE Seal \/ OwnerChanges \/ \E x \in Foreign : ForeignAppends(x)
  BY <1>1, <1>8 DEF Seal, EpochMoves, OwnerChanges, ForeignAppends, FlagsType, flags, queue, files, state
<1>9. ASSUME NEW t \in Titles, TitleSet(t)
      PROVE  FlagsType'
  <2>1. UNCHANGED <<dirty, released, batch>> /\ t \in Ops /\ pc[t] = "idle"
    BY <1>9 DEF TitleSet, Ops
  <2>2. CASE RewriteNow(entries \union {TitleOf(t)}, FALSE, TRUE)
    BY <1>1, <2>1, <2>2, RewrittenFlags DEF FlagsType
  <2>3. CASE ~failure
    <3> DEFINE m == IF ~current \/ required \/ Lost THEN "rewrite" ELSE "title"
    <3>1. /\ Schedule(t, m) /\ claim' = Claimed
          /\ UNCHANGED <<current, required, failure, broken, fence, path>>
      BY <1>9, <2>3 DEF TitleSet
    <3>2. m \in Modes \ {"ensure", "none"}
      BY DEF Modes
    <3> HIDE DEF m
    <3>3. tail' \in Works /\ fresh' \subseteq Ops
      BY <1>1, <1>4, <2>1, <3>1, <3>2, Scheduled DEF FlagsType
    <3> QED
      BY <1>1, <1>2, <2>1, <3>1, <3>3 DEF FlagsType
  <2> QED
    BY <1>9, <2>2, <2>3 DEF TitleSet
<1>10. ASSUME NEW r \in Rewrites, Rewrite(r)
       PROVE  FlagsType'
  <2>1. tail' \in Works /\ fresh' \subseteq Ops
    BY <1>1, <1>4, <1>10, Scheduled DEF FlagsType, Rewrite, Modes, Ops
  <2> QED
    BY <1>1, <1>10, <2>1 DEF Rewrite, FlagsType, state, files
<1>11. ASSUME NEW c \in Closes, Close(c)
       PROVE  FlagsType'
  <2>1. tail' \in Works /\ fresh' \subseteq Ops
    BY <1>1, <1>4, <1>11, Scheduled DEF FlagsType, Close, Modes, Ops
  <2> QED
    BY <1>1, <1>11, <2>1 DEF Close, FlagsType, state, flags
<1>12. ASSUME NEW b \in Batches, BatchCalled(b)
       PROVE  FlagsType'
  <2>1. b \in Ops /\ job[b].turn = 0
    BY <1>12 DEF BatchCalled, CallsInv, GoodTurn, Ops
  <2>2. tail' \in Works /\ fresh' \subseteq Ops
    BY <1>1, <1>12, <2>1, Ensured DEF FlagsType, BatchCalled
  <2> QED
    BY <1>1, <1>12, <2>2 DEF BatchCalled, FlagsType, state, flags, files
<1>13. ASSUME NEW v \in Recovers, Recover(v)
       PROVE  FlagsType'
  <2>1. tail' \in Works /\ fresh' \subseteq Ops
    BY <1>1, <1>13, RepairType DEF FlagsType, Recover, Ops
  <2> QED
    BY <1>1, <1>13, <2>1 DEF Recover, RepairBegins, FlagsType, files
<1>14. ASSUME NEW b \in Batches, BatchStaged(b)
       PROVE  FlagsType'
  <2>1. b \in Ops /\ job[b].turn < 2
    BY <1>14 DEF BatchStaged, CallsInv, GoodTurn, Ops
  <2>2. tail' \in Works /\ fresh' \subseteq Ops
    BY <1>1, <1>14, <2>1, Scheduled DEF FlagsType, BatchStaged, Modes
  <2> QED
    BY <1>1, <1>14, <2>2 DEF BatchStaged, FlagsType, state, flags, files
<1>15. ASSUME NEW b \in Batches, BatchCommits(b)
       PROVE  FlagsType'
  BY <1>1, <1>15 DEF BatchCommits, FlagsType, state, flags, files
<1>16. ASSUME NEW b \in Batches, BatchRollsBack(b)
       PROVE  FlagsType'
  <2>1. CASE released
    BY <1>1, <1>16, <2>1 DEF BatchRollsBack, FlagsType, flags, files
  <2>2. CASE ~released
    <3>1. RepairBegins(b) /\ UNCHANGED <<dirty, batch, released, files>>
      BY <1>16, <2>2 DEF BatchRollsBack
    <3>2. tail' \in Works /\ fresh' \subseteq Ops
      BY <1>1, <3>1, RepairType DEF FlagsType, Ops
    <3> QED
      BY <1>1, <3>1, <3>2 DEF RepairBegins, FlagsType, files
  <2> QED
    BY <2>1, <2>2
<1>17. ASSUME NEW o \in Ops, WorkDropped(o) \/ WorkRefused(o) \/ CloseFails(o) \/ Verifies(o)
       PROVE  FlagsType'
  BY <1>1, <1>3, <1>17 DEF WorkDropped, WorkRefused, CloseFails, Verifies, Resolves, Rejected,
     FlagsType, state, flags, files
<1>18. ASSUME NEW o \in Ops, RewriteStarts(o) \/ RepairStarts(o) \/ Publishes(o) \/ ReadsBack(o)
                               \/ Adopts(o)
       PROVE  FlagsType'
  BY <1>1, <1>3, <1>18 DEF RewriteStarts, RepairStarts, Publishes, ReadsBack, Adopts, Retries,
     FlagsType, state, flags, queue, files
<1>19. ASSUME NEW o \in Ops, Serializes(o)
       PROVE  FlagsType'
  BY <1>1, <1>2, <1>3, <1>19 DEF Serializes, Abandoned, Resolves, FlagsType
<1>20. ASSUME NEW o \in Ops, Contested(o)
       PROVE  FlagsType'
  BY <1>1, <1>2, <1>3, <1>20 DEF Contested, FlagsType, queue
<1>21. ASSUME NEW o \in Ops, Recorded(o) \/ Marks(o)
       PROVE  FlagsType'
  BY <1>1, <1>3, <1>21 DEF Recorded, Retries, Abandoned, Marks, Resolves, FlagsType, state, files
<1>22. ASSUME NEW o \in Ops, RepairRecorded(o) \/ RepairFails(o)
       PROVE  FlagsType'
  BY <1>1, <1>3, <1>22 DEF RepairRecorded, RepairFails, FlagsType
<1>23. ASSUME NEW o \in Ops, CloseRuns(o)
       PROVE  FlagsType'
  BY <1>1, <1>23 DEF CloseRuns, FlagsType, files
<1>24. ASSUME NEW o \in Ops, TitleAppends(o)
       PROVE  FlagsType'
  BY <1>1, <1>3, <1>24 DEF TitleAppends, Rejected, FlagsType
<1>25. ASSUME NEW o \in Ops, TitleSlot(o)
       PROVE  FlagsType'
  BY <1>1, <1>3, <1>25 DEF TitleSlot, Rejected, Resolves, FlagsType, files
<1>26. ASSUME NEW o \in Ops, Continues(o)
       PROVE  FlagsType'
  BY <1>14, <1>15, <1>16, <1>17, <1>18, <1>19, <1>20, <1>21, <1>22, <1>23, <1>24, <1>25, <1>26
     DEF Continues
<1> QED
  BY <1>5, <1>6, <1>7, <1>8, <1>9, <1>10, <1>11, <1>12, <1>13, <1>26 DEF Next

LEMMA ManagerStep ==
    ASSUME ManagerType, CallsInv, KnownInv, [Next]_vars
    PROVE  ManagerType'
BY StoreTyped, FlagsStep DEF ManagerType, FlagsType

\* What reading back and serializing leave of the jobs.
LEMMA ReadSets ==
    ASSUME CallsInv, NEW o \in Ops, ReadsBack(o), NEW q \in Ops
    PROVE  /\ job'[q].body = job[q].body /\ job'[q].exp = job[q].exp
           /\ job'[q].file = job[q].file
           /\ job'[q].seen = IF q = o THEN disk[job[o].file] ELSE job[q].seen
<1> DEFINE j == [job[o] EXCEPT !.seen = disk[job[o].file], !.tries = job[o].tries + 1]
<1>1. job' = [job EXCEPT ![o] = j] /\ job \in [Ops -> Jobs]
  BY DEF ReadsBack, CallsInv
<1>2. job[o] \in Jobs
  BY <1>1
<1>3. j.body = job[o].body /\ j.exp = job[o].exp /\ j.file = job[o].file /\ j.seen = disk[job[o].file]
  BY <1>2 DEF Jobs
<1> HIDE DEF j
<1> QED
  BY <1>1, <1>3

LEMMA SerializedSets ==
    ASSUME CallsInv, NEW o \in Ops, Serializes(o), Repairs(o) \/ ~Stale(o), NEW q \in Ops
    PROVE  /\ q # o => job'[q] = job[q]
           /\ job'[o].body = entries /\ job'[o].exp = (IF Lost THEN {} ELSE expected)
           /\ job'[o].file = (IF Lost THEN "sibling" ELSE path)
           /\ job'[o].seen = job[o].seen /\ job'[o].mode = job[o].mode
           /\ job'[o].tries = job[o].tries
<1> DEFINE known == IF Lost THEN {} ELSE expected
           to == IF Lost THEN "sibling" ELSE path
           j == [job[o] EXCEPT !.body = entries, !.exp = known, !.file = to]
<1>1. job' = [job EXCEPT ![o] = j] /\ job \in [Ops -> Jobs]
  BY DEF Serializes, CallsInv
<1>2. job[o] \in Jobs
  BY <1>1
<1>3. /\ j.body = entries /\ j.exp = known /\ j.file = to /\ j.seen = job[o].seen
      /\ j.mode = job[o].mode /\ j.tries = job[o].tries
  BY <1>2, SerializedFields
<1> HIDE DEF j
<1> QED
  BY <1>1, <1>3

LEMMA KnownStep ==
    ASSUME ManagerType, CallsInv, KnownInv, [Next]_vars
    PROVE  KnownInv'
<1>1. /\ undone \subseteq undone' /\ entries \subseteq entries' \union undone'
      /\ expected' \subseteq entries' \union undone'
  BY StoreStep DEF StoreMoves
<1>2. CallsInv'
  BY CallsStep
<1>3. ASSUME NEW t \in Titles, job'[t].mode = "title"
      PROVE  TitleOf(t) \in entries' \union undone'
  <2>1. t \in Ops
    BY DEF Ops
  <2>2. CASE job[t].mode = "title"
    BY <1>1, <2>1, <2>2 DEF KnownInv
  <2>3. CASE TitleSet(t)
    <3>1. CASE RewriteNow(entries \union {TitleOf(t)}, FALSE, TRUE)
      <4>1. entries \union {TitleOf(t)} \in SUBSET Entries
        BY EntriesHold DEF EntryFacts, ManagerType
      <4> QED
        BY <3>1, <4>1, Rewritten DEF KnownInv
    <3> QED
      BY <2>3, <3>1 DEF TitleSet
  <2> QED
    BY <1>3, <2>1, <2>2, <2>3, TitleMode
<1>4. ASSUME NEW q \in Ops
      PROVE  /\ job'[q].body \subseteq entries' \union undone'
             /\ job'[q].exp \subseteq job'[q].body \union undone'
  <2>1. /\ job[q].body \subseteq entries \union undone
        /\ job[q].exp \subseteq job[q].body \union undone
    BY DEF KnownInv
  <2>2. CASE JobsKept
    BY <1>1, <2>1, <2>2 DEF JobsKept, SameSets, NoSets
  <2>3. ASSUME NEW o \in Ops, ReadsBack(o)
        PROVE  job'[q].body = job[q].body /\ job'[q].exp = job[q].exp
    BY <2>3, ReadSets
  <2>4. ASSUME NEW o \in Ops, Serializes(o), Repairs(o) \/ ~Stale(o)
        PROVE  \/ job'[q].body = job[q].body /\ job'[q].exp = job[q].exp
               \/ job'[q].body = entries /\ job'[q].exp \subseteq expected
    BY <2>4, SerializedSets
  <2>5. expected \subseteq entries \union undone
    BY DEF KnownInv
  <2> QED
    BY <1>1, <2>1, <2>2, <2>3, <2>4, <2>5, CallsStep
<1> QED
  BY <1>1, <1>3, <1>4 DEF KnownInv

-----------------------------------------------------------------------------
(* Batches are whole wherever entries are: in memory, in the files, in what a *)
(* job publishes and in what it has read back                                 *)

WholeInv ==
    /\ Undivided(entries)
    /\ \A p \in Paths : Undivided(disk[p])
    /\ \A o \in Ops : Undivided(job[o].body) /\ Undivided(job[o].seen)

LEMMA UndividedUnion ==
    ASSUME NEW S, NEW T, Undivided(S), Undivided(T)
    PROVE  Undivided(S \union T)
BY DEF Undivided

LEMMA UndividedNone == Undivided({})
BY DEF Undivided

LEMMA StagedApart ==
    ASSUME NEW b \in Batches, NEW c \in Batches, b # c
    PROVE  Staged(b) \intersect Staged(c) = {}
BY DEF Staged

LEMMA UndividedStaged ==
    ASSUME NEW b \in Batches, NEW S, Undivided(S)
    PROVE  Undivided(S \union Staged(b)) /\ Undivided(S \ Staged(b))
<1>1. ASSUME NEW c \in Batches
      PROVE  /\ Staged(c) \subseteq S \union Staged(b) \/ Staged(c) \intersect (S \union Staged(b)) = {}
             /\ Staged(c) \subseteq S \ Staged(b) \/ Staged(c) \intersect (S \ Staged(b)) = {}
  <2>1. Staged(c) \subseteq S \/ Staged(c) \intersect S = {}
    BY DEF Undivided
  <2>2. CASE c = b
    BY <2>2
  <2>3. CASE c # b
    BY <2>1, <2>3, StagedApart
  <2> QED
    BY <2>2, <2>3
<1> QED
  BY <1>1 DEF Undivided

LEMMA UndividedAdd ==
    ASSUME NEW S, Undivided(S), NEW e,
           e \in Appends \union Foreign \/ \E t \in Titles : e = TitleOf(t)
    PROVE  Undivided(S \union {e})
<1>1. ASSUME NEW b \in Batches
      PROVE  e \notin Staged(b)
  BY EntryAssumption DEF Staged, TitleOf
<1> QED
  BY <1>1 DEF Undivided

LEMMA WholeRewritten ==
    ASSUME ManagerType, WholeInv, NEW mem, Undivided(mem), NEW cur, NEW req, RewriteNow(mem, cur, req)
    PROVE  Undivided(entries') /\ \A p \in Paths : Undivided(disk'[p])
<1> DEFINE to == IF Lost THEN "sibling" ELSE path
           known == IF Lost THEN {} ELSE expected
           body == IF known = disk[to] THEN mem ELSE mem \union disk[to]
<1>1. to \in Paths /\ disk \in [Paths -> SUBSET Entries]
  BY DEF ManagerType, Paths
<1>2. Undivided(body)
  BY <1>1, UndividedUnion DEF WholeInv
<1>3. /\ disk' = [disk EXCEPT ![to] = body] \/ disk' = disk
      /\ entries' = body \/ entries' = mem
  BY DEF RewriteNow
<1> HIDE DEF to, body
<1>4. \A p \in Paths : disk'[p] = body \/ disk'[p] = disk[p]
  BY <1>1, <1>3
<1>5. \A p \in Paths : Undivided(disk'[p])
  BY <1>2, <1>4 DEF WholeInv
<1> QED
  BY <1>2, <1>3, <1>5

LEMMA WholeStore ==
    ASSUME ManagerType, CallsInv, WholeInv, [Next]_vars
    PROVE  Undivided(entries') /\ \A p \in Paths : Undivided(disk'[p])
<1> DEFINE Goal == Undivided(entries') /\ \A p \in Paths : Undivided(disk'[p])
<1>1. /\ path \in Paths /\ disk \in [Paths -> SUBSET Entries]
      /\ Undivided(entries) /\ \A p \in Paths : Undivided(disk[p])
  BY DEF ManagerType, WholeInv
<1>2. \A o \in Ops : job[o].file \in Paths /\ Undivided(job[o].body) /\ Undivided(job[o].seen)
  BY DEF CallsInv, Jobs, WholeInv
<1>3. CASE UNCHANGED <<entries, disk>>
  BY <1>1, <1>3
<1>4. ASSUME NEW p \in Paths, NEW S, Undivided(S), Undivided(entries'),
             disk' = [disk EXCEPT ![p] = S]
      PROVE  Goal
  <2>1. \A q \in Paths : disk'[q] = S \/ disk'[q] = disk[q]
    BY <1>1, <1>4
  <2> QED
    BY <1>1, <1>4, <2>1
<1>5. ASSUME NEW e \in Appends, Append(e)
      PROVE  Goal
  <2>1. Undivided(entries \union {e}) /\ Undivided(disk[path] \union {e})
    BY <1>1, UndividedAdd
  <2>2. CASE RewriteNow(entries \union {e}, current /\ ~failure, required \/ failure)
    BY <2>1, <2>2, WholeRewritten
  <2>3. CASE entries' = entries \union {e} /\ UNCHANGED disk
    BY <1>1, <2>1, <2>3
  <2>4. CASE entries' = entries \union {e} /\ disk' = [disk EXCEPT ![path] = disk[path] \union {e}]
    BY <1>1, <1>4, <2>1, <2>4
  <2> QED
    BY <1>1, <1>5, <2>2, <2>3, <2>4 DEF Append, files
<1>6. CASE FlushSync
  BY <1>1, <1>6, WholeRewritten DEF FlushSync
<1>7. ASSUME NEW t \in Titles, TitleSet(t)
      PROVE  Goal
  <2>1. Undivided(entries \union {TitleOf(t)})
    BY <1>1, UndividedAdd
  <2>2. CASE RewriteNow(entries \union {TitleOf(t)}, FALSE, TRUE)
    BY <2>1, <2>2, WholeRewritten
  <2>3. CASE entries' = entries \union {TitleOf(t)} /\ UNCHANGED disk
    BY <1>1, <2>1, <2>3
  <2> QED
    BY <1>7, <2>2, <2>3 DEF TitleSet
<1>8. ASSUME NEW b \in Batches, BatchStaged(b) \/ BatchRollsBack(b)
      PROVE  Goal
  <2>1. /\ entries' \in {entries, entries \union Staged(b), entries \ Staged(b)}
        /\ UNCHANGED disk
    BY <1>8 DEF BatchStaged, BatchRollsBack, files
  <2> QED
    BY <1>1, <2>1, UndividedStaged
<1>9. ASSUME NEW t \in Titles, TitleAppends(t)
      PROVE  Goal
  <2>1. Undivided(disk[path] \union {TitleOf(t)}) /\ UNCHANGED entries
    BY <1>1, <1>9, UndividedAdd DEF TitleAppends
  <2>2. UNCHANGED disk \/ disk' = [disk EXCEPT ![path] = disk[path] \union {TitleOf(t)}]
    BY <1>1, <1>9 DEF TitleAppends
  <2> QED
    BY <1>1, <1>3, <1>4, <2>1, <2>2
<1>10. ASSUME NEW o \in Ops, Publishes(o)
       PROVE  Goal
  <2>1. /\ disk' = disk \/ disk' = [disk EXCEPT ![job[o].file] = job[o].body]
        /\ UNCHANGED entries
    BY <1>10 DEF Publishes
  <2> QED
    BY <1>1, <1>2, <1>3, <1>4, <2>1
<1>11. ASSUME NEW o \in Ops, Adopts(o)
       PROVE  Goal
  BY <1>1, <1>2, <1>11, UndividedUnion DEF Adopts
<1>12. ASSUME NEW x \in Foreign, ForeignAppends(x)
       PROVE  Goal
  <2>1. "home" \in Paths
    BY DEF Paths
  <2>2. Undivided(disk["home"] \union {x})
    BY <1>1, <2>1, UndividedAdd
  <2>3. disk' = [disk EXCEPT !["home"] = disk["home"] \union {x}] /\ UNCHANGED entries
    BY <1>12 DEF ForeignAppends
  <2> QED
    BY <1>1, <1>4, <2>1, <2>2, <2>3
<1>13. ASSUME NEW o \in Ops, Continues(o)
       PROVE  Goal
  <2>1. CASE \/ WorkDropped(o) \/ WorkRefused(o) \/ RewriteStarts(o) \/ RepairStarts(o)
             \/ CloseFails(o) \/ ReadsBack(o) \/ Marks(o) \/ CloseRuns(o) \/ TitleSlot(o)
             \/ BatchCommits(o) \/ Serializes(o) \/ Contested(o) \/ Recorded(o) \/ Verifies(o)
             \/ RepairRecorded(o) \/ RepairFails(o)
    BY <1>3, <2>1 DEF WorkDropped, WorkRefused, RewriteStarts, RepairStarts, CloseFails,
       ReadsBack, Marks, CloseRuns, TitleSlot, BatchCommits, Serializes, Contested, Recorded,
       Verifies, RepairRecorded, RepairFails, files
  <2> QED
    BY <1>8, <1>9, <1>10, <1>11, <1>13, <2>1 DEF Continues
<1>14. CASE \/ \E r \in Rewrites : Rewrite(r)
            \/ \E c \in Closes : Close(c)
            \/ \E b \in Batches : BatchCalled(b)
            \/ \E v \in Recovers : Recover(v)
            \/ Seal \/ OwnerChanges
  BY <1>3, <1>14 DEF Rewrite, Close, BatchCalled, Recover, Seal, OwnerChanges, files
<1> QED
  BY <1>3, <1>5, <1>6, <1>7, <1>12, <1>13, <1>14 DEF Next, vars, files

LEMMA WholeStep ==
    ASSUME ManagerType, CallsInv, WholeInv, [Next]_vars
    PROVE  WholeInv'
<1>1. ASSUME NEW q \in Ops
      PROVE  Undivided(job'[q].body) /\ Undivided(job'[q].seen)
  <2>1. CASE JobsKept
    BY <2>1, UndividedNone DEF JobsKept, SameSets, NoSets, WholeInv
  <2>2. ASSUME NEW o \in Ops, ReadsBack(o)
        PROVE  Undivided(job'[q].body) /\ Undivided(job'[q].seen)
    <3>1. job[o].file \in Paths
      BY DEF CallsInv, Jobs
    <3>2. job'[q].body = job[q].body /\ job'[q].seen \in {job[q].seen, disk[job[o].file]}
      BY <2>2, ReadSets
    <3> QED
      BY <3>1, <3>2 DEF WholeInv
  <2>3. ASSUME NEW o \in Ops, Serializes(o), Repairs(o) \/ ~Stale(o)
        PROVE  Undivided(job'[q].body) /\ Undivided(job'[q].seen)
    <3>1. job'[q].body \in {job[q].body, entries} /\ job'[q].seen = job[q].seen
      BY <2>3, SerializedSets
    <3> QED
      BY <3>1 DEF WholeInv
  <2> QED
    BY <2>1, <2>2, <2>3, CallsStep
<1> QED
  BY <1>1, WholeStore DEF WholeInv

-----------------------------------------------------------------------------
(* Theorems *)

IInv == ManagerType /\ CallsInv /\ KnownInv /\ WholeInv

LEMMA InductiveInit == Init => IInv
<1> SUFFICES ASSUME Init PROVE IInv
  OBVIOUS
<1>1. ManagerType
  BY DEF Init, ManagerType, Works, Paths
<1>2. \A o \in Ops : pc[o] = "idle" /\ job[o] = NoJob
  BY DEF Init
<1>3. /\ NoJob.turn = 0 /\ NoJob.mode = "none" /\ NoJob.body = {} /\ NoJob.exp = {}
  BY DEF NoJob
<1>4. CallsInv
  <2>1. pc \in [Ops -> Places]
    BY DEF Init, Places
  <2>2. job \in [Ops -> Jobs]
    BY NoJobTyped DEF Init
  <2> QED
    BY <1>2, <1>3, <2>1, <2>2 DEF CallsInv, GoodTurn
<1>5. KnownInv
  <2>1. expected = {}
    BY DEF Init
  <2> QED
    BY <1>2, <1>3, <2>1 DEF KnownInv, Ops
<1>6. WholeInv
  <2>1. entries = {} /\ \A p \in Paths : disk[p] = {}
    BY DEF Init
  <2>2. NoJob.seen = {}
    BY DEF NoJob
  <2> QED
    BY <1>2, <1>3, <2>1, <2>2, UndividedNone DEF WholeInv
<1> QED
  BY <1>1, <1>4, <1>5, <1>6 DEF IInv

\* The inductive invariant: what #entries, the flags and every job in progress may
\* rely on of the files, whatever other calls and writers do before it resumes.
THEOREM Inductive == Spec => []IInv
<1>1. IInv /\ [Next]_vars => IInv'
  BY ManagerStep, CallsStep, KnownStep, WholeStep DEF IInv
<1> QED
  BY InductiveInit, <1>1, PTL DEF Spec

\* The types of the manager's fields and of its calls, for any entries and calls.
THEOREM TypeCorrect == Spec => []TypeOK
<1>1. IInv => TypeOK
  BY TypeParts DEF IInv, CallsInv
<1> QED
  BY <1>1, Inductive, PTL

\* No write of the manager takes an entry out of a file, except for a batch it
\* rolled back; sealed, it writes nothing.
THEOREM EntriesStay == Spec => NothingErased
<1>1. IInv /\ [Next]_vars =>
        [\A p \in Paths :
           /\ disk[p] \ disk'[p] \subseteq undone'
           /\ released => disk'[p] \ disk[p] \subseteq Foreign /\ disk[p] \subseteq disk'[p]]_vars
  BY StoreStep DEF IInv, StoreMoves, Sealed
<1> QED
  BY <1>1, Inductive, PTL DEF Spec, NothingErased

\* No file ever holds a part of a batch.
THEOREM BatchesUndivided == Spec => []BatchUndivided
<1>1. IInv => BatchUndivided
  BY DEF IInv, WholeInv, BatchUndivided
<1> QED
  BY <1>1, Inductive, PTL

-----------------------------------------------------------------------------
(* What an action does to the calls *)

OthersStay(o) == \A q \in Ops : q # o => pc'[q] = pc[q] /\ job'[q] = job[q]

\* The call o is at c, its work of kind m, queued n times, behind w.
Now(o, c, m, n, w) ==
    /\ OthersStay(o) /\ pc'[o] = c
    /\ job'[o].mode = m /\ job'[o].turn = n /\ job'[o].behind = w

LEMMA MoveEffect ==
    ASSUME CallsInv, NEW o \in Ops, NEW c, pc' = [pc EXCEPT ![o] = c], UNCHANGED job
    PROVE  /\ Now(o, c, job[o].mode, job[o].turn, job[o].behind)
           /\ job'[o] = job[o]
BY DEF CallsInv, Now, OthersStay

LEMMA JobEffect ==
    ASSUME CallsInv, NEW o \in Ops, NEW c, NEW j,
           pc' = [pc EXCEPT ![o] = c], job' = [job EXCEPT ![o] = j]
    PROVE  Now(o, c, j.mode, j.turn, j.behind) /\ job'[o] = j
BY DEF CallsInv, Now, OthersStay

LEMMA ScheduleEffect ==
    ASSUME CallsInv, NEW o \in Ops, NEW m, Schedule(o, m)
    PROVE  /\ Now(o, "queued", m, job[o].turn + 1, tail)
           /\ tail' = <<o, job[o].turn + 1>> /\ fresh' = fresh \union {o}
<1> DEFINE j == [job[o] EXCEPT !.mode = m, !.behind = tail, !.turn = job[o].turn + 1]
<1>1. pc' = [pc EXCEPT ![o] = "queued"] /\ job' = [job EXCEPT ![o] = j]
  BY DEF Schedule, CallsInv
<1>2. job[o] \in Jobs
  BY DEF CallsInv
<1>3. j.mode = m /\ j.turn = job[o].turn + 1 /\ j.behind = tail
  BY <1>2 DEF Jobs
<1> HIDE DEF j
<1>4. Now(o, "queued", m, job[o].turn + 1, tail)
  BY <1>1, <1>3, JobEffect
<1> QED
  BY <1>4 DEF Schedule

LEMMA NoJobFields ==
    ASSUME NEW n, NEW w
    PROVE  /\ LET k == [NoJob EXCEPT !.turn = n] IN
              k.mode = "none" /\ k.turn = n /\ k.behind = NoWork
           /\ LET k == [NoJob EXCEPT !.turn = n, !.behind = w] IN
              k.mode = "none" /\ k.turn = n /\ k.behind = w
           /\ NoJob.mode = "none" /\ NoJob.turn = 0 /\ NoJob.behind = NoWork
BY DEF NoJob

LEMMA ResolveEffect ==
    ASSUME CallsInv, NEW o \in Ops, Resolves(o)
    PROVE  /\ Now(o, IF job[o].mode = "ensure" THEN "flushing"
                     ELSE IF o \in Batches THEN "decide" ELSE "done",
                  "none", job[o].turn, IF job[o].mode = "ensure" THEN tail ELSE NoWork)
           /\ fresh' = fresh \ {o}
<1> DEFINE w == IF job[o].mode = "ensure" THEN tail ELSE NoWork
           c == IF job[o].mode = "ensure" THEN "flushing"
                ELSE IF o \in Batches THEN "decide" ELSE "done"
           j == [NoJob EXCEPT !.turn = job[o].turn, !.behind = w]
<1>1. pc' = [pc EXCEPT ![o] = c] /\ job' = [job EXCEPT ![o] = j]
  BY DEF Resolves
<1>2. j.mode = "none" /\ j.turn = job[o].turn /\ j.behind = w
  BY NoJobFields
<1> HIDE DEF j, c, w
<1>3. Now(o, c, "none", job[o].turn, w)
  BY <1>1, <1>2, JobEffect
<1> QED
  BY <1>3 DEF Resolves, w, c

LEMMA RejectEffect ==
    ASSUME CallsInv, NEW o \in Ops, Rejected(o)
    PROVE  /\ Now(o, IF o \in Batches THEN "rollback" ELSE "failed", "none", job[o].turn, NoWork)
           /\ fresh' = fresh \ {o} /\ failure' = TRUE
<1> DEFINE c == IF o \in Batches THEN "rollback" ELSE "failed"
           j == [NoJob EXCEPT !.turn = job[o].turn]
<1>1. pc' = [pc EXCEPT ![o] = c] /\ job' = [job EXCEPT ![o] = j]
  BY DEF Rejected
<1>2. j.mode = "none" /\ j.turn = job[o].turn /\ j.behind = NoWork
  BY NoJobFields
<1> HIDE DEF j, c
<1>3. Now(o, c, "none", job[o].turn, NoWork)
  BY <1>1, <1>2, JobEffect
<1> QED
  BY <1>3 DEF Rejected, c

LEMMA RepairEffect ==
    ASSUME CallsInv, NEW o \in Ops, RepairBegins(o)
    PROVE  /\ Now(o, "waiting", "repair", job[o].turn, tail)
           /\ fresh' = {o} /\ tail' = NoWork
           /\ fence' = TRUE /\ failure' = TRUE /\ current' = FALSE /\ required' = TRUE
<1> DEFINE j == [job[o] EXCEPT !.mode = "repair", !.behind = tail]
<1>1. pc' = [pc EXCEPT ![o] = "waiting"] /\ job' = [job EXCEPT ![o] = j]
  BY DEF RepairBegins, CallsInv
<1>2. job[o] \in Jobs
  BY DEF CallsInv
<1>3. j.mode = "repair" /\ j.turn = job[o].turn /\ j.behind = tail
  BY <1>2 DEF Jobs
<1> HIDE DEF j
<1>4. Now(o, "waiting", "repair", job[o].turn, tail)
  BY <1>1, <1>3, JobEffect
<1> QED
  BY <1>4 DEF RepairBegins

LEMMA OverEffect ==
    ASSUME CallsInv, NEW o \in Ops, NEW c, pc' = [pc EXCEPT ![o] = c], job' = [job EXCEPT ![o] = NoJob]
    PROVE  Now(o, c, "none", 0, NoWork)
<1>1. NoJob.mode = "none" /\ NoJob.turn = 0 /\ NoJob.behind = NoWork
  BY DEF NoJob
<1> HIDE DEF NoJob
<1> QED
  BY <1>1 DEF CallsInv, Now, OthersStay

LEMMA SerializeEffect ==
    ASSUME CallsInv, NEW o \in Ops, Serializes(o), Repairs(o) \/ ~Stale(o)
    PROVE  /\ Now(o, "staging", job[o].mode, job[o].turn, job[o].behind)
           /\ job'[o].body = entries /\ job'[o].file = path'
<1> DEFINE known == IF Lost THEN {} ELSE expected
           to == IF Lost THEN "sibling" ELSE path
           j == [job[o] EXCEPT !.body = entries, !.exp = known, !.file = to]
<1>1. /\ pc' = [pc EXCEPT ![o] = "staging"] /\ job' = [job EXCEPT ![o] = j] /\ path' = to
  BY DEF Serializes, CallsInv
<1>2. job[o] \in Jobs
  BY DEF CallsInv
<1>3. /\ j.mode = job[o].mode /\ j.turn = job[o].turn /\ j.behind = job[o].behind
      /\ j.body = entries /\ j.file = to
  BY <1>2 DEF Jobs
<1> HIDE DEF j, to, known
<1>4. Now(o, "staging", job[o].mode, job[o].turn, job[o].behind) /\ job'[o] = j
  BY <1>1, <1>3, JobEffect
<1> QED
  BY <1>1, <1>3, <1>4

LEMMA ReadEffect ==
    ASSUME CallsInv, NEW o \in Ops, ReadsBack(o)
    PROVE  /\ Now(o, IF Superseded(o) THEN "closing" ELSE "reread",
                  job[o].mode, job[o].turn, job[o].behind)
           /\ job'[o].file = job[o].file /\ job'[o].seen = disk[job[o].file]
<1> DEFINE c == IF Superseded(o) THEN "closing" ELSE "reread"
           j == [job[o] EXCEPT !.seen = disk[job[o].file], !.tries = job[o].tries + 1]
<1>1. pc' = [pc EXCEPT ![o] = c] /\ job' = [job EXCEPT ![o] = j]
  BY DEF ReadsBack, Retries, CallsInv
<1>2. job[o] \in Jobs
  BY DEF CallsInv
<1>3. /\ j.mode = job[o].mode /\ j.turn = job[o].turn /\ j.behind = job[o].behind
      /\ j.seen = disk[job[o].file] /\ j.file = job[o].file
  BY <1>2 DEF Jobs
<1> HIDE DEF j, c
<1>4. Now(o, c, job[o].mode, job[o].turn, job[o].behind) /\ job'[o] = j
  BY <1>1, <1>3, JobEffect
<1> QED
  BY <1>3, <1>4 DEF c

LEMMA FallBackEffect ==
    ASSUME CallsInv, NEW o \in Ops, pc' = [pc EXCEPT ![o] = "closing"],
           job' = [job EXCEPT ![o].mode = "fallback"]
    PROVE  Now(o, "closing", "fallback", job[o].turn, job[o].behind)
<1> DEFINE j == [job[o] EXCEPT !.mode = "fallback"]
<1>1. job' = [job EXCEPT ![o] = j]
  BY DEF CallsInv
<1>2. job[o] \in Jobs
  BY DEF CallsInv
<1>3. j.mode = "fallback" /\ j.turn = job[o].turn /\ j.behind = job[o].behind
  BY <1>2 DEF Jobs
<1> HIDE DEF j
<1> QED
  BY <1>1, <1>3 DEF CallsInv, Now, OthersStay

-----------------------------------------------------------------------------
(* Where a call is, and what its work is *)

Active == InTask \ {"queued"}
Rewriting == {"closing", "staging", "published", "conflicted", "reread", "unwritten"}

\* The work of a call at c is of kind m.
Place(o, c, m) ==
    /\ c = "queued" => m \in {"rewrite", "ensure", "title", "close"}
    /\ c \in Rewriting => m \in {"rewrite", "ensure", "fallback", "repair"}
    /\ c = "marking" => m \in {"rewrite", "ensure", "fallback"}
    /\ c = "titling" => m = "title"
    /\ c = "waiting" => m = "repair"
    /\ c \notin InTask \union {"waiting"} => m = "none"
    /\ m \in {"title", "fallback"} => o \in Titles
    /\ o \in Batches => m \in {"none", "rewrite", "ensure", "repair"}
    /\ m = "repair" => o \in Batches \union Recovers

PlaceInv ==
    \A o \in Ops : /\ Place(o, pc[o], job[o].mode)
                   /\ o \in fresh => pc[o] \in InTask \union {"waiting"}

\* The ways in which a step moves one call, or none.
Queues(o) ==
    /\ \E m \in {"rewrite", "ensure", "title", "close"} :
          Now(o, "queued", m, job[o].turn + 1, tail)
    /\ pc[o] \in {"idle", "flushing"}
    /\ tail' = <<o, job[o].turn + 1>> /\ fresh' = fresh \union {o}
    /\ job'[o].mode = "title" => ~Lost
    /\ pc[o] = "flushing" => /\ o \in Batches /\ batch' = o /\ job'[o].mode = "rewrite"
                             /\ NoneBetween /\ NoneLags
    /\ pc[o] = "idle" => /\ batch' = batch
                         /\ o \in Batches => LockFree /\ job'[o].mode = "ensure"
Goes(o) ==
    /\ \E c \in Active, m \in Modes :
          /\ Now(o, c, m, job[o].turn, job[o].behind)
          /\ m = "repair" <=> Repairs(o)
    /\ pc[o] \in InTask \union {"waiting"}
    /\ pc[o] \in {"queued", "waiting"} => Settled(job[o].behind)
    /\ pc[o] = "queued" => Runs(o)
    /\ job'[o].mode = job[o].mode \/ (o \in Titles /\ job'[o].mode = "fallback")
    /\ pc'[o] # pc[o]
    /\ pc'[o] \in {"published", "conflicted", "unwritten"} => ~Busy
    /\ pc'[o] \in {"conflicted", "reread", "marking"} => o \in fresh
    /\ pc'[o] = "reread" => pc[o] = "conflicted"
    /\ pc'[o] = "marking" => pc[o] = "published"
    /\ UNCHANGED <<fresh, tail, batch>>
Ends(o) ==
    /\ \E c \in {"flushing", "decide", "rollback"} \union Ended, n \in {0, job[o].turn},
          w \in {tail, NoWork} :
          Now(o, c, "none", n, w) /\ (n # job[o].turn => c \in Ended)
    /\ pc[o] \in InTask
    /\ pc[o] = "queued" => Settled(job[o].behind)
    /\ o \in Batches =>
         IF Repairs(o) THEN pc'[o] \in Ended
         ELSE pc'[o] \in {"rollback", IF job[o].mode = "ensure" THEN "flushing" ELSE "decide"}
    /\ pc'[o] = "rollback" => broken \/ ~Busy \/ o \in fresh
    /\ fresh' = fresh \ {o} /\ UNCHANGED tail
    /\ batch' = IF batch = o /\ Repairs(o) THEN None ELSE batch
Turns(o) ==
    /\ \E c \in {"flushing", "rollback"} \union Ended, w \in {job[o].behind, tail} :
          Now(o, c, job[o].mode, job[o].turn, w)
    /\ o \in Batches
    /\ \/ pc[o] = "idle" /\ LockFree /\ pc'[o] = "flushing" /\ UNCHANGED batch
       \/ pc[o] = "flushing" /\ pc'[o] \in {"rollback", "dropped"} /\ NoneBetween /\ UNCHANGED batch
       \/ pc[o] \in {"decide", "rollback"} /\ pc'[o] \in Ended /\ batch' = None
    /\ UNCHANGED <<fresh, tail>>
Mends(o) ==
    /\ Now(o, "waiting", "repair", job[o].turn, tail)
    /\ \/ pc[o] = "idle" /\ LockFree /\ NoneBetween
       \/ pc[o] \in {"decide", "rollback"} /\ o \in Batches
    /\ UNCHANGED batch
    /\ fresh' = {o} /\ tail' = NoWork /\ failure' = TRUE
Restarts ==
    /\ fresh' = {} /\ tail' \in {NoWork, tail} /\ (tail' # NoWork => released')
    /\ UNCHANGED <<job, batch>> /\ (released' \/ (NoneBetween /\ SparesBatch))
    /\ \/ UNCHANGED pc
       \/ \E t \in Titles, c \in {"done", "failed"} :
             pc[t] = "idle" /\ Now(t, c, job[t].mode, job[t].turn, job[t].behind)
Rests == UNCHANGED <<pc, job, fresh, tail, batch>>

Moved(o) == Queues(o) \/ Goes(o) \/ Ends(o) \/ Turns(o) \/ Mends(o)
Placed(o) == Place(o, pc'[o], job'[o].mode)

LEMMA EndMoves ==
    ASSUME CallsInv, PlaceInv, NEW o \in Ops, 
           Resolves(o) \/ (Rejected(o) /\ (broken \/ ~Busy \/ o \in fresh \/ o \in Titles)),
           pc[o] \in InTask, pc[o] = "queued" => Settled(job[o].behind), UNCHANGED <<tail, batch>>,
           ~Repairs(o)
    PROVE  Ends(o) /\ Placed(o)
<1>1. CASE Resolves(o)
  BY <1>1, ResolveEffect DEF Ends, Placed, Place, Now, Ended, InTask, Rewriting
<1>2. CASE Rejected(o) /\ (broken \/ ~Busy \/ o \in fresh \/ o \in Titles)
  BY <1>2, RejectEffect, BatchAssumption DEF Ends, Placed, Place, Now, Ended, InTask, Rewriting
<1> QED
  BY <1>1, <1>2

LEMMA GoMoves ==
    ASSUME CallsInv, PlaceInv, NEW o \in Ops, pc[o] \in InTask \union {"waiting"},
           pc[o] \in {"queued", "waiting"} => Settled(job[o].behind),
           pc[o] = "queued" => Runs(o), UNCHANGED <<fresh, tail, batch>>,
           NEW c \in Rewriting \union {"marking"}, NEW m \in {"rewrite", "ensure", "fallback", "repair"},
           m = "repair" <=> Repairs(o), m = "fallback" => o \in Titles,
           c = "marking" => m # "repair" /\ pc[o] = "published",
           m = job[o].mode \/ (o \in Titles /\ m = "fallback"), c # pc[o],
           c \in {"published", "conflicted", "unwritten"} => ~Busy,
           c \in {"conflicted", "reread", "marking"} => o \in fresh,
           c = "reread" => pc[o] = "conflicted",
           Now(o, c, m, job[o].turn, job[o].behind)
    PROVE  Goes(o) /\ Placed(o)
<1>1. c \in Active /\ m \in Modes
  BY DEF Active, InTask, Rewriting, Modes
<1>2. m = "repair" => o \in Batches \union Recovers
  BY DEF PlaceInv, Place, Repairs
<1>3. Goes(o)
  <2>1. job'[o].mode = m /\ pc'[o] = c
    BY DEF Now
  <2> QED
    BY <1>1, <2>1 DEF Goes
<1>4. o \in Batches => m \in {"rewrite", "ensure", "repair"}
  BY BatchAssumption DEF PlaceInv, Place
<1>5. Placed(o)
  BY <1>1, <1>2, <1>4 DEF Placed, Place, Now, Active, InTask, Rewriting
<1> QED
  BY <1>3, <1>5

LEMMA OverMoves ==
    ASSUME CallsInv, NEW o \in Ops, NEW c \in Ended, pc' = [pc EXCEPT ![o] = c],
           job' = [job EXCEPT ![o] = NoJob], pc[o] \in InTask,
           pc[o] = "queued" => Settled(job[o].behind), fresh' = fresh \ {o}, UNCHANGED tail,
           batch' = IF batch = o /\ Repairs(o) THEN None ELSE batch, o \in Batches => Repairs(o)
    PROVE  Ends(o) /\ Placed(o)
<1>1. Now(o, c, "none", 0, NoWork)
  BY OverEffect
<1> QED
  BY <1>1 DEF Ends, Placed, Place, Now, Ended, InTask, Rewriting

LEMMA RepairMoves ==
    ASSUME CallsInv, NEW o \in Batches \union Recovers, RepairBegins(o), UNCHANGED batch,
           (pc[o] = "idle" /\ LockFree /\ NoneBetween) \/ (pc[o] \in {"decide", "rollback"} /\ o \in Batches)
    PROVE  Mends(o) /\ Placed(o)
<1>1. o \in Ops
  BY DEF Ops
<1>2. o \notin Titles \/ o \notin Batches
  BY BatchAssumption
<1> QED
  BY <1>1, <1>2, RepairEffect DEF Mends, Placed, Place, Now, InTask, Rewriting

LEMMA QueueMoves ==
    ASSUME CallsInv, NEW o \in Ops, NEW m \in {"rewrite", "ensure", "title", "close"}, Schedule(o, m),
           pc[o] \in {"idle", "flushing"}, m = "title" => o \in Titles,
           m = "title" => ~Lost,
           pc[o] = "flushing" => /\ o \in Batches /\ batch' = o /\ m = "rewrite"
                                 /\ NoneBetween /\ NoneLags,
           pc[o] = "idle" => batch' = batch /\ (o \in Batches => LockFree /\ m = "ensure")
    PROVE  Queues(o) /\ Placed(o)
BY ScheduleEffect DEF Queues, Placed, Place, Now, InTask, Rewriting

LEMMA TurnMoves ==
    ASSUME CallsInv, PlaceInv, NEW o \in Batches, NEW c \in {"flushing", "rollback"} \union Ended,
           NEW w \in {job[o].behind, tail},
           Now(o, c, job[o].mode, job[o].turn, w),
           \/ pc[o] = "idle" /\ LockFree /\ c = "flushing" /\ UNCHANGED batch
           \/ pc[o] = "flushing" /\ c \in {"rollback", "dropped"} /\ NoneBetween /\ UNCHANGED batch
           \/ pc[o] \in {"decide", "rollback"} /\ c \in Ended /\ batch' = None,
           UNCHANGED <<fresh, tail>>
    PROVE  Turns(o) /\ Placed(o)
<1>1. o \in Ops
  BY DEF Ops
<1> QED
  BY <1>1 DEF Turns, Placed, PlaceInv, Place, Now, InTask, Rewriting, Ended

LEMMA StepMoves ==
    ASSUME ManagerType, CallsInv, PlaceInv, [Next]_vars
    PROVE  Rests \/ Restarts \/ \E o \in Ops : Moved(o) /\ Placed(o)
<1> DEFINE Goal == Rests \/ Restarts \/ \E o \in Ops : Moved(o) /\ Placed(o)
<1>1. \A o \in Ops : pc[o] \in Places /\ Place(o, pc[o], job[o].mode)
  BY DEF CallsInv, PlaceInv
<1>2. ASSUME NEW mem, NEW cur, NEW req, RewriteNow(mem, cur, req),
             UNCHANGED <<calls, batch>>, NoneBetween, SparesBatch
      PROVE  Goal
  BY <1>2 DEF RewriteNow, EpochMoves, Restarts, calls
<1>3. ASSUME NEW e \in Appends, Append(e)
      PROVE  Goal
  BY <1>2, <1>3 DEF Append, SparesBatch, Rests, calls
<1>4. CASE FlushSync
  BY <1>2, <1>4 DEF FlushSync, SparesBatch
<1>5. CASE Seal
  BY <1>5 DEF Seal, EpochMoves, Restarts, calls
<1>6. CASE OwnerChanges \/ UNCHANGED vars \/ \E x \in Foreign : ForeignAppends(x)
  BY <1>6 DEF OwnerChanges, ForeignAppends, vars, calls, queue, Rests
<1>7. ASSUME NEW t \in Titles, TitleSet(t)
      PROVE  Goal
  <2>1. t \in Ops /\ t \notin Batches /\ pc[t] = "idle"
    BY <1>7, BatchAssumption DEF Ops, TitleSet
  <2>2. CASE failure
    <3> DEFINE c == IF failure' THEN "failed" ELSE "done"
    <3>1. pc' = [pc EXCEPT ![t] = c] /\ UNCHANGED <<job, batch>> /\ fresh' = {}
          /\ tail' = NoWork /\ NoneBetween /\ SparesBatch
      BY <1>7, <2>2 DEF TitleSet, RewriteNow, EpochMoves
    <3>2. c \in {"done", "failed"}
      OBVIOUS
    <3> HIDE DEF c
    <3>3. Now(t, c, job[t].mode, job[t].turn, job[t].behind)
      BY <2>1, <3>1, MoveEffect
    <3> QED
      BY <2>1, <3>1, <3>2, <3>3 DEF Restarts
  <2>3. CASE ~failure
    <3> DEFINE m == IF ~current \/ required \/ Lost THEN "rewrite" ELSE "title"
    <3>1. Schedule(t, m) /\ UNCHANGED batch
      BY <1>7, <2>3 DEF TitleSet
    <3>2. m \in {"rewrite", "title"} /\ (m = "title" => ~Lost)
      OBVIOUS
    <3> HIDE DEF m
    <3>3. Queues(t) /\ Placed(t)
      BY <2>1, <3>1, <3>2, QueueMoves
    <3> QED
      BY <2>1, <3>3 DEF Moved
  <2> QED
    BY <2>2, <2>3
<1>8. ASSUME NEW o \in Rewrites \union Closes, Rewrite(o) \/ Close(o)
      PROVE  Goal
  <2>1. o \in Ops /\ o \notin Batches
    BY BatchAssumption DEF Ops
  <2>2. PICK m \in {"rewrite", "close"} : Schedule(o, m) /\ pc[o] = "idle" /\ UNCHANGED batch
    BY <1>8 DEF Rewrite, Close
  <2>3. Queues(o) /\ Placed(o)
    BY <2>1, <2>2, QueueMoves
  <2> QED
    BY <2>1, <2>3 DEF Moved
<1>9. ASSUME NEW b \in Batches, BatchCalled(b)
      PROVE  Goal
  <2>1. b \in Ops /\ pc[b] = "idle" /\ LockFree /\ UNCHANGED batch
    BY <1>9 DEF Ops, BatchCalled
  <2>2. CASE released \/ (current /\ ~required)
    <3> DEFINE j == [job[b] EXCEPT !.behind = tail]
    <3>1. pc' = [pc EXCEPT ![b] = "flushing"] /\ job' = [job EXCEPT ![b] = j]
          /\ UNCHANGED <<tail, fresh>>
      BY <1>9, <2>1, <2>2 DEF BatchCalled, CallsInv
    <3>2. job[b] \in Jobs
      BY <2>1 DEF CallsInv
    <3>3. j.mode = job[b].mode /\ j.turn = job[b].turn /\ j.behind = tail
      BY <3>2 DEF Jobs
    <3> HIDE DEF j
    <3>4. Now(b, "flushing", job[b].mode, job[b].turn, tail)
      BY <2>1, <3>1, <3>3, JobEffect
    <3>5. Turns(b) /\ Placed(b)
      BY <2>1, <3>1, <3>4, TurnMoves
    <3> QED
      BY <2>1, <3>5 DEF Moved
  <2>3. CASE ~(released \/ (current /\ ~required))
    <3>1. Queues(b) /\ Placed(b)
      BY <1>9, <2>1, <2>3, QueueMoves DEF BatchCalled
    <3> QED
      BY <2>1, <3>1 DEF Moved
  <2> QED
    BY <2>2, <2>3
<1>10. ASSUME NEW v \in Recovers, Recover(v)
       PROVE  Goal
  <2>1. v \in Ops /\ Mends(v) /\ Placed(v)
    BY <1>10, RepairMoves DEF Ops, Recover
  <2> QED
    BY <2>1 DEF Moved
<1>11. ASSUME NEW o \in Ops, UNCHANGED <<tail, batch>>, ~Repairs(o),
              Resolves(o) \/ (Rejected(o) /\ (broken \/ ~Busy \/ o \in fresh \/ o \in Titles)),
              pc[o] \in InTask, pc[o] = "queued" => Settled(job[o].behind)
       PROVE  Goal
  BY <1>11, EndMoves DEF Moved
<1>12. ASSUME NEW o \in Ops, pc[o] \in InTask \union {"waiting"},
              pc[o] \in {"queued", "waiting"} => Settled(job[o].behind),
              pc[o] = "queued" => Runs(o), UNCHANGED <<fresh, tail, batch>>,
              NEW c \in Rewriting \union {"marking"}, job[o].mode \notin {"none", "title", "close"},
              c = "marking" => job[o].mode # "repair" /\ pc[o] = "published",
              c # pc[o], c \in {"published", "conflicted", "unwritten"} => ~Busy,
              c \in {"conflicted", "reread", "marking"} => o \in fresh,
              c = "reread" => pc[o] = "conflicted",
              Now(o, c, job[o].mode, job[o].turn, job[o].behind)
       PROVE  Goal
  <2>1. /\ job[o].mode \in {"rewrite", "ensure", "fallback", "repair"}
        /\ job[o].mode = "fallback" => o \in Titles
        /\ job[o].mode = "repair" <=> Repairs(o)
    BY <1>1, <1>12 DEF CallsInv, Jobs, Place, Repairs
  <2>2. Goes(o) /\ Placed(o)
    BY <1>12, <2>1, GoMoves
  <2> QED
    BY <2>2 DEF Moved
<1>13. ASSUME NEW o \in Ops, WorkDropped(o) \/ WorkRefused(o)
       PROVE  Goal
  BY <1>1, <1>11, <1>13 DEF WorkDropped, WorkRefused, Startable, Stale, InTask, Place, Repairs
<1>14. ASSUME NEW o \in Ops, RewriteStarts(o)
       PROVE  Goal
  <2>1. Now(o, "closing", job[o].mode, job[o].turn, job[o].behind)
    BY <1>14, MoveEffect DEF RewriteStarts
  <2> QED
    BY <1>12, <1>14, <2>1 DEF RewriteStarts, Runs, Startable, InTask, Rewriting
<1>15. ASSUME NEW o \in Ops, RepairStarts(o)
       PROVE  Goal
  <2>1. Now(o, "closing", job[o].mode, job[o].turn, job[o].behind)
    BY <1>15, MoveEffect DEF RepairStarts
  <2>2. job[o].mode = "repair"
    BY <1>1, <1>15 DEF RepairStarts, Place
  <2> QED
    BY <1>12, <1>15, <2>1, <2>2 DEF RepairStarts, Rewriting, queue
<1>16. ASSUME NEW o \in Ops, CloseFails(o) \/ Verifies(o) \/ Marks(o)
       PROVE  Goal
  BY <1>1, <1>11, <1>16 DEF CloseFails, Verifies, Marks, InTask, Place, Repairs
<1>17. ASSUME NEW o \in Ops, pc[o] \in Rewriting
       PROVE  /\ pc[o] \in InTask /\ pc[o] \notin {"queued", "waiting"}
              /\ job[o].mode \notin {"none", "title", "close"}
  BY <1>1, <1>17 DEF InTask, Rewriting, Place
<1>18. ASSUME NEW o \in Ops, Serializes(o)
       PROVE  Goal
  <2>1. pc[o] \in Rewriting /\ UNCHANGED <<tail, batch>> /\ pc[o] = "closing"
    BY <1>18 DEF Serializes, Rewriting
  <2>2. CASE ~Repairs(o) /\ Stale(o)
    BY <1>11, <1>17, <1>18, <2>1, <2>2 DEF Serializes, Abandoned
  <2>3. CASE Repairs(o) \/ ~Stale(o)
    <3>1. Now(o, "staging", job[o].mode, job[o].turn, job[o].behind)
      BY <1>18, <2>3, SerializeEffect
    <3>2. UNCHANGED fresh
      BY <1>18, <2>3 DEF Serializes
    <3> QED
      BY <1>12, <1>17, <2>1, <3>1, <3>2 DEF Rewriting
  <2> QED
    BY <2>2, <2>3
<1>19. ASSUME NEW o \in Ops, Publishes(o) \/ Contested(o) \/ Adopts(o)
       PROVE  Goal
  <2>1. pc[o] \in Rewriting /\ UNCHANGED <<tail, fresh, batch, job>>
    BY <1>19 DEF Publishes, Contested, Adopts, Rewriting, queue
  <2>2. PICK c \in Rewriting :
           /\ pc' = [pc EXCEPT ![o] = c]
           /\ c \in {"closing", "published", "conflicted", "unwritten"} /\ c # pc[o]
           /\ c \in {"published", "conflicted", "unwritten"} => ~Busy
           /\ c = "conflicted" => o \in fresh
    BY <1>19 DEF Publishes, Contested, Adopts, Retries, Rewriting, Stale
  <2>3. Now(o, c, job[o].mode, job[o].turn, job[o].behind)
    BY <2>1, <2>2, MoveEffect
  <2>4. pc[o] \in InTask \union {"waiting"} /\ pc[o] \notin {"queued", "waiting"}
        /\ job[o].mode \notin {"none", "title", "close"} /\ c \in Rewriting \union {"marking"}
        /\ c \notin {"reread", "marking"}
    BY <1>17, <2>1, <2>2
  <2> QED
    BY <1>12, <2>1, <2>2, <2>3, <2>4
<1>20. ASSUME NEW o \in Ops, ReadsBack(o)
       PROVE  Goal
  <2>1. pc[o] \in Rewriting /\ UNCHANGED <<tail, fresh, batch>>
    BY <1>20 DEF ReadsBack, Rewriting, queue
  <2>2. PICK c \in {"closing", "reread"} :
           /\ Now(o, c, job[o].mode, job[o].turn, job[o].behind)
           /\ c = "reread" => o \in fresh /\ pc[o] = "conflicted"
           /\ c # pc[o]
    BY <1>20, ReadEffect DEF ReadsBack, Superseded, Stale
  <2> QED
    BY <1>12, <1>17, <2>1, <2>2 DEF Rewriting
<1>21. ASSUME NEW o \in Ops, Recorded(o)
       PROVE  Goal
  <2>1. pc[o] \in Rewriting /\ UNCHANGED <<tail, batch>> /\ ~Repairs(o)
    BY <1>21 DEF Recorded, Rewriting, Repairs
  <2>2. CASE Stale(o)
    BY <1>11, <1>17, <1>21, <2>1, <2>2 DEF Recorded, Abandoned
  <2>3. CASE ~Stale(o)
    <3>1. UNCHANGED <<fresh, job>> /\ o \in fresh /\ pc[o] = "published"
      BY <1>21, <2>3 DEF Recorded, Stale
    <3>2. PICK c \in {"closing", "marking"} : pc' = [pc EXCEPT ![o] = c]
      BY <1>21, <2>3 DEF Recorded, Retries
    <3>3. Now(o, c, job[o].mode, job[o].turn, job[o].behind)
      BY <3>1, <3>2, MoveEffect
    <3>4. pc[o] \in InTask \union {"waiting"} /\ pc[o] \notin {"queued", "waiting"}
          /\ job[o].mode \notin {"none", "title", "close"} /\ c \in Rewriting \union {"marking"}
          /\ job[o].mode # "repair" /\ c \notin {"published", "conflicted", "reread", "unwritten"}
      BY <1>17, <2>1 DEF Rewriting, Repairs
    <3> QED
      BY <1>12, <2>1, <3>1, <3>3, <3>4
  <2> QED
    BY <2>2, <2>3
<1>22. ASSUME NEW o \in Ops, RepairRecorded(o)
       PROVE  Goal
  <2>1. pc[o] \in Rewriting /\ UNCHANGED tail /\ Repairs(o) /\ pc[o] # "closing"
    BY <1>22 DEF RepairRecorded, Rewriting
  <2>2. CASE MoreToWrite
    <3>1. pc' = [pc EXCEPT ![o] = "closing"] /\ UNCHANGED <<fresh, batch, job>>
      BY <1>22, <2>2 DEF RepairRecorded
    <3>2. Now(o, "closing", job[o].mode, job[o].turn, job[o].behind)
      BY <3>1, MoveEffect
    <3> QED
      BY <1>12, <1>17, <2>1, <3>1, <3>2 DEF Rewriting
  <2>3. CASE ~MoreToWrite
    <3> DEFINE c == IF o \in Batches THEN "refused" ELSE "done"
    <3>1. /\ pc' = [pc EXCEPT ![o] = c] /\ job' = [job EXCEPT ![o] = NoJob]
          /\ fresh' = fresh \ {o} /\ batch' = IF batch = o THEN None ELSE batch
      BY <1>22, <2>3 DEF RepairRecorded
    <3>2. c \in Ended
      BY DEF Ended
    <3> HIDE DEF c
    <3>3. pc[o] \in InTask /\ pc[o] # "queued"
          /\ batch' = IF batch = o /\ Repairs(o) THEN None ELSE batch
      BY <1>17, <2>1, <3>1
    <3> QED
      BY <2>1, <3>1, <3>2, <3>3, OverMoves DEF Moved
  <2> QED
    BY <2>2, <2>3
<1>23. ASSUME NEW o \in Ops, RepairFails(o)
       PROVE  Goal
  <2>1. /\ pc[o] \in InTask /\ pc[o] # "queued" /\ UNCHANGED tail /\ fresh' = fresh \ {o}
        /\ pc' = [pc EXCEPT ![o] = "indeterminate"] /\ job' = [job EXCEPT ![o] = NoJob]
        /\ Repairs(o) /\ batch' = IF batch = o THEN None ELSE batch
    BY <1>23 DEF RepairFails, InTask
  <2>2. "indeterminate" \in Ended
    BY DEF Ended
  <2> QED
    BY <2>1, <2>2, OverMoves DEF Moved
<1>24. ASSUME NEW o \in Ops, CloseRuns(o)
       PROVE  Goal
  <2> DEFINE c == IF broken \/ failure THEN "failed" ELSE "done"
  <2>1. /\ pc[o] \in InTask /\ UNCHANGED <<tail, batch>> /\ fresh' = fresh \ {o} /\ Settled(job[o].behind)
        /\ o \notin Batches /\ ~Repairs(o)
        /\ pc' = [pc EXCEPT ![o] = c] /\ job' = [job EXCEPT ![o] = NoJob]
    BY <1>1, <1>24 DEF CloseRuns, Startable, InTask, Place, Repairs
  <2>2. c \in Ended
    BY DEF Ended
  <2> HIDE DEF c
  <2> QED
    BY <2>1, <2>2, OverMoves DEF Moved
<1>25. ASSUME NEW o \in Titles, TitleAppends(o)
       PROVE  Goal
  <2>1. /\ o \in Ops /\ pc[o] = "queued" /\ Settled(job[o].behind) /\ Runs(o)
        /\ job[o].mode = "title" /\ UNCHANGED <<tail, batch>> /\ o \notin Batches /\ o \in fresh
    BY <1>25, BatchAssumption DEF TitleAppends, Ops, Runs, Startable, Stale
  <2>2. CASE Rejected(o)
    BY <1>11, <2>1, <2>2 DEF InTask, Repairs
  <2>3. CASE pc' = [pc EXCEPT ![o] = "titling"] /\ UNCHANGED <<fresh, job>>
    <3>1. Now(o, "titling", job[o].mode, job[o].turn, job[o].behind)
      BY <2>1, <2>3, MoveEffect
    <3>2. Goes(o)
      <4>1. "titling" \in Active /\ "title" \in Modes /\ ~Repairs(o)
            /\ pc'[o] = "titling" /\ job'[o].mode = "title"
        BY <2>1, <3>1 DEF Active, InTask, Modes, Repairs, Now
      <4> QED
        BY <2>1, <2>3, <3>1, <4>1 DEF Goes, InTask
    <3>3. Placed(o)
      BY <1>1, <2>1, <3>1 DEF Placed, Place, Now, Rewriting, InTask
    <3> QED
      BY <2>1, <3>2, <3>3 DEF Moved
  <2> QED
    BY <1>25, <2>2, <2>3 DEF TitleAppends
<1>26. ASSUME NEW o \in Titles, TitleSlot(o)
       PROVE  Goal
  <2>1. o \in Ops /\ o \notin Batches /\ pc[o] = "titling" /\ job[o].mode = "title" /\ UNCHANGED <<tail, batch>>
    BY <1>1, <1>26, BatchAssumption DEF TitleSlot, Ops, Place
  <2>2. CASE Resolves(o) \/ Rejected(o)
    BY <1>11, <2>1, <2>2 DEF InTask, Repairs
  <2>3. CASE /\ pc' = [pc EXCEPT ![o] = "closing"] /\ UNCHANGED fresh
             /\ job' = [job EXCEPT ![o].mode = "fallback"]
    <3>1. Now(o, "closing", "fallback", job[o].turn, job[o].behind)
      BY <2>1, <2>3, FallBackEffect
    <3>2. Goes(o) /\ Placed(o)
      BY <2>1, <2>3, <3>1, GoMoves DEF Rewriting, Repairs, InTask
    <3> QED
      BY <2>1, <3>2 DEF Moved
  <2> QED
    BY <1>26, <2>2, <2>3 DEF TitleSlot
<1>27. ASSUME NEW b \in Batches, BatchStaged(b)
       PROVE  Goal
  <2>1. b \in Ops /\ pc[b] = "flushing"
    BY <1>27 DEF BatchStaged, Ops
  <2>2. ASSUME NEW c \in {"rollback", "dropped"}, pc' = [pc EXCEPT ![b] = c], NoneBetween,
               UNCHANGED <<job, batch, tail, fresh>>
        PROVE  Goal
    <3>1. Now(b, c, job[b].mode, job[b].turn, job[b].behind)
      BY <2>1, <2>2, MoveEffect
    <3>2. Turns(b) /\ Placed(b)
      BY <2>1, <2>2, <3>1, TurnMoves DEF Ended
    <3> QED
      BY <2>1, <3>2 DEF Moved
  <2>3. CASE Schedule(b, "rewrite") /\ batch' = b /\ NoneBetween /\ NoneLags
    <3>1. Queues(b) /\ Placed(b)
      BY <2>1, <2>3, BatchAssumption, QueueMoves
    <3> QED
      BY <2>1, <3>1 DEF Moved
  <2> QED
    BY <1>27, <2>2, <2>3 DEF BatchStaged
<1>28. ASSUME NEW b \in Batches, NEW c \in {"committed", "unrepaired"},
              pc[b] \in {"decide", "rollback"},
              pc' = [pc EXCEPT ![b] = c], UNCHANGED <<job, tail, fresh>>, batch' = None
       PROVE  Goal
  <2>1. b \in Ops
    BY DEF Ops
  <2>2. Now(b, c, job[b].mode, job[b].turn, job[b].behind)
    BY <1>28, <2>1, MoveEffect
  <2>3. Turns(b) /\ Placed(b)
    BY <1>28, <2>1, <2>2, TurnMoves DEF Ended
  <2> QED
    BY <2>1, <2>3 DEF Moved
<1>29. ASSUME NEW b \in Batches, BatchCommits(b)
       PROVE  Goal
  BY <1>28, <1>29 DEF BatchCommits
<1>30. ASSUME NEW b \in Batches, BatchRollsBack(b)
       PROVE  Goal
  <2>1. CASE released
    BY <1>28, <1>30, <2>1 DEF BatchRollsBack
  <2>2. CASE ~released
    <3>1. b \in Ops /\ Mends(b) /\ Placed(b)
      BY <1>30, <2>2, RepairMoves DEF BatchRollsBack, Ops
    <3> QED
      BY <3>1 DEF Moved
  <2> QED
    BY <2>1, <2>2
<1>31. ASSUME NEW o \in Ops, Continues(o)
       PROVE  Goal
  BY <1>13, <1>14, <1>15, <1>16, <1>18, <1>19, <1>20, <1>21, <1>22, <1>23, <1>24, <1>25,
     <1>26, <1>27, <1>29, <1>30, <1>31 DEF Continues
<1> QED
  BY <1>3, <1>4, <1>5, <1>6, <1>7, <1>8, <1>9, <1>10, <1>31 DEF Next

LEMMA PlaceStep ==
    ASSUME ManagerType, CallsInv, PlaceInv, [Next]_vars
    PROVE  PlaceInv'
<1>1. \A q \in Ops : /\ Place(q, pc[q], job[q].mode)
                     /\ q \in fresh => pc[q] \in InTask \union {"waiting"}
  BY DEF PlaceInv
<1>2. CASE Rests
  BY <1>1, <1>2 DEF PlaceInv, Rests
<1>3. CASE Restarts
  <2>1. CASE UNCHANGED pc
    BY <1>1, <1>3, <2>1 DEF PlaceInv, Restarts
  <2>2. ASSUME NEW t \in Titles, NEW c \in {"done", "failed"}, pc[t] = "idle",
               Now(t, c, job[t].mode, job[t].turn, job[t].behind)
        PROVE  PlaceInv'
    <3>1. t \in Ops
      BY DEF Ops
    <3>2. Place(t, c, job[t].mode)
      BY <1>1, <2>2, <3>1 DEF Place, InTask, Rewriting
    <3>3. fresh' = {} /\ pc'[t] = c /\ job'[t].mode = job[t].mode /\ OthersStay(t)
      BY <1>3, <2>2 DEF Restarts, Now
    <3> QED
      BY <1>1, <3>1, <3>2, <3>3 DEF PlaceInv, OthersStay
  <2> QED
    BY <1>3, <2>1, <2>2 DEF Restarts
<1>4. ASSUME NEW o \in Ops, Moved(o), Placed(o)
      PROVE  PlaceInv'
  <2>1. OthersStay(o)
    BY <1>4 DEF Moved, Queues, Goes, Ends, Turns, Mends, Now
  <2>2. fresh' \subseteq fresh \union {o}
    BY <1>4 DEF Moved, Queues, Goes, Ends, Turns, Mends
  <2>3. o \in fresh' => pc'[o] \in InTask \union {"waiting"}
    <3>1. CASE Queues(o) \/ Goes(o) \/ Mends(o)
      BY <3>1 DEF Queues, Goes, Mends, Now, InTask, Active
    <3>2. CASE Ends(o)
      BY <3>2 DEF Ends
    <3>3. CASE Turns(o)
      BY <1>1, <3>3 DEF Turns, InTask
    <3> QED
      BY <1>4, <3>1, <3>2, <3>3 DEF Moved
  <2> QED
    BY <1>1, <1>4, <2>1, <2>2, <2>3 DEF PlaceInv, OthersStay, Placed
<1> QED
  BY <1>2, <1>3, <1>4, StepMoves

-----------------------------------------------------------------------------
(* Works, and when they are settled *)

\* The call has queued at least as often, or is over.
Counted(w) ==
    w # NoWork => w[2] <= job[w[1]].turn \/ pc[w[1]] \in Ended

CountedInv == Counted(tail) /\ \A o \in Ops : Counted(job[o].behind)

LEMMA WorkParts ==
    ASSUME NEW w \in Works, w # NoWork
    PROVE  w[1] \in Ops /\ w[2] \in 0 .. 2
BY DEF Works

LEMMA SettledStays ==
    ASSUME ManagerType, CallsInv, PlaceInv, [Next]_vars, NEW w \in Works, Counted(w)
    PROVE  Counted(w)' /\ (Settled(w) => Settled(w)')
<1>1. CASE w = NoWork
  BY <1>1 DEF Counted, Settled
<1>2. CASE w # NoWork
  <2> DEFINE q == w[1]
             n == w[2]
  <2>1. q \in Ops /\ n \in 0 .. 2
    BY <1>2, WorkParts
  <2> HIDE DEF q, n
  <2>2. n <= job[q].turn \/ pc[q] \in Ended
    BY <1>2 DEF Counted, q, n
  <2>3. job[q].turn \in 0 .. 2 /\ Place(q, pc[q], job[q].mode)
    BY <2>1 DEF CallsInv, Jobs, PlaceInv
  <2> DEFINE Kept == n <= job'[q].turn \/ pc'[q] \in Ended
             Over(c, j) == j.turn > n \/ j.mode = "repair" \/ c \notin InTask
  <2>4. Kept /\ (Over(pc[q], job[q]) => Over(pc'[q], job'[q]))
    <3>1. CASE pc'[q] = pc[q] /\ job'[q] = job[q]
      BY <2>2, <3>1
    <3>2. CASE Restarts
      BY <2>1, <2>2, <3>1, <3>2 DEF Restarts, Now, OthersStay, Ended, InTask
    <3>3. CASE Queues(q)
      <4>1. pc[q] \notin Ended /\ job'[q].turn = job[q].turn + 1
        BY <3>3 DEF Queues, Now, Ended
      <4> QED
        BY <2>1, <2>2, <2>3, <4>1
    <3>4. CASE Goes(q)
      <4>1. /\ job'[q].turn = job[q].turn /\ pc[q] \notin Ended
            /\ job'[q].mode = "repair" <=> job[q].mode = "repair"
            /\ pc[q] \in InTask \/ job[q].mode = "repair"
        BY <2>3, <3>4 DEF Goes, Now, Ended, InTask, Repairs, Place
      <4> QED
        BY <2>2, <4>1
    <3>5. CASE Ends(q)
      <4>1. pc[q] \notin Ended /\ pc'[q] \notin InTask
            /\ (job'[q].turn = job[q].turn \/ pc'[q] \in Ended)
        BY <3>5 DEF Ends, Now, Ended, InTask
      <4> QED
        BY <2>2, <4>1
    <3>6. CASE Turns(q)
      <4>1. pc[q] \notin Ended /\ pc'[q] \notin InTask /\ job'[q].turn = job[q].turn
        BY <3>6 DEF Turns, Now, Ended, InTask
      <4> QED
        BY <2>2, <4>1
    <3>7. CASE Mends(q)
      <4>1. pc[q] \notin Ended /\ pc'[q] \notin InTask /\ job'[q].turn = job[q].turn
        BY <3>7 DEF Mends, Now, Ended, InTask
      <4> QED
        BY <2>2, <4>1
    <3>8. ASSUME NEW o \in Ops, Moved(o), o # q
          PROVE  pc'[q] = pc[q] /\ job'[q] = job[q]
      BY <2>1, <3>8 DEF Moved, Queues, Goes, Ends, Turns, Mends, Now, OthersStay
    <3>9. CASE Moved(q)
      BY <3>3, <3>4, <3>5, <3>6, <3>7, <3>9 DEF Moved
    <3>10. CASE Rests
      BY <3>1, <3>10 DEF Rests
    <3>11. ASSUME NEW o \in Ops, Moved(o)
           PROVE  (pc'[q] = pc[q] /\ job'[q] = job[q]) \/ Moved(q)
      BY <3>8, <3>11
    <3> QED
      BY StepMoves, <3>1, <3>2, <3>9, <3>10, <3>11
  <2> QED
    BY <1>2, <2>4 DEF Counted, Settled, q, n
<1> QED
  BY <1>1, <1>2

LEMMA CountedStep ==
    ASSUME ManagerType, CallsInv, PlaceInv, CountedInv, [Next]_vars
    PROVE  CountedInv'
<1>1. tail \in Works /\ \A o \in Ops : job[o].behind \in Works /\ job[o].turn \in 0 .. 2
  BY DEF ManagerType, CallsInv, Jobs, Works, NoWork
<1>2. ASSUME NEW w \in Works, w = NoWork \/ w = tail \/ \E o \in Ops : w = job[o].behind
      PROVE  Counted(w)'
  <2>1. Counted(w)
    BY <1>2 DEF CountedInv, Counted
  <2> QED
    BY <2>1, SettledStays
<1>3. ASSUME NEW q \in Ops
      PROVE  job'[q].behind \in {job[q].behind, tail, NoWork}
  <2>1. ASSUME NEW o \in Ops, Moved(o)
        PROVE  job'[q].behind \in {job[q].behind, tail, NoWork}
    <3>1. CASE o = q
      BY <2>1, <3>1 DEF Moved, Queues, Goes, Ends, Turns, Mends, Now
    <3>2. CASE o # q
      BY <2>1, <3>2 DEF Moved, Queues, Goes, Ends, Turns, Mends, Now, OthersStay
    <3> QED
      BY <3>1, <3>2
  <2> QED
    BY StepMoves, <2>1 DEF Rests, Restarts
<1>4. tail' \in {tail, NoWork} \/ \E o \in Ops : Queues(o)
  BY StepMoves DEF Rests, Restarts, Moved, Goes, Ends, Turns, Mends
<1>5. Counted(tail)'
  <2>1. ASSUME NEW o \in Ops, Queues(o)
        PROVE  Counted(tail)'
    <3>1. tail' = <<o, job[o].turn + 1>> /\ job'[o].turn = job[o].turn + 1
      BY <2>1 DEF Queues, Now
    <3> QED
      BY <1>1, <3>1 DEF Counted
  <2>2. CASE tail' \in {tail, NoWork}
    <3>1. NoWork \in Works
      BY DEF Works
    <3> QED
      BY <1>1, <1>2, <2>2, <3>1 DEF Counted
  <2> QED
    BY <1>4, <2>1, <2>2
<1>6. ASSUME NEW q \in Ops
      PROVE  Counted(job[q].behind)'
  <2>1. NoWork \in Works
    BY DEF Works
  <2> QED
    BY <1>1, <1>2, <1>3, <2>1 DEF Counted
<1> QED
  BY <1>5, <1>6 DEF CountedInv

-----------------------------------------------------------------------------
(* The line: work that is not superseded, in the order in which it queued *)

WorkOf(o) == <<o, job[o].turn>>
Line == {o \in fresh : ~Repairs(o)}

\* Those in the line are c[lo + 1], ..., c[hi].
Chained(c, lo, hi) ==
    /\ lo <= hi
    /\ \A i \in Nat : lo < i /\ i <= hi => c[i] \in Line
    /\ \A o \in Line : \E i \in Nat : lo < i /\ i <= hi /\ c[i] = o
    /\ \A i, j \in Nat : lo < i /\ i <= hi /\ lo < j /\ j <= hi /\ c[i] = c[j] => i = j
    /\ lo < hi => Settled(job[c[lo + 1]].behind) /\ tail = WorkOf(c[hi])
    /\ \A i \in Nat : lo < i /\ i < hi => job[c[i + 1]].behind = WorkOf(c[i])
    /\ lo = hi => Settled(tail)

ChainInv == \E c \in [Nat -> Ops \union {None}], lo, hi \in Nat : Chained(c, lo, hi)

\* What has begun has waited.
BegunInv ==
    \A o \in fresh : pc[o] \in Active /\ ~Repairs(o) => Settled(job[o].behind)

LEMMA Unsettled ==
    ASSUME ManagerType, CallsInv, PlaceInv, NEW o \in Line
    PROVE  o \in Ops /\ ~Settled(WorkOf(o)) /\ WorkOf(o) # NoWork
<1>1. o \in Ops /\ o # None /\ job[o].turn \in 0 .. 2
  BY NoneAssumption DEF Line, ManagerType, CallsInv, Jobs
<1>2. pc[o] \in InTask /\ job[o].mode # "repair"
  BY <1>1 DEF PlaceInv, Place, Line, Repairs
<1> QED
  BY <1>1, <1>2 DEF Settled, WorkOf, NoWork

LEMMA FirstOnly ==
    ASSUME ManagerType, CallsInv, PlaceInv,
           NEW c, NEW lo \in Nat, NEW hi \in Nat, Chained(c, lo, hi),
           NEW o \in Line, Settled(job[o].behind)
    PROVE  lo < hi /\ o = c[lo + 1]
<1>1. o \in Ops
  BY Unsettled
<1>2. PICK i \in Nat : lo < i /\ i <= hi /\ c[i] = o
  BY <1>1 DEF Chained
<1>3. CASE i = lo + 1
  BY <1>2, <1>3
<1>4. CASE i # lo + 1
  <2>1. PICK k \in Nat : lo < k /\ k < hi /\ i = k + 1
    <3>1. i - 1 \in Nat /\ lo < i - 1 /\ i - 1 < hi /\ i = (i - 1) + 1
      BY <1>2, <1>4
    <3> QED
      BY <3>1
  <2>2. job[o].behind = WorkOf(c[k])
    BY <1>2, <2>1 DEF Chained
  <2>3. c[k] \in Line
    BY <2>1 DEF Chained
  <2> QED
    BY <2>2, <2>3, Unsettled
<1> QED
  BY <1>3, <1>4

\* Below: what a step does to the line.
LineKept ==
    /\ Line' = Line /\ UNCHANGED tail
    /\ \A q \in Line : job'[q].turn = job[q].turn /\ job'[q].behind = job[q].behind

LEMMA SettledBehind ==
    ASSUME ManagerType, CallsInv, PlaceInv, CountedInv, [Next]_vars
    PROVE  /\ Settled(tail) => (\A w : w = tail => Settled(w)')
           /\ \A q \in Ops : Settled(job[q].behind) =>
                 (\A w : w = job[q].behind => Settled(w)')
<1>1. tail \in Works /\ \A o \in Ops : job[o].behind \in Works
  BY DEF ManagerType, CallsInv, Jobs, Works, NoWork
<1>2. Settled(tail) => (\A w : w = tail => Settled(w)')
  BY <1>1, SettledStays DEF CountedInv
<1>3. ASSUME NEW q \in Ops, Settled(job[q].behind), NEW w, w = job[q].behind
      PROVE  Settled(w)'
  BY <1>1, <1>3, SettledStays DEF CountedInv
<1> QED
  BY <1>2, <1>3

LEMMA LineStays ==
    ASSUME ManagerType, CallsInv, PlaceInv, CountedInv, [Next]_vars,
           ChainInv, LineKept
    PROVE  ChainInv'
<1> PICK c \in [Nat -> Ops \union {None}], lo \in Nat, hi \in Nat : Chained(c, lo, hi)
  BY DEF ChainInv
<1>1. \A i \in Nat : lo < i /\ i <= hi => c[i] \in Line'
  BY DEF Chained, LineKept
<1>2. \A o \in Line' : \E i \in Nat : lo < i /\ i <= hi /\ c[i] = o
  BY DEF Chained, LineKept
<1>3. lo <= hi /\ \A i, j \in Nat : lo < i /\ i <= hi /\ lo < j /\ j <= hi /\ c[i] = c[j] => i = j
  BY DEF Chained
<1>4. \A q \in Line : q \in Ops /\ WorkOf(q)' = WorkOf(q) /\ job'[q].behind = job[q].behind
  BY DEF LineKept, WorkOf, ManagerType, Line
<1>5. lo < hi => Settled(job[c[lo + 1]].behind)' /\ tail' = WorkOf(c[hi])'
  <2> SUFFICES ASSUME lo < hi PROVE Settled(job[c[lo + 1]].behind)' /\ tail' = WorkOf(c[hi])'
    OBVIOUS
  <2>1. lo + 1 \in Nat /\ lo < lo + 1 /\ lo + 1 <= hi /\ lo < hi /\ hi <= hi
    OBVIOUS
  <2>2. c[lo + 1] \in Line /\ c[hi] \in Line
    BY <2>1 DEF Chained
  <2>3. Settled(job[c[lo + 1]].behind) /\ tail = WorkOf(c[hi])
    BY DEF Chained
  <2>4. \A w : w = job[c[lo + 1]].behind => Settled(w)'
    BY <1>4, <2>2, <2>3, SettledBehind
  <2>5. Settled(job[c[lo + 1]].behind)'
    BY <1>4, <2>2, <2>4
  <2> QED
    BY <1>4, <2>2, <2>3, <2>5 DEF LineKept
<1>6. ASSUME NEW i \in Nat, lo < i, i < hi
      PROVE  job[c[i + 1]].behind' = WorkOf(c[i])'
  <2>1. i + 1 \in Nat /\ lo < i + 1 /\ i + 1 <= hi /\ i <= hi
    BY <1>6
  <2>2. c[i] \in Line /\ c[i + 1] \in Line
    BY <1>6, <2>1 DEF Chained
  <2>3. job[c[i + 1]].behind = WorkOf(c[i])
    BY <1>6 DEF Chained
  <2> QED
    BY <1>4, <2>2, <2>3
<1>7. lo = hi => Settled(tail)'
  BY SettledBehind DEF Chained, LineKept
<1>8. Chained(c, lo, hi)'
  BY <1>1, <1>2, <1>3, <1>5, <1>6, <1>7 DEF Chained
<1> QED
  BY <1>8 DEF ChainInv

LEMMA LineEmpty ==
    ASSUME Line' = {}, Settled(tail)'
    PROVE  ChainInv'
<1> DEFINE c == [i \in Nat |-> None]
<1>1. Chained(c, 0, 0)'
  BY DEF Chained
<1> QED
  BY <1>1 DEF ChainInv

LEMMA LineGrows ==
    ASSUME ManagerType, CallsInv, PlaceInv, CountedInv, [Next]_vars,
           ChainInv, NEW o \in Ops, Queues(o)
    PROVE  ChainInv'
<1> PICK c \in [Nat -> Ops \union {None}], lo \in Nat, hi \in Nat : Chained(c, lo, hi)
  BY DEF ChainInv
<1> DEFINE d == [c EXCEPT ![hi + 1] = o]
<1>1. d \in [Nat -> Ops \union {None}] /\ d[hi + 1] = o /\ \A i \in Nat : i <= hi => d[i] = c[i]
  OBVIOUS
<1>2. OthersStay(o) /\ o \notin Line /\ Line \subseteq Ops
  <2>1. o \notin fresh
    BY DEF Queues, PlaceInv, InTask
  <2> QED
    BY <2>1 DEF Queues, Now, Line, ManagerType
<1>3. /\ job'[o].mode # "repair" /\ job'[o].turn = job[o].turn + 1 /\ job'[o].behind = tail
      /\ tail' = WorkOf(o)' /\ fresh' = fresh \union {o}
  BY DEF Queues, Now, WorkOf
<1>4. Line' = Line \union {o}
  <2>1. \A q \in Ops : q # o => (Repairs(q)' <=> Repairs(q))
    BY <1>2 DEF OthersStay, Repairs
  <2>2. ~Repairs(o)'
    BY <1>3 DEF Repairs
  <2> QED
    BY <1>2, <1>3, <2>1, <2>2 DEF Line, ManagerType
<1>5. \A q \in Line : WorkOf(q)' = WorkOf(q) /\ job'[q].behind = job[q].behind
  BY <1>2 DEF OthersStay, WorkOf
<1> HIDE DEF d
<1>6. \A i \in Nat : lo < i /\ i <= hi => d[i] \in Line /\ d[i] = c[i]
  BY <1>1 DEF Chained
<1>7. \A i \in Nat : i <= hi + 1 => i <= hi \/ i = hi + 1
  OBVIOUS
<1>8. lo <= hi /\ hi + 1 \in Nat /\ lo < hi + 1
  BY DEF Chained
<1>9. \A i \in Nat : lo < i /\ i <= hi + 1 => d[i] \in Line'
  BY <1>1, <1>4, <1>6, <1>7
<1>10. \A q \in Line' : \E i \in Nat : lo < i /\ i <= hi + 1 /\ d[i] = q
  <2>1. ASSUME NEW q \in Line
        PROVE  \E i \in Nat : lo < i /\ i <= hi + 1 /\ d[i] = q
    <3>1. PICK i \in Nat : lo < i /\ i <= hi /\ c[i] = q
      BY DEF Chained
    <3>2. i <= hi + 1 /\ d[i] = q
      BY <1>1, <3>1
    <3> QED
      BY <3>1, <3>2
  <2> QED
    BY <1>1, <1>4, <1>8, <2>1
<1>11. ASSUME NEW i \in Nat, NEW j \in Nat, lo < i, i <= hi + 1, lo < j, j <= hi + 1, d[i] = d[j]
       PROVE  i = j
  <2>1. CASE i <= hi /\ j <= hi
    BY <1>6, <1>11, <2>1 DEF Chained
  <2>2. CASE i = hi + 1 \/ j = hi + 1
    BY <1>1, <1>2, <1>6, <1>7, <1>11, <2>2
  <2> QED
    BY <1>7, <1>11, <2>1, <2>2
<1>12. Settled(job[d[lo + 1]].behind)' /\ tail' = WorkOf(d[hi + 1])'
  <2>1. CASE lo < hi
    <3>1. lo + 1 \in Nat /\ lo < lo + 1 /\ lo + 1 <= hi
      BY <2>1
    <3>2. d[lo + 1] \in Line /\ d[lo + 1] = c[lo + 1]
      BY <1>6, <3>1
    <3>3. Settled(job[c[lo + 1]].behind)
      BY <2>1 DEF Chained
    <3>4. \A w : w = job[c[lo + 1]].behind => Settled(w)'
      BY <1>2, <3>2, <3>3, SettledBehind
    <3>5. Settled(job[d[lo + 1]].behind)'
      BY <1>5, <3>2, <3>4
    <3> QED
      BY <1>1, <1>3, <3>5
  <2>2. CASE lo = hi
    <3>1. Settled(tail) /\ d[lo + 1] = o
      BY <1>1, <2>2 DEF Chained
    <3>2. \A w : w = tail => Settled(w)'
      BY <3>1, SettledBehind
    <3> QED
      BY <1>1, <1>3, <3>1, <3>2
  <2> QED
    BY <1>8, <2>1, <2>2
<1>13. ASSUME NEW i \in Nat, lo < i, i < hi + 1
       PROVE  job[d[i + 1]].behind' = WorkOf(d[i])'
  <2>1. i <= hi /\ i + 1 \in Nat
    BY <1>13
  <2>2. d[i] \in Line /\ d[i] = c[i]
    BY <1>6, <1>13, <2>1
  <2>3. CASE i < hi
    <3>1. lo < i + 1 /\ i + 1 <= hi
      BY <1>13, <2>3
    <3>2. d[i + 1] \in Line /\ d[i + 1] = c[i + 1]
      BY <1>6, <2>1, <3>1
    <3>3. job[c[i + 1]].behind = WorkOf(c[i])
      BY <1>13, <2>3 DEF Chained
    <3> QED
      BY <1>5, <2>2, <3>2, <3>3
  <2>4. CASE i = hi
    <3>1. lo < hi /\ tail = WorkOf(c[hi])
      BY <1>13, <2>4 DEF Chained
    <3>2. d[i + 1] = o
      BY <1>1, <2>4
    <3> QED
      BY <1>3, <1>5, <2>2, <2>4, <3>1, <3>2
  <2> QED
    BY <2>1, <2>3, <2>4
<1>14. Chained(d, lo, hi + 1)'
  BY <1>8, <1>9, <1>10, <1>11, <1>12, <1>13 DEF Chained
<1> QED
  BY <1>1, <1>8, <1>14 DEF ChainInv

LEMMA LineAdvances ==
    ASSUME ManagerType, CallsInv, PlaceInv, CountedInv, [Next]_vars,
           ChainInv, NEW o \in Line, Settled(job[o].behind), Ends(o)
    PROVE  ChainInv'
<1> PICK c \in [Nat -> Ops \union {None}], lo \in Nat, hi \in Nat : Chained(c, lo, hi)
  BY DEF ChainInv
<1>1. lo < hi /\ o = c[lo + 1] /\ o \in Ops
  BY FirstOnly, Unsettled
<1> DEFINE lq == lo + 1
<1>2. lq \in Nat /\ lq <= hi /\ lo < lq /\ o = c[lq]
  BY <1>1
<1>3. \A i \in Nat : lq < i => lo < i /\ i # lq
  OBVIOUS
<1> HIDE DEF lq
<1>4. /\ OthersStay(o) /\ pc'[o] \notin InTask /\ job'[o].mode = "none" /\ fresh' = fresh \ {o}
      /\ UNCHANGED tail
  BY DEF Ends, Now, Ended, InTask
<1>5. Line' = Line \ {o}
  <2>1. \A q \in Ops : q # o => (Repairs(q)' <=> Repairs(q))
    BY <1>4 DEF OthersStay, Repairs
  <2> QED
    BY <1>4, <2>1 DEF Line, ManagerType
<1>6. \A q \in Line : q # o => WorkOf(q)' = WorkOf(q) /\ job'[q].behind = job[q].behind /\ q \in Ops
  BY <1>4 DEF OthersStay, WorkOf, Line, ManagerType
<1>7. ASSUME NEW i \in Nat, lq < i, i <= hi
      PROVE  c[i] \in Line /\ c[i] # o
  BY <1>2, <1>3, <1>7 DEF Chained
<1>8. ASSUME NEW q \in Line'
      PROVE  \E i \in Nat : lq < i /\ i <= hi /\ c[i] = q
  <2>1. PICK i \in Nat : lo < i /\ i <= hi /\ c[i] = q
    BY <1>5 DEF Chained
  <2>2. i # lq
    BY <1>2, <1>5, <2>1
  <2>3. lq < i
    BY <2>1, <2>2 DEF lq
  <2> QED
    BY <2>1, <2>3
<1>9. \A i, j \in Nat : lq < i /\ i <= hi /\ lq < j /\ j <= hi /\ c[i] = c[j] => i = j
  BY <1>3 DEF Chained
<1>10. \A w : w = WorkOf(o) => Settled(w)'
  BY <1>4 DEF Settled, WorkOf
<1>11. lq < hi => Settled(job[c[lq + 1]].behind)' /\ tail' = WorkOf(c[hi])'
  <2> SUFFICES ASSUME lq < hi PROVE Settled(job[c[lq + 1]].behind)' /\ tail' = WorkOf(c[hi])'
    OBVIOUS
  <2>1. lq + 1 \in Nat /\ lq < lq + 1 /\ lq + 1 <= hi /\ hi <= hi
    BY <1>2
  <2>2. c[lq + 1] \in Line /\ c[lq + 1] # o /\ c[hi] \in Line /\ c[hi] # o
    BY <1>7, <2>1
  <2>3. job[c[lq + 1]].behind = WorkOf(o) /\ tail = WorkOf(c[hi])
    BY <1>1, <1>2 DEF Chained
  <2> QED
    BY <1>4, <1>6, <1>10, <2>2, <2>3
<1>12. ASSUME NEW i \in Nat, lq < i, i < hi
       PROVE  job[c[i + 1]].behind' = WorkOf(c[i])'
  <2>1. i + 1 \in Nat /\ lq < i + 1 /\ i + 1 <= hi /\ i <= hi
    BY <1>2, <1>12
  <2>2. c[i] \in Line /\ c[i] # o /\ c[i + 1] \in Line /\ c[i + 1] # o
    BY <1>7, <1>12, <2>1
  <2>3. job[c[i + 1]].behind = WorkOf(c[i])
    BY <1>3, <1>12 DEF Chained
  <2> QED
    BY <1>6, <2>2, <2>3
<1>13. lq = hi => Settled(tail)'
  BY <1>1, <1>2, <1>4, <1>10 DEF Chained
<1>14. Chained(c, lq, hi)'
  BY <1>2, <1>5, <1>7, <1>8, <1>9, <1>11, <1>12, <1>13 DEF Chained
<1> QED
  BY <1>2, <1>14 DEF ChainInv

-----------------------------------------------------------------------------
(* One at a time *)

\* A repair supersedes the rest, and what queues behind it meets its failure.
RepairInv ==
    /\ \A o, q \in fresh : Repairs(o) /\ Repairs(q) => o = q
    /\ \A o, q \in fresh : Repairs(o) /\ pc[q] \in Active => Repairs(q)
    /\ \A o \in fresh : Repairs(o) => failure

\* The flags are set by work that nothing has superseded.
MarkInv == \A o \in Ops : pc[o] = "marking" => o \in fresh

CallsBase == ManagerType /\ CallsInv /\ PlaceInv /\ CountedInv
QueueInv == ChainInv /\ BegunInv /\ RepairInv

AtWork(o) == o \in fresh /\ pc[o] \in Active \union {"waiting"}

LEMMA AtWorkLine ==
    ASSUME CallsBase, QueueInv, NEW o \in Ops, AtWork(o), ~Repairs(o)
    PROVE  o \in Line /\ Settled(job[o].behind) /\ pc[o] \in Active
<1>1. pc[o] \in Active
  BY DEF CallsBase, PlaceInv, Place, AtWork, Repairs
<1> QED
  BY <1>1 DEF AtWork, Line, QueueInv, BegunInv

LEMMA OneAtWork ==
    ASSUME CallsBase, QueueInv, NEW o \in Ops, NEW q \in Ops, AtWork(o), AtWork(q)
    PROVE  o = q
<1>1. CASE ~Repairs(o) /\ ~Repairs(q)
  <2>1. /\ o \in Line /\ Settled(job[o].behind)
        /\ q \in Line /\ Settled(job[q].behind)
    BY <1>1, AtWorkLine
  <2>2. PICK c \in [Nat -> Ops \union {None}], lo \in Nat, hi \in Nat : Chained(c, lo, hi)
    BY DEF QueueInv, ChainInv
  <2> QED
    BY <2>1, <2>2, FirstOnly DEF CallsBase
<1>2. CASE Repairs(o) /\ Repairs(q)
  BY <1>2 DEF QueueInv, RepairInv, AtWork
<1>3. CASE Repairs(o) /\ ~Repairs(q)
  BY <1>3, AtWorkLine DEF QueueInv, RepairInv, AtWork
<1>4. CASE ~Repairs(o) /\ Repairs(q)
  BY <1>4, AtWorkLine DEF QueueInv, RepairInv, AtWork
<1> QED
  BY <1>1, <1>2, <1>3, <1>4

LEMMA NoneStarts ==
    ASSUME CallsBase, QueueInv, NEW o \in Ops, NEW q \in Ops, AtWork(o), q \in fresh, Startable(q)
    PROVE  Repairs(o) /\ failure /\ q # o
<1>1. pc[q] = "queued" /\ Settled(job[q].behind) /\ ~Repairs(q)
  BY DEF Startable, CallsBase, PlaceInv, Place, Repairs
<1>2. q # o
  BY <1>1 DEF AtWork, Active
<1>3. CASE ~Repairs(o)
  <2>1. o \in Line /\ Settled(job[o].behind)
    BY <1>3, AtWorkLine
  <2>2. q \in Line
    BY <1>1 DEF Line
  <2>3. PICK c \in [Nat -> Ops \union {None}], lo \in Nat, hi \in Nat : Chained(c, lo, hi)
    BY DEF QueueInv, ChainInv
  <2> QED
    BY <1>1, <1>2, <2>1, <2>2, <2>3, FirstOnly DEF CallsBase
<1> QED
  BY <1>2, <1>3 DEF QueueInv, RepairInv, AtWork

LEMMA ReleasedStays == ASSUME [Next]_vars, released PROVE released'
BY DEF Next, vars, state, Append, FlushSync, Seal, TitleSet, Rewrite, Close, BatchCalled, Recover,
   ForeignAppends, OwnerChanges, Continues, WorkDropped, WorkRefused, RewriteStarts, RepairStarts,
   CloseFails, Serializes, Publishes, Contested, ReadsBack, Adopts, Recorded, Marks, Verifies,
   RepairRecorded, RepairFails, CloseRuns, TitleAppends, TitleSlot, BatchStaged, BatchCommits,
   BatchRollsBack

\* Who clears a latched failure.
LEMMA FailureStep ==
    ASSUME CallsInv, [Next]_vars, failure, ~failure'
    PROVE  \/ fresh' = {}
           \/ \E q \in Ops : /\ fresh' = fresh \ {q} /\ OthersStay(q)
                             /\ pc[q] = "marking" \/ (Repairs(q) /\ q \in fresh)
<1> DEFINE Goal == \/ fresh' = {}
                   \/ \E q \in Ops : /\ fresh' = fresh \ {q} /\ OthersStay(q)
                                     /\ pc[q] = "marking" \/ (Repairs(q) /\ q \in fresh)
<1>1. CASE UNCHANGED failure
  BY <1>1
<1>2. CASE fresh' = {}
  BY <1>2
<1>3. ASSUME NEW o \in Ops, Marks(o) PROVE Goal
  BY <1>3, ResolveEffect DEF Marks, Now
<1>4. ASSUME NEW o \in Ops, RepairRecorded(o) PROVE Goal
  <2>1. CASE MoreToWrite
    BY <1>1, <1>4, <2>1 DEF RepairRecorded
  <2>2. CASE ~MoreToWrite
    <3> DEFINE c == IF o \in Batches THEN "refused" ELSE "done"
    <3>1. /\ pc' = [pc EXCEPT ![o] = c] /\ job' = [job EXCEPT ![o] = NoJob]
          /\ fresh' = fresh \ {o} /\ Repairs(o) /\ o \in fresh
      BY <1>4, <2>2 DEF RepairRecorded, Stale
    <3> HIDE DEF c
    <3>2. OthersStay(o)
      BY <3>1 DEF CallsInv, OthersStay
    <3> QED
      BY <3>1, <3>2
  <2> QED
    BY <2>1, <2>2
<1>5. ASSUME NEW o \in Ops, Continues(o), failure' # TRUE PROVE Goal
  BY <1>1, <1>3, <1>4, <1>5
     DEF Continues, WorkDropped, WorkRefused, RewriteStarts, RepairStarts, state, queue,
     CloseFails, Serializes, Publishes, Contested, ReadsBack, Adopts, Recorded, Verifies,
     RepairFails, CloseRuns, TitleAppends, TitleSlot, BatchStaged, BatchCommits,
     BatchRollsBack, Rejected, RepairBegins
<1>6. CASE \/ \E e \in Appends : Append(e)
           \/ FlushSync \/ Seal
           \/ \E t \in Titles : TitleSet(t)
           \/ \E r \in Rewrites : Rewrite(r)
           \/ \E c \in Closes : Close(c)
           \/ \E b \in Batches : BatchCalled(b)
           \/ \E v \in Recovers : Recover(v)
           \/ \E x \in Foreign : ForeignAppends(x)
           \/ OwnerChanges
  BY <1>1, <1>2, <1>6
     DEF Append, FlushSync, Seal, TitleSet, Rewrite, Close, BatchCalled, Recover, RepairBegins,
     ForeignAppends, OwnerChanges, RewriteNow, EpochMoves, state
<1> QED
  BY <1>1, <1>5, <1>6 DEF Next, vars, state

LEMMA RepairsStep ==
    ASSUME CallsBase, RepairInv, MarkInv, [Next]_vars
    PROVE  RepairInv'
<1>1. failure \in BOOLEAN /\ failure' \in BOOLEAN /\ fresh \subseteq Ops
  BY FlagsStep DEF CallsBase, ManagerType, FlagsType
<1>2. CASE fresh' = {}
  BY <1>2 DEF RepairInv
<1>3. ASSUME NEW o \in Ops, Mends(o)
      PROVE  RepairInv'
  BY <1>3 DEF Mends, Now, RepairInv
<1>4. CASE \A q \in fresh' : /\ q \in fresh
                             /\ Repairs(q)' => Repairs(q)
                             /\ pc'[q] \in Active => pc[q] \in Active \/ Repairs(q)'
                                   \/ (pc[q] = "queued" /\ ~failure)
                             /\ Repairs(q) => Repairs(q)'
  <2>1. ASSUME NEW o \in fresh', Repairs(o)'
        PROVE  failure'
    <3>1. o \in fresh /\ Repairs(o) /\ failure
      BY <1>4, <2>1 DEF RepairInv
    <3>2. ASSUME NEW q \in Ops, fresh' = fresh \ {q}, pc[q] = "marking" \/ (Repairs(q) /\ q \in fresh)
          PROVE  FALSE
      <4>1. q \in fresh /\ (Repairs(q) \/ pc[q] \in Active)
        BY <3>2 DEF MarkInv, Active, InTask
      <4>2. Repairs(q)
        BY <3>1, <4>1 DEF RepairInv
      <4> QED
        BY <2>1, <3>1, <3>2, <4>1, <4>2 DEF RepairInv
    <3> QED
      BY <1>1, <2>1, <3>1, <3>2, FailureStep DEF CallsBase
  <2>2. ASSUME NEW o \in fresh', NEW q \in fresh', Repairs(o)', Repairs(q)'
        PROVE  o = q
    BY <1>4, <2>2 DEF RepairInv
  <2>3. ASSUME NEW o \in fresh', NEW q \in fresh', Repairs(o)', pc'[q] \in Active
        PROVE  Repairs(q)'
    BY <1>4, <2>3 DEF RepairInv
  <2> QED
    BY <2>1, <2>2, <2>3 DEF RepairInv
<1>5. CASE Rests
  BY <1>4, <1>5 DEF Rests, Repairs
<1>6. CASE Restarts
  BY <1>2, <1>6 DEF Restarts
<1>7. ASSUME NEW o \in Ops, Goes(o) \/ Ends(o) \/ Turns(o)
      PROVE  RepairInv'
  <2>1. OthersStay(o) /\ fresh' \subseteq fresh
    BY <1>7 DEF Goes, Ends, Turns, Now
  <2>2. o \in fresh' => /\ o \in fresh
                        /\ Repairs(o)' <=> Repairs(o)
                        /\ pc'[o] \in Active => pc[o] \in Active \/ Repairs(o)'
                                   \/ (pc[o] = "queued" /\ ~failure)
    <3>1. CASE Goes(o)
      BY <3>1 DEF Goes, Now, Repairs, Active, Runs, CallsBase, PlaceInv, Place
    <3>2. CASE Ends(o)
      BY <3>2 DEF Ends
    <3>3. CASE Turns(o)
      BY <3>3 DEF Turns, CallsBase, PlaceInv, InTask
    <3> QED
      BY <1>7, <3>1, <3>2, <3>3
  <2> QED
    BY <1>1, <1>4, <2>1, <2>2 DEF OthersStay, Repairs
<1>8. ASSUME NEW o \in Ops, Queues(o)
      PROVE  RepairInv'
  <2>1. /\ OthersStay(o) /\ fresh' = fresh \union {o} /\ pc'[o] = "queued" /\ ~Repairs(o)'
        /\ o \notin fresh
    BY <1>8 DEF Queues, Now, Repairs, CallsBase, PlaceInv, InTask
  <2>2. \A q \in fresh : q # o /\ q \in Ops /\ (Repairs(q)' <=> Repairs(q)) /\ pc'[q] = pc[q]
    BY <1>1, <2>1 DEF OthersStay, Repairs
  <2>3. failure => failure'
    <3>1. fresh' # {} /\ ~(\E q \in Ops : fresh' = fresh \ {q})
      BY <2>1
    <3> QED
      BY <1>1, <3>1, FailureStep DEF CallsBase
  <2>4. pc'[o] \notin Active
    BY <2>1 DEF Active
  <2> QED
    BY <2>1, <2>2, <2>3, <2>4 DEF RepairInv
<1> QED
  BY <1>3, <1>5, <1>6, <1>7, <1>8, StepMoves DEF CallsBase, Moved

LEMMA ChainStep ==
    ASSUME CallsBase, ChainInv, BegunInv, [Next]_vars, ~released'
    PROVE  ChainInv'
<1> USE DEF CallsBase
<1>1. Settled(NoWork)'
  BY DEF Settled
<1>2. CASE Rests
  BY <1>2, LineStays DEF Rests, LineKept, Line, Repairs
<1>3. CASE Restarts
  BY <1>1, <1>3, LineEmpty DEF Restarts, Line
<1>4. ASSUME NEW o \in Ops, Queues(o)
      PROVE  ChainInv'
  BY <1>4, LineGrows
<1>5. ASSUME NEW o \in Ops, Mends(o)
      PROVE  ChainInv'
  BY <1>1, <1>5, LineEmpty DEF Mends, Now, Line, Repairs
<1>6. ASSUME NEW o \in Ops, o \notin Line, o \notin Line', OthersStay(o), UNCHANGED tail,
             fresh' = fresh \/ fresh' = fresh \ {o}
      PROVE  ChainInv'
  <2>1. Line' = Line /\ \A q \in Line : q \in Ops /\ q # o
    BY <1>6 DEF Line, OthersStay, Repairs, ManagerType
  <2> QED
    BY <1>6, <2>1, LineStays DEF LineKept, OthersStay
<1>7. ASSUME NEW o \in Ops, Goes(o)
      PROVE  ChainInv'
  <2>1. /\ OthersStay(o) /\ UNCHANGED <<fresh, tail>>
        /\ job'[o].turn = job[o].turn /\ job'[o].behind = job[o].behind
        /\ Repairs(o)' <=> Repairs(o)
    BY <1>7 DEF Goes, Now, Repairs
  <2>2. Line' = Line /\ Line \subseteq Ops
    BY <2>1 DEF Line, OthersStay, Repairs, ManagerType
  <2> QED
    BY <2>1, <2>2, LineStays DEF LineKept, OthersStay
<1>8. ASSUME NEW o \in Ops, Ends(o)
      PROVE  ChainInv'
  <2>1. OthersStay(o) /\ UNCHANGED tail /\ fresh' = fresh \ {o} /\ pc[o] \in InTask
    BY <1>8 DEF Ends, Now
  <2>2. CASE o \in Line
    <3>1. Settled(job[o].behind)
      BY <1>8, <2>1, <2>2 DEF Ends, BegunInv, Line, Active
    <3> QED
      BY <1>8, <2>2, <3>1, LineAdvances
  <2>3. CASE o \notin Line
    BY <1>6, <2>1, <2>3 DEF Line
  <2> QED
    BY <2>2, <2>3
<1>9. ASSUME NEW o \in Ops, Turns(o)
      PROVE  ChainInv'
  <2>1. OthersStay(o) /\ UNCHANGED <<fresh, tail>> /\ o \notin fresh
    BY <1>9 DEF Turns, Now, PlaceInv, InTask
  <2> QED
    BY <1>6, <2>1 DEF Line
<1> QED
  BY <1>2, <1>3, <1>4, <1>5, <1>7, <1>8, <1>9, StepMoves DEF Moved

LEMMA BegunStep ==
    ASSUME CallsBase, BegunInv, [Next]_vars
    PROVE  BegunInv'
<1> SUFFICES ASSUME NEW o \in fresh', pc'[o] \in Active, ~Repairs(o)'
             PROVE  Settled(job[o].behind)'
  BY DEF BegunInv
<1> USE DEF CallsBase
<1>1. fresh' \subseteq Ops
  BY FlagsStep DEF FlagsType
<1>2. ASSUME o \in fresh, pc[o] \in Active, ~Repairs(o), job'[o].behind = job[o].behind
      PROVE  Settled(job[o].behind)'
  BY <1>1, <1>2, SettledBehind DEF BegunInv
<1>3. CASE Rests
  BY <1>2, <1>3 DEF Rests, Repairs
<1>4. CASE Restarts
  BY <1>4 DEF Restarts
<1>5. ASSUME NEW q \in Ops, Moved(q), q # o
      PROVE  Settled(job[o].behind)'
  <2>1. OthersStay(q) /\ o \in fresh
    BY <1>5 DEF Moved, Queues, Goes, Ends, Turns, Mends, Now
  <2> QED
    BY <1>1, <1>2, <1>5, <2>1 DEF OthersStay, Repairs
<1>6. CASE Queues(o)
  BY <1>6 DEF Queues, Now, Active
<1>7. CASE Goes(o)
  <2>1. /\ o \in fresh /\ ~Repairs(o) /\ job'[o].behind = job[o].behind
        /\ pc[o] \in InTask
    BY <1>1, <1>7 DEF Goes, Now, Repairs, PlaceInv, Place
  <2>2. CASE pc[o] = "queued"
    BY <1>1, <1>7, <2>1, <2>2, SettledBehind DEF Goes
  <2> QED
    BY <1>2, <2>1, <2>2 DEF Active
<1>8. CASE Ends(o)
  BY <1>8 DEF Ends
<1>9. CASE Turns(o)
  BY <1>1, <1>9 DEF Turns, PlaceInv, InTask
<1>10. CASE Mends(o)
  BY <1>10 DEF Mends, Now, Repairs
<1>11. ASSUME NEW q \in Ops, Moved(q)
       PROVE  Settled(job[o].behind)'
  BY <1>5, <1>6, <1>7, <1>8, <1>9, <1>10, <1>11 DEF Moved
<1> QED
  BY <1>3, <1>4, <1>11, StepMoves

-----------------------------------------------------------------------------
(* The persistence lock, and whose batch is open *)

\* The call has the lock of #withAtomicPersistenceLock.
Holding(o) == (o \in Batches /\ pc[o] \notin {"idle"} \union Ended) \/ Repairs(o)

LockInv ==
    /\ \A o, q \in Ops : Holding(o) /\ Holding(q) => o = q
    /\ \A b \in Batches : job[b].mode = "rewrite" \/ pc[b] = "decide" => batch = b
    /\ batch # None =>
          pc[batch] \in {"decide", "rollback", "waiting"} \union InTask /\ job[batch].mode # "ensure"

LEMMA FreeOfAll ==
    ASSUME CallsBase, LockFree, NEW o \in Ops
    PROVE  ~Holding(o)
<1>1. Place(o, pc[o], job[o].mode)
  BY DEF CallsBase, PlaceInv
<1>2. o \in Batches \union Recovers => pc[o] \in {"idle"} \union Ended
  BY DEF LockFree
<1> QED
  BY <1>1, <1>2 DEF Holding, Repairs, Place, InTask, Ended

LEMMA LockStep ==
    ASSUME CallsBase, LockInv, [Next]_vars
    PROVE  LockInv'
<1> USE DEF CallsBase
<1>1. \A q \in Ops : Place(q, pc[q], job[q].mode)
  BY DEF PlaceInv
<1>2. \A q \in Ops : q \in Batches \/ q \notin Batches
  OBVIOUS
<1>3. Batches \subseteq Ops /\ batch \in Batches \union {None} /\ None \notin Ops
  BY NoneAssumption DEF Ops, ManagerType
<1>4. CASE Rests
  BY <1>4 DEF Rests, LockInv, Holding, Repairs
<1>5. CASE Restarts
  <2>1. CASE UNCHANGED pc
    BY <1>5, <2>1 DEF Restarts, LockInv, Holding, Repairs
  <2>2. ASSUME NEW t \in Titles, NEW c \in {"done", "failed"}, pc[t] = "idle",
               Now(t, c, job[t].mode, job[t].turn, job[t].behind)
        PROVE  LockInv'
    <3>1. t \in Ops /\ t \notin Batches
      BY BatchAssumption DEF Ops
    <3>2. \A q \in Batches : pc'[q] = pc[q]
      BY <1>3, <2>2, <3>1 DEF Now, OthersStay
    <3>3. UNCHANGED <<job, batch>>
      BY <1>5 DEF Restarts
    <3> QED
      BY <1>3, <3>2, <3>3 DEF LockInv, Holding, Repairs
  <2> QED
    BY <1>5, <2>1, <2>2 DEF Restarts
<1>6. ASSUME NEW o \in Ops, Moved(o)
      PROVE  LockInv'
  <2>1. \A q \in Ops : q # o => pc'[q] = pc[q] /\ job'[q] = job[q]
    BY <1>6 DEF Moved, Queues, Goes, Ends, Turns, Mends, Now, OthersStay
  <2>2. \A q \in Ops : q # o => (Holding(q)' <=> Holding(q))
    BY <2>1 DEF Holding, Repairs
  <2>3. Holding(o)' => Holding(o) \/ LockFree
    <3>1. CASE Queues(o)
      BY <3>1 DEF Queues, Now, Holding, Repairs, Ended
    <3>2. CASE Goes(o)
      BY <3>2 DEF Goes, Now, Holding, Repairs, InTask, Ended
    <3>3. CASE Ends(o)
      BY <3>3 DEF Ends, Now, Holding, Repairs, InTask, Ended
    <3>4. CASE Turns(o)
      BY <3>4 DEF Turns, Holding, Ended
    <3>5. CASE Mends(o)
      BY <3>5 DEF Mends, Holding, Ended
    <3> QED
      BY <1>6, <3>1, <3>2, <3>3, <3>4, <3>5 DEF Moved
  <2>4. ASSUME NEW p \in Ops, NEW q \in Ops, Holding(p)', Holding(q)'
        PROVE  p = q
    BY <2>2, <2>3, <2>4, FreeOfAll DEF LockInv
  <2>5. \A q \in Ops : q # o /\ Holding(q) => ~Holding(o)
    BY DEF LockInv
  <2>6. /\ \A b \in Batches : job[b].mode = "rewrite" \/ pc[b] = "decide" => Holding(b) /\ batch = b
        /\ batch # None => Holding(batch)
    BY <1>1, <1>3 DEF LockInv, Holding, Place, InTask, Ended
  <2>7. batch' = batch \/ Holding(o)
    <3>1. CASE Queues(o)
      BY <3>1 DEF Queues, Holding, Ended
    <3>2. CASE Ends(o)
      BY <3>2 DEF Ends, Holding
    <3>3. CASE Turns(o)
      BY <3>3 DEF Turns, Holding, Ended
    <3> QED
      BY <1>6, <3>1, <3>2, <3>3 DEF Moved, Goes, Mends
  <2>8. ASSUME o \in Batches, job'[o].mode = "rewrite" \/ pc'[o] = "decide"
        PROVE  batch' = o
    <3>1. CASE Queues(o)
      BY <2>8, <3>1 DEF Queues, Now
    <3>2. CASE Goes(o)
      BY <2>8, <3>2 DEF Goes, Now, Active, InTask, LockInv
    <3>3. CASE Ends(o)
      <4>1. pc'[o] = "decide" /\ ~Repairs(o) /\ job[o].mode # "ensure" /\ pc[o] \in InTask
            /\ batch' = batch
        BY <2>8, <3>3 DEF Ends, Now, Ended
      <4>2. job[o].mode = "rewrite"
        BY <1>1, <2>8, <4>1 DEF Place, Repairs, InTask, Rewriting
      <4> QED
        BY <2>8, <4>1, <4>2 DEF LockInv
    <3>4. CASE Turns(o)
      <4>1. pc'[o] # "decide" /\ job'[o].mode = job[o].mode
        BY <3>4 DEF Turns, Now, Ended
      <4> QED
        BY <1>1, <2>8, <3>4, <4>1 DEF Turns, Place, InTask
    <3>5. CASE Mends(o)
      BY <2>8, <3>5 DEF Mends, Now
    <3> QED
      BY <1>6, <3>1, <3>2, <3>3, <3>4, <3>5 DEF Moved
  <2>9. ASSUME NEW b \in Batches, job'[b].mode = "rewrite" \/ pc'[b] = "decide"
        PROVE  batch' = b
    <3>1. CASE b = o
      BY <2>8, <2>9, <3>1
    <3>2. CASE b # o
      <4>1. Holding(b) /\ batch = b
        BY <1>3, <2>1, <2>6, <2>9, <3>2
      <4> QED
        BY <1>3, <2>5, <2>7, <3>2, <4>1
    <3> QED
      BY <3>1, <3>2
  <2>10. ASSUME batch' = o, o \in Batches
         PROVE  /\ pc'[o] \in {"decide", "rollback", "waiting"} \union InTask
                /\ job'[o].mode # "ensure"
    <3>1. CASE Queues(o)
      <4>1. pc[o] = "flushing" /\ pc'[o] = "queued" /\ job'[o].mode = "rewrite"
        BY <1>3, <2>10, <3>1 DEF Queues, Now, LockInv, InTask
      <4> QED
        BY <4>1 DEF InTask
    <3>2. CASE Goes(o)
      BY <1>3, <2>10, <3>2 DEF Goes, Now, Active, LockInv
    <3>3. CASE Ends(o)
      <4>1. batch = o /\ ~Repairs(o)
        BY <1>3, <2>10, <3>3 DEF Ends
      <4>2. job[o].mode # "ensure"
        BY <1>3, <2>10, <4>1 DEF LockInv
      <4> QED
        BY <2>10, <3>3, <4>1, <4>2 DEF Ends, Now
    <3>4. CASE Turns(o)
      BY <1>3, <2>10, <3>4 DEF Turns, LockInv, InTask
    <3>5. CASE Mends(o)
      BY <3>5 DEF Mends, Now
    <3> QED
      BY <1>6, <3>1, <3>2, <3>3, <3>4, <3>5 DEF Moved
  <2>11. batch' \in {batch, o, None}
    BY <1>6 DEF Moved, Queues, Goes, Ends, Turns, Mends
  <2>12. o = batch' => o \in Batches
    <3>1. CASE Queues(o)
      BY <1>3, <3>1 DEF Queues
    <3> QED
      BY <1>3, <1>6, <3>1 DEF Moved, Goes, Ends, Turns, Mends
  <2>13. ASSUME batch' # None
         PROVE  /\ pc'[batch'] \in {"decide", "rollback", "waiting"} \union InTask
                /\ job'[batch'].mode # "ensure"
    <3>1. CASE batch' = o
      BY <2>10, <2>12, <3>1
    <3>2. CASE batch' # o
      <4>1. batch' = batch /\ batch \in Ops
        BY <1>3, <2>11, <2>13, <3>2
      <4> QED
        BY <2>1, <2>13, <3>2, <4>1 DEF LockInv
    <3> QED
      BY <3>1, <3>2
  <2> QED
    BY <2>4, <2>9, <2>13 DEF LockInv
<1> QED
  BY <1>4, <1>5, <1>6, StepMoves

-----------------------------------------------------------------------------
(* What the closed windows keep out *)

Closed == Behaviours \intersect {"between", "late"} = {}

\* The batch that is open is not superseded, or is about to be decided.
BatchInv == batch # None => batch \in fresh \/ pc[batch] \in {"decide", "rollback"}

LagInv == batch # None => \A o \in Ops : Stale(o) => pc[o] \notin {"conflicted", "reread"}

\* No batch is decided between a write and its flags, nor the open one in a
\* conflict or while a write is uncertain.
CalmInv ==
    \A b \in Batches, o \in fresh : pc[b] \in {"decide", "rollback"} =>
        /\ pc[o] \notin {"published", "marking"}
        /\ batch = b => pc[o] \notin {"conflicted", "reread", "unwritten"}

\* A title change that is to be appended is no other process's to refuse.
SlotInv == \A o \in fresh : job[o].mode = "title" => ~Lost

\* The title changes among these calls, which are to write their entries ...
Promised(S) == {TitleOf(t) : t \in {u \in Titles \intersect S : job[u].mode # "close"}}

\* ... when the call at work is done.
Pending(o) == IF Repairs(o) THEN {} ELSE Promised(fresh \ {o})

\* What the call at work knows.
Beyond(o) == pc[o] \in (Rewriting \ {"closing"}) \union {"marking"}
WorkerOK(o) ==
    /\ pc[o] \in Rewriting /\ ~Repairs(o) => fence
    /\ Beyond(o) /\ ~Repairs(o) => ~broken
    /\ pc[o] \in Rewriting /\ dirty => batch # None /\ required
    /\ Beyond(o) \/ pc[o] = "titling" => ~Lost
    /\ pc[o] \in Rewriting \ {"closing"} => path = job[o].file
    /\ pc[o] = "reread" => job[o].seen \subseteq disk[path]
    /\ (pc[o] = "staging" \/ (pc[o] = "unwritten" /\ Repairs(o))) /\ ~dirty =>
          entries \subseteq job[o].body \union Pending(o)
    /\ (pc[o] = "published" /\ ~dirty) \/ pc[o] = "marking" =>
          entries \subseteq disk[path] \union Pending(o)
    /\ pc[o] = "titling" => TitleOf(o) \in disk[path]
WorkInv == \A o \in Ops : AtWork(o) => WorkerOK(o)

GuardInv == LockInv /\ QueueInv /\ MarkInv /\ BatchInv /\ LagInv /\ CalmInv /\ SlotInv

LEMMA ClosedGuards ==
    ASSUME Closed
    PROVE  /\ NoneBetween => \A o \in Ops : pc[o] \notin {"published", "marking"}
           /\ NoneLags => \A o \in Ops : Stale(o) => pc[o] \notin {"conflicted", "reread"}
           /\ SparesBatch => batch = None
           /\ \A o \in Ops : SparesFence(o) => ~Stale(o)
<1>1. "between" \notin Behaviours /\ "late" \notin Behaviours
  BY DEF Closed
<1>2. NoneBetween => \A o \in Ops : pc[o] \notin {"published", "marking"}
  BY <1>1 DEF NoneBetween
<1>3. NoneLags => \A o \in Ops : Stale(o) => pc[o] \notin {"conflicted", "reread"}
  BY <1>1 DEF NoneLags
<1>4. SparesBatch => batch = None
  BY <1>1 DEF SparesBatch
<1>5. \A o \in Ops : SparesFence(o) => ~Stale(o)
  BY <1>1 DEF SparesFence
<1> QED
  BY <1>2, <1>3, <1>4, <1>5

LEMMA OpenHolds ==
    ASSUME CallsBase, LockInv, batch # None
    PROVE  /\ batch \in Batches /\ batch \in Ops /\ Holding(batch) /\ ~LockFree
           /\ \A o \in Ops : Holding(o) => o = batch
<1>1. batch \in Batches /\ batch \in Ops
  BY DEF CallsBase, ManagerType, Ops
<1>2. Holding(batch)
  BY <1>1 DEF LockInv, Holding, InTask, Ended
<1> QED
  BY <1>1, <1>2, FreeOfAll DEF LockInv

LEMMA LostStep ==
    ASSUME [Next]_vars, ~Lost, Lost'
    PROVE  OwnerChanges
<1>1. CASE UNCHANGED <<path, claim, released>>
  BY <1>1 DEF Lost
<1>2. CASE released'
  BY <1>2 DEF Lost
<1>3. CASE path' = path /\ claim' = Claimed
  BY <1>3, ReleasedStays DEF Lost, Claimed
<1>4. CASE path' = (IF Lost THEN "sibling" ELSE path) /\ claim' = Claimed
  BY <1>3, <1>4 DEF Lost
<1>5. ASSUME NEW c \in Closes, Close(c) PROVE OwnerChanges
  BY <1>5 DEF Close, Lost, state
<1>6. ASSUME NEW o \in Ops, Continues(o) PROVE OwnerChanges
  <2>1. CASE Serializes(o)
    BY <1>4, <2>1 DEF Serializes
  <2>2. CASE Contested(o)
    BY <2>2 DEF Contested, Lost
  <2> QED
    BY <1>1, <1>6, <2>1, <2>2
       DEF Continues, WorkDropped, WorkRefused, RewriteStarts, RepairStarts, state, files,
       CloseFails, Publishes, ReadsBack, Adopts, Recorded, Marks, Verifies,
       RepairRecorded, RepairFails, CloseRuns, TitleAppends, TitleSlot, BatchStaged, BatchCommits,
       BatchRollsBack
<1>7. ASSUME NEW e \in Appends, Append(e) PROVE OwnerChanges
  BY <1>1, <1>3, <1>4, <1>7 DEF Append, RewriteNow, files
<1>8. ASSUME NEW t \in Titles, TitleSet(t) PROVE OwnerChanges
  BY <1>3, <1>4, <1>8 DEF TitleSet, RewriteNow
<1>9. CASE FlushSync
  BY <1>4, <1>9 DEF FlushSync, RewriteNow
<1>10. CASE \/ Seal
            \/ \E r \in Rewrites : Rewrite(r)
            \/ \E b \in Batches : BatchCalled(b)
            \/ \E v \in Recovers : Recover(v)
            \/ \E x \in Foreign : ForeignAppends(x)
  BY <1>1, <1>2, <1>10
     DEF Seal, Rewrite, BatchCalled, Recover, ForeignAppends, state, files
<1> QED
  BY <1>1, <1>5, <1>6, <1>7, <1>8, <1>9, <1>10 DEF Next, vars, state, files

LEMMA SlotStep ==
    ASSUME CallsBase, SlotInv, [Next]_vars
    PROVE  SlotInv'
<1> SUFFICES ASSUME NEW o \in fresh', job'[o].mode = "title", Lost'
             PROVE  FALSE
  BY DEF SlotInv
<1>1. Lost /\ o \in Ops
  <2>1. CASE OwnerChanges
    <3>1. fresh' = fresh /\ \A q \in fresh : pc[q] \in {"idle"} \union Ended /\ pc[q] \in InTask \union {"waiting"}
      BY <2>1 DEF OwnerChanges, queue, CallsBase, ManagerType, PlaceInv
    <3> QED
      BY <3>1 DEF InTask, Ended
  <2>2. o \in Ops
    BY FlagsStep DEF CallsBase, FlagsType
  <2> QED
    BY <2>1, <2>2, LostStep
<1>2. o \in fresh => job[o].mode # "title"
  BY <1>1 DEF SlotInv
<1>3. ASSUME NEW q \in Ops, Moved(q)
      PROVE  FALSE
  <2>1. CASE q # o
    BY <1>1, <1>2, <1>3, <2>1 DEF Moved, Queues, Goes, Ends, Turns, Mends, Now, OthersStay
  <2>2. CASE q = o
    <3>1. CASE Queues(o)
      BY <1>1, <3>1 DEF Queues
    <3>2. CASE Goes(o)
      BY <1>2, <3>2 DEF Goes
    <3>3. CASE Ends(o)
      BY <3>3 DEF Ends
    <3>4. CASE Turns(o)
      BY <1>1, <3>4 DEF Turns, CallsBase, PlaceInv, InTask
    <3>5. CASE Mends(o)
      BY <3>5 DEF Mends, Now
    <3> QED
      BY <1>3, <2>2, <3>1, <3>2, <3>3, <3>4, <3>5 DEF Moved
  <2> QED
    BY <2>1, <2>2
<1> QED
  BY <1>2, <1>3, StepMoves DEF CallsBase, Rests, Restarts

LEMMA MarkStep ==
    ASSUME Closed, CallsBase, MarkInv, CalmInv, [Next]_vars, ~released'
    PROVE  MarkInv'
<1> SUFFICES ASSUME NEW o \in Ops, pc'[o] = "marking"
             PROVE  o \in fresh'
  BY DEF MarkInv
<1>1. pc[o] = "marking" => o \in fresh /\ ~NoneBetween
  BY ClosedGuards DEF MarkInv
<1>2. CASE Rests
  BY <1>1, <1>2 DEF Rests
<1>3. CASE Restarts
  <2>1. NoneBetween
    BY <1>3 DEF Restarts
  <2>2. pc[o] = "marking"
    BY <1>3 DEF Restarts, Now, OthersStay, Ops
  <2> QED
    BY <1>1, <2>1, <2>2
<1>4. ASSUME NEW q \in Ops, Moved(q), q # o
      PROVE  o \in fresh'
  <2>1. pc[o] = "marking"
    BY <1>4 DEF Moved, Queues, Goes, Ends, Turns, Mends, Now, OthersStay
  <2>2. ~Mends(q)
    BY <1>1, <2>1 DEF Mends, CalmInv
  <2> QED
    BY <1>1, <1>4, <2>1, <2>2 DEF Moved, Queues, Goes, Ends, Turns
<1>5. CASE Moved(o)
  <2>1. CASE Queues(o)
    BY <2>1 DEF Queues, Now
  <2>2. CASE Goes(o)
    BY <2>2 DEF Goes
  <2>3. CASE Ends(o)
    BY <2>3 DEF Ends, Now, Ended
  <2>4. CASE Turns(o)
    BY <2>4 DEF Turns, Ended
  <2>5. CASE Mends(o)
    BY <2>5 DEF Mends
  <2> QED
    BY <1>5, <2>1, <2>2, <2>3, <2>4, <2>5 DEF Moved
<1> QED
  BY <1>2, <1>3, <1>4, <1>5, StepMoves DEF CallsBase

LEMMA BatchStep ==
    ASSUME Closed, CallsBase, LockInv, BatchInv, [Next]_vars, ~released'
    PROVE  BatchInv'
<1> SUFFICES ASSUME batch' # None
             PROVE  batch' \in fresh' \/ pc'[batch'] \in {"decide", "rollback"}
  BY DEF BatchInv
<1>1. CASE Rests
  BY <1>1 DEF Rests, BatchInv
<1>2. CASE Restarts
  BY <1>2, ClosedGuards DEF Restarts
<1>3. ASSUME NEW o \in Ops, Moved(o)
      PROVE  batch' \in fresh' \/ pc'[batch'] \in {"decide", "rollback"}
  <2>1. CASE batch' # batch
    <3>1. CASE Queues(o)
      <4>1. batch' = o
        BY <2>1, <3>1 DEF Queues
      <4> QED
        BY <3>1, <4>1 DEF Queues
    <3> QED
      BY <1>3, <2>1, <3>1 DEF Moved, Goes, Ends, Turns, Mends
  <2>2. CASE batch' = batch
    <3>1. /\ batch \in Batches /\ batch \in Ops /\ Holding(batch) /\ ~LockFree
          /\ \A q \in Ops : Holding(q) => q = batch
          /\ batch \in fresh \/ pc[batch] \in {"decide", "rollback"}
      BY <2>2, OpenHolds DEF BatchInv
    <3>2. Mends(o) => o = batch
      BY <3>1 DEF Mends, Holding, Ended
    <3>3. CASE o # batch
      BY <1>3, <2>2, <3>1, <3>2, <3>3 DEF Moved, Queues, Goes, Ends, Turns, Now, OthersStay
    <3>4. CASE o = batch
      <4>1. CASE Queues(o)
        BY <2>2, <3>4, <4>1 DEF Queues
      <4>2. CASE Goes(o)
        BY <2>2, <3>1, <3>4, <4>2 DEF Goes, InTask
      <4>3. CASE Ends(o)
        <5>1. ~Repairs(o) /\ job[o].mode # "ensure"
          BY <2>2, <3>1, <3>4, <4>3 DEF Ends, LockInv
        <5> QED
          BY <2>2, <3>1, <3>4, <4>3, <5>1 DEF Ends
      <4>4. CASE Turns(o)
        BY <2>2, <3>1, <3>4, <4>4 DEF Turns, LockInv, InTask
      <4>5. CASE Mends(o)
        BY <2>2, <3>4, <4>5 DEF Mends
      <4> QED
        BY <1>3, <4>1, <4>2, <4>3, <4>4, <4>5 DEF Moved
    <3> QED
      BY <3>3, <3>4
  <2> QED
    BY <2>1, <2>2
<1> QED
  BY <1>1, <1>2, <1>3, StepMoves DEF CallsBase

LEMMA LagStep ==
    ASSUME Closed, CallsBase, LockInv, LagInv, CalmInv, [Next]_vars, ~released'
    PROVE  LagInv'
<1> SUFFICES ASSUME batch' # None, NEW q \in Ops, q \notin fresh'
             PROVE  pc'[q] \notin {"conflicted", "reread"}
  BY DEF LagInv, Stale
<1>1. CASE Rests
  BY <1>1 DEF Rests, LagInv, Stale
<1>2. CASE Restarts
  BY <1>2, ClosedGuards DEF Restarts
<1>3. ASSUME NEW o \in Ops, Moved(o)
      PROVE  pc'[q] \notin {"conflicted", "reread"}
  <2>1. CASE q = o
    <3>1. CASE Queues(o) \/ Mends(o)
      BY <2>1, <3>1 DEF Queues, Mends, Now
    <3>2. CASE Goes(o)
      BY <2>1, <3>2 DEF Goes
    <3>3. CASE Ends(o)
      BY <2>1, <3>3 DEF Ends, Now, Ended
    <3>4. CASE Turns(o)
      BY <2>1, <3>4 DEF Turns, Ended
    <3> QED
      BY <1>3, <3>1, <3>2, <3>3, <3>4 DEF Moved
  <2>2. CASE q # o
    <3>1. pc'[q] = pc[q]
      BY <1>3, <2>2 DEF Moved, Queues, Goes, Ends, Turns, Mends, Now, OthersStay
    <3>2. CASE batch = None
      <4>1. Queues(o) /\ pc[o] = "flushing"
        BY <1>3, <3>2 DEF Moved, Queues, Goes, Ends, Turns, Mends
      <4>2. NoneLags /\ q \notin fresh
        BY <4>1 DEF Queues
      <4> QED
        BY <3>1, <4>2, ClosedGuards DEF Stale
    <3>3. CASE batch # None
      <4>1. q \notin fresh => pc[q] \notin {"conflicted", "reread"}
        BY <3>3 DEF LagInv, Stale
      <4>2. CASE q \notin fresh
        BY <3>1, <4>1, <4>2
      <4>3. CASE q \in fresh
        <5>1. Mends(o)
          BY <1>3, <2>2, <4>3 DEF Moved, Queues, Goes, Ends, Turns
        <5>2. /\ batch \in Batches /\ Holding(batch) /\ ~LockFree
              /\ \A p \in Ops : Holding(p) => p = batch
          BY <3>3, OpenHolds
        <5>3. o = batch /\ pc[o] \in {"decide", "rollback"}
          BY <5>1, <5>2 DEF Mends, Holding, Ended
        <5> QED
          BY <3>1, <4>3, <5>2, <5>3 DEF CalmInv
      <4> QED
        BY <4>2, <4>3
    <3> QED
      BY <3>2, <3>3
  <2> QED
    BY <2>1, <2>2
<1> QED
  BY <1>1, <1>2, <1>3, StepMoves DEF CallsBase

\* What moves while a call is at work is superseded, or queued behind a repair.
LEMMA OthersStale ==
    ASSUME CallsBase, QueueInv, NEW o \in Ops, AtWork(o), NEW q \in Ops, q # o,
           pc[q] = "queued" => Settled(job[q].behind)
    PROVE  q \notin fresh \/ (Repairs(o) /\ failure /\ pc[q] = "queued")
<1>1. q \in fresh => pc[q] \in InTask \union {"waiting"} /\ ~AtWork(q)
  BY OneAtWork DEF CallsBase, PlaceInv
<1>2. q \in fresh => pc[q] = "queued" /\ Startable(q)
  BY <1>1 DEF AtWork, Active, Startable
<1> QED
  BY <1>2, NoneStarts

LEMMA CalmStep ==
    ASSUME Closed, CallsBase, LockInv, QueueInv, BatchInv, CalmInv, WorkInv, [Next]_vars, ~released'
    PROVE  CalmInv'
<1> SUFFICES ASSUME NEW b \in Batches, NEW o \in fresh', pc'[b] \in {"decide", "rollback"}
             PROVE  /\ pc'[o] \notin {"published", "marking"}
                    /\ batch' = b => pc'[o] \notin {"conflicted", "reread", "unwritten"}
  BY DEF CalmInv
<1>1. b \in Ops /\ o \in Ops
  BY FlagsStep DEF CallsBase, FlagsType, Ops
<1> DEFINE Goal == /\ pc'[o] \notin {"published", "marking"}
                   /\ batch' = b => pc'[o] \notin {"conflicted", "reread", "unwritten"}
<1>2. o \in fresh /\ pc[b] \in {"decide", "rollback"} =>
         /\ pc[o] \notin {"published", "marking"}
         /\ batch = b => pc[o] \notin {"conflicted", "reread", "unwritten"}
  BY DEF CalmInv
<1>3. CASE Rests
  BY <1>2, <1>3 DEF Rests
<1>4. CASE Restarts
  BY <1>4 DEF Restarts
<1>5. ASSUME NEW q \in Ops, Moved(q)
      PROVE  Goal
  <2>1. CASE q # o /\ q # b
    <3>1. pc'[o] = pc[o] /\ pc'[b] = pc[b] /\ o \in fresh /\ (batch' = b => batch = b)
      BY <1>1, <1>5, <2>1, NoneAssumption
         DEF Moved, Queues, Goes, Ends, Turns, Mends, Now, OthersStay, Ops
    <3> QED
      BY <1>2, <3>1
  <2>2. CASE q = o
    <3>1. CASE Queues(o) \/ Mends(o)
      BY <2>2, <3>1 DEF Queues, Mends, Now
    <3>2. CASE Goes(o)
      <4>1. o # b
        BY <2>2, <3>2 DEF Goes, Now, Active, InTask
      <4>2. pc[b] \in {"decide", "rollback"} /\ o \in fresh /\ batch' = batch
        BY <1>1, <3>2, <4>1 DEF Goes, Now, OthersStay
      <4>3. Busy
        BY <1>1, <4>2 DEF Busy
      <4> QED
        BY <1>2, <3>2, <4>2, <4>3 DEF Goes
    <3>3. CASE Ends(o)
      BY <3>3 DEF Ends
    <3>4. CASE Turns(o)
      BY <1>1, <3>4 DEF Turns, CallsBase, PlaceInv, InTask
    <3> QED
      BY <1>5, <2>2, <3>1, <3>2, <3>3, <3>4 DEF Moved
  <2>3. CASE q = b /\ q # o
    <3>1. pc'[o] = pc[o]
      BY <1>1, <1>5, <2>3 DEF Moved, Queues, Goes, Ends, Turns, Mends, Now, OthersStay
    <3>2. CASE Queues(b) \/ Mends(b)
      BY <3>2 DEF Queues, Mends, Now
    <3>3. CASE Goes(b)
      BY <3>3 DEF Goes, Now, Active, InTask
    <3>4. CASE Turns(b)
      <4>1. pc[b] = "flushing" /\ NoneBetween /\ batch' = batch
        BY <3>4 DEF Turns, Ended
      <4>2. batch # b
        BY <1>1, <4>1, NoneAssumption DEF LockInv, InTask
      <4> QED
        BY <1>1, <3>1, <4>1, <4>2, ClosedGuards
    <3>5. CASE Ends(b)
      <4>1. o \in fresh /\ Holding(b)
        BY <3>5 DEF Ends, Holding, InTask, Ended
      <4>2. CASE ~AtWork(o)
        BY <3>1, <4>1, <4>2 DEF AtWork, Active, InTask
      <4>3. CASE AtWork(o)
        <5>1. ~Repairs(o)
          BY <1>1, <2>3, <4>1 DEF LockInv, Holding
        <5>2. b \notin fresh
          BY <1>1, <2>3, <3>5, <4>3, <5>1, OthersStale DEF Ends
        <5>3. batch # b
          BY <1>1, <3>5, <5>2, NoneAssumption DEF Ends, BatchInv, InTask
        <5>4. job[b].mode # "rewrite" /\ ~Repairs(b) /\ pc'[b] = "rollback"
          <6>1. job[b].mode # "rewrite"
            BY <5>3 DEF LockInv
          <6>2. ~Repairs(b)
            BY <3>5 DEF Ends, Ended
          <6>3. job[b].mode = "ensure"
            BY <1>1, <3>5, <6>1, <6>2 DEF CallsBase, PlaceInv, Place, Ends, Repairs, InTask, Rewriting
          <6> QED
            BY <3>5, <6>1, <6>2, <6>3 DEF Ends
        <5>5. broken \/ ~Busy
          BY <3>5, <5>2, <5>4 DEF Ends
        <5>6. pc[o] \notin {"published", "marking"}
          <6>1. ~broken \/ ~Beyond(o)
            BY <1>1, <4>3, <5>1 DEF WorkInv, WorkerOK
          <6> QED
            BY <1>1, <5>5, <6>1 DEF Busy, Beyond, Rewriting
        <5> QED
          BY <3>1, <3>5, <5>3, <5>6 DEF Ends
      <4> QED
        BY <4>2, <4>3
    <3> QED
      BY <1>5, <2>3, <3>2, <3>3, <3>4, <3>5 DEF Moved
  <2> QED
    BY <2>1, <2>2, <2>3
<1> QED
  BY <1>3, <1>4, <1>5, StepMoves DEF CallsBase

-----------------------------------------------------------------------------
(* What others leave the call at work *)

Spared(o) ==
    /\ pc[o] \in Rewriting /\ ~Repairs(o) => fence'
    /\ Beyond(o) /\ ~Repairs(o) => ~broken'
    /\ pc[o] \in Rewriting /\ dirty' => batch' # None /\ required'
    /\ Beyond(o) \/ pc[o] = "titling" => path' = path /\ ~Lost'
    /\ disk[path] \subseteq disk'[path]
    /\ Beyond(o) =>
          \/ pc[o] # "marking" /\ dirty'
          \/ (pc[o] # "marking" => ~dirty) /\ entries' \subseteq entries \union Pending(o)'

LEMMA OthersSpare ==
    ASSUME Closed, CallsBase, GuardInv, NEW o \in Ops, AtWork(o), WorkerOK(o),
           o \in fresh', pc'[o] = pc[o], [Next]_vars, ~released'
    PROVE  Spared(o)
<1>1. ~released /\ (Repairs(o) => failure)
  BY ReleasedStays DEF GuardInv, QueueInv, RepairInv, AtWork
<1>2. NoneBetween => pc[o] \notin {"published", "marking"}
  BY ClosedGuards
<1>3. \A q \in Ops : pc[q] # "queued" /\ q # o => Stale(q)
  BY OthersStale DEF GuardInv, Stale
<1>4. \A q \in Ops : Startable(q) /\ ~Stale(q) => Repairs(o) /\ failure
  BY NoneStarts DEF GuardInv, Stale
<1>5. ~OwnerChanges /\ (~Lost => ~Lost')
  <2>1. ~OwnerChanges
    BY DEF OwnerChanges, AtWork, Active, InTask, Ended
  <2> QED
    BY <2>1, LostStep
<1>6. /\ pc[o] \in Rewriting /\ ~Repairs(o) => fence
      /\ Beyond(o) /\ ~Repairs(o) => ~broken
      /\ pc[o] \in Rewriting /\ dirty => batch # None /\ required
      /\ Beyond(o) \/ pc[o] = "titling" => ~Lost
  BY DEF WorkerOK
<1>7. /\ Beyond(o) => pc[o] = "marking" \/ pc[o] \in Rewriting
      /\ pc[o] \in Rewriting => pc[o] # "titling"
      /\ pc[o] \notin {"idle", "flushing", "decide", "rollback", "queued"}
  BY DEF Beyond, Rewriting, AtWork, Active, InTask
<1>8. /\ dirty \in BOOLEAN /\ fence \in BOOLEAN /\ broken \in BOOLEAN /\ required \in BOOLEAN
      /\ failure \in BOOLEAN /\ disk \in [Paths -> SUBSET Entries] /\ path \in Paths
  BY DEF CallsBase, ManagerType
<1>9. batch # None =>
         /\ batch \in Ops /\ Holding(batch) /\ ~LockFree
         /\ \A q \in Ops : Holding(q) => q = batch
         /\ batch \in fresh \/ pc[batch] \in {"decide", "rollback"}
         /\ \A q \in Ops : Stale(q) => pc[q] \notin {"conflicted", "reread"}
  BY OpenHolds DEF GuardInv, BatchInv, LagInv
<1> DEFINE Quiet ==
       /\ fence' = fence /\ (broken' => broken) /\ (required => required')
       /\ batch' = batch /\ (path' = path \/ Lost)
       /\ disk[path] \subseteq disk'[path]
       /\ entries' \subseteq entries \union Pending(o)'
       /\ dirty' = dirty \/ (~dirty' /\ ~(dirty /\ pc[o] \in Rewriting))
<1>10. ASSUME Quiet PROVE Spared(o)
  BY <1>5, <1>6, <1>7, <1>10 DEF Spared
<1>11. ASSUME UNCHANGED <<entries, dirty, disk, path, broken, fence, batch, required>>
       PROVE  Spared(o)
  BY <1>10, <1>11
<1> HIDE DEF Quiet
<1>12. CASE UNCHANGED vars
  BY <1>11, <1>12 DEF vars, flags, state, queue, files
<1>13. ASSUME NEW mem, NEW cur, NEW req, RewriteNow(mem, cur, req)
       PROVE  FALSE
  BY <1>13 DEF RewriteNow, EpochMoves
<1>14. ASSUME NEW e \in Appends, Append(e)
       PROVE  Spared(o)
  <2>1. NoneBetween /\ batch' = batch
    BY <1>14 DEF Append
  <2>2. CASE /\ batch # None /\ required' = TRUE /\ dirty' = TRUE
             /\ UNCHANGED <<files, broken, fence>>
    BY <1>2, <1>5, <1>6, <1>7, <2>1, <2>2 DEF Spared, files
  <2>3. CASE /\ ~fence /\ ~failure
             /\ UNCHANGED path /\ (UNCHANGED disk \/ disk' = [disk EXCEPT ![path] = @ \union {e}])
    <3>1. pc[o] \notin Rewriting /\ ~Beyond(o)
      BY <1>1, <1>2, <1>6, <1>7, <2>1, <2>3
    <3> QED
      BY <1>5, <1>6, <1>8, <2>3, <3>1 DEF Spared
  <2> QED
    BY <1>13, <1>14, <2>2, <2>3 DEF Append, files
<1>15. CASE FlushSync \/ Seal
  BY <1>13, <1>15 DEF FlushSync, Seal
<1>16. ASSUME NEW t \in Titles, TitleSet(t)
       PROVE  Spared(o)
  <2> DEFINE m == IF ~current \/ required \/ Lost THEN "rewrite" ELSE "title"
  <2>1. /\ ~failure /\ entries' = entries \union {TitleOf(t)} /\ Schedule(t, m) /\ pc[t] = "idle"
        /\ UNCHANGED <<required, broken, fence, path, disk, dirty, batch>>
    BY <1>13, <1>16 DEF TitleSet
  <2>2. m # "close" /\ m # "repair" /\ t \in Ops /\ t # o
    BY <1>7, <2>1 DEF Ops
  <2> HIDE DEF m
  <2>3. t \in fresh' /\ job'[t].mode = m /\ OthersStay(t)
    BY <2>1, <2>2, ScheduleEffect DEF Now, CallsBase
  <2>4. TitleOf(t) \in Pending(o)'
    BY <1>1, <2>1, <2>2, <2>3 DEF Pending, Promised, OthersStay, Repairs
  <2>5. Quiet
    BY <2>1, <2>4 DEF Quiet
  <2> QED
    BY <1>10, <2>5
<1>17. ASSUME NEW r \in Rewrites \union Closes, Rewrite(r) \/ Close(r)
       PROVE  Spared(o)
  <2>1. Quiet
    BY <1>8, <1>17 DEF Rewrite, Close, Quiet, files, state, flags
  <2> QED
    BY <1>10, <2>1
<1>18. ASSUME NEW b \in Batches, BatchCalled(b)
       PROVE  Spared(o)
  BY <1>11, <1>18 DEF BatchCalled, flags, state, files
<1>19. ASSUME NEW q \in Ops, RepairBegins(q), pc[q] \in {"idle", "decide", "rollback"}
       PROVE  FALSE
  BY <1>7, <1>19 DEF RepairBegins
<1>20. ASSUME NEW v \in Recovers, Recover(v)
       PROVE  FALSE
  BY <1>19, <1>20 DEF Recover, Ops
<1>21. ASSUME NEW x \in Foreign, ForeignAppends(x)
       PROVE  Spared(o)
  <2>1. UNCHANGED <<entries, dirty, path, broken, fence, batch, required>> /\ disk[path] \subseteq disk'[path]
    BY <1>8, <1>21 DEF ForeignAppends, flags, state, queue
  <2> QED
    BY <1>10, <2>1 DEF Quiet
<1>22. ASSUME NEW q \in Ops, pc'[q] # pc[q]
       PROVE  q # o
  BY <1>22
<1>23. ASSUME NEW q \in Ops, Resolves(q) \/ Rejected(q), pc[q] \in InTask
       PROVE  q # o
  <2>1. pc'[q] \notin InTask
    BY <1>23, ResolveEffect, RejectEffect DEF Now, CallsBase, InTask
  <2> QED
    BY <1>22, <1>23, <2>1
<1>24. ASSUME NEW q \in Ops, WorkDropped(q) \/ WorkRefused(q)
       PROVE  Spared(o)
  BY <1>11, <1>24 DEF WorkDropped, WorkRefused, flags, state, files
<1>25. ASSUME NEW q \in Ops, RewriteStarts(q) \/ Contested(q) \/ Marks(q) \/ RepairRecorded(q)
       PROVE  FALSE
  <2>1. ~RewriteStarts(q)
    BY <1>4 DEF RewriteStarts, Runs
  <2>2. CASE Contested(q)
    <3>1. q # o
      BY <2>2 DEF Contested, CallsBase, CallsInv
    <3> QED
      BY <1>3, <2>2, <3>1 DEF Contested
  <2>3. CASE Marks(q)
    <3>1. q # o /\ q \in fresh
      BY <1>23, <2>3 DEF Marks, InTask, GuardInv, MarkInv
    <3> QED
      BY <1>3, <2>3, <3>1 DEF Marks, Stale
  <2>4. CASE RepairRecorded(q)
    <3>1. pc[q] \in {"published", "unwritten"} /\ ~Stale(q) /\ pc'[q] \in {"closing", "refused", "done"}
      BY <2>4 DEF RepairRecorded, CallsBase, CallsInv
    <3> QED
      BY <1>3, <1>22, <3>1
  <2> QED
    BY <1>25, <2>1, <2>2, <2>3, <2>4
<1>26. ASSUME NEW q \in Ops, RepairStarts(q)
       PROVE  Spared(o)
  <2>1. pc[q] = "waiting" /\ pc'[q] = "closing" /\ Repairs(q)
    BY <1>26 DEF RepairStarts, CallsBase, CallsInv, PlaceInv, Place, Repairs
  <2>2. Stale(q)
    BY <1>3, <1>22, <2>1
  <2>3. ~(dirty /\ pc[o] \in Rewriting)
    BY <1>6, <1>9, <2>1, <2>2 DEF Holding, Stale
  <2> QED
    BY <1>10, <1>26, <2>3 DEF RepairStarts, Quiet, state, queue, files
<1>27. ASSUME NEW q \in Ops, CloseFails(q) \/ Verifies(q)
       PROVE  Spared(o)
  <2>1. pc[q] \in {"closing", "unwritten"} /\ q # o
    BY <1>23, <1>27 DEF CloseFails, Verifies, InTask
  <2>2. Stale(q)
    BY <1>3, <2>1
  <2> QED
    BY <1>8, <1>10, <1>27, <2>2 DEF CloseFails, Verifies, FenceLeft, Quiet, flags, files
<1>28. ASSUME NEW q \in Ops, Serializes(q)
       PROVE  Spared(o)
  <2>1. pc[q] = "closing"
    BY <1>28 DEF Serializes
  <2>2. q # o
    <3>1. CASE ~Repairs(q) /\ Stale(q)
      BY <1>23, <1>28, <2>1, <3>1 DEF Serializes, Abandoned, InTask
    <3>2. CASE Repairs(q) \/ ~Stale(q)
      BY <1>22, <1>28, <2>1, <3>2, SerializeEffect DEF Now, CallsBase
    <3> QED
      BY <3>1, <3>2
  <2>3. Stale(q)
    BY <1>3, <2>1, <2>2
  <2>4. UNCHANGED fence
    BY <1>8, <1>28, <2>3 DEF Serializes, Abandoned, FenceLeft
  <2> QED
    BY <1>8, <1>10, <1>28, <2>4 DEF Serializes, Quiet
<1>29. ASSUME NEW q \in Ops, Publishes(q)
       PROVE  Spared(o)
  <2>1. pc[q] = "staging" /\ pc'[q] \in {"published", "conflicted", "unwritten"}
    BY <1>29 DEF Publishes, CallsBase, CallsInv
  <2>2. Stale(q)
    BY <1>3, <1>22, <2>1
  <2> QED
    BY <1>11, <1>29, <2>2 DEF Publishes, flags, state, queue
<1>30. ASSUME NEW q \in Ops, ReadsBack(q) \/ Adopts(q)
       PROVE  Spared(o)
  <2>1. pc[q] \in {"conflicted", "reread"} /\ q # o
    <3>1. CASE ReadsBack(q)
      BY <1>22, <3>1, ReadEffect DEF ReadsBack, Now, CallsBase
    <3>2. CASE Adopts(q)
      BY <1>22, <3>2 DEF Adopts, Retries, CallsBase, CallsInv
    <3> QED
      BY <1>30, <3>1, <3>2
  <2>2. Stale(q)
    BY <1>3, <2>1
  <2>3. ~(dirty /\ pc[o] \in Rewriting)
    BY <1>6, <1>9, <2>1, <2>2
  <2>4. UNCHANGED <<entries, disk, path, broken, fence, batch, required>>
        /\ dirty' \in {dirty, dirty /\ Repairs(q)}
    BY <1>30, <2>2 DEF ReadsBack, Adopts, Superseded, Retries, state, queue, files
  <2> QED
    BY <1>8, <1>10, <2>3, <2>4 DEF Quiet
<1>31. ASSUME NEW q \in Ops, Recorded(q)
       PROVE  Spared(o)
  <2>1. pc[q] = "published" /\ pc'[q] # "published"
    <3>1. CASE Stale(q)
      BY <1>31, <3>1, ResolveEffect DEF Recorded, Abandoned, Now, CallsBase
    <3>2. CASE ~Stale(q)
      BY <1>31, <3>2 DEF Recorded, Retries, CallsBase, CallsInv
    <3> QED
      BY <1>31, <3>1, <3>2 DEF Recorded
  <2>2. Stale(q)
    BY <1>3, <1>22, <2>1
  <2> QED
    BY <1>8, <1>11, <1>31, <2>2 DEF Recorded, Abandoned, FenceLeft, state
<1>32. ASSUME NEW q \in Ops, RepairFails(q)
       PROVE  Spared(o)
  <2>1. pc[q] \in {"published", "unwritten"} /\ pc'[q] = "indeterminate"
    BY <1>31, <1>32 DEF RepairFails, CallsBase, CallsInv
  <2>2. Stale(q)
    BY <1>3, <1>22, <2>1
  <2>3. batch # q
    BY <1>9, <2>1, <2>2, NoneAssumption DEF Stale, Ops
  <2> QED
    BY <1>8, <1>11, <1>32, <2>2, <2>3 DEF RepairFails, FenceLeft
<1>33. ASSUME NEW q \in Ops, CloseRuns(q)
       PROVE  Spared(o)
  BY <1>8, <1>10, <1>33 DEF CloseRuns, Quiet, files
<1>34. ASSUME NEW q \in Titles, TitleAppends(q)
       PROVE  FALSE
  BY <1>4, <1>34 DEF TitleAppends, Runs, Ops
<1>35. ASSUME NEW q \in Titles, TitleSlot(q)
       PROVE  Spared(o)
  <2>1. q \in Ops /\ pc[q] = "titling"
    BY <1>35 DEF TitleSlot, Ops
  <2>2. pc'[q] # "titling"
    <3>1. CASE pc' = [pc EXCEPT ![q] = "closing"]
      BY <2>1, <3>1 DEF CallsBase, CallsInv
    <3>2. CASE Resolves(q) \/ Rejected(q)
      BY <2>1, <3>2, ResolveEffect, RejectEffect DEF Now, CallsBase
    <3> QED
      BY <1>35, <3>1, <3>2 DEF TitleSlot
  <2>3. Stale(q)
    BY <1>3, <1>22, <2>1, <2>2
  <2>4. ~SparesFence(q)
    BY <2>1, <2>3, ClosedGuards
  <2> QED
    BY <1>1, <1>11, <1>35, <2>4 DEF TitleSlot, files
<1>36. ASSUME NEW b \in Batches, BatchStaged(b)
       PROVE  Spared(o)
  <2>1. NoneBetween
    BY <1>36 DEF BatchStaged
  <2>2. CASE UNCHANGED <<entries, flags, batch>>
    BY <1>11, <1>36, <2>2 DEF BatchStaged, flags, state, files
  <2>3. CASE batch' = b /\ required' = TRUE /\ dirty' = TRUE
    <3>1. b # None /\ UNCHANGED <<broken, fence, disk, path>>
      BY <1>36, NoneAssumption DEF BatchStaged, state, files, Ops
    <3> QED
      BY <1>2, <1>5, <1>6, <1>7, <2>1, <2>3, <3>1 DEF Spared
  <2> QED
    BY <1>36, <2>2, <2>3 DEF BatchStaged
<1>37. ASSUME NEW b \in Batches, BatchCommits(b)
       PROVE  Spared(o)
  <2>1. ~required /\ UNCHANGED <<entries, dirty, disk, path, broken, fence, required>>
    BY <1>37 DEF BatchCommits, BatchPublished, flags, state, files
  <2>2. ~(pc[o] \in Rewriting /\ dirty)
    BY <1>6, <2>1
  <2> QED
    BY <1>5, <1>6, <1>7, <2>1, <2>2 DEF Spared
<1>38. ASSUME NEW b \in Batches, BatchRollsBack(b)
       PROVE  FALSE
  BY <1>1, <1>19, <1>38 DEF BatchRollsBack, Ops
<1>39. ASSUME NEW q \in Ops, Continues(q)
       PROVE  Spared(o)
  BY <1>24, <1>25, <1>26, <1>27, <1>28, <1>29, <1>30, <1>31, <1>32, <1>33, <1>34, <1>35, <1>36,
     <1>37, <1>38, <1>39 DEF Continues
<1> QED
  BY <1>5, <1>12, <1>14, <1>15, <1>16, <1>17, <1>18, <1>20, <1>21, <1>39 DEF Next

LEMMA OnlyOne ==
    ASSUME CallsInv, NEW q \in Ops, Continues(q)
    PROVE  OthersStay(q)
BY DEF CallsInv, OthersStay, Continues, WorkDropped, WorkRefused, Resolves, Rejected, RewriteStarts,
   RepairStarts, CloseFails, Serializes, Abandoned, Publishes, Contested, ReadsBack, Adopts, Retries,
   Recorded, Marks, Verifies, RepairRecorded, RepairFails, CloseRuns, TitleAppends, TitleSlot,
   BatchStaged, BatchCommits, BatchRollsBack, RepairBegins, Schedule, calls

LEMMA PendingStays ==
    ASSUME CallsBase, QueueInv, NEW o \in Ops, AtWork(o), o \in fresh', pc'[o] = pc[o], [Next]_vars
    PROVE  Pending(o) \subseteq Pending(o)' /\ job'[o] = job[o]
<1>1. ASSUME NEW q \in Ops, Moved(q)
      PROVE  q # o /\ OthersStay(q) /\ ~Mends(q)
  <2>1. CASE q = o
    <3>1. pc[o] \notin {"idle", "flushing", "decide", "rollback"}
      BY DEF AtWork, Active, InTask
    <3> QED
      BY <1>1, <2>1, <3>1 DEF Moved, Queues, Goes, Ends, Turns, Mends, Now, AtWork
  <2>2. OthersStay(q)
    BY <1>1 DEF Moved, Queues, Goes, Ends, Turns, Mends, Now
  <2>3. q # o => ~Mends(q)
    BY DEF Mends
  <2> QED
    BY <2>1, <2>2, <2>3
<1>2. CASE Rests
  BY <1>2 DEF Rests, Pending, Promised, Repairs
<1>3. ASSUME NEW q \in Ops, Moved(q)
      PROVE  Pending(o) \subseteq Pending(o)' /\ job'[o] = job[o]
  <2>1. q # o /\ OthersStay(q) /\ ~Mends(q) /\ job'[o] = job[o]
    BY <1>1, <1>3 DEF OthersStay
  <2>2. CASE Repairs(o)
    BY <2>1, <2>2 DEF Pending, Promised, Repairs
  <2>3. CASE ~Repairs(o)
    <3>1. q \in fresh => ~(pc[q] \in InTask /\ (pc[q] = "queued" => Settled(job[q].behind)))
      BY <2>1, <2>3, OthersStale
    <3>2. q \notin fresh \/ (Goes(q) /\ pc[q] = "waiting")
      <4>1. q \in fresh => pc[q] \in InTask \union {"waiting"}
        BY DEF CallsBase, PlaceInv
      <4>2. pc[q] \in {"idle", "flushing", "decide", "rollback"} => pc[q] \notin InTask \union {"waiting"}
        BY DEF InTask
      <4> QED
        BY <1>3, <2>1, <3>1, <4>1, <4>2 DEF Moved, Queues, Goes, Ends, Turns
    <3>3. q \notin fresh
      BY <2>1, <2>3, <3>2, OthersStale
    <3>4. fresh \subseteq fresh' /\ \A u \in fresh : u \in Ops /\ job'[u] = job[u]
      BY <1>3, <2>1, <3>3 DEF Moved, Queues, Goes, Ends, Turns, OthersStay, CallsBase, ManagerType
    <3> QED
      BY <2>1, <2>3, <3>4 DEF Pending, Promised, Repairs
  <2> QED
    BY <2>2, <2>3
<1> QED
  BY <1>2, <1>3, StepMoves DEF CallsBase, Restarts

LEMMA WorkStays ==
    ASSUME Closed, CallsBase, GuardInv, NEW o \in Ops, AtWork(o), WorkerOK(o),
           o \in fresh', pc'[o] = pc[o], [Next]_vars, ~released'
    PROVE  WorkerOK(o)'
<1>1. Spared(o)
  BY OthersSpare
<1>2. Pending(o) \subseteq Pending(o)' /\ job'[o] = job[o] /\ pc'[o] = pc[o]
  BY PendingStays DEF GuardInv
<1>3. /\ Repairs(o)' <=> Repairs(o)
      /\ Beyond(o)' <=> Beyond(o)
  BY <1>2 DEF Repairs, Beyond
<1>4. pc[o] \in Rewriting \ {"closing"} => Beyond(o)
  BY DEF Beyond
<1>5. pc[o] \in {"reread", "staging", "unwritten", "published", "marking"} => Beyond(o)
  BY DEF Beyond, Rewriting
<1>6. /\ pc'[o] \in Rewriting /\ ~Repairs(o)' => fence'
      /\ Beyond(o)' /\ ~Repairs(o)' => ~broken'
      /\ pc'[o] \in Rewriting /\ dirty' => batch' # None /\ required'
      /\ Beyond(o)' \/ pc'[o] = "titling" => ~Lost'
      /\ pc'[o] \in Rewriting \ {"closing"} => path' = job'[o].file
  BY <1>1, <1>2, <1>3, <1>4 DEF Spared, WorkerOK
<1>7. /\ pc'[o] = "reread" => job'[o].seen \subseteq disk'[path']
      /\ pc'[o] = "titling" => TitleOf(o) \in disk'[path']
  BY <1>1, <1>2, <1>5 DEF Spared, WorkerOK
<1>8. (pc'[o] = "staging" \/ (pc'[o] = "unwritten" /\ Repairs(o)')) /\ ~dirty' =>
         entries' \subseteq job'[o].body \union Pending(o)'
  BY <1>1, <1>2, <1>3, <1>5 DEF Spared, WorkerOK
<1>9. (pc'[o] = "published" /\ ~dirty') \/ pc'[o] = "marking" =>
         entries' \subseteq disk'[path'] \union Pending(o)'
  BY <1>1, <1>2, <1>5 DEF Spared, WorkerOK
<1> QED
  BY <1>6, <1>7, <1>8, <1>9 DEF WorkerOK

LEMMA OwnStep ==
    ASSUME Closed, CallsBase, GuardInv, WorkInv, NEW o \in Ops, Continues(o), Goes(o),
           o \in fresh, [Next]_vars, ~released'
    PROVE  WorkerOK(o)'
<1>1. /\ ~released /\ ~Stale(o) /\ fresh' = fresh /\ batch' = batch
      /\ Repairs(o)' <=> Repairs(o)
      /\ pc'[o] \in Active
  BY ReleasedStays DEF Goes, Now, Repairs, Stale
<1>2. pc[o] \in Active => AtWork(o) /\ WorkerOK(o)
  BY <1>1 DEF AtWork, WorkInv, Stale
<1>3. /\ dirty \in BOOLEAN /\ fence \in BOOLEAN /\ broken \in BOOLEAN /\ required \in BOOLEAN
      /\ disk \in [Paths -> SUBSET Entries] /\ path \in Paths /\ pc \in [Ops -> Places]
  BY DEF CallsBase, ManagerType, CallsInv
<1>4. Pending(o) = Pending(o)'
  <2>1. \A u \in Titles \intersect (fresh \ {o}) : job'[u].mode = job[u].mode
    BY DEF Goes, Now, OthersStay, Ops
  <2> QED
    BY <1>1, <2>1 DEF Pending, Promised
<1>5. ~OwnerChanges /\ (~Lost => ~Lost')
  <2>1. ~OwnerChanges
    BY DEF OwnerChanges, Goes, InTask, Ended
  <2> QED
    BY <2>1, LostStep
<1>6. ASSUME pc'[o] = "closing", ~Repairs(o) => fence', dirty' => dirty /\ pc[o] \in Rewriting /\ required'
      PROVE  WorkerOK(o)'
  <2>1. dirty' => batch' # None /\ required'
    BY <1>1, <1>2, <1>6 DEF WorkerOK, Active, InTask, Rewriting
  <2> QED
    BY <1>1, <1>6, <2>1 DEF WorkerOK, Beyond, Rewriting
<1>7. CASE RewriteStarts(o)
  BY <1>3, <1>6, <1>7 DEF RewriteStarts
<1>8. CASE RepairStarts(o)
  <2>1. Repairs(o)
    BY <1>8 DEF RepairStarts, CallsBase, PlaceInv, Place, Repairs
  <2> QED
    BY <1>3, <1>6, <1>8, <2>1 DEF RepairStarts
<1>9. CASE Serializes(o)
  <2>1. pc[o] = "closing" /\ WorkerOK(o)
    BY <1>2, <1>9 DEF Serializes, Active, InTask
  <2>2. /\ pc'[o] = "staging" /\ job'[o].body = entries /\ job'[o].file = path'
    BY <1>1, <1>9, SerializeEffect DEF Now, CallsBase
  <2>3. /\ UNCHANGED <<entries, dirty, fence>> /\ (required => required')
        /\ ~Repairs(o) => ~broken'
        /\ path' = (IF Lost THEN "sibling" ELSE path)
    BY <1>1, <1>3, <1>9 DEF Serializes
  <2>4. ~Lost'
    BY <1>5, <2>3 DEF Lost
  <2> QED
    BY <1>1, <2>1, <2>2, <2>3, <2>4 DEF WorkerOK, Beyond, Rewriting
<1>10. CASE Publishes(o)
  <2>1. pc[o] = "staging" /\ WorkerOK(o) /\ Beyond(o)
    BY <1>2, <1>10 DEF Publishes, Active, InTask, Beyond, Rewriting
  <2>2. UNCHANGED <<entries, current, required, dirty, broken, fence, path, job>>
    BY <1>10 DEF Publishes, flags, state, queue
  <2>3. path = job[o].file
    BY <2>1 DEF WorkerOK, Rewriting
  <2>4. \/ pc'[o] \in {"conflicted", "unwritten"}
        \/ pc'[o] = "published" /\ disk'[path] = job[o].body
    BY <1>1, <1>3, <1>10, <2>3 DEF Publishes
  <2> QED
    BY <1>1, <1>4, <1>5, <2>1, <2>2, <2>4 DEF WorkerOK, Beyond, Rewriting
<1>11. CASE Contested(o)
  <2>1. pc[o] = "staging" /\ WorkerOK(o)
    BY <1>2, <1>11 DEF Contested, Active, InTask
  <2>2. pc'[o] = "closing" /\ UNCHANGED fence /\ required' = TRUE /\ (dirty' => dirty)
    BY <1>3, <1>11 DEF Contested, queue
  <2> QED
    BY <1>6, <2>1, <2>2 DEF WorkerOK, Rewriting
<1>12. CASE ReadsBack(o)
  <2>1. pc[o] = "conflicted" /\ WorkerOK(o) /\ Beyond(o)
    BY <1>2, <1>12 DEF ReadsBack, Active, InTask, Beyond, Rewriting
  <2>2. UNCHANGED <<entries, current, required, broken, fence, path, disk>>
    BY <1>12 DEF ReadsBack, state, queue, files
  <2>3. path = job[o].file /\ ~Superseded(o)
    BY <1>1, <2>1 DEF WorkerOK, Rewriting, Superseded
  <2>4. pc'[o] = "reread" /\ job'[o].file = path /\ job'[o].seen = disk[path] /\ UNCHANGED dirty
    BY <1>12, <2>3, ReadEffect DEF ReadsBack, Now, CallsBase
  <2> QED
    BY <1>1, <1>5, <2>1, <2>2, <2>4 DEF WorkerOK, Beyond, Rewriting
<1>13. CASE Adopts(o)
  <2>1. pc[o] = "reread" /\ WorkerOK(o)
    BY <1>2, <1>13 DEF Adopts, Active, InTask
  <2>2. pc'[o] = "closing" /\ UNCHANGED <<fence, required>> /\ (dirty' => dirty)
    BY <1>3, <1>13 DEF Adopts, Retries, queue
  <2> QED
    BY <1>6, <2>1, <2>2 DEF WorkerOK, Rewriting
<1>14. CASE Recorded(o)
  <2>1. pc[o] = "published" /\ WorkerOK(o) /\ Beyond(o) /\ ~Repairs(o)
    BY <1>2, <1>14 DEF Recorded, Active, InTask, Beyond, Rewriting
  <2>2. UNCHANGED <<entries, required, broken, path, disk>>
    BY <1>14 DEF Recorded, state
  <2>3. CASE dirty
    <3>1. pc'[o] = "closing" /\ dirty' = FALSE /\ UNCHANGED fence
      BY <1>1, <1>3, <1>14, <2>1, <2>3 DEF Recorded, MoreToWrite, Retries
    <3> QED
      BY <1>6, <2>1, <3>1 DEF WorkerOK, Rewriting
  <2>4. CASE ~dirty
    <3>1. pc'[o] = "marking" /\ UNCHANGED dirty
      BY <1>1, <1>3, <1>14, <2>4 DEF Recorded, MoreToWrite
    <3> QED
      BY <1>1, <1>4, <1>5, <2>1, <2>2, <2>4, <3>1 DEF WorkerOK, Beyond, Rewriting
  <2> QED
    BY <2>3, <2>4
<1>15. CASE RepairRecorded(o)
  <2>1. CASE dirty
    BY <1>3, <1>6, <1>15, <2>1 DEF RepairRecorded, MoreToWrite
  <2>2. CASE ~dirty
    BY <1>1, <1>3, <1>15, <2>2 DEF RepairRecorded, MoreToWrite, Active, InTask
  <2> QED
    BY <2>1, <2>2
<1>16. CASE o \in Titles /\ TitleAppends(o)
  <2>1. pc'[o] = "titling" /\ UNCHANGED path /\ TitleOf(o) \in disk'[path] /\ job[o].mode = "title"
    <3>1. ~Rejected(o)
      BY <1>1, RejectEffect DEF Now, CallsBase, Active, InTask
    <3> QED
      BY <1>3, <1>16, <3>1 DEF TitleAppends
  <2>2. ~Lost'
    BY <1>1, <1>5, <2>1 DEF GuardInv, SlotInv, Stale
  <2> QED
    BY <2>1, <2>2 DEF WorkerOK, Beyond, Rewriting
<1>17. CASE o \in Titles /\ TitleSlot(o)
  <2>1. ~Rejected(o) /\ ~Resolves(o)
    BY <1>1, RejectEffect, ResolveEffect DEF Now, CallsBase, Active, InTask
  <2>2. pc'[o] = "closing" /\ fence' = TRUE /\ dirty' = FALSE
    BY <1>1, <1>3, <1>17, <2>1 DEF TitleSlot
  <2> QED
    BY <1>6, <2>2
<1>18. \A c \in Ended \union {"queued", "flushing", "decide", "rollback", "waiting"} : pc'[o] # c
  BY <1>1 DEF Active, InTask, Ended
<1>19. ~Resolves(o) /\ ~Rejected(o)
  BY <1>18, RejectEffect, ResolveEffect DEF Now, CallsBase, Ended
<1>20. ~(o \in Batches /\ (BatchStaged(o) \/ BatchCommits(o) \/ BatchRollsBack(o)))
  BY DEF BatchStaged, BatchCommits, BatchRollsBack, Goes, InTask
<1>21. ~CloseRuns(o) /\ ~RepairFails(o)
  BY <1>3, <1>18 DEF CloseRuns, RepairFails, Ended
<1> QED
  BY <1>7, <1>8, <1>9, <1>10, <1>11, <1>12, <1>13, <1>14, <1>15, <1>16, <1>17, <1>19, <1>20, <1>21
     DEF Continues, WorkDropped, WorkRefused, CloseFails, Marks, Verifies

LEMMA WorkStep ==
    ASSUME Closed, CallsBase, GuardInv, WorkInv, [Next]_vars, ~released'
    PROVE  WorkInv'
<1> SUFFICES ASSUME NEW o \in Ops, AtWork(o)'
             PROVE  WorkerOK(o)'
  BY DEF WorkInv
<1>1. o \in fresh' /\ pc'[o] \in Active \union {"waiting"}
  BY DEF AtWork
<1>2. CASE AtWork(o) /\ pc'[o] = pc[o]
  BY <1>1, <1>2, WorkStays DEF WorkInv
<1>3. CASE Rests
  BY <1>1, <1>2, <1>3 DEF Rests, AtWork
<1>4. CASE Restarts
  BY <1>1, <1>4 DEF Restarts
<1>5. ASSUME NEW q \in Ops, Moved(q), q # o
      PROVE  WorkerOK(o)'
  <2>1. pc'[o] = pc[o] /\ (o \in fresh)
    BY <1>1, <1>5 DEF Moved, Queues, Goes, Ends, Turns, Mends, Now, OthersStay
  <2> QED
    BY <1>1, <1>2, <2>1 DEF AtWork
<1>6. CASE Queues(o) \/ Ends(o) \/ Turns(o)
  <2>1. pc[o] \in InTask \union {"waiting"} \/ o \notin fresh
    BY DEF CallsBase, PlaceInv
  <2> QED
    BY <1>1, <1>6, <2>1 DEF Queues, Ends, Turns, Now, Active, InTask
<1>7. CASE Mends(o)
  BY <1>7 DEF Mends, Now, WorkerOK, Beyond, Rewriting
<1>8. CASE Goes(o)
  <2>1. o \in fresh /\ pc'[o] \in Active /\ pc'[o] # pc[o]
    BY <1>1, <1>8 DEF Goes, Now
  <2>2. Continues(o)
    <3>1. \A q \in Ops : Continues(q) => q = o
      BY <2>1, OnlyOne DEF OthersStay, CallsBase
    <3>2. UNCHANGED pc => FALSE
      BY <2>1
    <3>3. ASSUME NEW q \in Ops, NEW c \in {"queued", "done", "failed", "flushing", "waiting"},
                 pc' = [pc EXCEPT ![q] = c]
          PROVE  FALSE
      BY <2>1, <3>3 DEF CallsBase, CallsInv, Active, InTask
    <3>4. CASE \/ \E e \in Appends : Append(e)
               \/ FlushSync \/ Seal \/ OwnerChanges \/ UNCHANGED vars
               \/ \E x \in Foreign : ForeignAppends(x)
      BY <3>2, <3>4 DEF Append, FlushSync, Seal, OwnerChanges, ForeignAppends, vars, calls
    <3>5. ASSUME NEW t \in Titles, TitleSet(t) PROVE FALSE
      <4>1. t \in Ops /\ \E c \in {"queued", "done", "failed"} : pc' = [pc EXCEPT ![t] = c]
        BY <3>5 DEF TitleSet, Schedule, Ops
      <4> QED
        BY <3>3, <4>1
    <3>6. CASE \/ \E r \in Rewrites : Rewrite(r)
               \/ \E c \in Closes : Close(c)
               \/ \E b \in Batches : BatchCalled(b)
               \/ \E v \in Recovers : Recover(v)
      <4>1. \E q \in Ops, c \in {"queued", "flushing", "waiting"} : pc' = [pc EXCEPT ![q] = c]
        BY <3>6 DEF Rewrite, Close, BatchCalled, Recover, RepairBegins, Schedule, Ops
      <4> QED
        BY <3>3, <4>1
    <3> QED
      BY <3>1, <3>4, <3>5, <3>6 DEF Next
  <2> QED
    BY <1>8, <2>1, <2>2, OwnStep
<1> QED
  BY <1>3, <1>4, <1>5, <1>6, <1>7, <1>8, StepMoves DEF CallsBase, Moved

-----------------------------------------------------------------------------
(* Completed entries are on disk *)

\* An entry is on disk, or a title change of this epoch is to write it.
Covered(e) == OnDisk(e) \/ e \in Promised(fresh)

\* No latched failure and no open batch accounts for entries that are missing.
Answers == ~failure /\ (batch = None \/ ~required)
DiskInv == Answers => \A e \in entries : Covered(e)

LEMMA PromisedRest ==
    ASSUME fresh \subseteq Ops, NEW o, OthersStay(o), fresh \ {o} \subseteq fresh'
    PROVE  Promised(fresh \ {o}) \subseteq Promised(fresh)'
<1>1. \A u \in fresh \ {o} : u \in fresh' /\ job'[u] = job[u]
  BY DEF OthersStay
<1> QED
  BY <1>1 DEF Promised

LEMMA PromisedKept ==
    ASSUME fresh \subseteq Ops, NEW o, OthersStay(o), fresh \ {o} \subseteq fresh',
           o \in fresh \intersect Titles /\ job[o].mode # "close" => o \in fresh' /\ job'[o].mode # "close"
    PROVE  Promised(fresh) \subseteq Promised(fresh)'
<1>1. \A u \in fresh \ {o} : u \in fresh' /\ job'[u] = job[u]
  BY DEF OthersStay
<1>2. \A u \in Titles \intersect fresh : job[u].mode # "close" => u \in fresh' /\ job'[u].mode # "close"
  BY <1>1
<1> QED
  BY <1>2 DEF Promised

LEMMA PromisedSame == ASSUME UNCHANGED <<job, fresh>> PROVE Promised(fresh)' = Promised(fresh)
BY DEF Promised

\* Files grow, and the session stays or moves off its file.
Quiet ==
    /\ \A p \in Paths : disk[p] \subseteq disk'[p]
    /\ required => required'
    /\ path' = path \/ (path' = "sibling" /\ required')

LEMMA QuietCovers ==
    ASSUME path \in Paths, Quiet, Promised(fresh) \subseteq Promised(fresh)', NEW e, Covered(e)
    PROVE  Covered(e)'
<1>1. path \in Paths /\ "home" \in Paths /\ (path = "home" \/ path = "sibling")
  BY DEF Paths
<1>2. CASE e \in Promised(fresh)
  BY <1>2 DEF Covered
<1>3. CASE OnDisk(e)
  <2>1. \/ e \in disk'[path'] 
        \/ required' /\ e \in disk'["home"]
    BY <1>1, <1>3 DEF OnDisk, Quiet
  <2> QED
    BY <2>1 DEF Covered, OnDisk
<1> QED
  BY <1>2, <1>3 DEF Covered

\* A rewrite that does not fail covers all there is.
LEMMA RewriteCovers ==
    ASSUME ManagerType, NEW mem, NEW cur, NEW req, RewriteNow(mem, cur, req), ~failure', NEW e \in entries'
    PROVE  Covered(e)'
<1> DEFINE to == IF Lost THEN "sibling" ELSE path
           known == IF Lost THEN {} ELSE expected
           body == IF known = disk[to] THEN mem ELSE mem \union disk[to]
<1>1. path' = to /\ disk' = [disk EXCEPT ![to] = body] /\ entries' = body
  BY DEF RewriteNow
<1>2. to \in Paths /\ disk \in [Paths -> SUBSET Entries]
  BY DEF ManagerType, Paths
<1> HIDE DEF to, known, body
<1>3. disk'[path'] = body
  BY <1>1, <1>2
<1> QED
  BY <1>1, <1>3 DEF Covered, OnDisk

LEMMA QuietDisk ==
    ASSUME ManagerType, UNCHANGED <<disk, path, required>>
    PROVE  Quiet
BY DEF Quiet, Paths

\* The entries stay, the disk keeps what it has, and no promise is broken.
LEMMA QuietStep ==
    ASSUME CallsBase, DiskInv, Quiet, Promised(fresh) \subseteq Promised(fresh)',
           UNCHANGED <<failure, batch>>, Answers', NEW e \in entries
    PROVE  Covered(e)'
<1>1. Answers /\ path \in Paths
  BY DEF Answers, Quiet, CallsBase, ManagerType
<1> QED
  BY <1>1, QuietCovers DEF DiskInv

LEMMA ContinuesCovers ==
    ASSUME Closed, CallsBase, GuardInv, WorkInv, DiskInv, NEW o \in Ops, Continues(o),
           [Next]_vars, ~released', Answers', NEW e \in entries'
    PROVE  Covered(e)'
<1>1. ~released /\ ~failure' /\ OthersStay(o) /\ fresh \subseteq Ops
  BY ReleasedStays, OnlyOne DEF Answers, CallsBase, ManagerType
<1>2. /\ dirty \in BOOLEAN /\ fence \in BOOLEAN /\ broken \in BOOLEAN /\ required \in BOOLEAN
      /\ failure \in BOOLEAN /\ disk \in [Paths -> SUBSET Entries] /\ path \in Paths
      /\ pc \in [Ops -> Places] /\ CallsInv /\ ManagerType
  BY DEF CallsBase, ManagerType, CallsInv
<1>3. ~Rejected(o)
  BY <1>1 DEF Rejected
<1>4. o \in fresh /\ Repairs(o) => failure
  BY DEF GuardInv, QueueInv, RepairInv
<1>5. o \in fresh /\ pc[o] \in Active => AtWork(o) /\ WorkerOK(o)
  BY DEF AtWork, WorkInv
<1>6. ASSUME UNCHANGED <<failure, batch, entries>>, Quiet,
             o \in fresh => o \in fresh' /\ (job[o].mode # "close" => job'[o].mode # "close"),
             fresh \ {o} \subseteq fresh'
      PROVE  Covered(e)'
  <2>1. Promised(fresh) \subseteq Promised(fresh)'
    BY <1>1, <1>6, PromisedKept
  <2> QED
    BY <1>6, <2>1, QuietStep
<1>7. ASSUME UNCHANGED <<failure, batch, entries>>, Quiet, Stale(o), Resolves(o)
      PROVE  Covered(e)'
  <2>1. fresh' = fresh /\ o \notin fresh
    BY <1>7 DEF Resolves, Stale
  <2> QED
    BY <1>6, <1>7, <2>1
<1>8. CASE WorkDropped(o)
  BY <1>1, <1>2, <1>7, <1>8, QuietDisk DEF WorkDropped, flags, state, files
<1>9. CASE RewriteStarts(o) \/ RepairStarts(o)
  <2>1. UNCHANGED <<failure, batch, entries, disk, path, required, fresh, job>>
    BY <1>9 DEF RewriteStarts, RepairStarts, state, queue, files
  <2> QED
    BY <1>2, <1>6, <2>1, QuietDisk
<1>10. CASE Serializes(o)
  <2>1. UNCHANGED <<failure, batch, entries>> /\ Quiet
    BY <1>2, <1>10 DEF Serializes, Quiet, Paths
  <2>2. CASE Stale(o) /\ Resolves(o)
    BY <1>7, <2>1, <2>2
  <2>3. CASE Repairs(o) \/ ~Stale(o)
    <3>1. ~Resolves(o) => fresh' = fresh /\ job'[o].mode = job[o].mode
      BY <1>2, <1>10, <2>3, SerializeEffect DEF Serializes, Abandoned, Now
    <3>2. ~Resolves(o)
      <4>1. pc'[o] = "staging"
        BY <1>2, <1>10, <2>3, SerializeEffect DEF Now
      <4> QED
        BY <1>2, <4>1, ResolveEffect DEF Now
    <3> QED
      BY <1>6, <2>1, <3>1, <3>2
  <2> QED
    BY <1>10, <2>2, <2>3 DEF Serializes, Abandoned
<1>11. CASE Publishes(o)
  <2>1. pc[o] = "staging" /\ UNCHANGED <<entries, required, dirty, failure, batch, fresh, path, job>>
    BY <1>11 DEF Publishes, flags, state, queue
  <2>2. CASE UNCHANGED disk
    BY <1>2, <1>6, <2>1, <2>2, QuietDisk
  <2>3. CASE ~Stale(o) /\ disk' = [disk EXCEPT ![job[o].file] = job[o].body]
    <3>1. o \in fresh /\ AtWork(o) /\ WorkerOK(o)
      BY <1>5, <2>1, <2>3 DEF Stale, Active, InTask
    <3>2. ~Repairs(o)
      BY <1>1, <1>4, <2>1, <3>1
    <3>3. ~dirty
      BY <2>1, <3>1 DEF WorkerOK, Rewriting, Answers
    <3>4. entries \subseteq job[o].body \union Pending(o) /\ path = job[o].file
      BY <2>1, <3>1, <3>3 DEF WorkerOK, Rewriting
    <3>5. disk'[path'] = job[o].body
      BY <1>2, <2>1, <2>3, <3>4
    <3>6. Pending(o) \subseteq Promised(fresh)'
      BY <1>1, <2>1, <3>2, PromisedRest DEF Pending
    <3> QED
      BY <2>1, <3>4, <3>5, <3>6 DEF Covered, OnDisk
  <2> QED
    BY <1>11, <2>2, <2>3 DEF Publishes
<1>12. CASE Contested(o)
  <2>1. UNCHANGED <<failure, batch, entries, fresh, job>> /\ Quiet
    BY <1>2, <1>12 DEF Contested, queue, Quiet
  <2> QED
    BY <1>6, <2>1
<1>13. CASE ReadsBack(o)
  <2>1. UNCHANGED <<failure, batch, entries, disk, path, required, fresh>>
    BY <1>13 DEF ReadsBack, state, queue, files
  <2>2. job'[o].mode = job[o].mode
    BY <1>2, <1>13, ReadEffect DEF Now
  <2> QED
    BY <1>2, <1>6, <2>1, <2>2, QuietDisk
<1>14. CASE Adopts(o)
  <2>1. UNCHANGED <<failure, batch, disk, path, required, fresh, job>> /\ pc[o] = "reread"
    BY <1>14 DEF Adopts, state, queue
  <2>2. ASSUME e \in entries PROVE Covered(e)'
    BY <1>2, <2>1, <2>2, QuietDisk, QuietStep, PromisedSame
  <2>3. ASSUME e \notin entries PROVE Covered(e)'
    <3>1. o \in fresh /\ e \in job[o].seen
      BY <1>14, <2>3 DEF Adopts, Superseded, Stale
    <3>2. job[o].seen \subseteq disk[path]
      BY <1>5, <2>1, <3>1 DEF WorkerOK, Active, InTask
    <3> QED
      BY <2>1, <3>1, <3>2 DEF Covered, OnDisk
  <2> QED
    BY <2>2, <2>3
<1>15. CASE Recorded(o)
  <2>1. UNCHANGED <<failure, batch, entries, disk, path, required>>
    BY <1>15 DEF Recorded, state
  <2>2. CASE Stale(o) /\ Resolves(o)
    BY <1>2, <1>7, <2>1, <2>2, QuietDisk
  <2>3. CASE UNCHANGED <<fresh, job>>
    BY <1>2, <1>6, <2>1, <2>3, QuietDisk
  <2> QED
    BY <1>15, <2>2, <2>3 DEF Recorded, Abandoned
<1>16. CASE Marks(o)
  <2>1. UNCHANGED <<entries, disk, path>> /\ fresh' = fresh \ {o} /\ pc[o] = "marking"
    BY <1>16 DEF Marks, Resolves, files
  <2>2. o \in fresh /\ ~Repairs(o)
    BY <2>1 DEF GuardInv, MarkInv, CallsBase, PlaceInv, Place, Repairs
  <2>3. entries \subseteq disk[path] \union Pending(o)
    BY <1>5, <2>1, <2>2 DEF WorkerOK, Active, InTask
  <2>4. Pending(o) \subseteq Promised(fresh)'
    BY <1>1, <2>1, <2>2, PromisedRest DEF Pending
  <2> QED
    BY <2>1, <2>3, <2>4 DEF Covered, OnDisk
<1>17. CASE RepairRecorded(o)
  <2>1. /\ Repairs(o) /\ o \in fresh /\ UNCHANGED <<entries, disk, path>>
        /\ pc[o] = "published" \/ (pc[o] = "unwritten" /\ disk[job[o].file] = job[o].body)
    BY <1>17 DEF RepairRecorded, Stale
  <2>2. ~dirty
    <3>1. MoreToWrite => failure' = failure
      BY <1>17 DEF RepairRecorded
    <3> QED
      BY <1>1, <1>4, <2>1, <3>1 DEF MoreToWrite
  <2>3. WorkerOK(o) /\ Pending(o) = {}
    BY <1>5, <2>1 DEF Active, InTask, Pending
  <2>4. entries \subseteq disk[path]
    BY <2>1, <2>2, <2>3 DEF WorkerOK, Rewriting
  <2> QED
    BY <2>1, <2>4 DEF Covered, OnDisk
<1>18. CASE CloseRuns(o)
  <2>1. UNCHANGED <<failure, batch, entries, disk, path, required>> /\ fresh' = fresh \ {o}
        /\ job[o].mode = "close"
    BY <1>18 DEF CloseRuns, files
  <2>2. Promised(fresh) \subseteq Promised(fresh)'
    BY <1>1, <2>1, PromisedKept
  <2> QED
    BY <1>2, <2>1, <2>2, QuietDisk, QuietStep
<1>19. CASE o \in Titles /\ TitleAppends(o)
  <2>1. UNCHANGED <<failure, batch, entries, path, required, fresh, job>>
        /\ disk' = [disk EXCEPT ![path] = @ \union {TitleOf(o)}]
    BY <1>3, <1>19 DEF TitleAppends
  <2>2. Quiet
    BY <1>2, <2>1 DEF Quiet
  <2> QED
    BY <1>6, <2>1, <2>2
<1>20. CASE o \in Titles /\ TitleSlot(o)
  <2>1. UNCHANGED <<batch, entries, disk, path, required>> /\ pc[o] = "titling"
    BY <1>20 DEF TitleSlot, files
  <2>2. CASE Resolves(o) /\ UNCHANGED failure
    <3>1. CASE Stale(o)
      BY <1>2, <1>7, <2>1, <2>2, <3>1, QuietDisk
    <3>2. CASE ~Stale(o)
      <4>1. TitleOf(o) \in disk[path] /\ fresh' = fresh \ {o}
        BY <1>5, <2>1, <2>2, <3>2 DEF WorkerOK, Active, InTask, Stale, Resolves
      <4>2. Covered(e)
        BY <2>1, <2>2 DEF DiskInv, Answers
      <4>3. e \in Promised(fresh) => e = TitleOf(o) \/ e \in Promised(fresh)'
        <5>1. Promised(fresh) \subseteq {TitleOf(o)} \union Promised(fresh \ {o})
          BY DEF Promised
        <5> QED
          BY <1>1, <4>1, <5>1, PromisedRest
      <4> QED
        BY <2>1, <4>1, <4>2, <4>3 DEF Covered, OnDisk
    <3> QED
      BY <3>1, <3>2
  <2>3. CASE job' = [job EXCEPT ![o].mode = "fallback"] /\ UNCHANGED <<failure, fresh>>
    <3>1. pc' = [pc EXCEPT ![o] = "closing"] => job'[o].mode = "fallback"
      BY <1>2, <2>3, FallBackEffect DEF Now
    <3>2. job'[o].mode = "fallback"
      BY <1>2, <2>3 DEF CallsInv, Jobs
    <3> QED
      BY <1>2, <1>6, <2>1, <2>3, <3>2, QuietDisk
  <2> QED
    BY <1>1, <1>3, <1>20, <2>2, <2>3 DEF TitleSlot
<1>21. CASE o \in Batches /\ BatchStaged(o)
  <2>1. CASE UNCHANGED <<entries, batch, required, fresh, job>>
    BY <1>2, <1>6, <1>21, <2>1, QuietDisk DEF BatchStaged, state, files
  <2>2. CASE batch' = o /\ required' = TRUE
    BY <2>2, NoneAssumption DEF Answers
  <2> QED
    BY <1>21, <2>1, <2>2 DEF BatchStaged, flags
<1>22. CASE o \in Batches /\ BatchCommits(o)
  <2>1. UNCHANGED <<entries, fresh, job, failure, disk, path, required>> /\ ~required
    BY <1>22 DEF BatchCommits, BatchPublished, flags, state, files
  <2>2. Covered(e)
    BY <1>1, <2>1 DEF DiskInv, Answers
  <2> QED
    BY <1>2, <2>1, <2>2, QuietCovers, QuietDisk, PromisedSame
<1>23. ~(o \in Batches /\ BatchRollsBack(o))
  BY <1>1 DEF BatchRollsBack, RepairBegins
<1> QED
  BY <1>1, <1>3, <1>8, <1>9, <1>10, <1>11, <1>12, <1>13, <1>14, <1>15, <1>16, <1>17, <1>18, <1>19,
     <1>20, <1>21, <1>22, <1>23 DEF Continues, WorkRefused, CloseFails, Verifies, RepairFails

LEMMA IdleIsOld == ASSUME PlaceInv, NEW o \in Ops, pc[o] = "idle" PROVE o \notin fresh
BY DEF PlaceInv, InTask

LEMMA DiskStep ==
    ASSUME Closed, CallsBase, GuardInv, WorkInv, DiskInv, [Next]_vars, ~released'
    PROVE  DiskInv'
<1> SUFFICES ASSUME Answers', NEW e \in entries'
             PROVE  Covered(e)'
  BY DEF DiskInv
<1>1. ~released /\ ~failure' /\ CallsInv /\ ManagerType /\ PlaceInv
  BY ReleasedStays DEF Answers, CallsBase
<1>2. /\ failure \in BOOLEAN /\ disk \in [Paths -> SUBSET Entries] /\ path \in Paths
      /\ required \in BOOLEAN /\ fresh \subseteq Ops
  BY DEF CallsBase, ManagerType
<1>3. ASSUME NEW mem, NEW cur, NEW req, RewriteNow(mem, cur, req)
      PROVE  Covered(e)'
  BY <1>1, <1>3, RewriteCovers
<1>4. ASSUME UNCHANGED <<failure, batch>>, Quiet, Promised(fresh) \subseteq Promised(fresh)', e \in entries
      PROVE  Covered(e)'
  BY <1>4, QuietStep
<1>5. ASSUME UNCHANGED <<failure, batch, entries, job, fresh>>, Quiet
      PROVE  Covered(e)'
  BY <1>4, <1>5, PromisedSame
<1>6. ASSUME NEW o \in Ops, NEW m, Schedule(o, m), pc[o] = "idle"
      PROVE  /\ Promised(fresh) \subseteq Promised(fresh)'
             /\ o \in fresh' /\ job'[o].mode = m
  <2>1. OthersStay(o) /\ fresh' = fresh \union {o} /\ job'[o].mode = m
    BY <1>1, <1>6, ScheduleEffect DEF Now
  <2> QED
    BY <1>1, <1>2, <1>6, <2>1, PromisedKept, IdleIsOld
<1>7. CASE UNCHANGED vars \/ OwnerChanges
  BY <1>1, <1>5, <1>7, QuietDisk DEF vars, OwnerChanges, state, queue, calls, flags, files
<1>8. ASSUME NEW x \in Foreign, ForeignAppends(x) PROVE Covered(e)'
  <2>1. UNCHANGED <<failure, batch, entries, job, fresh>>
    BY <1>8 DEF ForeignAppends, state, queue, calls
  <2>2. Quiet
    BY <1>2, <1>8 DEF ForeignAppends, Quiet, flags
  <2> QED
    BY <1>5, <2>1, <2>2
<1>9. ASSUME NEW x \in Appends, Append(x) PROVE Covered(e)'
  <2>1. UNCHANGED <<batch, job>>
    BY <1>9 DEF Append, calls
  <2>2. CASE batch # None /\ required' = TRUE
    BY <2>1, <2>2 DEF Answers
  <2>3. CASE RewriteNow(entries \union {x}, current /\ ~failure, required \/ failure)
    BY <1>3, <2>3
  <2>4. CASE /\ entries' = entries \union {x} /\ disk' = [disk EXCEPT ![path] = @ \union {x}]
             /\ UNCHANGED <<flags, failure, path, fresh>>
    <3>1. CASE e = x
      <4>1. x \in disk'[path']
        BY <1>2, <2>4
      <4> QED
        BY <3>1, <4>1 DEF Covered, OnDisk
    <3>2. CASE e \in entries
      <4>1. Quiet
        BY <1>2, <2>4 DEF Quiet, flags
      <4> QED
        BY <1>4, <2>1, <2>4, <3>2, <4>1, PromisedSame
    <3> QED
      BY <2>4, <3>1, <3>2
  <2> QED
    BY <1>1, <1>9, <2>2, <2>3, <2>4 DEF Append
<1>10. CASE FlushSync
  BY <1>3, <1>10 DEF FlushSync
<1>11. ASSUME NEW t \in Titles, TitleSet(t) PROVE Covered(e)'
  <2>1. CASE RewriteNow(entries \union {TitleOf(t)}, FALSE, TRUE)
    BY <1>3, <2>1
  <2>2. ASSUME NEW m \in {"rewrite", "title"}, Schedule(t, m), entries' = entries \union {TitleOf(t)},
               UNCHANGED <<failure, batch, disk, path, required>>
        PROVE  Covered(e)'
    <3>1. t \in Ops /\ pc[t] = "idle"
      BY <1>11 DEF TitleSet, Ops
    <3>2. /\ Promised(fresh) \subseteq Promised(fresh)'
          /\ t \in fresh' /\ job'[t].mode = m
      BY <1>6, <2>2, <3>1
    <3>3. TitleOf(t) \in Promised(fresh)'
      BY <3>2 DEF Promised
    <3> QED
      BY <1>1, <1>4, <2>2, <3>2, <3>3, QuietDisk DEF Covered
  <2> QED
    BY <1>11, <2>1, <2>2 DEF TitleSet
<1>12. ASSUME NEW r \in Rewrites, Rewrite(r) PROVE Covered(e)'
  <2>1. r \in Ops /\ pc[r] = "idle" /\ Schedule(r, "rewrite") /\ UNCHANGED <<failure, batch, entries, disk, path>>
        /\ (required => required')
    BY <1>12 DEF Rewrite, Ops, state, files
  <2>2. Quiet
    BY <2>1 DEF Quiet
  <2> QED
    BY <1>4, <1>6, <2>1, <2>2
<1>13. ASSUME NEW c \in Closes, Close(c) PROVE Covered(e)'
  <2>1. c \in Ops /\ pc[c] = "idle" /\ Schedule(c, "close")
        /\ UNCHANGED <<failure, batch, entries, disk, path, required>>
    BY <1>13 DEF Close, Ops, state, flags
  <2> QED
    BY <1>1, <1>4, <1>6, <2>1, QuietDisk
<1>14. ASSUME NEW b \in Batches, BatchCalled(b) PROVE Covered(e)'
  <2>1. b \in Ops /\ pc[b] = "idle" /\ UNCHANGED <<failure, batch, entries, disk, path, required>>
    BY <1>14 DEF BatchCalled, Ops, state, flags, files
  <2>2. CASE Schedule(b, "ensure")
    BY <1>1, <1>4, <1>6, <2>1, <2>2, QuietDisk
  <2>3. CASE job' = [job EXCEPT ![b].behind = tail] /\ UNCHANGED fresh
    <3>1. OthersStay(b) /\ b \notin fresh
      <4>1. b \notin fresh
        BY <1>1, <2>1, IdleIsOld
      <4>2. \E c : pc' = [pc EXCEPT ![b] = c]
        BY <1>14 DEF BatchCalled, Schedule
      <4> QED
        BY <1>1, <2>3, <4>1, <4>2 DEF CallsInv, OthersStay
    <3>2. Promised(fresh) \subseteq Promised(fresh)'
      BY <1>2, <2>3, <3>1, PromisedKept
    <3> QED
      BY <1>1, <1>4, <2>1, <3>2, QuietDisk
  <2> QED
    BY <1>14, <2>2, <2>3 DEF BatchCalled
<1>15. ASSUME NEW v \in Recovers, Recover(v) PROVE Covered(e)'
  BY <1>1, <1>15 DEF Recover, RepairBegins
<1>16. ASSUME NEW o \in Ops, Continues(o) PROVE Covered(e)'
  BY <1>16, ContinuesCovers
<1>17. ~Seal
  BY DEF Seal
<1> QED
  BY <1>7, <1>8, <1>9, <1>10, <1>11, <1>12, <1>13, <1>14, <1>15, <1>16, <1>17 DEF Next

LEMMA DiskMeans ==
    ASSUME PlaceInv, DiskInv
    PROVE  CompletedIsOnDisk
<1> SUFFICES ASSUME NEW e \in entries, ~failure, batch = None, ~OnDisk(e)
             PROVE  \E t \in Titles : e = TitleOf(t) /\ pc[t] \notin Ended
  BY DEF CompletedIsOnDisk
<1>1. e \in Promised(fresh)
  BY DEF DiskInv, Answers, Covered
<1>2. PICK t \in Titles \intersect fresh : e = TitleOf(t)
  BY <1>1 DEF Promised
<1>3. pc[t] \in InTask \union {"waiting"}
  BY <1>2 DEF PlaceInv, Ops
<1> QED
  BY <1>2, <1>3 DEF InTask, Ended

-----------------------------------------------------------------------------
(* A batch reported as committed is on disk *)

AllTitles == {TitleOf(t) : t \in Titles}

\* The open batch's entries are kept until it is repaired, ...
KeptInv == batch # None /\ job[batch].mode # "repair" => Staged(batch) \subseteq entries

\* ... and undone is what a repair has to take away, or has taken.
UndoneInv ==
    \A b \in Batches : Staged(b) \intersect undone # {} =>
        Repairs(b) \/ pc[b] \in Ended \ {"committed"}

\* The file is not taken for current without the open batch.
OpenInv ==
    batch # None /\ job[batch].mode # "repair" /\ ~required => Staged(batch) \subseteq disk[path]

\* Released, only closes are left in the chain, and who is to mark the file has written it.
SealedInv ==
    released => /\ \A o \in fresh : pc[o] = "queued" /\ job[o].mode = "close"
                /\ \A o \in Ops : pc[o] = "marking" => entries \subseteq disk[path] \union AllTitles

CommittedInv ==
    \A b \in Batches : pc[b] = "committed" =>
        Staged(b) \subseteq entries \ undone /\ \A e \in Staged(b) : OnDisk(e)

LEMMA StagedApartTitles ==
    ASSUME NEW b, NEW c
    PROVE  /\ Staged(b) \intersect AllTitles = {}
           /\ b # c => Staged(b) \intersect Staged(c) = {}
BY DEF Staged, AllTitles, TitleOf

\* Who opens a batch, who undoes one, and who reports one as committed.
LEMMA OpensBatch ==
    ASSUME [Next]_vars, batch' # batch, batch' # None
    PROVE  \E b \in Batches : BatchStaged(b) /\ batch' = b /\ Staged(b) \subseteq entries' /\ required' = TRUE
<1> DEFINE Goal == \E b \in Batches : BatchStaged(b) /\ batch' = b /\ Staged(b) \subseteq entries' /\ required' = TRUE
<1>1. ASSUME NEW b \in Batches, BatchStaged(b) PROVE Goal
  BY <1>1 DEF BatchStaged
<1>2. ASSUME NEW o \in Ops, Continues(o) PROVE Goal
  BY <1>1, <1>2
     DEF Continues, WorkDropped, WorkRefused, RewriteStarts, RepairStarts, queue,
     CloseFails, Serializes, Publishes, Contested, ReadsBack, Adopts, Recorded, Marks, Verifies,
     RepairRecorded, RepairFails, CloseRuns, TitleAppends, TitleSlot, BatchCommits,
     BatchRollsBack
<1> QED
  BY <1>2 DEF Next, vars, queue, Append, FlushSync, Seal, TitleSet, Rewrite, Close, BatchCalled,
     Recover, ForeignAppends, OwnerChanges

LEMMA UndoesBatch ==
    ASSUME [Next]_vars, undone' # undone
    PROVE  \E b \in Batches : BatchRollsBack(b) /\ undone' = undone \union Staged(b)
<1> DEFINE Goal == \E b \in Batches : BatchRollsBack(b) /\ undone' = undone \union Staged(b)
<1>1. ASSUME NEW b \in Batches, BatchRollsBack(b) PROVE Goal
  BY <1>1 DEF BatchRollsBack
<1> HIDE DEF Goal
<1>2. ASSUME NEW o \in Ops, Continues(o) PROVE Goal
  BY <1>1, <1>2
     DEF Continues, WorkDropped, WorkRefused, RewriteStarts, RepairStarts,
     CloseFails, Serializes, Publishes, Contested, ReadsBack, Adopts, Recorded, Marks, Verifies,
     RepairRecorded, RepairFails, CloseRuns, TitleAppends, TitleSlot, BatchStaged, BatchCommits
<1> QED
  BY <1>2 DEF Next, vars, Append, FlushSync, Seal, TitleSet, Rewrite, Close, BatchCalled,
     Recover, ForeignAppends, OwnerChanges, Goal

LEMMA CommitsBatch ==
    ASSUME CallsInv, [Next]_vars, NEW b \in Batches, pc'[b] = "committed", pc[b] # "committed"
    PROVE  BatchCommits(b)
<1>1. \A o \in Ops, c \in {"queued", "closing", "staging", "published", "conflicted", "reread",
        "unwritten", "marking", "titling", "done", "failed", "refused", "unrepaired",
        "indeterminate", "dropped", "flushing", "decide", "rollback", "waiting"} :
        pc' # [pc EXCEPT ![o] = c]
  BY DEF CallsInv, Ops
<1>2. UNCHANGED pc => FALSE
  OBVIOUS
<1>3. ASSUME NEW o \in Ops, Continues(o)
      PROVE  BatchCommits(b)
  <2>1. ~Resolves(o) /\ ~Rejected(o)
    BY <1>1 DEF Resolves, Rejected
  <2>2. CASE o \in Batches /\ BatchCommits(o)
    <3>1. o = b
      BY <1>2, <2>2 DEF BatchCommits, CallsInv, Ops
    <3> QED
      BY <2>2, <3>1
  <2>3. CASE o \in Batches /\ (BatchStaged(o) \/ BatchRollsBack(o))
    BY <1>1, <2>3 DEF BatchStaged, BatchRollsBack, RepairBegins, Schedule, Ops
  <2>4. ~RepairRecorded(o) /\ ~RepairFails(o) /\ ~CloseRuns(o) /\ ~TitleAppends(o) /\ ~TitleSlot(o)
    BY <1>1, <1>2, <2>1 DEF RepairRecorded, RepairFails, CloseRuns, TitleAppends, TitleSlot
  <2>5. ~RewriteStarts(o) /\ ~RepairStarts(o) /\ ~Serializes(o) /\ ~Publishes(o) /\ ~Contested(o)
    BY <1>1, <1>2, <2>1 DEF RewriteStarts, RepairStarts, Serializes, Abandoned, Publishes, Contested
  <2>6. ~ReadsBack(o) /\ ~Adopts(o) /\ ~Recorded(o)
    BY <1>1, <1>2, <2>1 DEF ReadsBack, Adopts, Retries, Recorded, Abandoned
  <2> QED
    BY <1>3, <2>1, <2>2, <2>3, <2>4, <2>5, <2>6
       DEF Continues, WorkDropped, WorkRefused, CloseFails, Marks, Verifies
<1>4. CASE \/ \E t \in Titles : TitleSet(t)
           \/ \E r \in Rewrites : Rewrite(r)
           \/ \E c \in Closes : Close(c)
           \/ \E a \in Batches : BatchCalled(a)
           \/ \E v \in Recovers : Recover(v)
  <2>1. \E o \in Ops, c \in {"queued", "flushing", "waiting", "done", "failed"} : pc' = [pc EXCEPT ![o] = c]
    BY <1>4 DEF TitleSet, Rewrite, Close, BatchCalled, Recover, RepairBegins, Schedule, Ops
  <2> QED
    BY <1>1, <2>1
<1> QED
  BY <1>2, <1>3, <1>4 DEF Next, vars, calls, Append, FlushSync, Seal, ForeignAppends, OwnerChanges

\* An ended call stays where it is, and a repair ends or goes on.
LEMMA EndedStays ==
    ASSUME CallsBase, [Next]_vars, NEW b \in Batches
    PROVE  /\ pc[b] \in Ended => pc'[b] = pc[b]
           /\ Repairs(b) => Repairs(b)' \/ pc'[b] \in Ended
<1>1. b \in Ops /\ b \notin Titles /\ Place(b, pc[b], job[b].mode)
  BY BatchAssumption DEF Ops, CallsBase, PlaceInv
<1>2. \A c \in Ended : c \notin InTask \union {"waiting", "idle", "flushing", "decide", "rollback"}
  BY DEF Ended, InTask
<1>3. Repairs(b) => pc[b] \in InTask \union {"waiting"} /\ pc[b] # "queued"
  BY <1>1 DEF Place, Repairs
<1>4. CASE Rests \/ Restarts
  BY <1>1, <1>4 DEF Rests, Restarts, Now, OthersStay, Repairs
<1>5. ASSUME NEW q \in Ops, Moved(q), q # b
      PROVE  pc'[b] = pc[b] /\ job'[b] = job[b]
  BY <1>1, <1>5 DEF Moved, Queues, Goes, Ends, Turns, Mends, Now, OthersStay
<1>6. CASE Queues(b)
  BY <1>2, <1>3, <1>6 DEF Queues, InTask
<1>7. CASE Goes(b)
  BY <1>2, <1>7 DEF Goes, Now, Repairs
<1>8. CASE Ends(b)
  BY <1>2, <1>8 DEF Ends, Repairs
<1>9. CASE Turns(b)
  BY <1>2, <1>9 DEF Turns, Now, Repairs
<1>10. CASE Mends(b)
  BY <1>2, <1>10 DEF Mends, Now, Repairs
<1> QED
  BY <1>4, <1>5, <1>6, <1>7, <1>8, <1>9, <1>10, StepMoves DEF CallsBase, Moved, Repairs

LEMMA UndoneStep ==
    ASSUME CallsBase, UndoneInv, [Next]_vars
    PROVE  UndoneInv'
<1> SUFFICES ASSUME NEW b \in Batches, NEW e \in Staged(b), e \in undone'
             PROVE  Repairs(b)' \/ pc'[b] \in Ended \ {"committed"}
  BY DEF UndoneInv
<1>1. CASE e \in undone
  <2>1. Repairs(b) \/ pc[b] \in Ended \ {"committed"}
    BY <1>1 DEF UndoneInv
  <2>2. Repairs(b)' \/ pc'[b] \in Ended
    BY <2>1, EndedStays
  <2>3. pc[b] # "committed" /\ pc[b] # "decide"
    BY <2>1 DEF CallsBase, PlaceInv, Place, Repairs, Ended, InTask, Ops
  <2>4. pc'[b] # "committed"
    BY <2>3, CommitsBatch DEF BatchCommits, CallsBase
  <2> QED
    BY <2>2, <2>4
<1>2. CASE e \notin undone
  <2>1. PICK a \in Batches : BatchRollsBack(a) /\ undone' = undone \union Staged(a)
    BY <1>2, UndoesBatch
  <2>2. a = b /\ a \in Ops
    BY <1>2, <2>1, StagedApartTitles DEF Ops
  <2>3. CASE RepairBegins(b)
    BY <2>2, <2>3, RepairEffect DEF Now, Repairs, CallsBase
  <2>4. CASE pc' = [pc EXCEPT ![b] = "unrepaired"]
    BY <2>2, <2>4 DEF CallsBase, CallsInv, Ended
  <2> QED
    BY <2>1, <2>2, <2>3, <2>4 DEF BatchRollsBack
<1> QED
  BY <1>1, <1>2

\* What the entries of calls at work are known to be.
Sound == ~released => GuardInv /\ WorkInv /\ DiskInv

\* Who is to mark the file as current has written it.
LEMMA MarkedOnDisk ==
    ASSUME CallsBase, SealedInv, Sound, NEW o \in Ops, pc[o] = "marking"
    PROVE  entries \subseteq disk[path] \union AllTitles
<1>1. CASE released
  BY <1>1 DEF SealedInv
<1>2. CASE ~released
  <2>1. AtWork(o) /\ WorkerOK(o)
    BY <1>2 DEF Sound, GuardInv, MarkInv, WorkInv, AtWork, Active, InTask
  <2>2. Pending(o) \subseteq AllTitles
    BY DEF Pending, Promised, AllTitles
  <2> QED
    BY <2>1, <2>2 DEF WorkerOK
<1> QED
  BY <1>1, <1>2

\* What a session requires and where it is.
Follows ==
    /\ required => required'
    /\ path' = path \/ (path' = "sibling" /\ required')
Written == entries' \subseteq disk'[path'] \union AllTitles

LEMMA RewriteWritten ==
    ASSUME ManagerType, NEW mem, NEW cur, NEW req \in BOOLEAN, required => req, RewriteNow(mem, cur, req)
    PROVE  Follows \/ Written
<1> DEFINE to == IF Lost THEN "sibling" ELSE path
           known == IF Lost THEN {} ELSE expected
           body == IF known = disk[to] THEN mem ELSE mem \union disk[to]
<1>1. path' = to
  BY DEF RewriteNow
<1>2. \/ required' = (req \/ Lost)
      \/ disk' = [disk EXCEPT ![to] = body] /\ entries' = body
  BY DEF RewriteNow
<1>3. CASE required' = (req \/ Lost)
  BY <1>1, <1>3 DEF Follows, ManagerType
<1>4. to \in Paths /\ disk \in [Paths -> SUBSET Entries]
  BY DEF ManagerType, Paths
<1> HIDE DEF to, known, body
<1>5. CASE disk' = [disk EXCEPT ![to] = body] /\ entries' = body
  BY <1>1, <1>4, <1>5 DEF Written
<1> QED
  BY <1>2, <1>3, <1>5

LEMMA FileStep ==
    ASSUME CallsBase, SealedInv, Sound, [Next]_vars
    PROVE  Follows \/ Written
<1>1. /\ ManagerType /\ CallsInv /\ required \in BOOLEAN /\ failure \in BOOLEAN /\ dirty \in BOOLEAN
  BY DEF CallsBase, ManagerType
<1>2. CASE UNCHANGED <<required, path>>
  BY <1>2 DEF Follows
<1>3. ASSUME NEW e \in Appends, Append(e) PROVE Follows \/ Written
  <2>1. CASE RewriteNow(entries \union {e}, current /\ ~failure, required \/ failure)
    BY <1>1, <2>1, RewriteWritten
  <2> QED
    BY <1>1, <1>3, <2>1 DEF Append, Follows, flags, files
<1>4. CASE FlushSync
  BY <1>1, <1>4, RewriteWritten DEF FlushSync
<1>5. ASSUME NEW t \in Titles, TitleSet(t) PROVE Follows \/ Written
  <2>1. CASE RewriteNow(entries \union {TitleOf(t)}, FALSE, TRUE)
    BY <1>1, <2>1, RewriteWritten
  <2> QED
    BY <1>2, <1>5, <2>1 DEF TitleSet
<1>6. ASSUME NEW o \in Ops, Marks(o) PROVE Follows \/ Written
  <2>1. entries \subseteq disk[path] \union AllTitles
    BY <1>6, MarkedOnDisk DEF Marks
  <2> QED
    BY <1>6, <2>1 DEF Marks, files, Written
<1>7. ASSUME NEW o \in Ops, RepairRecorded(o) PROVE Follows \/ Written
  <2>1. CASE UNCHANGED <<required, path>>
    BY <1>2, <2>1
  <2>2. CASE ~dirty
    <3>1. /\ Repairs(o) /\ o \in fresh /\ UNCHANGED <<entries, disk, path>>
          /\ pc[o] = "published" \/ (pc[o] = "unwritten" /\ disk[job[o].file] = job[o].body)
      BY <1>7 DEF RepairRecorded, Stale
    <3>2. ~released
      BY <3>1 DEF SealedInv
    <3>3. WorkerOK(o) /\ Pending(o) = {}
      BY <3>1, <3>2 DEF Sound, WorkInv, AtWork, Active, InTask, Pending
    <3>4. entries \subseteq disk[path]
      BY <2>2, <3>1, <3>3 DEF WorkerOK, Rewriting
    <3> QED
      BY <3>1, <3>4 DEF Written
  <2> QED
    BY <1>7, <2>1, <2>2 DEF RepairRecorded, MoreToWrite
<1>8. ASSUME NEW o \in Ops, RepairFails(o) PROVE Follows \/ Written
  BY <1>8 DEF RepairFails, Follows
<1>9. ASSUME NEW o \in Ops, Serializes(o) \/ Contested(o) \/ CloseRuns(o) PROVE Follows \/ Written
  BY <1>1, <1>9 DEF Serializes, Contested, CloseRuns, Follows, files
<1>10. ASSUME NEW b \in Batches, BatchStaged(b) \/ BatchCommits(b) \/ BatchRollsBack(b) PROVE Follows \/ Written
  BY <1>10 DEF BatchStaged, BatchCommits, BatchRollsBack, RepairBegins, Follows, flags, files
<1>11. ASSUME NEW o \in Ops, Continues(o) PROVE Follows \/ Written
  BY <1>2, <1>6, <1>7, <1>8, <1>9, <1>10, <1>11
     DEF Continues, WorkDropped, WorkRefused, RewriteStarts, RepairStarts, CloseFails, Publishes,
     ReadsBack, Adopts, Recorded, Verifies, TitleAppends, TitleSlot, flags, files
<1>12. CASE \/ Seal
            \/ \E r \in Rewrites : Rewrite(r)
            \/ \E c \in Closes : Close(c)
            \/ \E b \in Batches : BatchCalled(b)
            \/ \E v \in Recovers : Recover(v)
            \/ \E x \in Foreign : ForeignAppends(x)
            \/ OwnerChanges
  BY <1>12 DEF Seal, Rewrite, Close, BatchCalled, Recover, RepairBegins, ForeignAppends, OwnerChanges,
     Follows, flags, files
<1> QED
  BY <1>2, <1>3, <1>4, <1>5, <1>11, <1>12 DEF Next, vars, flags, files

\* The open batch is the one that was open, and not yet in repair, or a new one.
LEMMA OpenStep ==
    ASSUME CallsBase, LockInv, [Next]_vars, batch' # None, job'[batch'].mode # "repair"
    PROVE  \/ batch' = batch /\ job[batch].mode # "repair"
           \/ batch' # batch /\ Staged(batch') \subseteq entries' /\ required' = TRUE
<1>1. CASE batch' # batch
  BY <1>1, OpensBatch
<1>2. CASE batch' = batch
  <2>1. batch \in Ops /\ pc[batch] \in {"decide", "rollback", "waiting"} \union InTask
    BY <1>2 DEF LockInv, CallsBase, ManagerType, Ops
  <2>2. job[batch].mode # "repair"
    <3>1. CASE Rests \/ Restarts
      <4>1. batch \notin Titles
        BY <1>2, BatchAssumption DEF CallsBase, ManagerType
      <4> QED
        BY <1>2, <3>1 DEF Rests, Restarts
    <3>2. ASSUME NEW q \in Ops, Moved(q), q # batch
          PROVE  job'[batch] = job[batch]
      BY <2>1, <3>2 DEF Moved, Queues, Goes, Ends, Turns, Mends, Now, OthersStay
    <3>3. CASE Queues(batch)
      BY <2>1, <3>3 DEF Queues, InTask
    <3>4. CASE Goes(batch)
      BY <1>2, <3>4 DEF Goes, Now, Repairs
    <3>5. CASE Ends(batch)
      BY <1>2, <3>5 DEF Ends, Repairs
    <3>6. CASE Turns(batch)
      BY <1>2, <3>6 DEF Turns, Now
    <3>7. CASE Mends(batch)
      BY <1>2, <3>7 DEF Mends, Now
    <3> QED
      BY <1>2, <3>1, <3>2, <3>3, <3>4, <3>5, <3>6, <3>7, StepMoves DEF CallsBase, Moved
  <2> QED
    BY <1>2, <2>2
<1> QED
  BY <1>1, <1>2

\* The entries of an open batch that is not in repair are not undone.
LEMMA OpenIsKept ==
    ASSUME LockInv', UndoneInv', CallsBase', batch' # None, job'[batch'].mode # "repair"
    PROVE  Staged(batch') \intersect undone' = {}
<1>1. pc'[batch'] \in {"decide", "rollback", "waiting"} \union InTask
  BY DEF LockInv
<1>2. pc'[batch'] \notin Ended /\ batch' \in Batches
  BY <1>1 DEF InTask, Ended, CallsBase, ManagerType
<1> QED
  BY <1>2 DEF UndoneInv, Repairs

LEMMA KeptStep ==
    ASSUME CallsBase, KnownInv, LockInv, KeptInv, [Next]_vars, CallsBase', LockInv', UndoneInv'
    PROVE  KeptInv'
<1> SUFFICES ASSUME batch' # None, job'[batch'].mode # "repair"
             PROVE  Staged(batch') \subseteq entries'
  BY DEF KeptInv
<1>1. CASE batch' = batch /\ job[batch].mode # "repair"
  <2>1. Staged(batch) \subseteq entries
    BY <1>1 DEF KeptInv
  <2>2. Staged(batch') \intersect undone' = {}
    BY OpenIsKept
  <2>3. entries \subseteq entries' \union undone'
    BY StoreStep DEF StoreMoves, CallsBase
  <2> QED
    BY <1>1, <2>1, <2>2, <2>3
<1> QED
  BY <1>1, OpenStep

LEMMA OpenedStep ==
    ASSUME CallsBase, KnownInv, LockInv, OpenInv, SealedInv, Sound, [Next]_vars,
           CallsBase', LockInv', UndoneInv', KeptInv'
    PROVE  OpenInv'
<1> SUFFICES ASSUME batch' # None, job'[batch'].mode # "repair", ~required'
             PROVE  Staged(batch') \subseteq disk'[path']
  BY DEF OpenInv
<1>1. batch' = batch /\ job[batch].mode # "repair"
  BY OpenStep
<1>2. CASE Written
  <2>1. Staged(batch') \subseteq entries' /\ Staged(batch') \intersect AllTitles = {}
    BY StagedApartTitles DEF KeptInv
  <2> QED
    BY <1>2, <2>1 DEF Written
<1>3. CASE Follows
  <2>1. path' = path /\ Staged(batch) \subseteq disk[path] /\ path \in Paths
    BY <1>1, <1>3 DEF Follows, OpenInv, CallsBase, ManagerType
  <2>2. Staged(batch') \intersect undone' = {}
    BY OpenIsKept
  <2>3. disk[path] \ disk'[path] \subseteq undone'
    BY <2>1, StoreStep DEF StoreMoves, CallsBase
  <2> QED
    BY <1>1, <2>1, <2>2, <2>3
<1> QED
  BY <1>2, <1>3, FileStep

\* Nothing is scheduled any more but a close.
LEMMA SealedStarts ==
    ASSUME CallsInv, [Next]_vars, released, NEW o \in Ops, pc'[o] \in {"queued", "waiting"}, pc'[o] # pc[o]
    PROVE  pc'[o] = "queued" /\ job'[o].mode = "close"
<1>1. CASE UNCHANGED pc
  BY <1>1
<1>2. \A q \in Ops, c \in {"closing", "staging", "published", "conflicted", "reread",
        "unwritten", "marking", "titling", "done", "failed", "refused", "unrepaired", "committed",
        "indeterminate", "dropped", "flushing", "decide", "rollback"} :
        pc' # [pc EXCEPT ![q] = c]
  BY DEF CallsInv
<1>3. ASSUME NEW q \in Closes, Close(q)
      PROVE  pc'[o] = "queued" /\ job'[o].mode = "close"
  <2>1. q \in Ops /\ Schedule(q, "close")
    BY <1>3 DEF Close, Ops
  <2>2. Now(q, "queued", "close", job[q].turn + 1, tail)
    BY <2>1, ScheduleEffect
  <2> QED
    BY <2>1, <2>2 DEF Now, OthersStay
<1>4. ASSUME NEW q \in Ops, Continues(q)
      PROVE  FALSE
  <2>1. ~Resolves(q) /\ ~Rejected(q)
    BY <1>2 DEF Resolves, Rejected
  <2>2. ~(q \in Batches /\ (BatchStaged(q) \/ BatchRollsBack(q) \/ BatchCommits(q)))
    BY <1>1, <1>2 DEF BatchStaged, BatchRollsBack, BatchCommits
  <2>3. ~RepairRecorded(q) /\ ~RepairFails(q) /\ ~CloseRuns(q) /\ ~TitleAppends(q) /\ ~TitleSlot(q)
    BY <1>1, <1>2, <2>1 DEF RepairRecorded, RepairFails, CloseRuns, TitleAppends, TitleSlot
  <2>4. ~RewriteStarts(q) /\ ~RepairStarts(q) /\ ~Serializes(q) /\ ~Publishes(q) /\ ~Contested(q)
    BY <1>1, <1>2, <2>1 DEF RewriteStarts, RepairStarts, Serializes, Abandoned, Publishes, Contested
  <2>5. ~ReadsBack(q) /\ ~Adopts(q) /\ ~Recorded(q)
    BY <1>1, <1>2, <2>1 DEF ReadsBack, Adopts, Retries, Recorded, Abandoned
  <2> QED
    BY <1>4, <2>1, <2>2, <2>3, <2>4, <2>5
       DEF Continues, WorkDropped, WorkRefused, CloseFails, Marks, Verifies
<1>5. ASSUME NEW b \in Batches, BatchCalled(b)
      PROVE  FALSE
  BY <1>2, <1>5 DEF BatchCalled, Ops
<1> QED
  BY <1>1, <1>3, <1>4, <1>5 DEF Next, vars, calls, Append, FlushSync, Seal, TitleSet, Rewrite, Recover,
     ForeignAppends, OwnerChanges

\* What is released writes no entry, and stays where it is.
LEMMA SealedStays ==
    ASSUME CallsBase, SealedInv, [Next]_vars, released
    PROVE  /\ entries' \subseteq entries /\ path' = path
           /\ \A o \in Ops : pc'[o] = "marking" => pc[o] = "marking"
<1>1. ~Lost /\ CallsInv
  BY DEF Lost, CallsBase
<1>2. \A o \in Ops : pc[o] \in {"reread", "published"} => Stale(o)
  BY DEF SealedInv, Stale
<1>3. entries' \subseteq entries /\ path' = path
  <2>1. ASSUME NEW o \in Ops, Adopts(o) PROVE UNCHANGED <<entries, path>>
    BY <1>2, <2>1 DEF Adopts, Superseded
  <2>2. ASSUME NEW o \in Ops, Serializes(o) \/ Contested(o) PROVE UNCHANGED <<entries, path>>
    BY <1>1, <2>2 DEF Serializes, Contested
  <2>3. ASSUME NEW b \in Batches, BatchStaged(b) \/ BatchRollsBack(b)
        PROVE  entries' \subseteq entries /\ path' = path
    BY <2>3 DEF BatchStaged, BatchRollsBack, files
  <2> QED
    BY <2>1, <2>2, <2>3
       DEF Next, vars, files, Append, FlushSync, Seal, TitleSet, Rewrite, Close, BatchCalled, Recover,
       ForeignAppends, OwnerChanges, Continues, WorkDropped, WorkRefused, RewriteStarts, RepairStarts,
       CloseFails, Publishes, ReadsBack, Recorded, Marks, Verifies,
       RepairRecorded, RepairFails, CloseRuns, TitleAppends, TitleSlot, BatchCommits
<1>4. ASSUME NEW o \in Ops, pc'[o] = "marking", pc[o] # "marking"
      PROVE  FALSE
  <2>1. CASE Rests \/ Restarts
    BY <1>4, <2>1 DEF Rests, Restarts, Now, OthersStay
  <2>2. ASSUME NEW q \in Ops, Moved(q) PROVE q = o
    BY <1>4, <2>2 DEF Moved, Queues, Goes, Ends, Turns, Mends, Now, OthersStay
  <2>3. CASE Goes(o)
    BY <1>2, <1>4, <2>3 DEF Goes, Stale
  <2>4. CASE Queues(o) \/ Ends(o) \/ Turns(o) \/ Mends(o)
    BY <1>4, <2>4 DEF Queues, Ends, Turns, Mends, Now, Ended
  <2> QED
    BY <2>1, <2>2, <2>3, <2>4, StepMoves DEF CallsBase, Moved
<1> QED
  BY <1>3, <1>4

LEMMA SealedStep ==
    ASSUME CallsBase, KnownInv, SealedInv, Sound, [Next]_vars
    PROVE  SealedInv'
<1> SUFFICES ASSUME released'
             PROVE  /\ \A o \in fresh' : pc'[o] = "queued" /\ job'[o].mode = "close"
                    /\ \A o \in Ops : pc'[o] = "marking" => entries' \subseteq disk'[path'] \union AllTitles
  BY DEF SealedInv
<1>1. path \in Paths /\ fresh' \subseteq Ops
  BY FlagsStep DEF CallsBase, ManagerType, FlagsType
<1>2. CASE ~released
  <2>1. Seal
    BY <1>2
       DEF Next, vars, state, Append, FlushSync, TitleSet, Rewrite, Close, BatchCalled, Recover,
       ForeignAppends, OwnerChanges, Continues, WorkDropped, WorkRefused, RewriteStarts, RepairStarts,
       CloseFails, Serializes, Publishes, Contested, ReadsBack, Adopts, Recorded, Marks, Verifies,
       RepairRecorded, RepairFails, CloseRuns, TitleAppends, TitleSlot, BatchStaged, BatchCommits,
       BatchRollsBack
  <2>2. fresh' = {} /\ UNCHANGED <<entries, disk, path, pc>>
    BY <2>1 DEF Seal, EpochMoves, calls, files
  <2> QED
    BY <2>2, MarkedOnDisk
<1>3. CASE released
  <2>1. ASSUME NEW o \in fresh'
        PROVE  pc'[o] = "queued" /\ job'[o].mode = "close"
    <3>1. o \in fresh => pc[o] = "queued" /\ job[o].mode = "close"
      BY <1>3 DEF SealedInv
    <3>2. ASSUME NEW q \in Ops, Moved(q), q # o
          PROVE  pc'[o] = "queued" /\ job'[o].mode = "close"
      <4>1. OthersStay(q) /\ o \in fresh
        BY <3>2 DEF Moved, Queues, Goes, Ends, Turns, Mends, Now
      <4> QED
        BY <1>1, <3>1, <3>2, <4>1 DEF OthersStay
    <3>3. CASE Queues(o) \/ Mends(o)
      <4>1. pc'[o] \in {"queued", "waiting"} /\ pc'[o] # pc[o]
        BY <3>3 DEF Queues, Mends, Now
      <4> QED
        BY <1>1, <1>3, <4>1, SealedStarts DEF CallsBase
    <3>4. CASE Goes(o)
      BY <1>3, <3>1, <3>4 DEF Goes, Runs
    <3>5. CASE Ends(o)
      BY <3>5 DEF Ends
    <3>6. CASE Turns(o)
      BY <3>1, <3>6 DEF Turns
    <3>7. CASE Rests \/ Restarts
      BY <3>1, <3>7 DEF Rests, Restarts
    <3> QED
      BY <1>1, <3>2, <3>3, <3>4, <3>5, <3>6, <3>7, StepMoves DEF CallsBase, Moved
  <2>2. ASSUME NEW o \in Ops, pc'[o] = "marking"
        PROVE  entries' \subseteq disk'[path'] \union AllTitles
    <3>1. entries \subseteq disk[path] \union AllTitles
      BY <1>3, <2>2, SealedStays DEF SealedInv
    <3>2. disk[path] \subseteq disk'[path]
      BY <1>1, <1>3, StoreStep DEF Sealed, CallsBase
    <3> QED
      BY <1>3, <3>1, <3>2, SealedStays
  <2> QED
    BY <2>1, <2>2
<1> QED
  BY <1>2, <1>3

LEMMA CommittedStep ==
    ASSUME CallsBase, KnownInv, LockInv, UndoneInv, KeptInv, OpenInv, SealedInv, Sound, CommittedInv,
           [Next]_vars, CallsBase', UndoneInv'
    PROVE  CommittedInv'
<1> SUFFICES ASSUME NEW b \in Batches, pc'[b] = "committed"
             PROVE  Staged(b) \subseteq entries' \ undone' /\ \A e \in Staged(b) : OnDisk(e)'
  BY DEF CommittedInv
<1>1. b \in Ops /\ b # None /\ path \in Paths /\ "home" \in Paths
  BY NoneAssumption DEF Ops, CallsBase, ManagerType, Paths
<1>2. CASE pc[b] # "committed"
  <2>1. BatchCommits(b)
    BY <1>2, CommitsBatch DEF CallsBase
  <2>2. pc[b] = "decide" /\ ~required /\ UNCHANGED <<entries, undone, disk, path>>
    BY <2>1 DEF BatchCommits, BatchPublished, files
  <2>3. batch = b /\ job[b].mode = "none"
    BY <1>1, <2>2 DEF LockInv, CallsBase, PlaceInv, Place, InTask
  <2>4. Staged(b) \subseteq entries /\ Staged(b) \subseteq disk[path]
    BY <1>1, <2>2, <2>3 DEF KeptInv, OpenInv
  <2>5. Staged(b) \intersect undone = {}
    BY <2>2, <2>3 DEF UndoneInv, Repairs, Ended
  <2> QED
    BY <2>2, <2>4, <2>5 DEF OnDisk
<1>3. CASE pc[b] = "committed"
  <2>1. Staged(b) \subseteq entries /\ \A e \in Staged(b) : OnDisk(e)
    BY <1>3 DEF CommittedInv
  <2>2. Staged(b) \intersect undone' = {}
    <3>1. ~Repairs(b)'
      BY <1>1 DEF CallsBase, PlaceInv, Place, InTask, Repairs
    <3> QED
      BY <3>1 DEF UndoneInv
  <2>3. /\ entries \subseteq entries' \union undone'
        /\ \A p \in Paths : disk[p] \ disk'[p] \subseteq undone'
    BY StoreStep DEF StoreMoves, CallsBase
  <2>4. Staged(b) \subseteq entries' \ undone'
    BY <2>1, <2>2, <2>3
  <2>5. ASSUME NEW e \in Staged(b)
        PROVE  OnDisk(e)'
    <3>1. \A p \in Paths : e \in disk[p] => e \in disk'[p]
      BY <2>2, <2>3
    <3>2. CASE Written
      <4>1. e \in entries' /\ e \notin AllTitles
        BY <2>4, StagedApartTitles
      <4> QED
        BY <3>2, <4>1 DEF Written, OnDisk
    <3>3. CASE Follows
      <4>1. path = "home" \/ path = "sibling"
        BY <1>1 DEF Paths
      <4> QED
        BY <1>1, <2>1, <3>1, <3>3, <4>1 DEF Follows, OnDisk
    <3> QED
      BY <3>2, <3>3, FileStep
  <2> QED
    BY <2>4, <2>5
<1> QED
  BY <1>2, <1>3

-----------------------------------------------------------------------------
(* The invariant of instances without the windows *)

FullInv ==
    /\ CallsBase /\ KnownInv /\ LockInv /\ SlotInv
    /\ UndoneInv /\ KeptInv /\ OpenInv /\ SealedInv /\ CommittedInv
    /\ Sound

LEMMA FullInit == Init => FullInv
<1> SUFFICES ASSUME Init PROVE FullInv
  OBVIOUS
<1>1. IInv
  BY InductiveInit
<1>2. /\ \A o \in Ops : pc[o] = "idle" /\ job[o] = NoJob
      /\ fresh = {} /\ batch = None /\ tail = NoWork /\ undone = {} /\ entries = {}
      /\ released = FALSE
  BY DEF Init
<1>3. NoJob.mode = "none" /\ NoJob.behind = NoWork
  BY DEF NoJob
<1>4. \A o \in Ops : ~Repairs(o) /\ ~AtWork(o)
  BY <1>2, <1>3 DEF Repairs, AtWork
<1>5. CallsBase
  BY <1>1, <1>2, <1>3 DEF IInv, CallsBase, PlaceInv, Place, CountedInv, Counted, InTask, Rewriting
<1>6. LockInv /\ SlotInv /\ KeptInv /\ OpenInv
  BY <1>2, <1>3, <1>4 DEF LockInv, Holding, SlotInv, KeptInv, OpenInv, Ops
<1>7. UndoneInv /\ SealedInv /\ CommittedInv
  BY <1>2 DEF UndoneInv, SealedInv, CommittedInv, Ops
<1>8. ChainInv
  <2> DEFINE c == [i \in Nat |-> None]
  <2>1. c \in [Nat -> Ops \union {None}]
    OBVIOUS
  <2>2. Chained(c, 0, 0)
    BY <1>2 DEF Line, Chained, Settled
  <2> HIDE DEF c
  <2> QED
    BY <2>1, <2>2 DEF ChainInv
<1>9. QueueInv /\ MarkInv /\ BatchInv /\ LagInv /\ CalmInv
  BY <1>2, <1>8 DEF QueueInv, BegunInv, RepairInv, MarkInv, BatchInv, LagInv, CalmInv
<1>10. WorkInv /\ DiskInv
  BY <1>2, <1>4 DEF WorkInv, DiskInv
<1> QED
  BY <1>1, <1>5, <1>6, <1>7, <1>9, <1>10 DEF FullInv, Sound, GuardInv, IInv

LEMMA FullStep ==
    ASSUME Closed, FullInv, [Next]_vars
    PROVE  FullInv'
<1>1. CallsBase /\ KnownInv /\ ManagerType /\ CallsInv /\ PlaceInv /\ CountedInv /\ LockInv
  BY DEF FullInv, CallsBase
<1>2. CallsBase' /\ KnownInv'
  BY <1>1, ManagerStep, CallsStep, KnownStep, PlaceStep, CountedStep DEF CallsBase
<1>3. LockInv' /\ SlotInv' /\ UndoneInv'
  BY <1>1, LockStep, SlotStep, UndoneStep DEF FullInv
<1>4. KeptInv'
  BY <1>1, <1>2, <1>3, KeptStep DEF FullInv
<1>5. OpenInv' /\ SealedInv' /\ CommittedInv'
  BY <1>1, <1>2, <1>3, <1>4, OpenedStep, SealedStep, CommittedStep DEF FullInv
<1>6. ASSUME ~released'
      PROVE  GuardInv' /\ WorkInv' /\ DiskInv'
  <2>1. ~released
    BY <1>6, ReleasedStays
  <2>2. /\ GuardInv /\ WorkInv /\ DiskInv
        /\ ChainInv /\ BegunInv /\ RepairInv /\ QueueInv /\ MarkInv /\ BatchInv /\ LagInv /\ CalmInv
    BY <2>1 DEF FullInv, Sound, GuardInv, QueueInv
  <2>3. ChainInv' /\ BegunInv' /\ RepairInv'
    BY <1>1, <1>6, <2>2, ChainStep, BegunStep, RepairsStep
  <2>4. MarkInv' /\ BatchInv' /\ LagInv' /\ CalmInv'
    BY <1>1, <1>6, <2>2, MarkStep, BatchStep, LagStep, CalmStep
  <2>5. WorkInv' /\ DiskInv'
    BY <1>1, <1>6, <2>2, WorkStep, DiskStep
  <2> QED
    BY <1>3, <2>3, <2>4, <2>5 DEF GuardInv, QueueInv
<1> QED
  BY <1>2, <1>3, <1>4, <1>5, <1>6 DEF FullInv, Sound

\* Where the windows "between" and "late" are left out, this is inductive: the work of
\* the epoch stands in line, whoever is at work can rely on the flags, the fence, the
\* file and its set of entries, and the disk has what the flags say.
THEOREM FullInductive == Closed => (Spec => []FullInv)
<1> SUFFICES ASSUME Closed PROVE Spec => []FullInv
  OBVIOUS
<1>1. FullInv /\ [Next]_vars => FullInv'
  BY FullStep
<1> QED
  BY FullInit, <1>1, PTL DEF Spec

\* At most one call of the epoch rewrites, appends a title to or repairs the
\* file at a time: the #diskTail, the epoch and the persistence lock exclude all others.
OneAtATime == released \/ \A o, q \in Ops : AtWork(o) /\ AtWork(q) => o = q
THEOREM OneWorks == Closed => (Spec => []OneAtATime)
<1> SUFFICES ASSUME Closed PROVE Spec => []OneAtATime
  OBVIOUS
<1>1. FullInv => OneAtATime
  <2> SUFFICES ASSUME FullInv, ~released, NEW o \in Ops, NEW q \in Ops, AtWork(o), AtWork(q)
               PROVE  o = q
    BY DEF OneAtATime
  <2> QED
    BY OneAtWork DEF FullInv, Sound, GuardInv
<1> QED
  BY <1>1, FullInductive, PTL

\* A completed entry is in the session's file, or the failure that kept it out is
\* latched, or a batch is being published, or its title change has not returned.
THEOREM CompletedOnDisk == Closed => (Spec => []CompletedIsOnDisk)
<1> SUFFICES ASSUME Closed PROVE Spec => []CompletedIsOnDisk
  OBVIOUS
<1>1. FullInv => CompletedIsOnDisk
  <2> SUFFICES ASSUME FullInv PROVE CompletedIsOnDisk
    OBVIOUS
  <2>1. CASE released
    BY <2>1 DEF CompletedIsOnDisk
  <2>2. CASE ~released
    BY <2>2, DiskMeans DEF FullInv, Sound, CallsBase
  <2> QED
    BY <2>1, <2>2
<1> QED
  BY <1>1, FullInductive, PTL

\* A batch that was reported as committed is on disk, whatever fails or is rolled back
\* after it.
THEOREM CommittedOnDisk == Closed => (Spec => []BatchCommitted)
<1> SUFFICES ASSUME Closed PROVE Spec => []BatchCommitted
  OBVIOUS
<1>1. FullInv => BatchCommitted
  BY DEF FullInv, CommittedInv, BatchCommitted
<1> QED
  BY <1>1, FullInductive, PTL

-----------------------------------------------------------------------------
(* What the calls may have in their hands *)

\* Only a rewrite counts conflicts.
TriesInv == \A o \in Ops : job[o].tries > 0 => pc[o] \in Rewriting \union {"marking"}

\* One call at a time has a publish to report.
SoloInv ==
    \A o, q \in Ops : pc[o] \in {"published", "marking"} /\ pc[q] \in {"published", "marking"} => o = q

\* No repair is superseded.
NoLate == \A v \in Ops : Repairs(v) => ~Stale(v)

\* Superseded, and yet it may have written, or be thought to have written.
Lags(o) == Stale(o) /\ pc[o] \in {"staging", "unwritten"} /\ ~Repairs(o)

LEMMA TriesTyped ==
    ASSUME CallsInv, NEW o \in Ops
    PROVE  job[o].tries \in Nat
BY RecoveriesAssumption DEF CallsInv, Jobs

LEMMA TriesStep ==
    ASSUME ManagerType, CallsInv, PlaceInv, TriesInv, [Next]_vars
    PROVE  TriesInv'
<1> SUFFICES ASSUME NEW o \in Ops, job'[o].tries > 0, pc'[o] \notin Rewriting \union {"marking"}
             PROVE  FALSE
  BY DEF TriesInv
<1>1. SameSets(job[o], job'[o])
  <2>1. ASSUME NEW q \in Ops, ReadsBack(q)
        PROVE  SameSets(job[o], job'[o])
    <3>1. pc'[q] \in Rewriting
      BY <2>1, ReadEffect DEF Now, Rewriting
    <3>2. OthersStay(q)
      BY <2>1, ReadEffect DEF Now
    <3> QED
      BY <3>1, <3>2 DEF OthersStay, SameSets
  <2>2. ASSUME NEW q \in Ops, Serializes(q), Repairs(q) \/ ~Stale(q)
        PROVE  SameSets(job[o], job'[o])
    <3>1. pc'[q] \in Rewriting
      BY <2>2, SerializeEffect DEF Now, Rewriting
    <3>2. OthersStay(q)
      BY <2>2, SerializeEffect DEF Now
    <3> QED
      BY <3>1, <3>2 DEF OthersStay, SameSets
  <2>3. CASE JobsKept
    <3>1. ~NoSets(job'[o])
      BY DEF NoSets
    <3> QED
      BY <2>3, <3>1 DEF JobsKept
  <2> QED
    BY <2>1, <2>2, <2>3, CallsStep
<1>2. job[o].tries > 0 /\ pc[o] \in Rewriting \union {"marking"}
  BY <1>1 DEF SameSets, TriesInv
<1>3. job[o].mode # "none" /\ job'[o].mode # "none"
  BY <1>1, <1>2 DEF SameSets, PlaceInv, Place
<1>4. ASSUME NEW q \in Ops, Moved(q)
      PROVE  q = o
  BY <1>2, <1>4 DEF Moved, Queues, Goes, Ends, Turns, Mends, Now, OthersStay
<1>5. pc[o] \notin {"idle", "flushing", "decide", "rollback", "queued"}
  BY <1>2 DEF Rewriting
<1>6. ~Queues(o) /\ ~Mends(o) /\ ~Turns(o)
  BY <1>5 DEF Queues, Mends, Turns
<1>7. ~Ends(o)
  BY <1>3 DEF Ends, Now
<1>8. CASE Goes(o)
  <2>1. pc'[o] = "titling"
    BY <1>8 DEF Goes, Now, Active, InTask, Rewriting
  <2>2. job'[o].mode \in {job[o].mode, "fallback"} /\ job[o].mode # "title"
    BY <1>2, <1>8 DEF Goes, PlaceInv, Place, Rewriting
  <2>3. job'[o].mode = "title"
    BY <2>1, PlaceStep DEF PlaceInv, Place
  <2> QED
    BY <2>2, <2>3
<1>9. CASE Rests \/ Restarts
  BY <1>2, <1>5, <1>9 DEF Rests, Restarts, Now, OthersStay
<1> QED
  BY <1>4, <1>6, <1>7, <1>8, <1>9, StepMoves DEF Moved

LEMMA SoloStep ==
    ASSUME ManagerType, CallsInv, PlaceInv, SoloInv, [Next]_vars
    PROVE  SoloInv'
<1> SUFFICES ASSUME NEW o \in Ops, NEW q \in Ops, o # q,
                    pc'[o] \in {"published", "marking"}, pc'[q] \in {"published", "marking"}
             PROVE  FALSE
  BY DEF SoloInv
<1>1. ASSUME NEW p \in Ops, pc'[p] \in {"published", "marking"}, pc[p] \notin {"published", "marking"}
      PROVE  \A r \in Ops : r # p => pc'[r] \notin {"published", "marking"}
  <2>1. CASE Rests \/ Restarts
    BY <1>1, <2>1 DEF Rests, Restarts, Now, OthersStay
  <2>2. ASSUME NEW r \in Ops, Moved(r)
        PROVE  r = p
    BY <1>1, <2>2 DEF Moved, Queues, Goes, Ends, Turns, Mends, Now, OthersStay
  <2>3. CASE Goes(p)
    <3>1. ~Busy /\ OthersStay(p)
      BY <1>1, <2>3 DEF Goes, Now
    <3> QED
      BY <3>1 DEF Busy, OthersStay
  <2>4. ~Queues(p) /\ ~Ends(p) /\ ~Turns(p) /\ ~Mends(p)
    BY <1>1 DEF Queues, Ends, Turns, Mends, Now, Ended
  <2> QED
    BY <2>1, <2>2, <2>3, <2>4, StepMoves DEF Moved
<1> QED
  BY <1>1 DEF SoloInv

\* A repair stays the newest work until another begins, or all are superseded.
LEMMA LateStep ==
    ASSUME ManagerType, CallsInv, PlaceInv, [Next]_vars, NoLate
    PROVE  NoLate' \/ Restarts \/ \E q \in Ops : Mends(q)
<1> SUFFICES ASSUME NEW v \in Ops, Repairs(v)', v \notin fresh', ~Restarts, \A q \in Ops : ~Mends(q)
             PROVE  FALSE
  BY DEF NoLate, Stale
<1>1. Repairs(v) => v \in fresh
  BY DEF NoLate, Stale
<1>2. CASE Rests
  BY <1>1, <1>2 DEF Rests, Repairs
<1>3. ASSUME NEW q \in Ops, Moved(q), q # v
      PROVE  FALSE
  BY <1>1, <1>3 DEF Moved, Queues, Goes, Ends, Turns, Now, OthersStay, Repairs
<1>4. CASE Queues(v)
  BY <1>4 DEF Queues, Now, Repairs
<1>5. CASE Goes(v)
  BY <1>1, <1>5 DEF Goes, Now, Repairs
<1>6. CASE Ends(v)
  BY <1>6 DEF Ends, Now, Repairs
<1>7. CASE Turns(v)
  BY <1>1, <1>7 DEF Turns, Now, Repairs
<1> QED
  BY <1>2, <1>3, <1>4, <1>5, <1>6, <1>7, StepMoves DEF Moved

\* How a call gets beyond the close of the writer.
LEMMA Enters ==
    ASSUME CallsInv, [Next]_vars, NEW o \in Ops, pc'[o] # pc[o]
    PROVE  /\ pc'[o] = "staging" => Serializes(o) /\ (Repairs(o) \/ ~Stale(o))
           /\ pc'[o] \in {"published", "conflicted", "unwritten"} => Publishes(o)
           /\ pc'[o] = "reread" => ReadsBack(o)
<1> DEFINE Goal == /\ pc'[o] = "staging" => Serializes(o) /\ (Repairs(o) \/ ~Stale(o))
                   /\ pc'[o] \in {"published", "conflicted", "unwritten"} => Publishes(o)
                   /\ pc'[o] = "reread" => ReadsBack(o)
<1>1. ASSUME NEW q \in Ops,
             NEW c \in {"queued", "closing", "marking", "titling", "done", "failed", "refused",
               "unrepaired", "indeterminate", "dropped", "flushing", "decide", "rollback", "waiting",
               "committed"},
             pc' = [pc EXCEPT ![q] = c]
      PROVE  Goal
  <2>1. pc'[o] = c
    BY <1>1 DEF CallsInv
  <2>2. c \notin {"staging", "published", "conflicted", "unwritten", "reread"}
    OBVIOUS
  <2> QED
    BY <2>1, <2>2
<1>2. CASE UNCHANGED pc
  BY <1>2
<1>3. ASSUME NEW q \in Ops, Resolves(q) \/ Rejected(q) PROVE Goal
  <2>1. \E c \in {"flushing", "decide", "done", "rollback", "failed"} : pc' = [pc EXCEPT ![q] = c]
    BY <1>3 DEF Resolves, Rejected
  <2> HIDE DEF Goal
  <2> QED
    BY <1>1, <2>1
<1>4. ASSUME NEW q \in Ops, Serializes(q) PROVE Goal
  <2>1. CASE Resolves(q)
    BY <1>3, <2>1
  <2>2. CASE pc' = [pc EXCEPT ![q] = "staging"] /\ (Repairs(q) \/ ~Stale(q))
    <3>1. q = o /\ pc'[o] = "staging"
      BY <2>2 DEF CallsInv
    <3> QED
      BY <1>4, <2>2, <3>1
  <2> QED
    BY <1>4, <2>1, <2>2 DEF Serializes, Abandoned
<1>5. ASSUME NEW q \in Ops, Publishes(q) PROVE Goal
  <2>1. \E c \in {"published", "conflicted", "unwritten"} : pc' = [pc EXCEPT ![q] = c]
    BY <1>5 DEF Publishes
  <2>2. q = o /\ pc'[o] \in {"published", "conflicted", "unwritten"}
    BY <2>1 DEF CallsInv
  <2> QED
    BY <1>5, <2>2
<1>6. ASSUME NEW q \in Ops, ReadsBack(q) PROVE Goal
  <2>1. \E c \in {"closing", "reread"} : pc' = [pc EXCEPT ![q] = c]
    BY <1>6 DEF ReadsBack, Retries
  <2>2. q = o /\ pc'[o] \in {"closing", "reread"}
    BY <2>1 DEF CallsInv
  <2> QED
    BY <1>6, <2>2
<1> HIDE DEF Goal
<1>7. ASSUME NEW q \in Ops,
             \/ WorkDropped(q) \/ WorkRefused(q) \/ CloseFails(q) \/ Marks(q) \/ Verifies(q)
             \/ RewriteStarts(q) \/ RepairStarts(q) \/ Contested(q) \/ Adopts(q)
      PROVE  Goal
  BY <1>1, <1>3, <1>7 DEF WorkDropped, WorkRefused, CloseFails, Marks, Verifies, RewriteStarts,
     RepairStarts, Contested, Adopts, Retries
<1>8. ASSUME NEW q \in Ops, Recorded(q) \/ RepairRecorded(q) \/ RepairFails(q) \/ CloseRuns(q)
      PROVE  Goal
  <2>1. CASE Resolves(q)
    BY <1>3, <2>1
  <2>2. CASE \E c \in {"closing", "marking", "refused", "done", "indeterminate", "failed"} :
                pc' = [pc EXCEPT ![q] = c]
    BY <1>1, <2>2
  <2> QED
    BY <1>8, <2>1, <2>2 DEF Recorded, Abandoned, Retries, RepairRecorded, RepairFails, CloseRuns
<1>9. ASSUME NEW q \in Ops, TitleAppends(q) \/ TitleSlot(q)
      PROVE  Goal
  <2>1. CASE Resolves(q) \/ Rejected(q)
    BY <1>3, <2>1
  <2>2. CASE \E c \in {"titling", "closing"} : pc' = [pc EXCEPT ![q] = c]
    BY <1>1, <2>2
  <2> QED
    BY <1>9, <2>1, <2>2 DEF TitleAppends, TitleSlot
<1>10. ASSUME NEW b \in Batches,
              BatchStaged(b) \/ BatchCommits(b) \/ BatchRollsBack(b) \/ BatchCalled(b)
       PROVE  Goal
  <2>1. \E c \in {"queued", "flushing", "rollback", "dropped", "committed", "unrepaired", "waiting"} :
           pc' = [pc EXCEPT ![b] = c]
    BY <1>10 DEF BatchStaged, BatchCommits, BatchRollsBack, BatchCalled, Schedule, RepairBegins
  <2>2. b \in Ops
    BY DEF Ops
  <2> QED
    BY <1>1, <2>1, <2>2
<1>11. ASSUME NEW q \in Ops, Continues(q) PROVE Goal
  BY <1>4, <1>5, <1>6, <1>7, <1>8, <1>9, <1>10, <1>11 DEF Continues
<1>12. CASE \/ \E t \in Titles : TitleSet(t)
            \/ \E r \in Rewrites : Rewrite(r)
            \/ \E c \in Closes : Close(c)
            \/ \E v \in Recovers : Recover(v)
  <2>1. \E q \in Ops, c \in {"queued", "waiting", "done", "failed"} : pc' = [pc EXCEPT ![q] = c]
    BY <1>12 DEF TitleSet, Rewrite, Close, Recover, RepairBegins, Schedule, Ops
  <2> QED
    BY <1>1, <2>1 DEF Goal
<1> QED
  BY <1>2, <1>10, <1>11, <1>12 DEF Next, vars, calls, Append, FlushSync, Seal, ForeignAppends, OwnerChanges, Goal

-----------------------------------------------------------------------------
(* The ways in which a step writes *)

\* #rewriteSynchronously is called, by an append, a title change or a flush.
RewritesNow ==
    \E mem \in SUBSET Entries, cur \in BOOLEAN, req \in BOOLEAN :
        /\ entries \subseteq mem /\ mem \subseteq entries \union Appends \union AllTitles
        /\ RewriteNow(mem, cur, req)
        /\ ~released /\ SparesBatch /\ NoneBetween /\ UNCHANGED <<released, batch, undone, job>>

\* An entry is appended to the file at once.
AppendsNow(e) ==
    /\ ~released /\ batch = None /\ NoneBetween /\ ~fence /\ ~failure
    /\ entries' = entries \union {e} /\ expected' = expected \union {e}
    /\ disk' = [disk EXCEPT ![path] = @ \union {e}]
    /\ UNCHANGED <<failure, released, batch, fresh, calls, path, undone>>

\* The line of a title change is appended.
TitleWritten(t) ==
    /\ TitleAppends(t) /\ pc' = [pc EXCEPT ![t] = "titling"]
    /\ disk' = [disk EXCEPT ![path] = @ \union {TitleOf(t)}]
    /\ expected' = expected \union {TitleOf(t)}
    /\ UNCHANGED <<failure, released, batch, fresh, job, path, entries, undone>>

\* A publish replaces the file.
PublishDone(o) ==
    /\ Publishes(o) /\ o \in fresh /\ ~released /\ disk[job[o].file] = job[o].exp
    /\ disk' = [disk EXCEPT ![job[o].file] = job[o].body]
    /\ UNCHANGED <<failure, released, batch, fresh, job, path, entries, expected, undone>>

\* Nothing is written, and nobody who is at work moves.
Aside ==
    /\ UNCHANGED <<disk, expected, path, batch, undone, released>>
    /\ failure => failure'
    /\ fresh \subseteq fresh'
    /\ entries' \subseteq entries \union Appends \union AllTitles
    /\ \A w \in Ops : AtWork(w) \/ AtWork(w)' =>
          AtWork(w) /\ AtWork(w)' /\ pc'[w] = pc[w] /\ job'[w] = job[w]

LEMMA ScheduleAside ==
    ASSUME CallsInv, NEW o \in Ops, NEW m, Schedule(o, m), pc[o] = "idle"
    PROVE  /\ fresh \subseteq fresh'
           /\ \A w \in Ops : AtWork(w) \/ AtWork(w)' =>
                 AtWork(w) /\ AtWork(w)' /\ pc'[w] = pc[w] /\ job'[w] = job[w]
<1>1. Now(o, "queued", m, job[o].turn + 1, tail) /\ fresh' = fresh \union {o}
  BY ScheduleEffect
<1> QED
  BY <1>1 DEF Now, OthersStay, AtWork, Active, InTask

LEMMA StepCases ==
    ASSUME ManagerType, CallsInv, [Next]_vars
    PROVE  \/ RewritesNow
           \/ \E e \in Appends : AppendsNow(e)
           \/ Aside
           \/ Seal
           \/ \E v \in Recovers : Recover(v)
           \/ \E x \in Foreign : ForeignAppends(x)
           \/ \E o \in Ops : Continues(o)
<1>1. /\ entries \subseteq Entries /\ failure \in BOOLEAN /\ current \in BOOLEAN /\ required \in BOOLEAN
  BY DEF ManagerType
<1> DEFINE Goal == \/ RewritesNow
                   \/ \E e \in Appends : AppendsNow(e)
                   \/ Aside
<1>2. ASSUME NEW e \in Appends, Append(e) PROVE Goal
  <2>1. CASE RewriteNow(entries \union {e}, current /\ ~failure, required \/ failure)
    <3>1. /\ entries \union {e} \in SUBSET Entries /\ (current /\ ~failure) \in BOOLEAN
          /\ (required \/ failure) \in BOOLEAN
      BY <1>1, EntriesHold DEF EntryFacts
    <3>2. /\ ~released /\ UNCHANGED <<released, batch, undone, job>> /\ NoneBetween
      BY <1>2 DEF Append, calls
    <3>3. CASE batch = None
      <4>1. SparesBatch
        BY <3>3 DEF SparesBatch
      <4> QED
        BY <2>1, <3>1, <3>2, <4>1 DEF RewritesNow
    <3>4. CASE batch # None
      BY <1>2, <3>4 DEF Append, files, Aside, calls, AtWork
    <3> QED
      BY <3>3, <3>4
  <2>2. CASE UNCHANGED <<disk, expected, path, fresh>> /\ (failure' = TRUE \/ UNCHANGED failure)
             /\ entries' = entries \union {e}
    BY <1>2, <2>2 DEF Append, Aside, calls, AtWork
  <2>3. CASE /\ batch = None /\ ~fence /\ current /\ ~failure /\ entries' = entries \union {e}
             /\ expected' = expected \union {e}
             /\ disk' = [disk EXCEPT ![path] = @ \union {e}]
             /\ UNCHANGED <<failure, path, fresh>>
    BY <1>2, <2>3 DEF Append, AppendsNow
  <2> QED
    BY <1>2, <2>1, <2>2, <2>3 DEF Append, files, queue
<1>3. CASE FlushSync
  <2>1. SparesBatch /\ RewriteNow(entries, current, required) /\ UNCHANGED <<released, batch, undone, job>>
        /\ ~released /\ NoneBetween
    BY <1>3 DEF FlushSync, SparesBatch, calls
  <2> QED
    BY <1>1, <2>1 DEF RewritesNow
<1>4. ASSUME NEW t \in Titles, TitleSet(t) PROVE Goal
  <2>0. /\ entries \union {TitleOf(t)} \subseteq entries \union Appends \union AllTitles
        /\ t \in Ops
    BY DEF AllTitles, Ops
  <2>1. CASE RewriteNow(entries \union {TitleOf(t)}, FALSE, TRUE) /\ SparesBatch /\ UNCHANGED job
    <3>1. entries \union {TitleOf(t)} \in SUBSET Entries
      BY <1>1, EntriesHold DEF EntryFacts
    <3> QED
      BY <1>4, <2>0, <2>1, <3>1 DEF RewritesNow, TitleSet
  <2>2. CASE /\ entries' = entries \union {TitleOf(t)} /\ UNCHANGED <<disk, expected, path, failure>>
             /\ \E m : Schedule(t, m)
    <3>1. UNCHANGED <<disk, expected, path, batch, undone, released, failure>> /\ pc[t] = "idle"
      BY <1>4, <2>2 DEF TitleSet
    <3> QED
      BY <2>0, <2>2, <3>1, ScheduleAside DEF Aside
  <2> QED
    BY <1>4, <2>1, <2>2 DEF TitleSet
<1>5. ASSUME NEW o \in Ops, NEW m, Schedule(o, m), pc[o] = "idle", UNCHANGED <<entries, state, batch, path, disk, expected, undone>>
      PROVE  Aside
  BY <1>5, ScheduleAside DEF Aside, state
<1>6. ASSUME NEW r \in Rewrites, Rewrite(r) PROVE Aside
  BY <1>5, <1>6 DEF Rewrite, Ops, files
<1>7. ASSUME NEW c \in Closes, Close(c) PROVE Aside
  BY <1>5, <1>7 DEF Close, Ops
<1>8. ASSUME NEW b \in Batches, BatchCalled(b) PROVE Aside
  <2>1. b \in Ops /\ pc[b] = "idle"
    BY <1>8 DEF Ops, BatchCalled
  <2>2. CASE Schedule(b, "ensure")
    BY <1>5, <1>8, <2>1, <2>2 DEF BatchCalled, files
  <2>3. CASE /\ pc' = [pc EXCEPT ![b] = "flushing"] /\ UNCHANGED <<tail, fresh>>
             /\ job' = [job EXCEPT ![b].behind = tail]
    <3>1. \A w \in Ops : /\ w # b => pc'[w] = pc[w] /\ job'[w] = job[w]
                         /\ w = b => pc'[w] = "flushing"
      BY <2>1, <2>3 DEF CallsInv
    <3>2. \A w \in Ops : AtWork(w) \/ AtWork(w)' =>
          AtWork(w) /\ AtWork(w)' /\ pc'[w] = pc[w] /\ job'[w] = job[w]
      BY <2>1, <2>3, <3>1 DEF AtWork, Active, InTask
    <3> QED
      BY <1>8, <2>3, <3>2 DEF BatchCalled, Aside, state, files
  <2> QED
    BY <1>8, <2>2, <2>3 DEF BatchCalled
<1>9. CASE OwnerChanges \/ UNCHANGED vars
  BY <1>9 DEF OwnerChanges, vars, state, queue, calls, files, Aside, AtWork
<1> HIDE DEF Goal
<1> QED
  BY <1>2, <1>3, <1>4, <1>6, <1>7, <1>8, <1>9 DEF Next, Goal

LEMMA WriteStep ==
    ASSUME ManagerType, CallsInv, [Next]_vars
    PROVE  \/ UNCHANGED disk
           \/ RewritesNow
           \/ \E e \in Appends : AppendsNow(e)
           \/ \E t \in Titles : TitleWritten(t)
           \/ \E o \in Ops : PublishDone(o)
           \/ \E x \in Foreign : ForeignAppends(x)
<1> DEFINE Goal == \/ UNCHANGED disk
                   \/ \E t \in Titles : TitleWritten(t)
                   \/ \E o \in Ops : PublishDone(o)
<1>1. ASSUME NEW t \in Titles, TitleAppends(t) PROVE Goal
  BY <1>1 DEF TitleAppends, TitleWritten
<1>2. ASSUME NEW o \in Ops, Publishes(o) PROVE Goal
  BY <1>2 DEF Publishes, PublishDone, AsExpected, Stale, state, queue
<1> HIDE DEF Goal
<1>3. ASSUME NEW o \in Ops, Continues(o) PROVE Goal \/ UNCHANGED disk
  BY <1>1, <1>2, <1>3
     DEF Continues, WorkDropped, WorkRefused, RewriteStarts, RepairStarts, files,
     CloseFails, Serializes, Contested, ReadsBack, Adopts, Recorded, Marks, Verifies,
     RepairRecorded, RepairFails, CloseRuns, TitleSlot, BatchStaged, BatchCommits, BatchRollsBack
<1>4. CASE Aside \/ Seal \/ \E v \in Recovers : Recover(v)
  BY <1>4 DEF Aside, Seal, Recover, files
<1> QED
  BY <1>3, <1>4, StepCases DEF Goal

\* What #entries gains otherwise.
LEMMA EntriesStep ==
    ASSUME ManagerType, CallsInv, [Next]_vars, NEW e \in entries', e \notin entries, e \notin Appends, e \notin AllTitles
    PROVE  \/ RewritesNow
           \/ \E b \in Batches : BatchStaged(b) /\ batch' = b /\ e \in Staged(b)
           \/ \E o \in Ops : Adopts(o) /\ o \in fresh /\ e \in job[o].seen
<1> DEFINE Goal == \/ \E b \in Batches : BatchStaged(b) /\ batch' = b /\ e \in Staged(b)
                   \/ \E o \in Ops : Adopts(o) /\ o \in fresh /\ e \in job[o].seen
<1>1. ASSUME NEW b \in Batches, BatchStaged(b) PROVE Goal
  BY <1>1 DEF BatchStaged
<1>2. ASSUME NEW o \in Ops, Adopts(o) PROVE Goal
  BY <1>2 DEF Adopts, Superseded, Stale
<1> HIDE DEF Goal
<1>3. ASSUME NEW o \in Ops, Continues(o) PROVE Goal
  BY <1>1, <1>2, <1>3
     DEF Continues, WorkDropped, WorkRefused, RewriteStarts, RepairStarts,
     CloseFails, Serializes, Publishes, Contested, ReadsBack, Recorded, Marks, Verifies,
     RepairRecorded, RepairFails, CloseRuns, TitleAppends, TitleSlot, BatchCommits, BatchRollsBack
<1>4. ~Aside /\ ~Seal /\ (\A v \in Recovers : ~Recover(v)) /\ (\A x \in Foreign : ~ForeignAppends(x))
      /\ \A d \in Appends : ~AppendsNow(d)
  BY DEF Aside, Seal, Recover, ForeignAppends, AppendsNow
<1> QED
  BY <1>3, <1>4, StepCases DEF Goal

LEMMA PathStep ==
    ASSUME [Next]_vars, path' # path
    PROVE  path' = "sibling" /\ (Lost \/ \E o \in Ops : Contested(o))
<1> DEFINE Goal == path' = "sibling" /\ (Lost \/ \E o \in Ops : Contested(o))
<1>1. ASSUME NEW o \in Ops, Contested(o) PROVE Goal
  BY <1>1 DEF Contested
<1>2. ASSUME NEW o \in Ops, Serializes(o) PROVE Goal
  BY <1>2 DEF Serializes
<1> HIDE DEF Goal
<1>3. ASSUME NEW o \in Ops, Continues(o) PROVE Goal
  BY <1>1, <1>2, <1>3
     DEF Continues, WorkDropped, WorkRefused, RewriteStarts, RepairStarts, files,
     CloseFails, Publishes, ReadsBack, Adopts, Recorded, Marks, Verifies,
     RepairRecorded, RepairFails, CloseRuns, TitleAppends, TitleSlot, BatchStaged, BatchCommits,
     BatchRollsBack
<1>4. ASSUME NEW mem, NEW cur, NEW req, RewriteNow(mem, cur, req) PROVE Goal
  BY <1>4 DEF RewriteNow, Goal
<1>5. CASE (\E e \in Appends : Append(e)) \/ FlushSync \/ \E t \in Titles : TitleSet(t)
  BY <1>4, <1>5 DEF Append, FlushSync, TitleSet, files, Goal
<1> QED
  BY <1>3, <1>5 DEF Next, vars, files, Seal, Rewrite, Close, BatchCalled, Recover, ForeignAppends,
     OwnerChanges, Goal

\* What a rewrite leaves.
LEMMA RewriteLeaves ==
    ASSUME ManagerType, NEW mem, NEW cur, NEW req, RewriteNow(mem, cur, req)
    PROVE  /\ path' = (IF Lost THEN "sibling" ELSE path) /\ path' \in Paths /\ fresh' = {}
           /\ entries' \subseteq mem \union disk[path']
           /\ \A p \in Paths : disk'[p] = disk[p] \/ (p = path' /\ disk'[p] \subseteq mem \union disk[p])
           /\ failure' = TRUE \/ expected' = disk'[path']
<1> DEFINE to == IF Lost THEN "sibling" ELSE path
           known == IF Lost THEN {} ELSE expected
           body == IF known = disk[to] THEN mem ELSE mem \union disk[to]
<1>1. path' = to /\ to \in Paths /\ disk \in [Paths -> SUBSET Entries] /\ fresh' = {}
  BY DEF RewriteNow, EpochMoves, ManagerType, Paths
<1>2. \/ disk' = [disk EXCEPT ![to] = body] /\ entries' = body /\ expected' = body
      \/ UNCHANGED disk /\ entries' \in {mem, body} /\ failure' = TRUE
      \/ disk' = [disk EXCEPT ![to] = body] /\ entries' = body /\ failure' = TRUE
  BY DEF RewriteNow
<1>3. body \subseteq mem \union disk[to]
  OBVIOUS
<1> HIDE DEF known, body
<1>4. /\ entries' \subseteq mem \union disk[to]
      /\ \A p \in Paths : disk'[p] = disk[p] \/ (p = to /\ disk'[p] \subseteq mem \union disk[p])
      /\ failure' = TRUE \/ expected' = disk'[to]
  BY <1>1, <1>2, <1>3
<1> QED
  BY <1>1, <1>4

\* A job is for the file it has, the home file, or the session's.
LEMMA FilesStep ==
    ASSUME ManagerType, CallsInv, [Next]_vars, NEW o \in Ops
    PROVE  job'[o].file \in {job[o].file, "home", path'}
<1>1. CASE JobsKept
  BY <1>1 DEF JobsKept, SameSets, NoSets
<1>2. ASSUME NEW q \in Ops, ReadsBack(q)
      PROVE  job'[o].file = job[o].file
  BY <1>2, ReadSets
<1>3. ASSUME NEW q \in Ops, Serializes(q), Repairs(q) \/ ~Stale(q)
      PROVE  job'[o].file \in {job[o].file, "home", path'}
  BY <1>3, SerializedSets DEF Serializes
<1> QED
  BY <1>1, <1>2, <1>3, CallsStep

-----------------------------------------------------------------------------
(* The file the session moves to is its own *)

SiblingInv == path = "home" => disk["sibling"] = {} /\ \A o \in Ops : job[o].file = "home"

LEMMA SiblingStep ==
    ASSUME ManagerType, CallsInv, SiblingInv, [Next]_vars
    PROVE  SiblingInv'
<1> SUFFICES ASSUME path' = "home"
             PROVE  disk'["sibling"] = {} /\ \A o \in Ops : job'[o].file = "home"
  BY DEF SiblingInv
<1>1. path = "home"
  BY PathStep
<1>2. disk["sibling"] = {} /\ \A o \in Ops : job[o].file = "home"
  BY <1>1 DEF SiblingInv
<1>3. \A o \in Ops : job'[o].file = "home"
  BY <1>2, FilesStep
<1>4. disk'["sibling"] = {}
  <2>1. "sibling" \in Paths /\ "sibling" # "home" /\ disk \in [Paths -> SUBSET Entries]
    BY DEF Paths, ManagerType
  <2>2. CASE RewritesNow
    BY <1>2, <2>1, <2>2, RewriteLeaves DEF RewritesNow
  <2>3. ASSUME NEW p, NEW S, disk' = [disk EXCEPT ![p] = S], p = "home"
        PROVE  disk'["sibling"] = {}
    BY <1>2, <2>1, <2>3
  <2>4. ASSUME NEW e \in Appends, AppendsNow(e)
        PROVE  disk'["sibling"] = {}
    BY <1>1, <2>3, <2>4 DEF AppendsNow
  <2>5. ASSUME NEW t \in Titles, TitleWritten(t)
        PROVE  disk'["sibling"] = {}
    BY <1>1, <2>3, <2>5 DEF TitleWritten
  <2>6. ASSUME NEW o \in Ops, PublishDone(o)
        PROVE  disk'["sibling"] = {}
    BY <1>2, <2>3, <2>6 DEF PublishDone
  <2>7. ASSUME NEW x \in Foreign, ForeignAppends(x)
        PROVE  disk'["sibling"] = {}
    BY <2>3, <2>7 DEF ForeignAppends
  <2> QED
    BY <1>2, <2>2, <2>4, <2>5, <2>6, <2>7, WriteStep
<1> QED
  BY <1>3, <1>4

-----------------------------------------------------------------------------
(* What other processes write is in a file before it is anywhere else *)

Both == disk["home"] \union disk["sibling"]
NovelInv ==
    /\ Foreign \intersect undone = {}
    /\ Foreign \intersect entries \subseteq Both
    /\ \A o \in Ops : Foreign \intersect job[o].seen \subseteq Both

LEMMA NovelStep ==
    ASSUME ManagerType, CallsInv, KnownInv, NovelInv, [Next]_vars
    PROVE  NovelInv'
<1>1. "home" \in Paths /\ "sibling" \in Paths /\ \A p \in Paths : p \in {"home", "sibling"}
  BY DEF Paths
<1>2. Foreign \intersect undone' = {}
  <2>1. CASE undone' = undone
    BY <2>1 DEF NovelInv
  <2>2. CASE undone' # undone
    BY <2>2, UndoesBatch, EntryAssumption DEF NovelInv
  <2> QED
    BY <2>1, <2>2
<1>3. Foreign \intersect Both \subseteq Both'
  <2>1. \A p \in Paths : disk[p] \ disk'[p] \subseteq undone'
    BY StoreStep DEF StoreMoves
  <2> QED
    BY <1>1, <1>2, <2>1 DEF Both
<1>4. ASSUME NEW e \in Foreign, e \in entries'
      PROVE  e \in Both'
  <2>1. e \notin Appends /\ e \notin AllTitles /\ \A b \in Batches : e \notin Staged(b)
    BY ForeignAssumption, EntryAssumption DEF AllTitles
  <2>2. CASE e \in entries
    BY <1>3, <2>2 DEF NovelInv
  <2>3. CASE RewritesNow /\ e \notin entries
    <3>1. path' \in Paths /\ e \in disk[path']
      <4>1. PICK mem \in SUBSET Entries, cur \in BOOLEAN, req \in BOOLEAN :
                mem \subseteq entries \union Appends \union AllTitles /\ RewriteNow(mem, cur, req)
        BY <2>3 DEF RewritesNow
      <4>2. path' \in Paths /\ entries' \subseteq mem \union disk[path']
        BY <4>1, RewriteLeaves
      <4> QED
        BY <1>4, <2>1, <2>3, <4>1, <4>2
    <3> QED
      BY <1>1, <1>3, <3>1 DEF Both
  <2>4. ASSUME NEW o \in Ops, e \in job[o].seen
        PROVE  e \in Both'
    BY <1>3, <2>4 DEF NovelInv
  <2> QED
    BY <1>4, <2>1, <2>2, <2>3, <2>4, EntriesStep
<1>5. ASSUME NEW o \in Ops
      PROVE  Foreign \intersect job'[o].seen \subseteq Both'
  <2>1. job'[o].seen \subseteq job[o].seen \union Both
    <3>1. CASE JobsKept
      BY <3>1 DEF JobsKept, SameSets, NoSets
    <3>2. ASSUME NEW q \in Ops, ReadsBack(q)
          PROVE  job'[o].seen \subseteq job[o].seen \union Both
      <4>1. job[q].file \in Paths
        BY DEF CallsInv, Jobs
      <4> QED
        BY <1>1, <3>2, <4>1, ReadSets DEF Both
    <3>3. ASSUME NEW q \in Ops, Serializes(q), Repairs(q) \/ ~Stale(q)
          PROVE  job'[o].seen = job[o].seen
      BY <3>3, SerializedSets
    <3> QED
      BY <3>1, <3>2, <3>3, CallsStep
  <2> QED
    BY <1>3, <2>1 DEF NovelInv
<1> QED
  BY <1>2, <1>4, <1>5 DEF NovelInv

\* ... so what another process adds is in no body.
LEMMA NovelAppend ==
    ASSUME KnownInv, NovelInv, NEW x \in Foreign, ForeignAppends(x)
    PROVE  \A o \in Ops : x \notin job[o].body
BY DEF KnownInv, NovelInv, ForeignAppends, Both, Paths

-----------------------------------------------------------------------------
(* Who is left behind *)

LEMMA Advances ==
    ASSUME CallsInv, PlaceInv, NEW q \in Ops, Continues(q)
    PROVE  pc'[q] # pc[q]
<1>1. Resolves(q) \/ Rejected(q) => pc'[q] \notin InTask
  BY ResolveEffect, RejectEffect DEF Now, InTask
<1>2. ASSUME NEW c, pc' = [pc EXCEPT ![q] = c], c # pc[q]
      PROVE  pc'[q] # pc[q]
  BY <1>2 DEF CallsInv
<1> DEFINE Goal == pc'[q] # pc[q]
<1> HIDE DEF Goal
<1>3. CASE \/ WorkDropped(q) \/ WorkRefused(q) \/ RewriteStarts(q) \/ RepairStarts(q) \/ CloseFails(q)
           \/ Publishes(q) \/ Contested(q) \/ Marks(q) \/ Verifies(q) \/ CloseRuns(q)
  BY <1>1, <1>2, <1>3
     DEF WorkDropped, WorkRefused, RewriteStarts, RepairStarts, CloseFails, Publishes, Contested,
     Marks, Verifies, CloseRuns, Runs, Startable, InTask
<1>4. CASE ReadsBack(q) \/ Adopts(q)
  BY <1>2, <1>4 DEF ReadsBack, Adopts, Retries
<1>5. CASE Serializes(q) \/ Recorded(q)
  BY <1>1, <1>2, <1>5 DEF Serializes, Recorded, Retries, Abandoned, InTask
<1>6. CASE RepairRecorded(q) \/ RepairFails(q)
  BY <1>2, <1>6 DEF RepairRecorded, RepairFails
<1>7. CASE TitleAppends(q) \/ TitleSlot(q)
  BY <1>1, <1>2, <1>7 DEF TitleAppends, TitleSlot, Runs, Startable, InTask
<1>8. CASE q \in Batches /\ (BatchStaged(q) \/ BatchCommits(q) \/ BatchRollsBack(q))
  BY <1>2, <1>8 DEF BatchStaged, BatchCommits, BatchRollsBack, Schedule, RepairBegins
<1> QED
  BY <1>3, <1>4, <1>5, <1>6, <1>7, <1>8 DEF Continues

LEMMA ContinuesEpoch ==
    ASSUME NEW q \in Ops, Continues(q)
    PROVE  fresh \subseteq fresh' \/ fresh' = fresh \ {q} \/ fresh' = {q}
BY DEF Continues, WorkDropped, WorkRefused, Resolves, Rejected, RewriteStarts,
   RepairStarts, CloseFails, Serializes, Abandoned, Publishes, Contested, ReadsBack, Adopts,
   Recorded, Marks, Verifies, RepairRecorded, RepairFails, CloseRuns, TitleAppends, TitleSlot,
   BatchStaged, BatchCommits, BatchRollsBack, RepairBegins, Schedule, queue

LEMMA EpochStep ==
    ASSUME CallsBase, [Next]_vars, NEW o \in Ops, o \in fresh, o \notin fresh', pc'[o] = pc[o]
    PROVE  RewritesNow \/ released' \/ \E q \in Ops : Mends(q)
<1> USE DEF CallsBase
<1>1. pc[o] \in InTask \union {"waiting"}
  BY DEF PlaceInv
<1>2. CASE Rests
  BY <1>2 DEF Rests
<1>3. ASSUME NEW q \in Ops, Moved(q), ~Mends(q)
      PROVE  FALSE
  <2>1. ~Queues(q) /\ ~Goes(q) /\ ~Turns(q)
    BY DEF Queues, Goes, Turns
  <2>2. CASE Ends(q)
    <3>1. q = o
      BY <2>2 DEF Ends
    <3> QED
      BY <1>1, <2>2, <3>1 DEF Ends, Now, InTask, Ended
  <2> QED
    BY <1>3, <2>1, <2>2 DEF Moved
<1>4. CASE Restarts
  <2>1. fresh' = {}
    BY <1>4 DEF Restarts
  <2>2. ASSUME NEW q \in Ops, Continues(q)
        PROVE  FALSE
    <3>1. q = o
      BY <2>1, <2>2, ContinuesEpoch
    <3> QED
      BY <2>2, <3>1, Advances
  <2>3. ~Aside /\ (\A v \in Recovers : ~Recover(v)) /\ (\A x \in Foreign : ~ForeignAppends(x))
        /\ \A d \in Appends : ~AppendsNow(d)
    BY <2>1 DEF Aside, Recover, RepairBegins, ForeignAppends, AppendsNow, queue
  <2> QED
    BY <2>2, <2>3, StepCases DEF Seal
<1> QED
  BY <1>2, <1>3, <1>4, StepMoves DEF Moved

\* Who stays at a place of a rewrite has the job it had.
LEMMA Remains ==
    ASSUME CallsBase, [Next]_vars, NEW o \in Ops, pc[o] \in Rewriting \union {"marking", "titling"}, pc'[o] = pc[o]
    PROVE  job'[o] = job[o]
<1>1. CASE Rests
  BY <1>1 DEF Rests
<1>2. CASE Restarts
  BY <1>2 DEF Restarts
<1>3. ASSUME NEW q \in Ops, Moved(q)
      PROVE  q # o /\ OthersStay(q)
  BY <1>3 DEF Moved, Queues, Goes, Ends, Turns, Mends, Now, Rewriting, InTask, Ended
<1> QED
  BY <1>1, <1>2, <1>3, StepMoves DEF OthersStay, CallsBase, Moved

LEMMA LagsStep ==
    ASSUME CallsBase, [Next]_vars, NEW o \in Ops, Lags(o)'
    PROVE  /\ pc[o] \in {"staging", "unwritten"} /\ ~Repairs(o) /\ job'[o] = job[o]
           /\ \/ Lags(o)
              \/ /\ o \in fresh /\ pc'[o] = pc[o]
                 /\ RewritesNow \/ released' \/ \E q \in Ops : Mends(q)
<1> USE DEF CallsBase
<1>1. o \notin fresh' /\ pc'[o] \in {"staging", "unwritten"} /\ job'[o].mode # "repair"
  BY DEF Lags, Stale, Repairs
<1>2. CASE pc'[o] = pc[o]
  <2>1. job'[o] = job[o]
    BY <1>1, <1>2, Remains DEF Rewriting
  <2> QED
    BY <1>1, <1>2, <2>1, EpochStep DEF Lags, Stale, Repairs
<1>3. CASE pc'[o] # pc[o] /\ pc'[o] = "staging"
  <2>1. Serializes(o) /\ (Repairs(o) \/ ~Stale(o))
    BY <1>3, Enters
  <2>2. fresh' = fresh
    BY <2>1 DEF Serializes
  <2>3. job'[o].mode = job[o].mode
    BY <2>1, SerializedSets
  <2> QED
    BY <1>1, <2>1, <2>2, <2>3 DEF Stale, Repairs
<1>4. CASE pc'[o] # pc[o] /\ pc'[o] = "unwritten"
  <2>1. Publishes(o)
    BY <1>4, Enters
  <2>2. pc[o] = "staging" /\ UNCHANGED <<job, fresh>>
    BY <2>1 DEF Publishes, queue
  <2> QED
    BY <1>1, <2>2 DEF Lags, Stale, Repairs
<1> QED
  BY <1>1, <1>2, <1>3, <1>4

-----------------------------------------------------------------------------
(* A session that is found lost has no publish under way *)

MovedInv == Lost => \A o \in Ops : pc[o] \notin Rewriting \ {"closing"}

LEMMA MovedStep ==
    ASSUME CallsBase, MovedInv, [Next]_vars
    PROVE  MovedInv'
<1> SUFFICES ASSUME Lost', NEW o \in Ops, pc'[o] \in Rewriting \ {"closing"}
             PROVE  FALSE
  BY DEF MovedInv
<1>1. CASE ~Lost
  <2>1. OwnerChanges
    BY <1>1, LostStep
  <2> QED
    BY <2>1 DEF OwnerChanges, calls, Rewriting, Ended
<1>2. CASE Lost
  <2>1. pc[o] \notin Rewriting \ {"closing"}
    BY <1>2 DEF MovedInv
  <2>2. pc'[o] # pc[o] /\ CallsInv
    BY <2>1 DEF CallsBase
  <2>3. CASE pc'[o] = "staging"
    <3>1. path' = "sibling"
      BY <1>2, <2>2, <2>3, Enters DEF Serializes
    <3> QED
      BY <3>1 DEF Lost
  <2>4. CASE pc'[o] \in {"published", "conflicted", "unwritten"}
    BY <2>1, <2>2, <2>4, Enters DEF Publishes, Rewriting
  <2>5. CASE pc'[o] = "reread"
    BY <2>1, <2>2, <2>5, Enters DEF ReadsBack, Rewriting
  <2> QED
    BY <2>3, <2>4, <2>5 DEF Rewriting
<1> QED
  BY <1>1, <1>2

-----------------------------------------------------------------------------
(* What is expected of the session's first file *)

Grounds == FullInv /\ TriesInv /\ SoloInv /\ SiblingInv /\ NovelInv /\ MovedInv

\* Another process wrote what no late body holds.
Unread == \E x \in Foreign \intersect disk["home"] : \A o \in Ops : Lags(o) => x \notin job[o].body

\* Otherwise the file is as expected, or has become so under a first attempt.
Writing(w) == AtWork(w) /\ pc[w] \in {"published", "unwritten"}
EvenAt(w) ==
    /\ pc[w] \in {"titling", "closing"} => expected = disk["home"] \/ (NoLate /\ job[w].tries = 0)
    /\ pc[w] = "staging" => job[w].exp = disk["home"] \/ (NoLate /\ job[w].tries = 0)
    /\ pc[w] = "conflicted" \/ job[w].tries > 0 => NoLate
    /\ pc[w] = "reread" => job[w].seen = disk["home"]
    /\ pc[w] = "published" => job[w].body = disk["home"]
    /\ pc[w] = "marking" => expected = disk["home"]
Even ==
    /\ ~failure /\ (\A w \in Ops : ~Writing(w)) => expected = disk["home"]
    /\ \A w \in Ops : AtWork(w) => EvenAt(w)
EvenInv == ~released /\ path = "home" /\ ~Unread => Even

\* A step of one call that leaves the file and what is expected of it.
LEMMA EvenKept ==
    ASSUME Even, NEW q \in Ops, OthersStay(q), UNCHANGED <<disk, expected>>,
           fresh' \subseteq fresh \union {q}, fresh \ {q} \subseteq fresh', failure => failure',
           NoLate => NoLate' \/ fresh' = {}, Writing(q) => failure' \/ Writing(q)',
           AtWork(q)' => EvenAt(q)'
    PROVE  Even'
<1>1. \A w \in Ops : w # q => pc'[w] = pc[w] /\ job'[w] = job[w] /\ (w \in fresh' <=> w \in fresh)
  BY DEF OthersStay
<1>2. \A w \in Ops : w # q => (AtWork(w)' <=> AtWork(w)) /\ (Writing(w)' <=> Writing(w))
  BY <1>1 DEF AtWork, Writing
<1>3. ASSUME NEW w \in Ops, AtWork(w)'
      PROVE  EvenAt(w)'
  <2>1. CASE w # q
    <3>1. EvenAt(w)
      BY <1>2, <1>3, <2>1 DEF Even
    <3>2. NoLate => NoLate'
      BY <1>3 DEF AtWork
    <3> QED
      BY <1>1, <2>1, <3>1, <3>2 DEF EvenAt
  <2> QED
    BY <1>3, <2>1
<1>4. ASSUME ~failure', \A w \in Ops : ~Writing(w)'
      PROVE  expected' = disk'["home"]
  <2>1. \A w \in Ops : ~Writing(w)
    BY <1>2, <1>4
  <2> QED
    BY <1>4, <2>1 DEF Even
<1> QED
  BY <1>3, <1>4 DEF Even

\* A step of the one call at work after which the file is as expected, or is being written.
LEMMA EvenOn ==
    ASSUME NEW q \in Ops, failure' \/ Writing(q)' \/ expected' = disk'["home"], \A w \in Ops : w # q => ~AtWork(w)',
           AtWork(q)' => EvenAt(q)'
    PROVE  Even'
BY DEF Even

LEMMA Mending ==
    ASSUME CallsInv, NEW q \in Ops, RepairBegins(q), UNCHANGED batch,
           \/ pc[q] = "idle" /\ LockFree /\ NoneBetween
           \/ pc[q] \in {"decide", "rollback"} /\ q \in Batches
    PROVE  Mends(q)
BY RepairEffect DEF Mends

\* The call at work is alone.
LEMMA WorksAlone ==
    ASSUME CallsBase, QueueInv, NEW q \in Ops, AtWork(q), OthersStay(q), fresh' \subseteq fresh \union {q}
    PROVE  \A w \in Ops : w # q => ~AtWork(w) /\ ~AtWork(w)'
<1>1. \A w \in Ops : w # q => ~AtWork(w)
  BY OneAtWork
<1> QED
  BY <1>1 DEF OthersStay, AtWork

LEMMA EvenContinues ==
    ASSUME Closed, Grounds, Grounds', Even, ~released, ~released', path = "home", path' = "home",
           NoLate => NoLate' \/ fresh' = {}, \A r \in Ops : ~Mends(r),
           NEW q \in Ops, Continues(q)
    PROVE  Even'
<1>1. /\ CallsBase /\ CallsInv /\ PlaceInv /\ ManagerType /\ LockInv /\ GuardInv /\ QueueInv /\ MarkInv /\ WorkInv
      /\ TriesInv /\ SoloInv /\ TriesInv' /\ SiblingInv /\ CallsInv'
  BY DEF Grounds, FullInv, Sound, GuardInv, CallsBase
<1>2. OthersStay(q)
  BY <1>1, OnlyOne
<1>3. \A o \in Ops : job[o].file = "home"
  BY <1>1 DEF SiblingInv
<1>4. AtWork(q) => WorkerOK(q)
  BY <1>1 DEF WorkInv
<1>5. \A w \in Ops : AtWork(w) => EvenAt(w)
  BY DEF Even
<1>6. /\ failure \in BOOLEAN /\ failure' \in BOOLEAN /\ disk \in [Paths -> SUBSET Entries] /\ "home" \in Paths
      /\ fresh \subseteq Ops
  BY <1>1, FlagsStep DEF ManagerType, FlagsType, Paths, Grounds, FullInv, CallsBase
<1>7. ASSUME NEW w \in Ops PROVE job[w].tries \in Nat /\ job'[w].tries \in Nat
  BY <1>1, RecoveriesAssumption DEF CallsInv, Jobs
\* Who leaves the queue
<1>8. ASSUME fresh' = fresh \ {q}, UNCHANGED <<disk, expected>>, failure => failure', Writing(q) => failure'
      PROVE  Even'
  <2>1. ~AtWork(q)'
    BY <1>8 DEF AtWork
  <2> QED
    BY <1>2, <1>8, <2>1, EvenKept
<1>9. ASSUME Resolves(q), pc[q] \notin {"published", "unwritten"} \/ q \notin fresh,
             UNCHANGED <<disk, expected, failure>>
      PROVE  Even'
  BY <1>8, <1>9 DEF Resolves, Writing, AtWork
<1>10. ASSUME Rejected(q), UNCHANGED <<disk, expected>>
       PROVE  Even'
  BY <1>8, <1>10 DEF Rejected
\* Who goes on, with the file and what is expected of it as they are
<1>11. ASSUME UNCHANGED <<disk, expected, fresh>>, failure => failure', ~Writing(q) \/ failure',
              AtWork(q)' => EvenAt(q)'
       PROVE  Even'
  BY <1>2, <1>11, EvenKept
<1>12. CASE WorkDropped(q)
  BY <1>9, <1>12 DEF WorkDropped, Startable, state, files
<1>13. CASE WorkRefused(q)
  BY <1>10, <1>13 DEF WorkRefused, files
<1>14. CASE CloseFails(q)
  BY <1>10, <1>14 DEF CloseFails, files
<1>15. CASE CloseRuns(q)
  <2>1. ~Writing(q)
    BY <1>15 DEF CloseRuns, Startable, Writing
  <2> QED
    BY <1>8, <1>15, <2>1 DEF CloseRuns, files
<1>16. CASE RewriteStarts(q)
  <2>1. q \in fresh /\ Startable(q) /\ ~failure /\ pc[q] = "queued"
    BY <1>16 DEF RewriteStarts, Runs, Stale, Startable
  <2>2. \A w \in Ops : ~AtWork(w)
    BY <1>1, <2>1, NoneStarts
  <2>3. expected = disk["home"]
    BY <2>1, <2>2 DEF Even, Writing
  <2>4. pc'[q] = "closing" /\ job'[q] = job[q] /\ UNCHANGED <<disk, expected, fresh, failure>>
    BY <1>1, <1>16 DEF RewriteStarts, CallsInv, state, files
  <2>5. ~(job[q].tries > 0)
    BY <1>1, <2>1 DEF TriesInv, Rewriting
  <2>6. EvenAt(q)'
    BY <2>3, <2>4, <2>5 DEF EvenAt
  <2> QED
    BY <1>11, <2>2, <2>4, <2>6 DEF Writing
<1>17. CASE RepairStarts(q)
  <2>1. pc[q] = "waiting" /\ pc'[q] = "closing" /\ job'[q] = job[q] /\ UNCHANGED <<disk, expected, fresh, failure>>
    BY <1>1, <1>17 DEF RepairStarts, CallsInv, state, files, queue
  <2>2. ~(job[q].tries > 0)
    BY <1>1, <2>1 DEF TriesInv, Rewriting
  <2>3. job[q].tries = 0
    BY <1>7, <2>2
  <2>4. Repairs(q)
    BY <1>1, <2>1 DEF PlaceInv, Place, Repairs
  <2>5. ASSUME AtWork(q)' PROVE EvenAt(q)'
    <3>1. \A v \in Ops : Repairs(v) => v = q
      BY <1>1, <2>4 DEF LockInv, Holding
    <3>2. q \in fresh
      BY <2>1, <2>5 DEF AtWork
    <3>3. NoLate /\ NoLate'
      BY <1>2, <2>1, <3>1, <3>2 DEF NoLate, Stale, OthersStay, Repairs
    <3> QED
      BY <2>1, <2>3, <3>3 DEF EvenAt
  <2> QED
    BY <1>11, <2>1, <2>5 DEF Writing
<1>18. CASE TitleSlot(q)
  <2>1. pc[q] = "titling"
    BY <1>18 DEF TitleSlot
  <2>2. CASE pc' = [pc EXCEPT ![q] = "closing"] /\ job' = [job EXCEPT ![q].mode = "fallback"]
             /\ UNCHANGED <<failure, fresh>>
    <3>1. job[q] \in Jobs /\ job'[q] = [job[q] EXCEPT !.mode = "fallback"] /\ pc'[q] = "closing"
      BY <1>1, <2>2 DEF CallsInv
    <3>2. job'[q].tries = job[q].tries
      BY <3>1, JobFallsBack DEF SameSets
    <3>3. UNCHANGED <<disk, expected>>
      BY <1>18 DEF TitleSlot, files
    <3>4. ASSUME AtWork(q)' PROVE EvenAt(q)'
      <4>1. AtWork(q) /\ EvenAt(q) /\ (NoLate => NoLate')
        BY <1>5, <2>1, <2>2, <3>4 DEF AtWork, Active, InTask
      <4> QED
        BY <2>1, <3>1, <3>2, <3>3, <4>1 DEF EvenAt
    <3> QED
      BY <1>11, <2>1, <2>2, <3>3, <3>4 DEF Writing
  <2> QED
    BY <1>9, <1>10, <1>18, <2>1, <2>2 DEF TitleSlot, files
<1>19. CASE TitleAppends(q)
  <2>1. q \in fresh /\ Startable(q) /\ ~failure /\ pc[q] = "queued"
    BY <1>19 DEF TitleAppends, Runs, Stale, Startable
  <2>2. \A w \in Ops : ~AtWork(w)
    BY <1>1, <2>1, NoneStarts
  <2>3. expected = disk["home"]
    BY <2>1, <2>2 DEF Even, Writing
  <2>4. CASE Rejected(q) /\ UNCHANGED <<disk, expected>>
    BY <1>10, <2>4
  <2>5. CASE /\ disk' = [disk EXCEPT ![path] = @ \union {TitleOf(q)}]
             /\ expected' = expected \union {TitleOf(q)} /\ pc' = [pc EXCEPT ![q] = "titling"]
             /\ UNCHANGED <<fresh, job>>
    <3>1. expected' = disk'["home"] /\ pc'[q] = "titling" /\ job'[q] = job[q]
      BY <1>1, <1>6, <2>3, <2>5 DEF CallsInv
    <3>2. ~(job[q].tries > 0)
      BY <1>1, <2>1 DEF TriesInv, Rewriting
    <3>3. EvenAt(q)'
      BY <3>1, <3>2 DEF EvenAt
    <3>4. \A w \in Ops : w # q => ~AtWork(w)'
      BY <1>2, <2>2, <2>5 DEF OthersStay, AtWork
    <3> QED
      BY <3>1, <3>3, <3>4, EvenOn
  <2> QED
    BY <1>19, <2>4, <2>5 DEF TitleAppends
<1>20. CASE Serializes(q)
  <2>1. path' = (IF Lost THEN "sibling" ELSE path) /\ pc[q] = "closing"
    BY <1>20 DEF Serializes
  <2>2. ~Lost /\ UNCHANGED <<disk, expected, failure>>
    BY <1>20, <2>1 DEF Serializes
  <2>3. CASE Resolves(q)
    BY <1>9, <2>1, <2>2, <2>3
  <2>4. CASE (Repairs(q) \/ ~Stale(q)) /\ UNCHANGED <<fresh>>
    <3>1. job'[q].exp = expected /\ job'[q].tries = job[q].tries
      BY <1>1, <1>20, <2>2, <2>4, SerializedSets
    <3>2. pc'[q] = "staging"
      BY <1>1, <1>20, <2>4, SerializeEffect DEF Now
    <3>3. ASSUME AtWork(q)' PROVE EvenAt(q)'
      <4>1. EvenAt(q) /\ (NoLate => NoLate')
        BY <1>5, <2>1, <2>4, <3>3 DEF AtWork, Active, InTask
      <4> QED
        BY <2>1, <2>2, <3>1, <3>2, <4>1 DEF EvenAt
    <3> QED
      BY <1>11, <2>1, <2>2, <2>4, <3>3 DEF Writing
  <2> QED
    BY <1>20, <2>3, <2>4 DEF Serializes, Abandoned
<1>21. CASE Publishes(q)
  <2>1. /\ pc[q] = "staging" /\ UNCHANGED <<job, fresh, failure, expected>>
        /\ pc'[q] \in {"published", "conflicted", "unwritten"}
    BY <1>1, <1>21 DEF Publishes, CallsInv, state, queue
  <2>2. AtWork(q)' => q \in fresh /\ AtWork(q) /\ EvenAt(q) /\ (NoLate => NoLate')
    BY <1>5, <2>1 DEF AtWork, Active, InTask
  <2>3. CASE ~(~released /\ ~Stale(q)) /\ UNCHANGED disk
    <3>1. ~AtWork(q)' /\ ~Writing(q)
      BY <2>1, <2>3 DEF AtWork, Stale, Writing
    <3> QED
      BY <1>11, <2>1, <2>3, <3>1
  <2>4. CASE ~AsExpected(job[q]) /\ pc' = [pc EXCEPT ![q] = "conflicted"] /\ UNCHANGED disk
    <3>1. disk["home"] # job[q].exp /\ pc'[q] = "conflicted"
      BY <1>1, <1>3, <2>4 DEF AsExpected, CallsInv
    <3>2. AtWork(q)' => EvenAt(q)'
      BY <2>1, <2>2, <3>1 DEF EvenAt
    <3> QED
      BY <1>11, <2>1, <2>4, <3>2 DEF Writing
  <2>5. CASE UNCHANGED disk /\ pc' = [pc EXCEPT ![q] = "unwritten"]
    <3>1. pc'[q] = "unwritten"
      BY <1>1, <2>5 DEF CallsInv
    <3>2. AtWork(q)' => EvenAt(q)'
      BY <2>1, <2>2, <3>1 DEF EvenAt
    <3> QED
      BY <1>11, <2>1, <2>5, <3>2 DEF Writing
  <2>6. CASE /\ ~Stale(q) /\ disk' = [disk EXCEPT ![job[q].file] = job[q].body]
             /\ pc' = [pc EXCEPT ![q] = "published"] \/ pc' = [pc EXCEPT ![q] = "unwritten"]
    <3>1. disk'["home"] = job[q].body /\ pc'[q] \in {"published", "unwritten"}
      BY <1>1, <1>3, <1>6, <2>6 DEF CallsInv
    <3>2. AtWork(q)' /\ AtWork(q)
      BY <2>1, <2>6, <3>1 DEF AtWork, Active, InTask, Stale
    <3>3. Writing(q)'
      BY <3>1, <3>2 DEF Writing
    <3>4. EvenAt(q)'
      BY <2>1, <2>2, <3>1, <3>2 DEF EvenAt
    <3>5. \A w \in Ops : w # q => ~AtWork(w)'
      BY <1>1, <1>2, <2>1, <3>2, WorksAlone
    <3> QED
      BY <3>3, <3>4, <3>5, EvenOn
  <2> QED
    BY <1>21, <2>3, <2>4, <2>5, <2>6 DEF Publishes
<1>22. ~Contested(q)
  BY DEF Contested, Paths
<1>23. CASE ReadsBack(q)
  <2>1. /\ pc[q] = "conflicted" /\ UNCHANGED <<disk, fresh, failure, expected>>
        /\ job'[q].seen = disk["home"]
        /\ pc'[q] = (IF Superseded(q) THEN "closing" ELSE "reread")
    BY <1>1, <1>3, <1>23, ReadEffect DEF ReadsBack, Now, state, queue, files
  <2>2. ASSUME AtWork(q)' PROVE EvenAt(q)'
    <3>1. AtWork(q) /\ EvenAt(q) /\ NoLate'
      BY <1>5, <2>1, <2>2 DEF AtWork, Active, InTask, EvenAt
    <3>2. pc'[q] = "reread"
      BY <1>3, <1>4, <2>1, <3>1 DEF Superseded, Stale, AtWork
    <3> QED
      BY <2>1, <3>1, <3>2 DEF EvenAt
  <2> QED
    BY <1>11, <2>1, <2>2 DEF Writing
<1>24. CASE Adopts(q)
  <2>1. /\ pc[q] = "reread" /\ UNCHANGED <<job, disk, fresh, failure>> /\ pc'[q] = "closing"
    BY <1>1, <1>24 DEF Adopts, Retries, CallsInv, state, queue
  <2>2. CASE Superseded(q)
    <3>1. ~AtWork(q)'
      BY <1>3, <1>4, <2>1, <2>2 DEF Superseded, Stale, AtWork, WorkerOK, Rewriting, Active, InTask
    <3> QED
      BY <1>11, <1>24, <2>1, <2>2, <3>1 DEF Adopts, Writing
  <2>3. CASE ~Superseded(q)
    <3>1. AtWork(q) /\ expected' = job[q].seen
      BY <1>1, <1>24, <2>1, <2>3 DEF Adopts, Superseded, Stale, AtWork, Active, InTask
    <3>2. expected' = disk'["home"]
      BY <1>5, <2>1, <3>1 DEF EvenAt
    <3>3. EvenAt(q)'
      <4>1. EvenAt(q) /\ (NoLate => NoLate')
        BY <1>5, <2>1, <3>1 DEF AtWork
      <4> QED
        BY <2>1, <3>2, <4>1 DEF EvenAt
    <3>4. \A w \in Ops : w # q => ~AtWork(w)'
      BY <1>1, <1>2, <2>1, <3>1, WorksAlone
    <3> QED
      BY <3>2, <3>3, <3>4, EvenOn
  <2> QED
    BY <2>2, <2>3
<1>25. CASE Recorded(q)
  <2>1. pc[q] = "published" /\ UNCHANGED <<disk, failure>>
    BY <1>25 DEF Recorded, state
  <2>2. CASE Stale(q)
    BY <1>9, <1>25, <2>1, <2>2 DEF Recorded, Abandoned, Stale
  <2>3. CASE ~Stale(q)
    <3>1. AtWork(q) /\ expected' = job[q].body /\ UNCHANGED <<fresh, job>>
          /\ pc'[q] \in {"closing", "marking"}
      BY <1>1, <1>25, <2>1, <2>3 DEF Recorded, Retries, CallsInv, Stale, AtWork, Active, InTask
    <3>2. expected' = disk'["home"]
      BY <1>5, <2>1, <3>1 DEF EvenAt
    <3>3. EvenAt(q)'
      <4>1. EvenAt(q) /\ (NoLate => NoLate')
        BY <1>5, <2>1, <3>1 DEF AtWork
      <4> QED
        BY <3>1, <3>2, <4>1 DEF EvenAt
    <3>4. \A w \in Ops : w # q => ~AtWork(w)'
      BY <1>1, <1>2, <3>1, WorksAlone
    <3> QED
      BY <3>2, <3>3, <3>4, EvenOn
  <2> QED
    BY <2>2, <2>3
<1>26. CASE Marks(q)
  <2>1. pc[q] = "marking" /\ UNCHANGED <<disk, expected>> /\ fresh' = fresh \ {q}
    BY <1>26 DEF Marks, Resolves, files
  <2>2. AtWork(q)
    BY <1>1, <2>1 DEF MarkInv, AtWork, Active, InTask
  <2>3. expected' = disk'["home"] /\ ~AtWork(q)'
    BY <1>5, <2>1, <2>2 DEF EvenAt, AtWork
  <2>4. \A w \in Ops : w # q => ~AtWork(w)'
    BY <1>1, <1>2, <2>1, <2>2, WorksAlone
  <2> QED
    BY <2>3, <2>4, EvenOn
<1>27. CASE Verifies(q)
  <2>1. /\ failure' /\ UNCHANGED disk /\ expected' \in {expected, disk["home"]} /\ fresh' = fresh \ {q}
    BY <1>3, <1>27 DEF Verifies, Rejected
  <2>2. CASE expected' = disk'["home"]
    <3>1. ASSUME NEW w \in Ops, AtWork(w)'
          PROVE  EvenAt(w)'
      <4>1. w # q /\ AtWork(w) /\ pc'[w] = pc[w] /\ job'[w] = job[w]
        BY <1>2, <2>1, <3>1 DEF AtWork, OthersStay
      <4>2. EvenAt(w) /\ (NoLate => NoLate')
        BY <1>5, <3>1, <4>1 DEF AtWork
      <4> QED
        BY <2>1, <2>2, <4>1, <4>2 DEF EvenAt
    <3> QED
      BY <2>1, <3>1 DEF Even
  <2> QED
    BY <1>8, <2>1, <2>2
<1>28. CASE RepairRecorded(q)
  <2>1. /\ q \in fresh /\ pc[q] \in {"published", "unwritten"} /\ UNCHANGED disk /\ fresh' \subseteq fresh
        /\ expected' = job[q].body /\ (pc[q] = "unwritten" => disk["home"] = job[q].body)
    BY <1>3, <1>28 DEF RepairRecorded, Stale
  <2>2. AtWork(q)
    BY <2>1 DEF AtWork, Active, InTask
  <2>3. expected' = disk'["home"]
    BY <1>5, <2>1, <2>2 DEF EvenAt
  <2>4. ASSUME AtWork(q)' PROVE EvenAt(q)'
    <3>1. pc'[q] = "closing" /\ job'[q] = job[q]
      BY <1>1, <1>28, <2>4 DEF RepairRecorded, CallsInv, AtWork
    <3>2. EvenAt(q) /\ (NoLate => NoLate')
      BY <1>5, <2>2, <2>4 DEF AtWork
    <3> QED
      BY <2>3, <3>1, <3>2 DEF EvenAt
  <2>5. \A w \in Ops : w # q => ~AtWork(w)'
    BY <1>1, <1>2, <2>1, <2>2, WorksAlone
  <2> QED
    BY <2>3, <2>4, <2>5, EvenOn
<1>29. CASE RepairFails(q)
  <2>1. /\ failure' = TRUE /\ UNCHANGED disk /\ fresh' = fresh \ {q} /\ Repairs(q)
        /\ pc[q] \in {"published", "unwritten"} /\ pc'[q] = "indeterminate" /\ job'[q] = NoJob
    BY <1>1, <1>29 DEF RepairFails, CallsInv
  <2>2. expected' \in {expected, disk["home"]} \/ (pc[q] = "published" /\ Stale(q))
    BY <1>3, <1>29 DEF RepairFails
  <2>3. CASE q \in fresh
    <3>1. AtWork(q)
      BY <2>1, <2>3 DEF AtWork, Active, InTask
    <3>2. \A w \in Ops : w # q => ~AtWork(w)'
      BY <1>1, <1>2, <2>1, <3>1, WorksAlone
    <3> QED
      BY <2>1, <3>2, EvenOn DEF AtWork
  <2>4. CASE q \notin fresh
    <3>1. ~NoLate
      BY <2>1, <2>4 DEF NoLate, Stale
    <3>2. NoLate'
      <4>1. \A v \in Ops : Repairs(v) => v = q
        BY <1>1, <2>1 DEF LockInv, Holding
      <4>2. ~Repairs(q)'
        BY <2>1 DEF Repairs, NoJob
      <4> QED
        BY <1>2, <4>1, <4>2 DEF NoLate, Repairs, OthersStay
    <3>3. ASSUME NEW w \in Ops, AtWork(w)'
          PROVE  EvenAt(w)'
      <4>1. w # q /\ AtWork(w) /\ pc'[w] = pc[w] /\ job'[w] = job[w]
        BY <1>2, <2>1, <3>3 DEF AtWork, OthersStay
      <4>2. EvenAt(w)
        BY <1>5, <4>1
      <4>3. job[w].tries = 0
        BY <1>7, <3>1, <4>2 DEF EvenAt
      <4>4. pc[w] = "marking" => pc[q] # "published"
        BY <1>1, <4>1 DEF SoloInv
      <4>5. pc[w] = "marking" => expected' = disk["home"]
        BY <2>2, <4>2, <4>4 DEF EvenAt
      <4> QED
        BY <2>1, <3>2, <4>1, <4>2, <4>3, <4>5 DEF EvenAt
    <3> QED
      BY <2>1, <3>3 DEF Even
  <2> QED
    BY <2>3, <2>4
<1>30. CASE q \in Batches /\ BatchStaged(q)
  <2>1. UNCHANGED <<disk, expected, failure>> /\ pc[q] = "flushing" /\ fresh' \in {fresh, fresh \union {q}}
    BY <1>30 DEF BatchStaged, Schedule, files, state
  <2>2. pc'[q] \in {"rollback", "dropped", "queued"}
    BY <1>1, <1>30 DEF BatchStaged, Schedule, CallsInv
  <2>3. ~AtWork(q)' /\ ~Writing(q)
    BY <2>1, <2>2 DEF AtWork, Active, InTask, Writing
  <2> QED
    BY <1>2, <2>1, <2>3, EvenKept
<1>31. CASE q \in Batches /\ BatchCommits(q)
  <2>1. UNCHANGED <<disk, expected, failure, fresh>> /\ pc[q] = "decide" /\ pc'[q] = "committed"
    BY <1>1, <1>31 DEF BatchCommits, files, state, CallsInv
  <2>2. ~AtWork(q)' /\ ~Writing(q)
    BY <2>1 DEF AtWork, Active, InTask, Writing
  <2> QED
    BY <1>11, <2>1, <2>2
<1>32. ~(q \in Batches /\ BatchRollsBack(q))
  BY <1>1, Mending DEF BatchRollsBack
<1> QED
  BY <1>12, <1>13, <1>14, <1>15, <1>16, <1>17, <1>18, <1>19, <1>20, <1>21, <1>22, <1>23, <1>24, <1>25,
     <1>26, <1>27, <1>28, <1>29, <1>30, <1>31, <1>32 DEF Continues

LEMMA EvenStep ==
    ASSUME Closed, Grounds, Grounds', EvenInv, [Next]_vars
    PROVE  EvenInv'
<1> SUFFICES ASSUME ~released', path' = "home", ~Unread'
             PROVE  Even'
  BY DEF EvenInv
<1>1. ~released /\ path = "home"
  BY ReleasedStays, PathStep
<1>2. /\ CallsBase /\ CallsInv /\ PlaceInv /\ ManagerType /\ LockInv /\ GuardInv /\ QueueInv /\ WorkInv
      /\ KnownInv /\ NovelInv /\ NovelInv' /\ TriesInv'
  BY <1>1 DEF Grounds, FullInv, Sound, GuardInv, CallsBase
<1>3. ASSUME NEW r \in Ops, Mends(r)
      PROVE  Even'
  <2>1. failure' = TRUE /\ fresh' = {r} /\ pc'[r] = "waiting"
    BY <1>3 DEF Mends, Now
  <2>2. ~(job'[r].tries > 0)
    BY <1>2, <2>1 DEF TriesInv, Rewriting
  <2>3. EvenAt(r)'
    BY <2>1, <2>2 DEF EvenAt
  <2>4. \A w \in Ops : w # r => ~AtWork(w)'
    BY <2>1 DEF AtWork
  <2> QED
    BY <2>1, <2>3, <2>4, EvenOn
<1>4. CASE RewritesNow
  <2>1. fresh' = {} /\ (failure' = TRUE \/ expected' = disk'[path'])
    BY <1>2, <1>4, RewriteLeaves DEF RewritesNow
  <2> QED
    BY <2>1 DEF Even, AtWork
<1>5. ASSUME ~RewritesNow, \A r \in Ops : ~Mends(r)
      PROVE  Even'
  <2>1. \A o \in Ops : Lags(o)' => Lags(o) /\ job'[o] = job[o]
    BY <1>2, <1>5, LagsStep
  <2>2. \A x \in Foreign \intersect disk["home"] : x \in disk'["home"]
    <3>1. disk["home"] \ disk'["home"] \subseteq undone'
      BY <1>2, StoreStep DEF StoreMoves, Paths
    <3> QED
      BY <1>2, <3>1 DEF NovelInv
  <2>3. ~Unread
    BY <2>1, <2>2 DEF Unread
  <2>4. Even
    BY <1>1, <2>3 DEF EvenInv
  <2>5. NoLate => NoLate' \/ fresh' = {}
    BY <1>2, <1>5, LateStep DEF Restarts
  <2>6. /\ disk \in [Paths -> SUBSET Entries] /\ "home" \in Paths
        /\ failure \in BOOLEAN /\ failure' \in BOOLEAN
    BY <1>2, FlagsStep DEF ManagerType, FlagsType, Paths
  <2>7. ASSUME NEW e \in Appends, AppendsNow(e)
        PROVE  Even'
    <3>1. /\ ~fence /\ ~failure /\ NoneBetween /\ UNCHANGED <<failure, fresh, pc, job>>
          /\ expected' = expected \union {e} /\ disk'["home"] = disk["home"] \union {e}
      BY <1>1, <2>6, <2>7 DEF AppendsNow, calls
    <3>2. ASSUME NEW w \in Ops, AtWork(w)
          PROVE  pc[w] = "titling"
      <4>1. ~Repairs(w) /\ pc[w] # "waiting"
        BY <1>2, <3>1, <3>2 DEF QueueInv, RepairInv, AtWork, PlaceInv, Place, Repairs
      <4>2. pc[w] \notin Rewriting
        BY <1>2, <3>1, <3>2, <4>1 DEF WorkInv, WorkerOK
      <4>3. pc[w] # "marking"
        BY <3>1, ClosedGuards
      <4> QED
        BY <3>2, <4>1, <4>2, <4>3 DEF AtWork, Active, InTask, Rewriting
    <3>3. expected = disk["home"]
      <4>1. \A w \in Ops : ~Writing(w)
        BY <3>2 DEF Writing
      <4> QED
        BY <2>4, <3>1, <4>1 DEF Even
    <3>4. expected' = disk'["home"]
      BY <3>1, <3>3
    <3>5. ASSUME NEW w \in Ops, AtWork(w)'
          PROVE  EvenAt(w)'
      <4>1. AtWork(w) /\ pc'[w] = pc[w] /\ job'[w] = job[w]
        BY <3>1, <3>5 DEF AtWork
      <4>2. EvenAt(w) /\ (NoLate => NoLate')
        BY <2>4, <2>5, <3>5, <4>1 DEF Even, AtWork
      <4> QED
        BY <3>2, <3>4, <4>1, <4>2 DEF EvenAt
    <3> QED
      BY <3>4, <3>5 DEF Even
  <2>8. CASE Aside
    <3>1. UNCHANGED <<disk, expected>> /\ (failure => failure')
      BY <2>8 DEF Aside
    <3>2. ASSUME NEW w \in Ops, AtWork(w)'
          PROVE  EvenAt(w)'
      <4>1. AtWork(w) /\ pc'[w] = pc[w] /\ job'[w] = job[w]
        BY <2>8, <3>2 DEF Aside
      <4>2. EvenAt(w) /\ (NoLate => NoLate')
        BY <2>4, <2>5, <3>2, <4>1 DEF Even, AtWork
      <4> QED
        BY <3>1, <4>1, <4>2 DEF EvenAt
    <3>3. ASSUME ~failure', \A w \in Ops : ~Writing(w)'
          PROVE  expected' = disk'["home"]
      <4>1. \A w \in Ops : ~Writing(w)
        BY <2>8, <3>3 DEF Aside, Writing
      <4> QED
        BY <2>4, <3>1, <3>3, <4>1 DEF Even
    <3> QED
      BY <3>2, <3>3 DEF Even
  <2>9. ~Seal
    BY DEF Seal
  <2>10. \A v \in Recovers : ~Recover(v)
    BY <1>2, <1>5, Mending DEF Recover, Ops, queue
  <2>11. ASSUME NEW x \in Foreign, ForeignAppends(x)
         PROVE  FALSE
    <3>1. x \in disk'["home"]
      BY <2>6, <2>11 DEF ForeignAppends
    <3>2. \A o \in Ops : Lags(o)' => x \notin job'[o].body
      BY <1>2, <2>1, <2>11, NovelAppend
    <3> QED
      BY <3>1, <3>2 DEF Unread
  <2>12. ASSUME NEW q \in Ops, Continues(q)
         PROVE  Even'
    BY <1>1, <1>5, <2>4, <2>5, <2>12, EvenContinues
  <2> QED
    BY <1>2, <1>5, <2>7, <2>8, <2>9, <2>10, <2>11, <2>12, StepCases
<1> QED
  BY <1>3, <1>4, <1>5

-----------------------------------------------------------------------------
(* A late publish to the file that the session left did not happen *)

StaleInv ==
    ~released => \A o \in Ops : Lags(o) /\ job[o].file # path => disk[job[o].file] # job[o].body

LEMMA StaleStep ==
    ASSUME MaxRecoveries > 0, Grounds, Grounds', EvenInv, StaleInv, [Next]_vars
    PROVE  StaleInv'
<1> SUFFICES ASSUME ~released', NEW o \in Ops, Lags(o)', job'[o].file # path',
                    disk'[job'[o].file] = job'[o].body
             PROVE  FALSE
  BY DEF StaleInv
<1>1. ~released
  BY ReleasedStays
<1>2. /\ CallsBase /\ CallsInv /\ CallsInv' /\ ManagerType /\ ManagerType' /\ KnownInv
      /\ GuardInv /\ WorkInv /\ SiblingInv' /\ NovelInv /\ MovedInv
  BY <1>1 DEF Grounds, FullInv, Sound, CallsBase
<1>3. path' = "sibling" /\ job'[o].file = "home"
  BY <1>2 DEF SiblingInv, ManagerType, CallsInv, Jobs, Paths
<1>4. job'[o] = job[o] /\ pc[o] \in {"staging", "unwritten"} /\ (Lags(o) \/ o \in fresh)
  BY <1>2, LagsStep
<1>5. disk'["home"] = job[o].body /\ disk \in [Paths -> SUBSET Entries]
      /\ "home" \in Paths /\ "sibling" \in Paths
  BY <1>2, <1>3, <1>4 DEF ManagerType, Paths
<1>6. \A q \in Ops : q \in fresh /\ pc[q] \in {"staging", "unwritten"} => path = job[q].file
  BY <1>2 DEF WorkInv, WorkerOK, AtWork, Active, InTask, Rewriting
<1>7. CASE path = "sibling"
  <2>1. disk["home"] # job[o].body
    BY <1>1, <1>3, <1>4, <1>6, <1>7 DEF StaleInv
  <2>2. CASE RewritesNow
    BY <1>2, <1>3, <1>5, <2>1, <2>2, RewriteLeaves DEF RewritesNow
  <2>3. ASSUME NEW S, disk' = [disk EXCEPT !["sibling"] = S]
        PROVE  FALSE
    BY <1>5, <2>1, <2>3
  <2>4. ASSUME NEW e \in Appends, AppendsNow(e)
        PROVE  FALSE
    BY <1>7, <2>3, <2>4 DEF AppendsNow
  <2>5. ASSUME NEW t \in Titles, TitleWritten(t)
        PROVE  FALSE
    BY <1>7, <2>3, <2>5 DEF TitleWritten
  <2>6. ASSUME NEW q \in Ops, PublishDone(q)
        PROVE  FALSE
    <3>1. job[q].file = "sibling"
      BY <1>6, <1>7, <2>6 DEF PublishDone, Publishes
    <3> QED
      BY <2>3, <2>6, <3>1 DEF PublishDone
  <2>7. ASSUME NEW x \in Foreign, ForeignAppends(x)
        PROVE  FALSE
    BY <1>2, <1>5, <2>7, NovelAppend DEF ForeignAppends
  <2> QED
    BY <1>2, <1>5, <2>1, <2>2, <2>4, <2>5, <2>6, <2>7, WriteStep
<1>8. CASE path # "sibling"
  <2>1. path = "home" /\ path' # path
    BY <1>2, <1>3, <1>8 DEF ManagerType, Paths
  <2>2. CASE Lost
    BY <1>2, <1>4, <2>2 DEF MovedInv, Rewriting
  <2>3. ASSUME NEW q \in Ops, Contested(q)
        PROVE  FALSE
    <3>1. /\ q \in fresh /\ pc[q] = "staging" /\ disk[job[q].file] # job[q].exp /\ ~(job[q].tries < MaxRecoveries)
          /\ UNCHANGED <<fresh, disk>>
      BY <2>3 DEF Contested, Stale, AsExpected, MayRecover, queue
    <3>2. job[q].file = "home" /\ AtWork(q)
      BY <1>6, <2>1, <3>1 DEF AtWork, Active, InTask
    <3>3. job[q].tries # 0
      BY <3>1
    <3>4. Unread
      BY <1>1, <2>1, <3>1, <3>2, <3>3 DEF EvenInv, Even, EvenAt
    <3>5. Lags(o)
      BY <1>4, <3>1 DEF Lags, Stale
    <3> QED
      BY <1>5, <3>1, <3>4, <3>5 DEF Unread
  <2> QED
    BY <2>1, <2>2, <2>3, PathStep
<1> QED
  BY <1>7, <1>8

-----------------------------------------------------------------------------
(* A batch that is in the session's file and not yet decided *)

OnFile(b) == Staged(b) \intersect disk[path] # {}

\* Nobody else can have written to it: what is expected is what is there.
HeldAt(w) ==
    /\ pc[w] \notin {"conflicted", "reread"}
    /\ pc[w] = "staging" => job[w].exp = disk[path]
    /\ pc[w] = "published" => job[w].body = disk[path]
    /\ pc[w] = "unwritten" => disk[path] \in {job[w].body, expected}
Held ==
    /\ ~Lost
    /\ (\A w \in Ops : ~Writing(w)) => expected = disk[path]
    /\ \A w \in Ops : AtWork(w) => HeldAt(w)
HeldInv == ~released /\ batch # None /\ OnFile(batch) => Held

LEMMA HeldKept ==
    ASSUME Held, NEW q \in Ops, OthersStay(q), UNCHANGED <<disk, expected, path>>, ~Lost',
           fresh' \subseteq fresh \union {q}, fresh \ {q} \subseteq fresh',
           Writing(q) => Writing(q)', AtWork(q)' => HeldAt(q)'
    PROVE  Held'
<1>1. \A w \in Ops : w # q => pc'[w] = pc[w] /\ job'[w] = job[w] /\ (w \in fresh' <=> w \in fresh)
  BY DEF OthersStay
<1>2. \A w \in Ops : w # q => (AtWork(w)' <=> AtWork(w)) /\ (Writing(w)' <=> Writing(w))
  BY <1>1 DEF AtWork, Writing
<1>3. ASSUME NEW w \in Ops, AtWork(w)'
      PROVE  HeldAt(w)'
  <2>1. CASE w # q
    BY <1>1, <1>2, <1>3, <2>1 DEF Held, HeldAt
  <2> QED
    BY <1>3, <2>1
<1>4. ASSUME \A w \in Ops : ~Writing(w)'
      PROVE  expected' = disk'[path']
  <2>1. \A w \in Ops : ~Writing(w)
    BY <1>2, <1>4
  <2> QED
    BY <2>1 DEF Held
<1> QED
  BY <1>3, <1>4 DEF Held

LEMMA HeldOn ==
    ASSUME NEW q \in Ops, Writing(q)' \/ expected' = disk'[path'], \A w \in Ops : w # q => ~AtWork(w)',
           ~Lost', AtWork(q)' => HeldAt(q)'
    PROVE  Held'
BY DEF Held

LEMMA HeldContinues ==
    ASSUME Closed, Grounds, StaleInv, Held, ~released, ~released', batch # None, batch' = batch,
           NEW q \in Ops, Continues(q)
    PROVE  Held'
<1>1. /\ CallsBase /\ CallsInv /\ PlaceInv /\ ManagerType /\ LockInv /\ QueueInv /\ MarkInv /\ WorkInv
      /\ CalmInv /\ disk \in [Paths -> SUBSET Entries] /\ path \in Paths /\ fresh \subseteq Ops
  BY DEF Grounds, FullInv, Sound, GuardInv, CallsBase, ManagerType
<1>2. OthersStay(q) /\ [Next]_vars
  BY <1>1, OnlyOne DEF Next
<1>3. \A w \in Ops : AtWork(w) => HeldAt(w) /\ WorkerOK(w)
  BY <1>1 DEF WorkInv, Held
<1>4. \A w \in Ops : AtWork(w) /\ pc[w] \in Rewriting \ {"closing"} => job[w].file = path
  BY <1>3 DEF WorkerOK
<1>5. \A r \in Ops : ~Contested(r)
  <2> SUFFICES ASSUME NEW r \in Ops, Contested(r) PROVE FALSE
    OBVIOUS
  <2>1. AtWork(r) /\ pc[r] = "staging" /\ disk[job[r].file] # job[r].exp
    BY DEF Contested, Stale, AtWork, Active, InTask, AsExpected
  <2> QED
    BY <1>3, <1>4, <2>1 DEF HeldAt, Rewriting
<1>6. path' = path /\ ~Lost /\ ~Lost'
  <2>1. ~Lost /\ path' = path
    BY <1>2, <1>5, PathStep DEF Held
  <2>2. batch \in Ops /\ pc[batch] \in {"decide", "rollback", "waiting"} \union InTask
    BY <1>1, OpenHolds DEF LockInv
  <2>3. ~OwnerChanges
    BY <2>2 DEF OwnerChanges, InTask, Ended
  <2> QED
    BY <1>2, <2>1, <2>3, LostStep
<1>7. \A o \in Ops : Holding(o) => o = batch
  BY <1>1, OpenHolds
<1>8. ASSUME fresh' = fresh \ {q}, UNCHANGED <<disk, expected>>, ~Writing(q)
      PROVE  Held'
  <2>1. ~AtWork(q)'
    BY <1>8 DEF AtWork
  <2> QED
    BY <1>2, <1>6, <1>8, <2>1, HeldKept
<1>9. ASSUME Resolves(q) \/ Rejected(q), pc[q] \notin {"published", "unwritten"} \/ q \notin fresh,
             UNCHANGED <<disk, expected>>
      PROVE  Held'
  BY <1>8, <1>9 DEF Resolves, Rejected, Writing, AtWork
<1>10. ASSUME UNCHANGED <<disk, expected, fresh>>, ~Writing(q), AtWork(q)' => HeldAt(q)'
       PROVE  Held'
  BY <1>2, <1>6, <1>10, HeldKept
\* The call at work is alone, and what is expected is in the file.
<1>11. ASSUME AtWork(q), fresh' \subseteq fresh \union {q}
       PROVE  /\ \A w \in Ops : w # q => ~AtWork(w) /\ ~AtWork(w)'
              /\ ~Writing(q) => expected = disk[path]
  <2>1. \A w \in Ops : w # q => ~AtWork(w) /\ ~AtWork(w)'
    BY <1>1, <1>2, <1>11, WorksAlone
  <2> QED
    BY <2>1 DEF Held, Writing
<1>12. ASSUME q \in fresh, Startable(q), ~failure
       PROVE  /\ \A w \in Ops : ~AtWork(w)
              /\ expected = disk[path]
  <2>1. \A w \in Ops : ~AtWork(w)
    BY <1>1, <1>12, NoneStarts
  <2> QED
    BY <2>1 DEF Held, Writing
<1>13. CASE WorkDropped(q)
  BY <1>9, <1>13 DEF WorkDropped, Startable, files
<1>14. CASE WorkRefused(q)
  BY <1>9, <1>14 DEF WorkRefused, Startable, files
<1>15. CASE CloseFails(q)
  BY <1>9, <1>15 DEF CloseFails, files
<1>16. CASE CloseRuns(q)
  <2>1. ~Writing(q)
    BY <1>16 DEF CloseRuns, Startable, Writing
  <2> QED
    BY <1>8, <1>16, <2>1 DEF CloseRuns, files
<1>17. CASE RewriteStarts(q) \/ RepairStarts(q)
  <2>1. /\ pc[q] \in {"queued", "waiting"} /\ pc'[q] = "closing" /\ UNCHANGED <<disk, expected, fresh>>
    BY <1>1, <1>17 DEF RewriteStarts, RepairStarts, CallsInv, files, queue, Runs, Startable
  <2> QED
    BY <1>10, <2>1 DEF Writing, HeldAt
<1>18. CASE TitleSlot(q)
  <2>1. pc[q] = "titling"
    BY <1>18 DEF TitleSlot
  <2>2. CASE pc' = [pc EXCEPT ![q] = "closing"] /\ UNCHANGED fresh
    <3>1. pc'[q] = "closing" /\ UNCHANGED <<disk, expected>>
      BY <1>1, <1>18, <2>2 DEF CallsInv, TitleSlot, files
    <3> QED
      BY <1>10, <2>1, <2>2, <3>1 DEF Writing, HeldAt
  <2> QED
    BY <1>9, <1>18, <2>1, <2>2 DEF TitleSlot, files
<1>19. CASE TitleAppends(q)
  <2>1. q \in fresh /\ Startable(q) /\ ~failure /\ pc[q] = "queued"
    BY <1>19 DEF TitleAppends, Runs, Stale, Startable
  <2>2. (\A w \in Ops : ~AtWork(w)) /\ expected = disk[path]
    BY <1>12, <2>1
  <2>3. CASE Rejected(q) /\ UNCHANGED <<disk, expected>>
    BY <1>9, <2>1, <2>3
  <2>4. CASE /\ disk' = [disk EXCEPT ![path] = @ \union {TitleOf(q)}]
             /\ expected' = expected \union {TitleOf(q)} /\ pc' = [pc EXCEPT ![q] = "titling"]
             /\ UNCHANGED <<fresh, job>>
    <3>1. expected' = disk'[path'] /\ pc'[q] = "titling"
      BY <1>1, <1>6, <2>2, <2>4 DEF CallsInv
    <3>2. \A w \in Ops : w # q => ~AtWork(w)'
      BY <1>2, <2>2, <2>4 DEF OthersStay, AtWork
    <3> QED
      BY <1>6, <3>1, <3>2, HeldOn DEF HeldAt
  <2> QED
    BY <1>19, <2>3, <2>4 DEF TitleAppends
<1>20. CASE Serializes(q)
  <2>1. pc[q] = "closing" /\ ~Writing(q) /\ UNCHANGED <<disk, expected>>
    BY <1>6, <1>20 DEF Serializes, Writing
  <2>2. CASE Resolves(q)
    BY <1>9, <2>1, <2>2
  <2>3. CASE (Repairs(q) \/ ~Stale(q)) /\ UNCHANGED fresh
    <3>1. job'[q].exp = expected /\ pc'[q] = "staging"
      BY <1>1, <1>6, <1>20, <2>3, SerializedSets, SerializeEffect DEF Now
    <3>2. ASSUME AtWork(q)' PROVE HeldAt(q)'
      <4>1. AtWork(q)
        BY <2>1, <2>3, <3>2 DEF AtWork, Active, InTask
      <4>2. expected = disk[path]
        BY <1>11, <2>1, <2>3, <4>1
      <4> QED
        BY <1>6, <2>1, <3>1, <4>2 DEF HeldAt
    <3> QED
      BY <1>10, <2>1, <2>3, <3>2
  <2> QED
    BY <1>20, <2>2, <2>3 DEF Serializes, Abandoned
<1>21. CASE Publishes(q)
  <2>1. /\ pc[q] = "staging" /\ UNCHANGED <<job, fresh, expected>> /\ ~Writing(q)
        /\ pc'[q] \in {"published", "conflicted", "unwritten"}
    BY <1>1, <1>21 DEF Publishes, CallsInv, state, queue, Writing
  <2>2. q \in fresh => /\ AtWork(q) /\ job[q].file = path /\ job[q].exp = disk[path] /\ expected = disk[path]
                       /\ \A w \in Ops : w # q => ~AtWork(w)'
    <3>1. q \in fresh => AtWork(q)
      BY <2>1 DEF AtWork, Active, InTask
    <3> QED
      BY <1>3, <1>4, <1>11, <2>1, <3>1 DEF HeldAt, Rewriting
  <2>3. CASE ~(~released /\ ~Stale(q)) /\ UNCHANGED disk
    <3>1. ~AtWork(q)'
      BY <2>1, <2>3 DEF AtWork, Stale
    <3> QED
      BY <1>10, <2>1, <2>3, <3>1
  <2>4. ~(~Stale(q) /\ ~AsExpected(job[q]))
    BY <2>2 DEF AsExpected, Stale
  <2>5. CASE UNCHANGED disk /\ pc' = [pc EXCEPT ![q] = "unwritten"]
    <3>1. pc'[q] = "unwritten"
      BY <1>1, <2>5 DEF CallsInv
    <3>2. AtWork(q)' => HeldAt(q)'
      BY <1>6, <2>1, <2>2, <2>5, <3>1 DEF HeldAt, AtWork
    <3> QED
      BY <1>10, <2>1, <2>5, <3>2
  <2>6. CASE /\ ~Stale(q) /\ disk' = [disk EXCEPT ![job[q].file] = job[q].body]
             /\ pc' = [pc EXCEPT ![q] = "published"] \/ pc' = [pc EXCEPT ![q] = "unwritten"]
    <3>1. disk'[path'] = job[q].body /\ pc'[q] \in {"published", "unwritten"}
      BY <1>1, <1>6, <2>2, <2>6 DEF CallsInv, Stale
    <3>2. AtWork(q)'
      BY <2>1, <2>6, <3>1 DEF AtWork, Active, InTask, Stale
    <3>3. Writing(q)'
      BY <3>1, <3>2 DEF Writing
    <3>4. HeldAt(q)'
      BY <2>1, <3>1 DEF HeldAt
    <3> QED
      BY <1>6, <2>2, <2>6, <3>3, <3>4, HeldOn DEF Stale
  <2> QED
    BY <1>21, <2>3, <2>4, <2>5, <2>6 DEF Publishes
<1>22. ~Contested(q)
  BY <1>5
<1>23. CASE ReadsBack(q) \/ Adopts(q)
  <2>1. pc[q] \in {"conflicted", "reread"} /\ UNCHANGED <<fresh, disk>>
    BY <1>23 DEF ReadsBack, Adopts, queue, files
  <2>2. q \notin fresh
    <3>1. ~AtWork(q)
      BY <1>3, <2>1 DEF HeldAt
    <3> QED
      BY <2>1, <3>1 DEF AtWork, Active, InTask
  <2>3. UNCHANGED expected
    BY <1>23, <2>2 DEF ReadsBack, Adopts, Superseded, Stale, files
  <2> QED
    BY <1>10, <2>1, <2>2, <2>3 DEF AtWork, Writing
<1>24. CASE Recorded(q)
  <2>1. pc[q] = "published" /\ UNCHANGED disk
    BY <1>24 DEF Recorded
  <2>2. CASE Stale(q)
    BY <1>9, <1>24, <2>1, <2>2 DEF Recorded, Abandoned, Stale
  <2>3. CASE ~Stale(q)
    <3>1. AtWork(q) /\ expected' = job[q].body /\ UNCHANGED fresh /\ pc'[q] \in {"closing", "marking"}
      BY <1>1, <1>24, <2>1, <2>3 DEF Recorded, Retries, CallsInv, Stale, AtWork, Active, InTask
    <3>2. expected' = disk'[path']
      BY <1>3, <1>6, <2>1, <3>1 DEF HeldAt
    <3>3. \A w \in Ops : w # q => ~AtWork(w)'
      BY <1>11, <3>1
    <3> QED
      BY <1>6, <3>1, <3>2, <3>3, HeldOn DEF HeldAt
  <2> QED
    BY <2>2, <2>3
<1>25. CASE Marks(q)
  BY <1>9, <1>25 DEF Marks, files
<1>26. CASE Verifies(q)
  <2>1. /\ UNCHANGED disk /\ fresh' = fresh \ {q} /\ pc[q] = "unwritten" /\ ~Repairs(q)
        /\ expected' = (IF disk[job[q].file] = job[q].body THEN job[q].body ELSE expected)
    BY <1>26 DEF Verifies, Rejected
  <2>2. ~AtWork(q)'
    BY <2>1 DEF AtWork
  <2>3. CASE q \in fresh
    <3>1. AtWork(q)
      BY <2>1, <2>3 DEF AtWork, Active, InTask
    <3>2. expected' = disk'[path']
      BY <1>3, <1>4, <1>6, <2>1, <3>1 DEF HeldAt, Rewriting
    <3>3. \A w \in Ops : w # q => ~AtWork(w)'
      BY <1>11, <2>1, <3>1
    <3> QED
      BY <1>6, <2>2, <3>2, <3>3, HeldOn
  <2>4. CASE q \notin fresh
    <3>1. Lags(q) /\ ~Writing(q)
      BY <2>1, <2>4 DEF Lags, Stale, Writing, AtWork
    <3>2. CASE expected' = expected
      BY <1>8, <2>1, <3>1, <3>2
    <3>3. CASE expected' = disk[path]
      <4>1. ASSUME NEW w \in Ops, AtWork(w)'
            PROVE  HeldAt(w)'
        <5>1. w # q /\ AtWork(w) /\ pc'[w] = pc[w] /\ job'[w] = job[w]
          BY <1>2, <2>1, <4>1 DEF AtWork, OthersStay
        <5> QED
          BY <1>3, <1>6, <2>1, <3>3, <5>1 DEF HeldAt
      <4> QED
        BY <1>6, <2>1, <3>3, <4>1 DEF Held
    <3> QED
      BY <2>1, <3>1, <3>2, <3>3 DEF StaleInv
  <2> QED
    BY <2>3, <2>4
<1>27. CASE RepairRecorded(q)
  <2>1. /\ q \in fresh /\ Repairs(q) /\ pc[q] \in {"published", "unwritten"} /\ UNCHANGED disk
        /\ expected' = job[q].body /\ (pc[q] = "unwritten" => disk[job[q].file] = job[q].body)
    BY <1>27 DEF RepairRecorded, Stale
  <2>2. AtWork(q) /\ q = batch
    BY <1>7, <2>1 DEF AtWork, Active, InTask, Holding
  <2>3. expected' = disk'[path']
    BY <1>3, <1>4, <1>6, <2>1, <2>2 DEF HeldAt, Rewriting
  <2>4. pc'[q] = "closing" /\ UNCHANGED fresh
    BY <1>1, <1>27, <2>2 DEF RepairRecorded, CallsInv
  <2>5. \A w \in Ops : w # q => ~AtWork(w)'
    BY <1>11, <2>2, <2>4
  <2> QED
    BY <1>6, <2>3, <2>4, <2>5, HeldOn DEF HeldAt
<1>28. ~RepairFails(q)
  BY <1>7 DEF RepairFails, Holding
<1>29. ~(q \in Batches /\ (BatchStaged(q) \/ BatchCommits(q)))
  <2>1. q \in Batches /\ pc[q] = "flushing" => q = batch
    BY <1>7 DEF Holding, Ended
  <2>2. pc[batch] # "flushing"
    BY <1>1 DEF LockInv, InTask
  <2> QED
    BY <2>1, <2>2 DEF BatchStaged, BatchCommits
<1>30. CASE q \in Batches /\ BatchRollsBack(q)
  <2>1. /\ pc[q] \in {"decide", "rollback"} /\ RepairBegins(q) /\ UNCHANGED <<disk, expected>>
    BY <1>30 DEF BatchRollsBack, files
  <2>2. q = batch
    BY <1>7, <1>30, <2>1 DEF Holding, Ended
  <2>3. fresh' = {q} /\ pc'[q] = "waiting"
    BY <1>1, <2>1, RepairEffect DEF Now
  <2>4. \A o \in fresh : pc[o] \notin {"published", "unwritten"}
    BY <1>1, <1>30, <2>1, <2>2 DEF CalmInv
  <2>5. expected' = disk'[path']
    BY <1>6, <2>1, <2>4 DEF Held, Writing, AtWork
  <2>6. \A w \in Ops : w # q => ~AtWork(w)'
    BY <2>3 DEF AtWork
  <2> QED
    BY <1>6, <2>3, <2>5, <2>6, HeldOn DEF HeldAt
<1> QED
  BY <1>13, <1>14, <1>15, <1>16, <1>17, <1>18, <1>19, <1>20, <1>21, <1>22, <1>23, <1>24, <1>25,
     <1>26, <1>27, <1>28, <1>29, <1>30 DEF Continues

-----------------------------------------------------------------------------
(* A batch that is rolled back, and on disk only until its repair *)

Out(b) ==
    /\ Staged(b) \intersect entries = {}
    /\ ~released => \A w \in Ops : AtWork(w) =>
          /\ pc[w] \in {"staging", "unwritten", "published"} => Staged(b) \intersect job[w].body = {}
          /\ pc[w] = "reread" => Staged(b) \intersect job[w].seen = {}
OnItsWay(b) == batch = b /\ (~released => pc[b] # "published")
Decided(b) == pc[b] \in {"committed", "unrepaired", "indeterminate"}
OutInv ==
    \A b \in Batches : \/ batch = b /\ ~Repairs(b)
                       \/ Decided(b)
                       \/ Out(b) /\ (OnFile(b) => OnItsWay(b))

\* How a batch gets into the session's file.
LEMMA FileGains ==
    ASSUME ManagerType, CallsInv, SiblingInv, [Next]_vars, NEW b \in Batches, ~OnFile(b), OnFile(b)'
    PROVE  \/ RewritesNow /\ Staged(b) \intersect entries # {}
           \/ \E o \in Ops : /\ PublishDone(o) /\ job[o].file = path
                             /\ Staged(b) \intersect job[o].body # {}
<1>1. /\ disk \in [Paths -> SUBSET Entries] /\ path \in Paths /\ "home" \in Paths
      /\ Staged(b) \intersect (Appends \union AllTitles) = {}
  BY EntryAssumption, StagedApartTitles DEF ManagerType, Paths
<1>2. path' # path => disk[path'] = {} /\ path' \in Paths
  BY <1>1, PathStep DEF SiblingInv, Paths
<1>3. Staged(b) \intersect disk[path'] = {} /\ Staged(b) \intersect disk'[path'] # {} /\ path' \in Paths
  BY <1>1, <1>2 DEF OnFile
<1>4. CASE RewritesNow
  <2>1. PICK mem \in SUBSET Entries, cur \in BOOLEAN, req \in BOOLEAN :
            mem \subseteq entries \union Appends \union AllTitles /\ RewriteNow(mem, cur, req)
    BY <1>4 DEF RewritesNow
  <2>2. disk'[path'] = disk[path'] \/ disk'[path'] \subseteq mem \union disk[path']
    BY <1>3, <2>1, RewriteLeaves
  <2> QED
    BY <1>1, <1>3, <1>4, <2>1, <2>2
<1>5. ASSUME NEW p \in Paths, NEW e, disk' = [disk EXCEPT ![p] = @ \union {e}]
      PROVE  e \in Staged(b)
  <2>1. disk'[path'] \subseteq disk[path'] \union {e}
    BY <1>1, <1>3, <1>5
  <2> QED
    BY <1>3, <2>1
<1>6. \A e \in Appends : ~AppendsNow(e)
  BY <1>1, <1>5 DEF AppendsNow
<1>7. \A t \in Titles : ~TitleWritten(t)
  BY <1>1, <1>5 DEF TitleWritten, AllTitles
<1>8. \A x \in Foreign : ~ForeignAppends(x)
  BY <1>1, <1>5, EntryAssumption DEF ForeignAppends
<1>9. ASSUME NEW o \in Ops, PublishDone(o)
      PROVE  job[o].file = path /\ Staged(b) \intersect job[o].body # {}
  BY <1>1, <1>3, <1>9 DEF PublishDone
<1> QED
  BY <1>3, <1>4, <1>6, <1>7, <1>8, <1>9, WriteStep

LEMMA HeldStep ==
    ASSUME Closed, "relapse" \notin Behaviours, WholeInv, Grounds, StaleInv, OutInv, HeldInv, [Next]_vars
    PROVE  HeldInv'
<1> SUFFICES ASSUME ~released', batch' # None, OnFile(batch)'
             PROVE  Held'
  BY DEF HeldInv
<1>1. /\ ~released /\ CallsBase /\ CallsInv /\ ManagerType /\ LockInv /\ QueueInv /\ WorkInv /\ SiblingInv
      /\ disk \in [Paths -> SUBSET Entries] /\ path \in Paths /\ fresh \subseteq Ops /\ "home" \in Paths
  BY ReleasedStays DEF Grounds, FullInv, Sound, GuardInv, CallsBase, ManagerType, Paths
<1>2. CASE batch' # batch
  <2>1. PICK b \in Batches : BatchStaged(b) /\ batch' = b
    BY <1>2, OpensBatch
  <2>2. pc[b] = "flushing" /\ UNCHANGED <<disk, path>>
    BY <2>1 DEF BatchStaged, files
  <2>3. OnFile(b)
    BY <2>1, <2>2 DEF OnFile
  <2> QED
    BY <1>2, <2>1, <2>2, <2>3 DEF OutInv, Decided, OnItsWay
<1>3. CASE batch' = batch
  <2>1. /\ batch # None /\ batch \in Batches /\ ~LockFree
        /\ pc[batch] \in {"decide", "rollback", "waiting"} \union InTask
    BY <1>1, <1>3, OpenHolds DEF LockInv
  <2>2. ~RewritesNow /\ \A e \in Appends : ~AppendsNow(e)
    BY <2>1, ClosedGuards DEF RewritesNow, AppendsNow
  <2>3. CASE ~OnFile(batch)
    <3>1. PICK o \in Ops : PublishDone(o)
      BY <1>1, <1>3, <2>1, <2>2, <2>3, FileGains DEF OnFile
    <3>2. /\ o \in fresh /\ pc[o] = "staging" /\ disk' = [disk EXCEPT ![job[o].file] = job[o].body]
          /\ UNCHANGED <<released, fresh, job, path, claim>> /\ Continues(o)
      BY <3>1 DEF PublishDone, Publishes, Continues
    <3>3. pc'[o] \in {"published", "unwritten"}
      BY <1>1, <3>1 DEF PublishDone, Publishes, Stale, AsExpected, CallsInv
    <3>4. AtWork(o) /\ WorkerOK(o)
      BY <1>1, <3>2 DEF WorkInv, AtWork, Active, InTask
    <3>5. job[o].file = path /\ ~Lost
      BY <3>2, <3>4 DEF WorkerOK, Beyond, Rewriting
    <3>6. disk'[path'] = job'[o].body /\ ~Lost'
      BY <1>1, <3>2, <3>5 DEF Lost
    <3>7. \A w \in Ops : w # o => ~AtWork(w)'
      BY <1>1, <3>2, <3>4, WorksAlone, OnlyOne
    <3>8. Writing(o)' /\ HeldAt(o)'
      BY <3>2, <3>3, <3>6 DEF Writing, AtWork, Active, InTask, HeldAt
    <3> QED
      BY <3>6, <3>7, <3>8, HeldOn
  <2>4. CASE OnFile(batch)
    <3>1. Held
      BY <1>1, <2>1, <2>4 DEF HeldInv
    <3>2. ~Lost'
      <4>1. ~OwnerChanges
        BY <2>1 DEF OwnerChanges, CallsBase, ManagerType, Ops, InTask, Ended
      <4> QED
        BY <3>1, <4>1, LostStep DEF Held
    <3>3. CASE Aside
      BY <3>1, <3>2, <3>3 DEF Aside, Held, HeldAt, Writing
    <3>4. ~Seal /\ \A v \in Recovers : ~Recover(v)
      BY <2>1 DEF Seal, Recover
    <3>5. ASSUME NEW x \in Foreign, ForeignAppends(x)
          PROVE  Held'
      <4>1. path = "sibling"
        <5>1. path = "home" => Staged(batch) \subseteq disk["home"]
          BY <1>1, <2>1, <2>4 DEF WholeInv, Undivided, OnFile
        <5>2. ~(Staged(batch) \subseteq disk["home"])
          BY <2>1, <3>5 DEF ForeignAppends, InTask, Ended
        <5> QED
          BY <1>1, <5>1, <5>2 DEF Paths
      <4>2. disk'[path'] = disk[path] /\ UNCHANGED <<pc, job, fresh, expected>>
        BY <1>1, <3>5, <4>1 DEF ForeignAppends, queue, calls
      <4> QED
        BY <3>1, <3>2, <4>2 DEF Held, HeldAt, Writing, AtWork
    <3>6. ASSUME NEW o \in Ops, Continues(o)
          PROVE  Held'
      BY <1>1, <1>3, <2>1, <3>1, <3>6, HeldContinues
    <3> QED
      BY <1>1, <2>2, <3>3, <3>4, <3>5, <3>6, StepCases
  <2> QED
    BY <2>3, <2>4
<1> QED
  BY <1>2, <1>3

\* Who decides a batch, or begins its repair.
LEMMA BatchTurns ==
    ASSUME CallsInv, [Next]_vars, NEW b \in Batches, pc[b] \in {"decide", "rollback"}, pc'[b] # pc[b]
    PROVE  BatchCommits(b) \/ BatchRollsBack(b)
<1>1. ASSUME NEW o, NEW c, pc' = [pc EXCEPT ![o] = c]
      PROVE  pc[o] \in {"decide", "rollback"}
  BY <1>1
<1>2. ASSUME NEW q \in Ops, Continues(q)
      PROVE  BatchCommits(b) \/ BatchRollsBack(b)
  <2>1. q = b
    BY <1>2, OnlyOne DEF OthersStay, Ops
  <2> QED
    BY <1>2, <2>1 DEF Continues, WorkDropped, WorkRefused, Runs, Startable, RewriteStarts,
       RepairStarts, CloseFails, Serializes, Publishes, Contested, ReadsBack, Adopts, Recorded, Marks,
       Verifies, RepairRecorded, RepairFails, CloseRuns, TitleAppends, TitleSlot, BatchStaged
<1>3. CASE \/ \E t \in Titles : TitleSet(t)
           \/ \E r \in Rewrites : Rewrite(r)
           \/ \E c \in Closes : Close(c)
           \/ \E a \in Batches : BatchCalled(a)
           \/ \E v \in Recovers : Recover(v)
  <2>1. \E o \in Ops : \E c : pc[o] = "idle" /\ (UNCHANGED pc \/ pc' = [pc EXCEPT ![o] = c])
    BY <1>3 DEF TitleSet, Rewrite, Close, BatchCalled, Recover, RepairBegins, Schedule, Ops
  <2> QED
    BY <1>1, <2>1
<1> QED
  BY <1>2, <1>3 DEF Next, vars, calls, Append, FlushSync, Seal, ForeignAppends, OwnerChanges

\* Who closes a batch that is being repaired.
LEMMA RepairCloses ==
    ASSUME CallsBase, LockInv, [Next]_vars, NEW b \in Batches, batch = b, Repairs(b), batch' # batch
    PROVE  RepairRecorded(b) \/ RepairFails(b)
<1>1. pc[b] \notin {"flushing", "decide", "rollback"}
  BY DEF CallsBase, PlaceInv, Place, Repairs, Ops, InTask
<1>2. \A o \in Ops : Holding(o) => o = b
  BY OpenHolds, NoneAssumption DEF Ops
<1>3. \A o \in Batches : ~BatchStaged(o) /\ ~BatchCommits(o) /\ ~BatchRollsBack(o)
  BY <1>1, <1>2 DEF Holding, Ended, BatchStaged, BatchCommits, BatchRollsBack, Ops
<1>4. ASSUME NEW q \in Ops, Continues(q)
      PROVE  RepairRecorded(b) \/ RepairFails(b)
  BY <1>3, <1>4
     DEF Continues, WorkDropped, WorkRefused, RewriteStarts, RepairStarts, queue,
     CloseFails, Serializes, Publishes, Contested, ReadsBack, Adopts, Recorded, Marks, Verifies,
     RepairRecorded, RepairFails, CloseRuns, TitleAppends, TitleSlot
<1> QED
  BY <1>4 DEF Next, vars, queue, Append, FlushSync, Seal, TitleSet, Rewrite, Close, BatchCalled,
     Recover, ForeignAppends, OwnerChanges

\* The epoch takes in only what has yet to start.
LEMMA EpochGains ==
    ASSUME CallsBase, [Next]_vars, NEW w \in Ops, w \in fresh', pc'[w] \notin {"queued", "waiting"}
    PROVE  w \in fresh
<1>1. CASE Rests \/ Restarts
  BY <1>1 DEF Rests, Restarts
<1>2. ASSUME NEW q \in Ops, Moved(q)
      PROVE  w \in fresh
  BY <1>2 DEF Moved, Queues, Goes, Ends, Turns, Mends, Now
<1> QED
  BY <1>1, <1>2, StepMoves DEF CallsBase, Moved

\* An open batch stays open until it is decided, or its repair begins.
LEMMA OutOpen ==
    ASSUME Grounds, [Next]_vars, NEW b \in Batches, batch = b, ~Repairs(b)
    PROVE  \/ batch' = b /\ ~Repairs(b)'
           \/ Decided(b)'
           \/ Out(b)' /\ batch' = b /\ pc'[b] = "waiting"
<1> DEFINE Goal == \/ batch' = b /\ ~Repairs(b)'
                   \/ Decided(b)'
                   \/ Out(b)' /\ batch' = b /\ pc'[b] = "waiting"
<1>1. CallsBase /\ CallsInv /\ LockInv /\ b \in Ops /\ batch # None
  BY NoneAssumption DEF Grounds, FullInv, CallsBase, Ops
<1>2. (\A o \in Ops : Holding(o) => o = b) /\ ~LockFree
  BY <1>1, OpenHolds
<1>3. CASE Rests \/ Restarts
  BY <1>3 DEF Rests, Restarts, Repairs
<1>4. ASSUME NEW q \in Ops, Moved(q), q # b
      PROVE  batch' = b /\ ~Repairs(b)'
  <2>1. OthersStay(q)
    BY <1>4 DEF Moved, Queues, Goes, Ends, Turns, Mends, Now
  <2>2. q \notin Batches \/ pc[q] \in {"idle"} \union Ended
    BY <1>2, <1>4 DEF Holding
  <2>3. batch' = batch
    BY <1>2, <1>4, <2>2 DEF Moved, Queues, Goes, Ends, Turns, Mends, Ended
  <2> QED
    BY <1>1, <1>4, <2>1, <2>3 DEF OthersStay, Repairs
<1>5. ~Queues(b)
  BY <1>1 DEF Queues, LockInv, InTask
<1>6. CASE Goes(b)
  BY <1>6 DEF Goes, Now, Repairs
<1>7. CASE Ends(b)
  BY <1>7 DEF Ends, Now, Repairs
<1>8. ASSUME Turns(b) \/ Mends(b)
      PROVE  Goal
  <2>1. pc[b] \in {"decide", "rollback"} /\ pc'[b] \in Ended \union {"waiting"}
    BY <1>1, <1>2, <1>8 DEF Turns, Mends, Now, LockInv, InTask
  <2>2. BatchCommits(b) \/ BatchRollsBack(b)
    BY <1>1, <2>1, BatchTurns DEF Ended
  <2>3. CASE BatchCommits(b)
    BY <1>1, <2>3 DEF BatchCommits, Decided, CallsInv
  <2>4. CASE BatchRollsBack(b) /\ pc' = [pc EXCEPT ![b] = "unrepaired"]
    BY <1>1, <2>4 DEF Decided, CallsInv
  <2>5. CASE BatchRollsBack(b) /\ RepairBegins(b) /\ UNCHANGED batch
    <3>1. entries' = entries \ Staged(b) /\ fresh' = {b} /\ pc'[b] = "waiting"
      BY <1>1, <2>5, RepairEffect DEF BatchRollsBack, Now
    <3>2. \A w \in Ops : AtWork(w)' => pc'[w] = "waiting"
      BY <3>1 DEF AtWork
    <3> QED
      BY <2>5, <3>1, <3>2 DEF Out
  <2> QED
    BY <2>2, <2>3, <2>4, <2>5 DEF BatchRollsBack
<1> QED
  BY <1>1, <1>3, <1>4, <1>5, <1>6, <1>7, <1>8, StepMoves DEF CallsBase, Moved

\* What is out stays out of the session's entries, ...
LEMMA OutEntries ==
    ASSUME Closed, Grounds, [Next]_vars, NEW b \in Batches, Out(b), OnFile(b) => batch = b,
           ~(BatchStaged(b) /\ batch' = b)
    PROVE  Staged(b) \intersect entries' = {}
<1> SUFFICES ASSUME NEW e \in Staged(b), e \in entries'
             PROVE  FALSE
  OBVIOUS
<1>1. CallsBase /\ CallsInv /\ ManagerType /\ SealedInv /\ SiblingInv /\ path \in Paths
  BY DEF Grounds, FullInv, CallsBase, ManagerType
<1>2. e \notin entries /\ e \notin Appends /\ e \notin AllTitles
  BY StagedApartTitles, EntryAssumption DEF Out
<1>3. CASE RewritesNow
  <2>1. PICK mem \in SUBSET Entries, cur \in BOOLEAN, req \in BOOLEAN :
            mem \subseteq entries \union Appends \union AllTitles /\ RewriteNow(mem, cur, req)
    BY <1>3 DEF RewritesNow
  <2>2. e \in disk[path']
    BY <1>1, <1>2, <2>1, RewriteLeaves
  <2>3. path' = path
    BY <1>1, <2>2, PathStep DEF SiblingInv, Paths
  <2>4. batch = None
    BY <1>3, ClosedGuards DEF RewritesNow
  <2> QED
    BY <2>2, <2>3, <2>4, NoneAssumption DEF OnFile, Ops
<1>4. ASSUME NEW c \in Batches, BatchStaged(c), batch' = c, e \in Staged(c)
      PROVE  FALSE
  BY <1>4, StagedApartTitles
<1>5. ASSUME NEW o \in Ops, Adopts(o), o \in fresh, e \in job[o].seen
      PROVE  FALSE
  <2>1. pc[o] = "reread" /\ AtWork(o)
    BY <1>5 DEF Adopts, AtWork, Active, InTask
  <2>2. ~released
    BY <1>1, <1>5, <2>1 DEF SealedInv
  <2> QED
    BY <1>5, <2>1, <2>2 DEF Out
<1> QED
  BY <1>1, <1>2, <1>3, <1>4, <1>5, EntriesStep

\* ... and of what the call at work publishes or adopts.
LEMMA OutStays ==
    ASSUME Closed, Grounds, HeldInv, [Next]_vars, NEW b \in Batches, Out(b), OnFile(b) => batch = b,
           ~(BatchStaged(b) /\ batch' = b)
    PROVE  Out(b)'
<1>1. Staged(b) \intersect entries' = {}
  BY OutEntries
<1>2. ASSUME ~released', NEW w \in Ops, AtWork(w)'
      PROVE  /\ pc'[w] \in {"staging", "unwritten", "published"} => Staged(b) \intersect job'[w].body = {}
             /\ pc'[w] = "reread" => Staged(b) \intersect job'[w].seen = {}
  <2>1. /\ ~released /\ CallsBase /\ CallsInv /\ WorkInv
    BY <1>2, ReleasedStays DEF Grounds, FullInv, Sound, CallsBase
  <2>2. AtWork(w) => /\ pc[w] \in {"staging", "unwritten", "published"} => Staged(b) \intersect job[w].body = {}
                     /\ pc[w] = "reread" => Staged(b) \intersect job[w].seen = {}
    BY <2>1 DEF Out
  <2>3. pc'[w] # "waiting" => w \in fresh
    BY <1>2, <2>1, EpochGains DEF AtWork, Active
  <2>4. CASE pc'[w] = pc[w]
    <3>1. pc[w] \in Rewriting => job'[w] = job[w]
      BY <2>1, <2>4, Remains
    <3>2. pc[w] \in Rewriting => AtWork(w)
      BY <2>3, <2>4 DEF AtWork, Active, InTask, Rewriting
    <3> QED
      BY <2>2, <2>4, <3>1, <3>2 DEF Rewriting
  <2>5. CASE pc'[w] # pc[w] /\ pc'[w] = "staging"
    <3>1. job'[w].body = entries
      BY <2>1, <2>5, Enters, SerializedSets
    <3> QED
      BY <2>5, <3>1 DEF Out
  <2>6. CASE pc'[w] # pc[w] /\ pc'[w] \in {"unwritten", "published"}
    <3>1. Publishes(w)
      BY <2>1, <2>6, Enters
    <3>2. pc[w] = "staging" /\ job' = job /\ AtWork(w)
      BY <2>3, <2>6, <3>1 DEF Publishes, AtWork, Active, InTask
    <3> QED
      BY <2>2, <2>6, <3>2
  <2>7. CASE pc'[w] # pc[w] /\ pc'[w] = "reread"
    <3>1. ReadsBack(w)
      BY <2>1, <2>7, Enters
    <3>2. pc[w] = "conflicted" /\ AtWork(w)
      BY <2>3, <2>7, <3>1 DEF ReadsBack, AtWork, Active, InTask
    <3>3. job'[w].seen = disk[path]
      BY <2>1, <3>1, <3>2, ReadEffect DEF WorkInv, WorkerOK, Rewriting
    <3>4. ~OnFile(b)
      BY <2>1, <3>2, NoneAssumption DEF HeldInv, Held, HeldAt, Ops
    <3> QED
      BY <2>7, <3>3, <3>4 DEF OnFile
  <2> QED
    BY <2>4, <2>5, <2>6, <2>7
<1> QED
  BY <1>1, <1>2 DEF Out

LEMMA OutStep ==
    ASSUME Closed, Grounds, HeldInv, OutInv, [Next]_vars
    PROVE  OutInv'
<1> SUFFICES ASSUME NEW b \in Batches, ~Decided(b)', ~(batch' = b /\ ~Repairs(b)')
             PROVE  Out(b)' /\ (OnFile(b)' => OnItsWay(b)')
  BY DEF OutInv
<1>1. /\ CallsBase /\ CallsInv /\ PlaceInv /\ ManagerType /\ LockInv /\ SealedInv /\ SiblingInv
      /\ disk \in [Paths -> SUBSET Entries] /\ path \in Paths /\ b \in Ops /\ b # None
  BY NoneAssumption DEF Grounds, FullInv, CallsBase, ManagerType, Ops
<1>2. ~released => BatchInv /\ WorkInv
  BY DEF Grounds, FullInv, Sound, GuardInv
<1>3. CASE batch = b /\ ~Repairs(b)
  BY <1>3, OutOpen DEF OnItsWay
<1>4. ~Decided(b)
  BY <1>1, EndedStays DEF Decided, Ended
<1>5. CASE Out(b) /\ (OnFile(b) => OnItsWay(b)) /\ ~(batch = b /\ ~Repairs(b))
  <2>1. ~(BatchStaged(b) /\ batch' = b)
    <3> SUFFICES ASSUME BatchStaged(b), batch' = b PROVE FALSE
      OBVIOUS
    <3>1. pc[b] = "flushing"
      BY DEF BatchStaged
    <3>2. batch # b
      BY <1>1, <3>1 DEF LockInv, InTask
    <3>3. Schedule(b, "rewrite")
      BY <3>2 DEF BatchStaged
    <3> QED
      BY <1>1, <3>3, ScheduleEffect DEF Now, Repairs
  <2>2. Out(b)'
    BY <1>5, <2>1, OutStays DEF OnItsWay
  <2>3. ASSUME OnFile(b)', OnFile(b)
        PROVE  OnItsWay(b)'
    <3>1. batch = b /\ Repairs(b) /\ (~released => pc[b] # "published")
      BY <1>5, <2>3 DEF OnItsWay
    <3>2. batch' = b
      <4> SUFFICES ASSUME batch' # b PROVE FALSE
        OBVIOUS
      <4>1. RepairRecorded(b) \/ RepairFails(b)
        BY <1>1, <3>1, RepairCloses
      <4>2. ~RepairFails(b)
        BY <1>1 DEF RepairFails, Decided, CallsInv
      <4>3. b \in fresh /\ pc[b] \in {"published", "unwritten"}
            /\ (pc[b] = "unwritten" => disk[job[b].file] = job[b].body)
        BY <4>1, <4>2 DEF RepairRecorded, Stale
      <4>4. ~released
        BY <1>1, <4>3 DEF SealedInv
      <4>5. AtWork(b) /\ pc[b] = "unwritten"
        BY <3>1, <4>3, <4>4 DEF AtWork, Active, InTask
      <4>6. disk[path] = job[b].body
        BY <1>1, <1>2, <4>3, <4>4, <4>5 DEF WorkInv, WorkerOK, Rewriting
      <4> QED
        BY <1>1, <1>5, <2>3, <4>4, <4>5, <4>6 DEF Out, OnFile
    <3>3. ~released' => pc'[b] # "published"
      <4> SUFFICES ASSUME ~released', pc'[b] = "published" PROVE FALSE
        OBVIOUS
      <4>1. ~released /\ pc[b] # "published"
        BY <3>1, ReleasedStays
      <4>2. Publishes(b)
        BY <1>1, <4>1, Enters
      <4>3. pc[b] = "staging" /\ path' = path
        BY <4>2 DEF Publishes
      <4>4. AtWork(b)
        BY <1>1, <1>2, <3>1, <4>1, <4>3 DEF BatchInv, AtWork, Active, InTask
      <4>5. job[b].file = path /\ Staged(b) \intersect job[b].body = {}
        BY <1>1, <1>2, <1>5, <4>1, <4>3, <4>4 DEF WorkInv, WorkerOK, Rewriting, Out
      <4>6. disk' = [disk EXCEPT ![job[b].file] = job[b].body]
        BY <1>1, <4>1, <4>2, <4>4 DEF Publishes, Stale, AtWork, CallsInv
      <4> QED
        BY <1>1, <2>3, <4>3, <4>5, <4>6 DEF OnFile
    <3> QED
      BY <3>2, <3>3 DEF OnItsWay
  <2>4. ASSUME OnFile(b)', ~OnFile(b)
        PROVE  FALSE
    <3>1. PICK o \in Ops : PublishDone(o) /\ Staged(b) \intersect job[o].body # {}
      BY <1>1, <1>5, <2>4, FileGains DEF Out
    <3>2. ~released /\ AtWork(o) /\ pc[o] = "staging"
      BY <3>1 DEF PublishDone, Publishes, AtWork, Active, InTask
    <3> QED
      BY <1>5, <3>1, <3>2 DEF Out
  <2> QED
    BY <2>2, <2>3, <2>4
<1> QED
  BY <1>3, <1>4, <1>5 DEF OutInv

-----------------------------------------------------------------------------
(* A batch reported as rolled back is neither on disk nor in memory *)

\* Nobody else writes between a batch's publish and its end, and a conflict is tried again.
Guarded == Closed /\ "relapse" \notin Behaviours /\ MaxRecoveries > 0

OutcomeInv == IInv /\ Grounds /\ EvenInv /\ StaleInv /\ HeldInv /\ OutInv

LEMMA OutcomeInit == Init => OutcomeInv
<1> SUFFICES ASSUME Init PROVE OutcomeInv
  OBVIOUS
<1>1. IInv /\ FullInv
  BY InductiveInit, FullInit
<1>2. /\ \A o \in Ops : pc[o] = "idle" /\ job[o] = NoJob
      /\ fresh = {} /\ batch = None /\ undone = {} /\ entries = {} /\ expected = {} /\ path = "home"
      /\ disk = [p \in Paths |-> {}]
  BY DEF Init
<1>3. NoJob.tries = 0 /\ NoJob.file = "home" /\ NoJob.seen = {}
  BY DEF NoJob
<1>4. disk["home"] = {} /\ disk["sibling"] = {}
  BY <1>2 DEF Paths
<1>5. \A o \in Ops : ~AtWork(o) /\ ~Lags(o)
  BY <1>2 DEF AtWork, Lags
<1>6. TriesInv /\ SoloInv /\ SiblingInv /\ NovelInv /\ MovedInv
  <2>1. \A o \in Ops : job[o].tries = 0 /\ job[o].file = "home" /\ job[o].seen = {}
    BY <1>2, <1>3
  <2>2. TriesInv /\ SoloInv /\ MovedInv
    BY <1>2, <2>1 DEF TriesInv, SoloInv, MovedInv, Rewriting
  <2> QED
    BY <1>2, <1>4, <2>1, <2>2 DEF SiblingInv, NovelInv
<1>7. EvenInv /\ StaleInv /\ HeldInv /\ OutInv
  <2>1. EvenInv /\ StaleInv /\ HeldInv
    BY <1>2, <1>4, <1>5 DEF EvenInv, Even, StaleInv, HeldInv
  <2>2. \A b \in Batches : Out(b) /\ ~OnFile(b)
    BY <1>2, <1>4, <1>5 DEF Out, OnFile
  <2> QED
    BY <2>1, <2>2 DEF OutInv
<1> QED
  BY <1>1, <1>6, <1>7 DEF OutcomeInv, Grounds

LEMMA OutcomeStep ==
    ASSUME Guarded, OutcomeInv, [Next]_vars
    PROVE  OutcomeInv'
<1>1. /\ Closed /\ "relapse" \notin Behaviours /\ MaxRecoveries > 0
      /\ WholeInv /\ Grounds /\ EvenInv /\ StaleInv /\ HeldInv /\ OutInv
  BY DEF Guarded, OutcomeInv, IInv
<1>2. /\ ManagerType /\ CallsInv /\ PlaceInv /\ CallsBase /\ KnownInv /\ FullInv
  BY <1>1 DEF Grounds, FullInv, CallsBase
<1>3. IInv'
  BY <1>1, <1>2, ManagerStep, CallsStep, KnownStep, WholeStep DEF IInv
<1>4. FullInv' /\ TriesInv' /\ SoloInv'
  BY <1>1, <1>2, FullStep, TriesStep, SoloStep DEF Grounds
<1>5. SiblingInv' /\ NovelInv' /\ MovedInv'
  BY <1>1, <1>2, SiblingStep, NovelStep, MovedStep DEF Grounds
<1>6. Grounds'
  BY <1>4, <1>5 DEF Grounds
<1>7. EvenInv' /\ StaleInv'
  BY <1>1, <1>6, EvenStep, StaleStep
<1>8. HeldInv' /\ OutInv'
  BY <1>1, HeldStep, OutStep
<1> QED
  BY <1>3, <1>6, <1>7, <1>8 DEF OutcomeInv

\* An atomic batch is all or nothing (appendEntriesAtomically): no file holds a part of
\* it, one reported as committed is on disk, and of one reported as rolled back neither
\* the session's file nor its memory has an entry, whatever fails or is superseded.
THEOREM BatchesWhole == Guarded => (Spec => []BatchWhole)
<1> SUFFICES ASSUME Guarded PROVE Spec => []BatchWhole
  OBVIOUS
<1>1. OutcomeInv /\ [Next]_vars => OutcomeInv'
  BY OutcomeStep
<1>2. OutcomeInv => BatchWhole
  <2> SUFFICES ASSUME OutcomeInv PROVE BatchWhole
    OBVIOUS
  <2>1. BatchUndivided /\ BatchCommitted /\ LockInv /\ OutInv /\ CallsBase
    BY DEF OutcomeInv, Grounds, FullInv, IInv, WholeInv, CommittedInv, BatchUndivided, BatchCommitted
  <2>2. ASSUME NEW b \in Batches, pc[b] = "refused"
        PROVE  Staged(b) \intersect (disk[path] \union entries) = {}
    <3>1. batch # b
      BY <2>1, <2>2, NoneAssumption DEF LockInv, InTask, Ops
    <3>2. Out(b) /\ ~OnFile(b)
      BY <2>1, <2>2, <3>1 DEF OutInv, Decided, OnItsWay
    <3> QED
      BY <3>2 DEF Out, OnFile
  <2> QED
    BY <2>1, <2>2 DEF BatchWhole, BatchRefused
<1> QED
  BY OutcomeInit, <1>1, <1>2, PTL DEF Spec
================================================================================
