------------------------ MODULE AgentLifecycle_proofs ------------------------
(***************************************************************************)
(* Proofs about AgentLifecycle, for any callers, releasers, sessions, refs *)
(* and behaviours of the factories.                                        *)
(*                                                                         *)
(* IInv is the inductive invariant.  Its parts say, of every piece of work *)
(* that waits for something, what stays true of the ref and the session it *)
(* captured: WorkInv (it names them), FreshInv and RetiredRefsAreEmpty     *)
(* (which refs hold nothing), OwnerInv (a session is held for one ref      *)
(* only), BuildInv, WokenInv and ParkInv (a revival, a woken caller and a  *)
(* park keep out of each other's way), and AliveInv (what is attached is   *)
(* not disposed).  The effect lemmas say what each step changes, one ref,  *)
(* session and caller at a time; each part of IInv, and each of the three  *)
(* action properties, then follows by cases on the groups of steps.        *)
(*                                                                         *)
(* SafeInv is inductive together with IInv.  Its parts say who accounts    *)
(* for a session that still writes (KeptInv, ParkedInv), that there is one *)
(* of a ref and one of the id (SingleInv, WriterInv), what a release, a    *)
(* finalizer and a park still find when they go on (ReadyInv, ResumeInv,   *)
(* ParkRefInv), and who arms the timer of an idle agent again (CancelInv,  *)
(* TimerInv).  OneWriter and NothingForgotten follow from it.              *)
(***************************************************************************)
EXTENDS AgentLifecycle, FiniteSetTheorems, TLAPS

Statuses == {"unborn", "running", "idle", "parked", "aborted"}
Lives == {"unborn", "live", "disposing", "disposed"}
Adoptions == [ref : Refs \union {None}, timer : BOOLEAN]
CallerStates == [at : {"idle", "cancelling", "cancelled", "waiting",
                       "waited", "reviving", "returned"},
                 ref : Refs \union {None}, got : Sessions \union {None}]
ReleaseStates == [at : {"idle", "aborting", "parking", "parked", "writing", "disposing"},
                  ref : Refs \union {None}, tombstone : BOOLEAN, live : Sessions \union {None}]
Revivals == [phase : {"none", "probing", "building", "starting", "discarding"},
             session : Sessions \union {None}, cold : BOOLEAN]
Parks == [phase : {"none", "started", "disposing"}, ref : Refs \union {None},
          session : Sessions \union {None}, cancelled : BOOLEAN]
Runs == [phase : {"none", "starting", "running", "settling", "disposing", "done"},
         session : Sessions \union {None}]

RegistryTypes ==
    /\ registered \in Refs \union {None}
    /\ status \in [Refs -> Statuses]
    /\ session \in [Refs -> Sessions \union {None}]

SessionTypes ==
    /\ life \in [Sessions -> Lives]
    /\ owner \in [Sessions -> Refs \union {None}]
    /\ turn \in [Sessions -> BOOLEAN]
    /\ run \in [Refs -> Runs]

ManagerTypes ==
    /\ adoption \in Adoptions /\ park \in Parks
    /\ entry \in Refs \union {None}
    /\ revival \in [Refs -> Revivals]
    /\ manager \in {"open", "closing", "closed"}

CallTypes ==
    /\ caller \in [Callers -> CallerStates]
    /\ release \in [Releasers -> ReleaseStates]
    /\ probing \in Refs \union {None}

\* Work in flight names what it works on.
WorkInv ==
    /\ \A k \in Releasers : release[k].at # "idle" => release[k].ref # None
    /\ park.phase # "none" => park.ref # None /\ park.session # None
    /\ \A r \in Refs :
          /\ run[r].phase \in {"running", "settling", "disposing"} => run[r].session # None
          /\ revival[r].phase \in {"starting", "discarding"} => revival[r].session # None

\* A ref that no session was ever attached to: before it is registered, and while
\* its run is building the session.
FreshInv ==
    \A r \in Refs :
        /\ Unborn(r) => session[r] = None /\ run[r].phase = "none"
                        /\ revival[r].phase = "none"
        /\ run[r].phase = "starting" =>
              status[r] \in {"running", "aborted"} /\ session[r] = None
              /\ revival[r].phase = "none"

\* A session belongs to the one ref it was attached to, and whoever holds it
\* holds it for that ref.
OwnerInv ==
    \A s \in Sessions :
        /\ life[s] = "unborn" => owner[s] = None
        /\ \A r \in Refs : s \in {session[r], run[r].session, revival[r].session}
                              => owner[s] = r
        /\ park.session = s => park.ref # None /\ owner[s] = park.ref
        /\ \A k \in Releasers : release[k].live = s =>
              release[k].ref # None /\ owner[s] = release[k].ref

\* A revival that has no session yet is for a ref that has none either.
BuildInv ==
    \A r \in Refs : revival[r].phase \in {"probing", "building"} => session[r] = None

\* A caller that a park has woken goes on before another park starts.
WokenInv ==
    (\E c \in Callers : caller[c].at \in {"cancelled", "waited"}) => park.phase = "none"

\* A park that has detached its session leaves the ref without one until it ends:
\* no revival is under way that could attach, and none starts meanwhile.
ParkInv ==
    park.phase = "disposing" =>
        /\ session[park.ref] = None /\ ~Unborn(park.ref)
        /\ run[park.ref].phase # "starting"
        /\ revival[park.ref].phase \notin {"probing", "building"}

\* The session of the registered ref has not been disposed.
AliveInv == Attached # None => life[Attached] \in {"live", "disposing"}

\* The inductive invariant
IInv ==
    /\ TypeOK /\ WorkInv /\ FreshInv /\ RetiredRefsAreEmpty /\ OwnerInv
    /\ BuildInv /\ WokenInv /\ ParkInv /\ AliveInv

\* What KilledStaysDead, StaleWorkHarmless and HandOutAttached say of one step
KilledStep ==
    \A r \in Refs : status[r] = "aborted" =>
        /\ status'[r] = "aborted" /\ session'[r] = None
        /\ registered = r => registered' = r \/ AskedToGo(r)
StaleStep ==
    \A s \in Sessions :
        s = Attached /\ life[s] = "live" /\ life'[s] # "live" => Concerned(registered)
HandOutStep ==
    \A c \in Callers : HandedOut(c) =>
        /\ registered' # None
        /\ caller'[c].got = session'[registered']
        /\ life'[caller'[c].got] \in {"live", "disposing"}

\* TypeOK, one group of variables at a time
LEMMA TypeParts ==
    TypeOK <=> RegistryTypes /\ SessionTypes /\ ManagerTypes /\ CallTypes
BY DEF TypeOK, RegistryTypes, SessionTypes, ManagerTypes, CallTypes, Statuses, Lives, Adoptions,
       CallerStates, ReleaseStates, Revivals, Parks, Runs

\* The values at rest
LEMMA RestTypes ==
    /\ NoRun \in Runs /\ NoAdoption \in Adoptions /\ NoPark \in Parks
    /\ NoRevival \in Revivals /\ NoCall \in CallerStates /\ NoRelease \in ReleaseStates
BY DEF NoRun, NoAdoption, NoPark, NoRevival, NoCall, NoRelease, Runs, Adoptions, Parks,
       Revivals, CallerStates, ReleaseStates

\* Starting a dispose keeps the type of life.
LEMMA DisposingType ==
    ASSUME TypeOK, NEW s \in Sessions \union {None}
    PROVE  Disposing(s) \in [Sessions -> Lives]
BY TypeParts DEF SessionTypes, Disposing, Lives

\* What the manager hears keeps the type of adoption.
LEMMA AfterTypes ==
    ASSUME TypeOK
    PROVE  \A r \in Refs \union {None} :
              /\ AfterRemoval(r) \in Adoptions
              /\ \A to \in Statuses : AfterStatus(r, to) \in Adoptions
<1>1. adoption \in Adoptions /\ NoAdoption \in Adoptions
  BY TypeParts, RestTypes DEF ManagerTypes
<1>2. /\ [adoption EXCEPT !.timer = FALSE] \in Adoptions
      /\ [adoption EXCEPT !.timer = TRUE] \in Adoptions
  BY <1>1 DEF Adoptions
<1> QED
  BY <1>1, <1>2 DEF AfterRemoval, AfterStatus

\* The end of a run under a disposed session
LEMMA SettlingTypes ==
    ASSUME TypeOK, NEW s \in Sessions, Settling(s)
    PROVE  run' \in [Refs -> Runs]
<1>1. \A r \in Refs : run[r] \in Runs /\ [run[r] EXCEPT !.phase = "settling"] \in Runs
  BY TypeParts DEF SessionTypes, Runs
<1> QED
  BY <1>1 DEF Settling

\* The end of a park wakes who waits for it.
LEMMA ParkReturnsTypes ==
    ASSUME TypeOK, ParkReturns
    PROVE  /\ park' \in Parks /\ caller' \in [Callers -> CallerStates]
           /\ release' \in [Releasers -> ReleaseStates]
<1>1. \A c \in Callers : /\ caller[c] \in CallerStates
                         /\ [caller[c] EXCEPT !.at = "cancelled"] \in CallerStates
                         /\ [caller[c] EXCEPT !.at = "waited"] \in CallerStates
  BY TypeParts DEF CallTypes, CallerStates
<1>2. \A k \in Releasers : /\ release[k] \in ReleaseStates
                           /\ [release[k] EXCEPT !.at = "parked"] \in ReleaseStates
  BY TypeParts DEF CallTypes, ReleaseStates
<1> QED
  BY <1>1, <1>2, RestTypes DEF ParkReturns

\* The second half of ensureLive
LEMMA ResolveTypes ==
    ASSUME TypeOK, NEW c \in Callers, Resolve(c)
    PROVE  /\ caller' \in [Callers -> CallerStates] /\ entry' \in Refs \union {None}
           /\ revival' \in [Refs -> Revivals]
<1> DEFINE Returning(s) == [NoCall EXCEPT !.at = "returned", !.got = s]
           Reviving == [NoCall EXCEPT !.at = "reviving", !.ref = registered]
           Starting(phase) == [NoRevival EXCEPT !.phase = phase]
<1>1. /\ caller \in [Callers -> CallerStates] /\ entry \in Refs \union {None}
      /\ revival \in [Refs -> Revivals] /\ registered \in Refs \union {None}
      /\ session \in [Refs -> Sessions \union {None}]
  BY TypeParts DEF CallTypes, ManagerTypes, RegistryTypes
<1>2. /\ \A s \in Sessions \union {None} : Returning(s) \in CallerStates
      /\ Reviving \in CallerStates
      /\ Starting("building") \in Revivals /\ Starting("probing") \in Revivals
  BY <1>1 DEF NoCall, NoRevival, CallerStates, Revivals
<1>3. CASE registered = None
  BY <1>1, <1>2, <1>3, RestTypes DEF Resolve, Thrown
<1>4. CASE registered # None /\ session[registered] # None
  BY <1>1, <1>2, <1>4 DEF Resolve, Returned
<1>5. CASE registered # None /\ session[registered] = None
  <2>1. CASE entry # registered /\ status[registered] # "parked"
    BY <1>1, <1>2, <1>5, <2>1, RestTypes DEF Resolve, Thrown
  <2>2. CASE ~(entry # registered /\ status[registered] # "parked")
    <3>1. /\ caller' = [caller EXCEPT ![c] = Reviving] /\ entry' = registered
          /\ \/ revival' = revival
             \/ revival' = [revival EXCEPT ![registered] = Starting("building")]
             \/ revival' = [revival EXCEPT ![registered] = Starting("probing")]
      BY <1>5, <2>2 DEF Resolve
    <3> HIDE DEF Returning, Reviving, Starting
    <3> QED
      BY <1>1, <1>2, <1>5, <3>1
  <2> QED
    BY <2>1, <2>2
<1> QED
  BY <1>1, <1>3, <1>4, <1>5

\* The synchronous half of a release, and the whole of its call
LEMMA SeizeTypes ==
    ASSUME TypeOK, NEW k \in Releasers, NEW r \in Refs, NEW t \in BOOLEAN,
           Seize(k, r, t)
    PROVE  /\ RegistryTypes' /\ life' \in [Sessions -> Lives]
           /\ release' \in [Releasers -> ReleaseStates]
<1>1. RegistryTypes /\ release \in [Releasers -> ReleaseStates] /\ life \in [Sessions -> Lives]
  BY TypeParts DEF CallTypes, SessionTypes
<1>2. LiveOf(r) \in Sessions \union {None}
  BY <1>1, NoneAssumption DEF LiveOf, RegistryTypes
<1>3. life' \in [Sessions -> Lives]
  BY <1>1, <1>2, DisposingType DEF Seize
<1>4. RegistryTypes'
  BY <1>1, NoneAssumption DEF Seize, Detached, RegistryTypes, Statuses
<1>5. release' \in [Releasers -> ReleaseStates]
  <2>1. \A at \in {"writing", "disposing"} :
           [at |-> at, ref |-> r, tombstone |-> t, live |-> LiveOf(r)] \in ReleaseStates
    BY <1>2 DEF ReleaseStates
  <2> QED
    BY <1>1, <2>1, RestTypes DEF Seize
<1> QED
  BY <1>3, <1>4, <1>5

LEMMA ReleaseCallTypes ==
    ASSUME TypeOK, NEW k \in Releasers, NEW r \in Refs, NEW t \in BOOLEAN,
           ReleaseCall(k, r, t)
    PROVE  /\ RegistryTypes' /\ life' \in [Sessions -> Lives]
           /\ release' \in [Releasers -> ReleaseStates]
           /\ adoption' \in Adoptions /\ park' \in Parks
<1>1. /\ RegistryTypes /\ release \in [Releasers -> ReleaseStates] /\ life \in [Sessions -> Lives]
      /\ adoption \in Adoptions /\ park \in Parks
  BY TypeParts DEF CallTypes, SessionTypes, ManagerTypes
<1>2. adoption' \in Adoptions
  BY <1>1, RestTypes DEF ReleaseCall
<1>3. CASE park.phase # "none" /\ park.ref = r
  <2>1. [at |-> "parking", ref |-> r, tombstone |-> t, live |-> None] \in ReleaseStates
    BY DEF ReleaseStates
  <2>2. park' \in Parks
    BY <1>1, <1>3 DEF ReleaseCall, Parks
  <2>3. UNCHANGED <<registered, status, session, life>>
    BY <1>3 DEF ReleaseCall
  <2>4. release' \in [Releasers -> ReleaseStates]
    BY <1>1, <1>3, <2>1 DEF ReleaseCall
  <2> QED
    BY <1>1, <1>2, <2>2, <2>3, <2>4 DEF RegistryTypes
<1>4. CASE ~(park.phase # "none" /\ park.ref = r)
  BY <1>1, <1>2, <1>4, SeizeTypes DEF ReleaseCall
<1> QED
  BY <1>3, <1>4

\* A revival that ends in an error
LEMMA RevivalThrowsTypes ==
    ASSUME TypeOK, NEW r \in Refs, NEW called \in BOOLEAN, RevivalThrows(r, called)
    PROVE  /\ revival' \in [Refs -> Revivals] /\ entry' \in Refs \union {None}
           /\ caller' \in [Callers -> CallerStates] /\ adoption' \in Adoptions
<1>1. /\ caller \in [Callers -> CallerStates] /\ entry \in Refs \union {None}
      /\ revival \in [Refs -> Revivals] /\ adoption \in Adoptions
  BY TypeParts DEF CallTypes, ManagerTypes
<1> QED
  BY <1>1, RestTypes DEF RevivalThrows
-----------------------------------------------------------------------------
(* Types                                                                    *)

\* Every step keeps the types.
LEMMA TypeStep ==
    ASSUME TypeOK, WorkInv, [Next]_vars
    PROVE  TypeOK'
<1> USE NoneAssumption, TeardownAssumption
<1> USE DEF registryVars, sessionVars, managerVars, callVars, NoRun, NoAdoption, NoPark,
        NoRevival, NoCall, NoRelease
<1>1. ASSUME NEW c \in Callers, EnsureLive(c) PROVE TypeOK'
  <2>1. RegistryTypes' /\ SessionTypes'
    BY <1>1, TypeParts DEF EnsureLive, RegistryTypes, SessionTypes
  <2>2. CASE park.phase = "none"
    <3>1. Resolve(c) /\ UNCHANGED <<park, adoption, manager, release, probing>>
      BY <1>1, <2>2 DEF EnsureLive
    <3>2. ManagerTypes' /\ CallTypes'
      BY <3>1, TypeParts, ResolveTypes DEF ManagerTypes, CallTypes
    <3> QED
      BY <2>1, <3>2, TypeParts, PTL
  <2>3. CASE park.phase # "none"
    <3>1. /\ \E keep \in BOOLEAN : park' = [park EXCEPT !.cancelled = park.cancelled \/ keep]
          /\ \E at \in {"cancelling", "waiting"} :
                caller' = [caller EXCEPT ![c] = [NoCall EXCEPT !.at = at, !.ref = registered]]
      <4> DEFINE keep == park.phase = "started" /\ Attached # None
      <4>1. /\ park' = [park EXCEPT !.cancelled = park.cancelled \/ keep]
            /\ caller' = [caller EXCEPT ![c] =
                   [NoCall EXCEPT !.at = IF keep THEN "cancelling" ELSE "waiting",
                                  !.ref = registered]]
        BY <1>1, <2>3 DEF EnsureLive
      <4> QED
        BY <4>1
    <3>2. UNCHANGED <<adoption, entry, revival, manager, release, probing>>
      BY <1>1, <2>3 DEF EnsureLive
    <3>3. park' \in Parks
      BY <3>1, TypeParts DEF ManagerTypes, Parks
    <3>4. /\ [NoCall EXCEPT !.at = "cancelling", !.ref = registered] \in CallerStates
          /\ [NoCall EXCEPT !.at = "waiting", !.ref = registered] \in CallerStates
      BY TypeParts DEF NoCall, RegistryTypes, CallerStates
    <3>5. caller' \in [Callers -> CallerStates]
      BY <3>1, <3>4, TypeParts DEF CallTypes
    <3>6. ManagerTypes' /\ CallTypes'
      BY <3>2, <3>3, <3>5, TypeParts DEF ManagerTypes, CallTypes
    <3> QED
      BY <2>1, <3>6, TypeParts, PTL
  <2> QED
    BY <2>2, <2>3
<1>2. ASSUME NEW c \in Callers, CallerDone(c) PROVE TypeOK'
  BY <1>2 DEF CallerDone, TypeOK
<1>3. ASSUME NEW k \in Releasers, CancelCalled(k) PROVE TypeOK'
  <2>1. UNCHANGED <<owner, turn, run, entry, revival, manager, caller, probing>>
    BY <1>3 DEF CancelCalled
  <2>2. CASE ReleaseCall(k, registered, FALSE)
    <3>1. registered \in Refs
      BY <1>3, TypeParts DEF CancelCalled, RegistryTypes
    <3>2. RegistryTypes' /\ SessionTypes' /\ ManagerTypes' /\ CallTypes'
      BY <2>1, <2>2, <3>1, ReleaseCallTypes, TypeParts DEF SessionTypes, ManagerTypes, CallTypes
    <3> QED
      BY <3>2, TypeParts, PTL
  <2>3. CASE ~ReleaseCall(k, registered, FALSE)
    <3>1. /\ release' = [release EXCEPT ![k] =
                [NoRelease EXCEPT !.at = "aborting", !.ref = registered]]
          /\ UNCHANGED <<registryVars, adoption, park, life>>
      BY <1>3, <2>3 DEF CancelCalled
    <3>2. [NoRelease EXCEPT !.at = "aborting", !.ref = registered] \in ReleaseStates
      BY TypeParts DEF NoRelease, RegistryTypes, ReleaseStates
    <3>3. RegistryTypes' /\ SessionTypes' /\ ManagerTypes' /\ CallTypes'
      BY <2>1, <3>1, <3>2, TypeParts
         DEF RegistryTypes, SessionTypes, ManagerTypes, CallTypes
    <3> QED
      BY <3>3, TypeParts, PTL
  <2> QED
    BY <2>2, <2>3
<1>4. ASSUME NEW k \in Releasers, NEW r \in Refs, Kill(k, r) PROVE TypeOK'
  <2>1. RegistryTypes'
    BY <1>4, TypeParts, RestTypes, ReleaseCallTypes
       DEF Kill, RegistryTypes, SessionTypes, ManagerTypes, CallTypes, Statuses
  <2>2. SessionTypes'
    BY <1>4, TypeParts, RestTypes, ReleaseCallTypes
       DEF Kill, RegistryTypes, SessionTypes, ManagerTypes, CallTypes, Lives, Runs
  <2>3. ManagerTypes'
    BY <1>4, TypeParts, RestTypes, ReleaseCallTypes
       DEF Kill, RegistryTypes, SessionTypes, ManagerTypes, CallTypes, Adoptions, Parks,
           Revivals
  <2>4. CallTypes'
    BY <1>4, TypeParts, RestTypes, ReleaseCallTypes
       DEF Kill, RegistryTypes, SessionTypes, ManagerTypes, CallTypes, CallerStates,
           ReleaseStates
  <2> QED BY <2>1, <2>2, <2>3, <2>4, TypeParts, PTL
<1>5. CASE ParkCommits
  BY <1>5 DEF ParkCommits, ParkStands, Detached, Disposing, TypeOK
<1>6. CASE ParkGivesUp
  <2>1. RegistryTypes'
    BY <1>6, TypeParts, RestTypes, ParkReturnsTypes
       DEF ParkGivesUp, RegistryTypes, SessionTypes, ManagerTypes, CallTypes, Statuses
  <2>2. SessionTypes'
    BY <1>6, TypeParts, RestTypes, ParkReturnsTypes
       DEF ParkGivesUp, RegistryTypes, SessionTypes, ManagerTypes, CallTypes, Lives, Runs
  <2>3. ManagerTypes'
    BY <1>6, TypeParts, RestTypes, ParkReturnsTypes
       DEF ParkGivesUp, RegistryTypes, SessionTypes, ManagerTypes, CallTypes, Adoptions, Parks,
           Revivals
  <2>4. CallTypes'
    BY <1>6, TypeParts, RestTypes, ParkReturnsTypes
       DEF ParkGivesUp, RegistryTypes, SessionTypes, ManagerTypes, CallTypes, CallerStates,
           ReleaseStates
  <2> QED BY <2>1, <2>2, <2>3, <2>4, TypeParts, PTL
<1>7. CASE ParkEnds
  <2>1. RegistryTypes'
    BY <1>7, TypeParts, RestTypes, ParkReturnsTypes
       DEF ParkEnds, RegistryTypes, SessionTypes, ManagerTypes, CallTypes, Statuses
  <2>2. SessionTypes'
    BY <1>7, TypeParts, RestTypes, ParkReturnsTypes
       DEF ParkEnds, RegistryTypes, SessionTypes, ManagerTypes, CallTypes, Lives, Runs
  <2>3. ManagerTypes'
    BY <1>7, TypeParts, RestTypes, ParkReturnsTypes
       DEF ParkEnds, RegistryTypes, SessionTypes, ManagerTypes, CallTypes, Adoptions, Parks,
           Revivals
  <2>4. CallTypes'
    BY <1>7, TypeParts, RestTypes, ParkReturnsTypes
       DEF ParkEnds, RegistryTypes, SessionTypes, ManagerTypes, CallTypes, CallerStates,
           ReleaseStates
  <2> QED BY <2>1, <2>2, <2>3, <2>4, TypeParts, PTL
<1>8. ASSUME NEW c \in Callers, KeepLive(c) PROVE TypeOK'
  <2>1. UNCHANGED <<registryVars, sessionVars, run, park, manager, release, probing>>
    BY <1>8 DEF KeepLive
  <2>2. RegistryTypes' /\ SessionTypes'
    BY <2>1, TypeParts DEF RegistryTypes, SessionTypes
  <2>3. CASE Attached # None
    <3>1. Attached \in Sessions
      BY <2>3, TypeParts DEF Attached, RegistryTypes
    <3>2. [NoCall EXCEPT !.at = "returned", !.got = Attached] \in CallerStates
      BY <3>1 DEF NoCall, CallerStates
    <3>3. /\ caller' = [caller EXCEPT ![c] = [NoCall EXCEPT !.at = "returned", !.got = Attached]]
          /\ adoption' = adoption \/ adoption' = [adoption EXCEPT !.timer = TRUE]
          /\ UNCHANGED <<entry, revival>>
      BY <1>8, <2>3 DEF KeepLive, Returned
    <3>4. adoption' \in Adoptions
      BY <3>3, TypeParts DEF ManagerTypes, Adoptions
    <3>5. ManagerTypes' /\ CallTypes'
      BY <2>1, <3>2, <3>3, <3>4, TypeParts DEF ManagerTypes, CallTypes
    <3> QED
      BY <2>2, <3>5, TypeParts, PTL
  <2>4. CASE Attached = None
    <3>1. Resolve(c) /\ adoption' = adoption
      BY <1>8, <2>4 DEF KeepLive
    <3>2. ManagerTypes' /\ CallTypes'
      BY <2>1, <3>1, ResolveTypes, TypeParts DEF ManagerTypes, CallTypes
    <3> QED
      BY <2>2, <3>2, TypeParts, PTL
  <2> QED
    BY <2>3, <2>4
<1>9. ASSUME NEW c \in Callers, ParkAwaited(c) PROVE TypeOK'
  <2>1. RegistryTypes'
    BY <1>9, TypeParts, RestTypes, ResolveTypes
       DEF ParkAwaited, Returned, RegistryTypes, SessionTypes, ManagerTypes, CallTypes,
           Statuses
  <2>2. SessionTypes'
    BY <1>9, TypeParts, RestTypes, ResolveTypes
       DEF ParkAwaited, Returned, RegistryTypes, SessionTypes, ManagerTypes, CallTypes, Lives,
           Runs
  <2>3. ManagerTypes'
    BY <1>9, TypeParts, RestTypes, ResolveTypes
       DEF ParkAwaited, Returned, RegistryTypes, SessionTypes, ManagerTypes, CallTypes,
           Adoptions, Parks, Revivals
  <2>4. CallTypes'
    BY <1>9, TypeParts, RestTypes, ResolveTypes
       DEF ParkAwaited, Returned, RegistryTypes, SessionTypes, ManagerTypes, CallTypes,
           CallerStates, ReleaseStates
  <2> QED BY <2>1, <2>2, <2>3, <2>4, TypeParts, PTL
<1>10. ASSUME NEW k \in Releasers, ReleaseResumes(k) PROVE TypeOK'
  <2>1. release[k].ref \in Refs /\ release[k].tombstone \in BOOLEAN
    BY <1>10, TypeParts DEF ReleaseResumes, WorkInv, CallTypes, ReleaseStates
  <2>2. /\ Seize(k, release[k].ref, release[k].tombstone)
        /\ adoption' \in {adoption, AfterRemoval(registered)}
        /\ UNCHANGED <<owner, turn, run, park, entry, revival, manager, caller, probing>>
    BY <1>10 DEF ReleaseResumes
  <2>3. /\ RegistryTypes' /\ life' \in [Sessions -> Lives]
        /\ release' \in [Releasers -> ReleaseStates]
    BY <2>1, <2>2, SeizeTypes
  <2>4. adoption' \in Adoptions
    BY <2>2, AfterTypes, TypeParts DEF RegistryTypes, ManagerTypes
  <2>5. SessionTypes' /\ ManagerTypes' /\ CallTypes'
    BY <2>2, <2>3, <2>4, TypeParts DEF SessionTypes, ManagerTypes, CallTypes
  <2> QED
    BY <2>3, <2>5, TypeParts, PTL
<1>11. ASSUME NEW k \in Releasers, ReleaseEnds(k) PROVE TypeOK'
  <2>1. RegistryTypes'
    BY <1>11, TypeParts, RestTypes, AfterTypes
       DEF ReleaseEnds, Unregister, RegistryTypes, SessionTypes, ManagerTypes, CallTypes,
           Statuses
  <2>2. SessionTypes'
    BY <1>11, TypeParts, RestTypes, AfterTypes
       DEF ReleaseEnds, Unregister, RegistryTypes, SessionTypes, ManagerTypes, CallTypes,
           Lives, Runs
  <2>3. ManagerTypes'
    BY <1>11, TypeParts, RestTypes, AfterTypes
       DEF ReleaseEnds, Unregister, RegistryTypes, SessionTypes, ManagerTypes, CallTypes,
           Adoptions, Parks, Revivals
  <2>4. CallTypes'
    BY <1>11, TypeParts, RestTypes, AfterTypes
       DEF ReleaseEnds, Unregister, RegistryTypes, SessionTypes, ManagerTypes, CallTypes,
           CallerStates, ReleaseStates
  <2> QED BY <2>1, <2>2, <2>3, <2>4, TypeParts, PTL
<1>12. ASSUME NEW r \in Refs, Discarded(r) PROVE TypeOK'
  BY <1>12 DEF Discarded, RevivalThrows, TypeOK
<1>13. ASSUME NEW r \in Refs, OneShotEnds(r) PROVE TypeOK'
  <2>1. RegistryTypes'
    BY <1>13, TypeParts, RestTypes, AfterTypes
       DEF OneShotEnds, Unregister, RegistryTypes, SessionTypes, ManagerTypes, CallTypes,
           Statuses
  <2>2. SessionTypes'
    BY <1>13, TypeParts, RestTypes, AfterTypes
       DEF OneShotEnds, Unregister, RegistryTypes, SessionTypes, ManagerTypes, CallTypes,
           Lives, Runs
  <2>3. ManagerTypes'
    BY <1>13, TypeParts, RestTypes, AfterTypes
       DEF OneShotEnds, Unregister, RegistryTypes, SessionTypes, ManagerTypes, CallTypes,
           Adoptions, Parks, Revivals
  <2>4. CallTypes'
    BY <1>13, TypeParts, RestTypes, AfterTypes
       DEF OneShotEnds, Unregister, RegistryTypes, SessionTypes, ManagerTypes, CallTypes,
           CallerStates, ReleaseStates
  <2> QED BY <2>1, <2>2, <2>3, <2>4, TypeParts, PTL
<1>14. CASE Closed
  BY <1>14 DEF Closed, TypeOK
<1>15. ASSUME NEW r \in Refs, Spawn(r) PROVE TypeOK'
  BY <1>15 DEF Spawn, TypeOK
<1>16. ASSUME NEW r \in Refs, Restore(r) PROVE TypeOK'
  BY <1>16 DEF Restore, TypeOK
<1>17. ASSUME NEW r \in Refs, ReclaimProbes(r) PROVE TypeOK'
  BY <1>17 DEF ReclaimProbes, TypeOK
<1>18. ASSUME NEW r \in Refs, FinishIdle(r) PROVE TypeOK'
  <2>1. RegistryTypes'
    BY <1>18, TypeParts, RestTypes
       DEF FinishIdle, RunOver, RegistryTypes, SessionTypes, ManagerTypes, CallTypes, Statuses
  <2>2. SessionTypes'
    BY <1>18, TypeParts, RestTypes
       DEF FinishIdle, RunOver, RegistryTypes, SessionTypes, ManagerTypes, CallTypes, Lives,
           Runs
  <2>3. ManagerTypes'
    BY <1>18, TypeParts, RestTypes
       DEF FinishIdle, RunOver, RegistryTypes, SessionTypes, ManagerTypes, CallTypes,
           Adoptions, Parks, Revivals
  <2>4. CallTypes'
    BY <1>18, TypeParts, RestTypes
       DEF FinishIdle, RunOver, RegistryTypes, SessionTypes, ManagerTypes, CallTypes,
           CallerStates, ReleaseStates
  <2> QED BY <2>1, <2>2, <2>3, <2>4, TypeParts, PTL
<1>19. ASSUME NEW r \in Refs, FinishDisposes(r) PROVE TypeOK'
  <2>1. run[r].session \in Sessions \union {None}
    BY TypeParts DEF SessionTypes, ManagerTypes, CallTypes, Runs, Revivals, ReleaseStates
  <2>2. life' \in [Sessions -> Lives]
    BY <1>19, <2>1, DisposingType DEF FinishDisposes
  <2>3. \A phase \in {"disposing", "done"} : [run[r] EXCEPT !.phase = phase] \in Runs
    BY TypeParts DEF SessionTypes, Runs
  <2>4. run' \in [Refs -> Runs]
    BY <1>19, <2>3, TypeParts DEF FinishDisposes, RunOver, SessionTypes
  <2>5. RegistryTypes' /\ SessionTypes' /\ ManagerTypes' /\ CallTypes'
    BY <1>19, <2>2, <2>4, TypeParts
       DEF FinishDisposes, RegistryTypes, SessionTypes, ManagerTypes, CallTypes
  <2> QED
    BY <2>5, TypeParts, PTL
<1>20. ASSUME NEW r \in Refs, SpawnFails(r) PROVE TypeOK'
  <2>1. RegistryTypes'
    BY <1>20, TypeParts, RestTypes, AfterTypes
       DEF SpawnFails, Unregister, RegistryTypes, SessionTypes, ManagerTypes, CallTypes,
           Statuses
  <2>2. SessionTypes'
    BY <1>20, TypeParts, RestTypes, AfterTypes
       DEF SpawnFails, Unregister, RegistryTypes, SessionTypes, ManagerTypes, CallTypes, Lives,
           Runs
  <2>3. ManagerTypes'
    BY <1>20, TypeParts, RestTypes, AfterTypes
       DEF SpawnFails, Unregister, RegistryTypes, SessionTypes, ManagerTypes, CallTypes,
           Adoptions, Parks, Revivals
  <2>4. CallTypes'
    BY <1>20, TypeParts, RestTypes, AfterTypes
       DEF SpawnFails, Unregister, RegistryTypes, SessionTypes, ManagerTypes, CallTypes,
           CallerStates, ReleaseStates
  <2> QED BY <2>1, <2>2, <2>3, <2>4, TypeParts, PTL
<1>21. ASSUME NEW r \in Refs, NEW s \in Sessions, Attach(r, s) PROVE TypeOK'
  BY <1>21 DEF Attach, TypeOK
<1>22. ASSUME NEW s \in Sessions, TurnStarts(s) PROVE TypeOK'
  <2>1. /\ \/ UNCHANGED <<status, adoption>>
           \/ \E to \in {"running", "idle"} : Attached = s /\ SetStatus(registered, to)
        /\ UNCHANGED <<registered, session, life, owner, park, entry, revival, manager, callVars>>
    BY <1>22 DEF TurnStarts, Mirrored
  <2>2. turn' \in [Sessions -> BOOLEAN] /\ run' \in [Refs -> Runs]
    BY <1>22, SettlingTypes, TypeParts DEF TurnStarts, SessionTypes
  <2>3. status' \in [Refs -> Statuses] /\ adoption' \in Adoptions
    BY <2>1, AfterTypes, TypeParts DEF SetStatus, RegistryTypes, ManagerTypes, Statuses
  <2>4. RegistryTypes' /\ SessionTypes' /\ ManagerTypes' /\ CallTypes'
    BY <2>1, <2>2, <2>3, TypeParts DEF RegistryTypes, SessionTypes, ManagerTypes, CallTypes
  <2> QED
    BY <2>4, TypeParts, PTL
<1>23. ASSUME NEW s \in Sessions, TurnEnds(s) PROVE TypeOK'
  <2>1. /\ \/ UNCHANGED <<status, adoption>>
           \/ \E to \in {"running", "idle"} : Attached = s /\ SetStatus(registered, to)
        /\ UNCHANGED <<registered, session, life, owner, park, entry, revival, manager, callVars>>
    BY <1>23 DEF TurnEnds, Mirrored
  <2>2. turn' \in [Sessions -> BOOLEAN] /\ run' \in [Refs -> Runs]
    BY <1>23, SettlingTypes, TypeParts DEF TurnEnds, SessionTypes
  <2>3. status' \in [Refs -> Statuses] /\ adoption' \in Adoptions
    BY <2>1, AfterTypes, TypeParts DEF SetStatus, RegistryTypes, ManagerTypes, Statuses
  <2>4. RegistryTypes' /\ SessionTypes' /\ ManagerTypes' /\ CallTypes'
    BY <2>1, <2>2, <2>3, TypeParts DEF RegistryTypes, SessionTypes, ManagerTypes, CallTypes
  <2> QED
    BY <2>4, TypeParts, PTL
<1>24. ASSUME NEW k \in Releasers, NEW r \in Refs, FinishKilled(k, r) PROVE TypeOK'
  <2>1. RegistryTypes'
    BY <1>24, TypeParts, RestTypes, ReleaseCallTypes
       DEF FinishKilled, RunOver, RegistryTypes, SessionTypes, ManagerTypes, CallTypes,
           Statuses
  <2>2. SessionTypes'
    BY <1>24, TypeParts, RestTypes, ReleaseCallTypes
       DEF FinishKilled, RunOver, RegistryTypes, SessionTypes, ManagerTypes, CallTypes, Lives,
           Runs
  <2>3. ManagerTypes'
    BY <1>24, TypeParts, RestTypes, ReleaseCallTypes
       DEF FinishKilled, RunOver, RegistryTypes, SessionTypes, ManagerTypes, CallTypes,
           Adoptions, Parks, Revivals
  <2>4. CallTypes'
    BY <1>24, TypeParts, RestTypes, ReleaseCallTypes
       DEF FinishKilled, RunOver, RegistryTypes, SessionTypes, ManagerTypes, CallTypes,
           CallerStates, ReleaseStates
  <2> QED BY <2>1, <2>2, <2>3, <2>4, TypeParts, PTL
<1>25. ASSUME NEW k \in Releasers, NEW r \in Refs, FinishShutdown(k, r) PROVE TypeOK'
  <2>1. RegistryTypes'
    BY <1>25, TypeParts, RestTypes, ReleaseCallTypes
       DEF FinishShutdown, RunOver, RegistryTypes, SessionTypes, ManagerTypes, CallTypes,
           Statuses
  <2>2. SessionTypes'
    BY <1>25, TypeParts, RestTypes, ReleaseCallTypes
       DEF FinishShutdown, RunOver, RegistryTypes, SessionTypes, ManagerTypes, CallTypes,
           Lives, Runs
  <2>3. ManagerTypes'
    BY <1>25, TypeParts, RestTypes, ReleaseCallTypes
       DEF FinishShutdown, RunOver, RegistryTypes, SessionTypes, ManagerTypes, CallTypes,
           Adoptions, Parks, Revivals
  <2>4. CallTypes'
    BY <1>25, TypeParts, RestTypes, ReleaseCallTypes
       DEF FinishShutdown, RunOver, RegistryTypes, SessionTypes, ManagerTypes, CallTypes,
           CallerStates, ReleaseStates
  <2> QED BY <2>1, <2>2, <2>3, <2>4, TypeParts, PTL
<1>26. CASE TimerFires
  BY <1>26 DEF TimerFires, Attached, TypeOK
<1>27. CASE Close
  <2>1. /\ manager' = "closing"
        /\ UNCHANGED <<owner, turn, run, entry, revival, caller, probing>>
        /\ \/ UNCHANGED <<registryVars, adoption, park, life, release>>
           \/ Target # None /\ ReleaseCall(Teardown, Target, FALSE)
    BY <1>27 DEF Close
  <2>2. Target # None => Target \in Refs
    BY TypeParts DEF Target, RegistryTypes, ManagerTypes, Adoptions
  <2>3. /\ RegistryTypes' /\ life' \in [Sessions -> Lives]
        /\ release' \in [Releasers -> ReleaseStates] /\ adoption' \in Adoptions /\ park' \in Parks
    <3>1. CASE UNCHANGED <<registryVars, adoption, park, life, release>>
      BY <3>1, TypeParts DEF RegistryTypes, SessionTypes, ManagerTypes, CallTypes
    <3>2. CASE Target # None /\ ReleaseCall(Teardown, Target, FALSE)
      BY <2>2, <3>2, ReleaseCallTypes, TeardownAssumption
    <3> QED
      BY <2>1, <3>1, <3>2
  <2>4. SessionTypes' /\ ManagerTypes' /\ CallTypes'
    BY <2>1, <2>3, TypeParts DEF SessionTypes, ManagerTypes, CallTypes
  <2> QED
    BY <2>3, <2>4, TypeParts, PTL
<1>28. ASSUME NEW s \in Sessions, DisposeEnds(s) PROVE TypeOK'
  <2>1. RegistryTypes'
    BY <1>28, TypeParts, RestTypes, AfterTypes, SettlingTypes
       DEF DisposeEnds, Unregister, RegistryTypes, SessionTypes, ManagerTypes, CallTypes,
           Statuses
  <2>2. SessionTypes'
    BY <1>28, TypeParts, RestTypes, AfterTypes, SettlingTypes
       DEF DisposeEnds, Unregister, RegistryTypes, SessionTypes, ManagerTypes, CallTypes,
           Lives, Runs
  <2>3. ManagerTypes'
    BY <1>28, TypeParts, RestTypes, AfterTypes, SettlingTypes
       DEF DisposeEnds, Unregister, RegistryTypes, SessionTypes, ManagerTypes, CallTypes,
           Adoptions, Parks, Revivals
  <2>4. CallTypes'
    BY <1>28, TypeParts, RestTypes, AfterTypes, SettlingTypes
       DEF DisposeEnds, Unregister, RegistryTypes, SessionTypes, ManagerTypes, CallTypes,
           CallerStates, ReleaseStates
  <2> QED BY <2>1, <2>2, <2>3, <2>4, TypeParts, PTL
<1>29. ASSUME NEW k \in Releasers, CancelReleases(k) PROVE TypeOK'
  <2>1. UNCHANGED <<owner, turn, run, entry, revival, manager, caller, probing>>
    BY <1>29 DEF CancelReleases
  <2>2. Target # None => Target \in Refs
    BY TypeParts DEF Target, RegistryTypes, ManagerTypes, Adoptions
  <2>3. /\ RegistryTypes' /\ life' \in [Sessions -> Lives]
        /\ release' \in [Releasers -> ReleaseStates] /\ adoption' \in Adoptions /\ park' \in Parks
    <3>1. CASE Target = None
      <4>1. /\ release' = [release EXCEPT ![k] = NoRelease]
            /\ UNCHANGED <<registered, status, session, adoption, park, life>>
        BY <1>29, <3>1 DEF CancelReleases, registryVars
      <4>2. release' \in [Releasers -> ReleaseStates]
        BY <4>1, RestTypes, TypeParts DEF CallTypes
      <4> QED
        BY <4>1, <4>2, TypeParts DEF RegistryTypes, SessionTypes, ManagerTypes
    <3>2. CASE Target # None
      BY <1>29, <2>2, <3>2, ReleaseCallTypes DEF CancelReleases
    <3> QED
      BY <3>1, <3>2
  <2>4. SessionTypes' /\ ManagerTypes' /\ CallTypes'
    BY <2>1, <2>3, TypeParts DEF SessionTypes, ManagerTypes, CallTypes
  <2> QED
    BY <2>3, <2>4, TypeParts, PTL
<1>30. ASSUME NEW k \in Releasers, TombstoneWritten(k) PROVE TypeOK'
  <2>1. release[k].live \in Sessions \union {None}
    BY TypeParts DEF SessionTypes, ManagerTypes, CallTypes, Runs, Revivals, ReleaseStates
  <2>2. life' \in [Sessions -> Lives]
    BY <1>30, <2>1, DisposingType DEF TombstoneWritten
  <2>3. [release[k] EXCEPT !.at = "disposing"] \in ReleaseStates
    BY TypeParts DEF CallTypes, ReleaseStates
  <2>4. RegistryTypes' /\ SessionTypes' /\ ManagerTypes' /\ CallTypes'
    BY <1>30, <2>2, <2>3, TypeParts
       DEF TombstoneWritten, RegistryTypes, SessionTypes, ManagerTypes, CallTypes
  <2> QED
    BY <2>4, TypeParts, PTL
<1>31. ASSUME NEW r \in Refs, FactoryReturns(r) PROVE TypeOK'
  <2>1. ColdAdopted(r) \in Adoptions
    BY DEF ColdAdopted, Adoptions
  <2>2. [revival[r] EXCEPT !.phase = "building", !.cold = TRUE] \in Revivals
    BY TypeParts DEF ManagerTypes, Revivals
  <2>3. NoCall \in CallerStates
    BY RestTypes
  <2>4. /\ adoption' = ColdAdopted(r)
        /\ \/ revival' = [revival EXCEPT ![r] = [revival[r] EXCEPT !.phase = "building", !.cold
                = TRUE]]
           \/ revival' = [revival EXCEPT ![r] = NoRevival]
        /\ entry' \in {entry, None}
        /\ \/ caller' = caller
           \/ caller' = [c \in Callers |->
                   IF caller[c].at = "reviving" /\ caller[c].ref = r
                   THEN NoCall ELSE caller[c]]
        /\ UNCHANGED <<registryVars, sessionVars, run, park, manager, release, probing>>
    BY <1>31 DEF FactoryReturns
  <2>5. RegistryTypes' /\ SessionTypes'
    BY <2>4, TypeParts DEF RegistryTypes, SessionTypes
  <2>6. ManagerTypes'
    BY <2>1, <2>2, <2>4, RestTypes, TypeParts DEF ManagerTypes
  <2>7. CallTypes'
    BY <2>3, <2>4, TypeParts DEF CallTypes
  <2> QED
    BY <2>5, <2>6, <2>7, TypeParts, PTL
<1>32. ASSUME NEW r \in Refs, FactoryDeclines(r) PROVE TypeOK'
  BY <1>32 DEF FactoryDeclines, RevivalThrows, TypeOK
<1>33. ASSUME NEW r \in Refs, NEW s \in Sessions, AttachRevived(r, s) PROVE TypeOK'
  <2>1. [revival[r] EXCEPT !.phase = "starting", !.session = s] \in Revivals
    BY TypeParts DEF ManagerTypes, Revivals
  <2>2. revival' = [revival EXCEPT ![r] = [revival[r] EXCEPT !.phase = "starting", !.session = s]]
    BY <1>33 DEF AttachRevived
  <2>3. adoption' \in Adoptions
    BY <1>33, AfterTypes DEF AttachRevived, SetStatus, Statuses
  <2>4. RegistryTypes' /\ SessionTypes'
    BY <1>33, TypeParts DEF AttachRevived, SetStatus, RegistryTypes, SessionTypes, Statuses, Lives
  <2>5. ManagerTypes' /\ CallTypes'
    BY <1>33, <2>1, <2>2, <2>3, TypeParts DEF AttachRevived, ManagerTypes, CallTypes
  <2> QED
    BY <2>4, <2>5, TypeParts, PTL
<1>34. ASSUME NEW r \in Refs, BuildFails(r) PROVE TypeOK'
  BY <1>34 DEF BuildFails, RevivalThrows, TypeOK
<1>35. ASSUME NEW r \in Refs, LateBuildFails(r) PROVE TypeOK'
  <2>1. revival[r].session \in Sessions \union {None}
    BY TypeParts DEF SessionTypes, ManagerTypes, CallTypes, Runs, Revivals, ReleaseStates
  <2>2. life' \in [Sessions -> Lives]
    BY <1>35, <2>1, DisposingType DEF LateBuildFails
  <2>3. [revival[r] EXCEPT !.phase = "discarding"] \in Revivals
    BY TypeParts DEF ManagerTypes, Revivals
  <2>4. RegistryTypes' /\ SessionTypes' /\ ManagerTypes' /\ CallTypes'
    BY <1>35, <2>2, <2>3, TypeParts
       DEF LateBuildFails, RegistryTypes, SessionTypes, ManagerTypes, CallTypes
  <2> QED
    BY <2>4, TypeParts, PTL
<1>36. ASSUME NEW r \in Refs, ReviverFails(r) PROVE TypeOK'
  BY <1>36 DEF ReviverFails, RevivalThrows, TypeOK
<1>37. ASSUME NEW r \in Refs, Revived(r) PROVE TypeOK'
  BY <1>37 DEF Revived, StillMine, SetStatus, AfterStatus, Heard, TypeOK
<1>38. ASSUME NEW r \in Refs, RevivedTooLate(r) PROVE TypeOK'
  <2>1. revival[r].session \in Sessions \union {None}
    BY TypeParts DEF SessionTypes, ManagerTypes, CallTypes, Runs, Revivals, ReleaseStates
  <2>2. life' \in [Sessions -> Lives]
    BY <1>38, <2>1, DisposingType DEF RevivedTooLate
  <2>3. [revival[r] EXCEPT !.phase = "discarding"] \in Revivals
    BY TypeParts DEF ManagerTypes, Revivals
  <2>4. RegistryTypes' /\ SessionTypes' /\ ManagerTypes' /\ CallTypes'
    BY <1>38, <2>2, <2>3, TypeParts
       DEF RevivedTooLate, RegistryTypes, SessionTypes, ManagerTypes, CallTypes
  <2> QED
    BY <2>4, TypeParts, PTL
<1>39. CASE Reclaimed
  BY <1>39 DEF Reclaimed, Unregister, AfterRemoval, Heard, TypeOK
<1>40. CASE ReclaimRefused
  BY <1>40 DEF ReclaimRefused, TypeOK
<1>41. CASE UNCHANGED vars
  BY <1>41 DEF vars, TypeOK
<1> QED
  BY <1>1, <1>2, <1>3, <1>4, <1>5, <1>6, <1>7, <1>8, <1>9, <1>10, <1>11, <1>12, <1>13,
     <1>14, <1>15, <1>16, <1>17, <1>18, <1>19, <1>20, <1>21, <1>22, <1>23, <1>24, <1>25, <1>26,
     <1>27, <1>28, <1>29, <1>30, <1>31, <1>32, <1>33, <1>34, <1>35, <1>36, <1>37, <1>38, <1>39,
     <1>40, <1>41
     DEF Next, Calls, Microtasks, Environment, Completions, ReleaseStep, RevivalStep
-----------------------------------------------------------------------------
(* What the steps change                                                    *)

\* A call of ensureLive, before or after it has waited: it starts a revival only
\* for a parked ref without a session, and returns only what is attached.
CallDoes ==
    /\ UNCHANGED <<registryVars, sessionVars, run, release>>
    /\ park'.phase = park.phase /\ park'.ref = park.ref /\ park'.session = park.session
    /\ \A r \in Refs :
          \/ revival'[r] = revival[r]
          \/ /\ park.phase = "none"
             /\ registered = r /\ status[r] = "parked" /\ session[r] = None
             /\ revival'[r].phase \in {"probing", "building"}
             /\ revival'[r].session = None
    /\ \A c \in Callers :
          \/ caller'[c] = caller[c]
          \/ caller'[c].at \in {"idle", "cancelling", "waiting", "reviving"}
          \/ /\ caller'[c].at = "returned" /\ Attached # None
             /\ caller'[c].got = Attached

\* What the second half of ensureLive, and then every call of it, changes
LEMMA ResolveDoes ==
    ASSUME TypeOK, NEW c \in Callers, Resolve(c), park.phase = "none",
           UNCHANGED <<registryVars, sessionVars, run, park, release>>
    PROVE  CallDoes
<1>1. /\ caller \in [Callers -> CallerStates] /\ registered \in Refs \union {None}
      /\ revival \in [Refs -> Revivals]
  BY TypeParts DEF CallTypes, RegistryTypes, ManagerTypes
<1>2. CASE registered = None
  BY <1>1, <1>2 DEF CallDoes, Resolve, Thrown, NoCall, CallerStates
<1>3. CASE registered # None /\ session[registered] # None
  <2>1. /\ caller' = [caller EXCEPT ![c] = [NoCall EXCEPT !.at = "returned", !.got = Attached]]
        /\ revival' = revival /\ Attached # None
    BY <1>3 DEF Resolve, Returned, Attached
  <2> QED
    BY <1>1, <2>1 DEF CallDoes, NoCall, CallerStates
<1>4. CASE registered # None /\ session[registered] = None
  <2>1. CASE entry # registered /\ status[registered] # "parked"
    BY <1>1, <1>4, <2>1 DEF CallDoes, Resolve, Thrown, NoCall, CallerStates
  <2>2. CASE ~(entry # registered /\ status[registered] # "parked")
    <3>1. caller' = [caller EXCEPT ![c] = [NoCall EXCEPT !.at = "reviving", !.ref = registered]]
      BY <1>4, <2>2 DEF Resolve
    <3>2. \A d \in Callers : caller'[d] = caller[d] \/ caller'[d].at = "reviving"
      BY <1>1, <3>1 DEF NoCall, CallerStates
    <3>3. \/ revival' = revival
          \/ /\ status[registered] = "parked"
             /\ \E phase \in {"probing", "building"} :
                   revival' = [revival EXCEPT ![registered] = [NoRevival EXCEPT !.phase = phase]]
      BY <1>4, <2>2 DEF Resolve
    <3>4. \A r \in Refs :
             \/ revival'[r] = revival[r]
             \/ /\ registered = r /\ status[r] = "parked"
                /\ revival'[r].phase \in {"probing", "building"}
                /\ revival'[r].session = None
      BY <1>1, <1>4, <3>3 DEF NoRevival
    <3> QED
      BY <1>4, <3>2, <3>4 DEF CallDoes
  <2> QED
    BY <2>1, <2>2
<1> QED
  BY <1>1, <1>2, <1>3, <1>4

LEMMA EnsureLiveDoes ==
    ASSUME TypeOK, WokenInv, NEW c \in Callers,
           EnsureLive(c) \/ KeepLive(c) \/ ParkAwaited(c)
    PROVE  CallDoes
<1>1. /\ caller \in [Callers -> CallerStates] /\ park \in Parks
  BY TypeParts DEF CallTypes, ManagerTypes
<1>2. CASE Resolve(c) /\ park' = park /\ park.phase = "none"
  BY <1>2, ResolveDoes DEF EnsureLive, KeepLive, ParkAwaited
<1>3. CASE EnsureLive(c) /\ park.phase # "none"
  <2> DEFINE keep == park.phase = "started" /\ Attached # None
  <2>1. /\ park' = [park EXCEPT !.cancelled = park.cancelled \/ keep]
        /\ caller' = [caller EXCEPT ![c] =
               [NoCall EXCEPT !.at = IF keep THEN "cancelling" ELSE "waiting",
                              !.ref = registered]]
        /\ UNCHANGED <<registryVars, sessionVars, run, revival, release>>
    BY <1>3 DEF EnsureLive
  <2>2. park'.phase = park.phase /\ park'.ref = park.ref /\ park'.session = park.session
    BY <1>1, <2>1 DEF Parks
  <2>3. \A d \in Callers : caller'[d] = caller[d] \/ caller'[d].at \in {"cancelling", "waiting"}
    BY <1>1, <2>1 DEF NoCall, CallerStates
  <2> QED
    BY <2>1, <2>2, <2>3 DEF CallDoes
<1>4. CASE KeepLive(c) /\ Attached # None
  <2>1. /\ caller' = [caller EXCEPT ![c] = [NoCall EXCEPT !.at = "returned", !.got = Attached]]
        /\ UNCHANGED <<registryVars, sessionVars, run, park, revival, release>>
    BY <1>4 DEF KeepLive, Returned
  <2> QED
    BY <1>1, <1>4, <2>1 DEF CallDoes, NoCall, CallerStates
<1>5. KeepLive(c) \/ ParkAwaited(c) => park.phase = "none"
  BY DEF KeepLive, ParkAwaited, WokenInv
<1> QED
  BY <1>2, <1>3, <1>4, <1>5 DEF EnsureLive, KeepLive, ParkAwaited

\* A release of r, at its start or after its wait: what it does to the rest
ReleaseDoes(k, r, tombstone) ==
    /\ \A q \in Refs :
          \/ session'[q] = session[q] /\ status'[q] = status[q]
          \/ q = r /\ session'[q] = None /\ status'[q] = "aborted"
    /\ \A j \in Releasers \ {k} : release'[j] = release[j]
    /\ release'[k].at \notin {"idle", "aborting"} => /\ release'[k].ref = r
                                  /\ release'[k].tombstone = tombstone
    /\ release'[k].live # None => /\ release'[k].live = session[r]
                                  /\ release'[k].ref = r
    /\ release'[k].at # "aborting"
    /\ \A s \in Sessions :
          \/ life'[s] = life[s]
          \/ /\ registered = r /\ s = session[r] /\ release'[k].ref = r
             /\ life[s] = "live" /\ life'[s] = "disposing"
    /\ \/ registered' = registered
       \/ registered = r /\ session[r] = None /\ ~tombstone /\ registered' = None
    /\ park'.phase = park.phase /\ park'.ref = park.ref /\ park'.session = park.session

LEMMA SeizeDoes ==
    ASSUME TypeOK, NEW k \in Releasers, NEW r \in Refs, NEW t \in BOOLEAN,
           Seize(k, r, t), park' = park
    PROVE  ReleaseDoes(k, r, t)
<1>1. /\ release \in [Releasers -> ReleaseStates] /\ session \in [Refs -> Sessions \union {None}]
      /\ status \in [Refs -> Statuses] /\ life \in [Sessions -> Lives]
  BY TypeParts DEF CallTypes, RegistryTypes, SessionTypes
<1>2. LiveOf(r) # None => registered = r /\ session[r] # None /\ LiveOf(r) = session[r]
  BY DEF LiveOf
<1>3. /\ \/ UNCHANGED <<status, session>>
         \/ /\ session' = [session EXCEPT ![r] = None]
            /\ status' = [status EXCEPT ![r] = "aborted"]
      /\ \/ registered' = registered
         \/ registered = r /\ session[r] = None /\ ~t /\ registered' = None
  BY DEF Seize, LiveOf, Detached
<1>4. \/ life' = life
      \/ /\ ~t /\ LiveOf(r) # None /\ life[LiveOf(r)] = "live"
         /\ life' = [life EXCEPT ![LiveOf(r)] = "disposing"]
  BY DEF Seize, Disposing
<1>5. \/ /\ ~t /\ LiveOf(r) = None
         /\ release' = [release EXCEPT ![k] = NoRelease]
      \/ /\ t \/ LiveOf(r) # None
         /\ \E at \in {"writing", "disposing"} :
              release' = [release EXCEPT ![k] =
                            [at |-> at, ref |-> r, tombstone |-> t, live |-> LiveOf(r)]]
  BY DEF Seize
<1> QED
  BY <1>1, <1>2, <1>3, <1>4, <1>5 DEF ReleaseDoes, NoRelease

\* A call of release either waits for the park or seizes the session at once.
LEMMA ReleaseCallDoes ==
    ASSUME TypeOK, NEW k \in Releasers, NEW r \in Refs, NEW t \in BOOLEAN,
           ReleaseCall(k, r, t)
    PROVE  ReleaseDoes(k, r, t)
<1>1. release \in [Releasers -> ReleaseStates] /\ park \in Parks
  BY TypeParts DEF CallTypes, ManagerTypes
<1>2. CASE park.phase # "none" /\ park.ref = r
  <2>1. /\ release' = [release EXCEPT ![k] = [at |-> "parking", ref |-> r,
                                             tombstone |-> t, live |-> None]]
        /\ UNCHANGED <<registered, session, status, life>>
    BY <1>2 DEF ReleaseCall
  <2>2. park'.phase = park.phase /\ park'.ref = park.ref /\ park'.session = park.session
    BY <1>1, <1>2 DEF ReleaseCall, Parks
  <2> QED
    BY <1>1, <2>1, <2>2 DEF ReleaseDoes
<1>3. CASE ~(park.phase # "none" /\ park.ref = r)
  BY <1>3, SeizeDoes DEF ReleaseCall
<1> QED
  BY <1>2, <1>3

\* The executor's run of r ends, and nobody else's.
LEMMA RunOverDoes ==
    ASSUME TypeOK, NEW r \in Refs, NEW phase \in {"disposing", "done"}, RunOver(r, phase)
    PROVE  /\ run[r].phase = "settling"
           /\ \A q \in Refs :
                 \/ run'[q] = run[q]
                 \/ q = r /\ run'[q].phase = phase /\ run'[q].session = run[q].session
BY TypeParts DEF RunOver, SessionTypes, Runs

\* A run settles when its session is disposed.
LEMMA SettlingDoes ==
    ASSUME TypeOK, NEW s \in Sessions, Settling(s)
    PROVE  \A q \in Refs :
              \/ run'[q] = run[q]
              \/ /\ run[q].phase = "running" /\ run'[q].phase = "settling"
                 /\ run'[q].session = run[q].session
BY TypeParts DEF Settling, SessionTypes, Runs

LEMMA FactoryDoes ==
    ASSUME TypeOK, NEW r \in Refs, FactoryReturns(r)
    PROVE  \A q \in Refs :
              \/ revival'[q] = revival[q]
              \/ /\ q = r /\ revival[r].phase = "probing"
                 /\ \/ revival'[q].phase = "building" /\ revival'[q].session = revival[q].session
                    \/ revival'[q].phase = "none" /\ revival'[q].session = None
BY TypeParts DEF FactoryReturns, NoRevival, ManagerTypes, Revivals
-----------------------------------------------------------------------------
(* The steps, grouped by what they do                                       *)

Asks == \E c \in Callers : EnsureLive(c) \/ KeepLive(c) \/ ParkAwaited(c)
Releases ==
    \/ \E k \in Releasers :
          \/ CancelCalled(k) \/ CancelReleases(k) \/ ReleaseResumes(k)
          \/ \E r \in Refs : Kill(k, r) \/ FinishKilled(k, r) \/ FinishShutdown(k, r)
    \/ Close
Waits ==
    \/ \E k \in Releasers : ReleaseEnds(k) \/ TombstoneWritten(k)
    \/ \E c \in Callers : CallerDone(c)
    \/ Reclaimed \/ ReclaimRefused
    \/ \E r \in Refs : ReclaimProbes(r)
Arrives == Drained /\ \E r \in Refs : Spawn(r) \/ Restore(r) \/ SpawnFails(r) \/ FinishIdle(r)
Attaches == Drained /\ \E r \in Refs, s \in Sessions : Attach(r, s) \/ AttachRevived(r, s)
Turns == Drained /\ \E s \in Sessions : TurnStarts(s) \/ TurnEnds(s)
RunEnds == \E r \in Refs : FinishDisposes(r) \/ OneShotEnds(r)
ParkMoves == ParkGivesUp \/ ParkEnds \/ Closed \/ (Drained /\ TimerFires)
Revives ==
    \E r \in Refs :
        \/ Discarded(r)
        \/ /\ Drained
           /\ \/ FactoryDeclines(r) \/ BuildFails(r) \/ LateBuildFails(r)
              \/ ReviverFails(r) \/ Revived(r) \/ RevivedTooLate(r)
FactoryAnswers == \E r \in Refs : FactoryReturns(r)
Disposes == Drained /\ \E s \in Sessions : DisposeEnds(s)

\* Every step belongs to one of the groups.
LEMMA NextCases ==
    ASSUME [Next]_vars
    PROVE  \/ Asks \/ Releases \/ Waits \/ Arrives \/ Attaches \/ Turns \/ RunEnds
           \/ ParkMoves \/ ParkCommits \/ Revives \/ FactoryAnswers \/ Disposes
           \/ UNCHANGED vars
BY DEF Next, Calls, Microtasks, Environment, Completions, ReleaseStep, RevivalStep, Asks,
       Releases, Waits, Arrives, Attaches, Turns, RunEnds, ParkMoves, Revives,
       FactoryAnswers, Disposes

\* Who releases changes nothing else, but for the end of a run.
LEMMA ReleasesDo ==
    ASSUME TypeOK, WorkInv, Releases
    PROVE  /\ UNCHANGED <<owner, revival, caller>>
           /\ \A q \in Refs :
                 \/ run'[q] = run[q]
                 \/ /\ run[q].phase = "settling" /\ run'[q].phase = "done"
                    /\ run'[q].session = run[q].session
           /\ \/ \E k \in Releasers, r \in Refs, t \in BOOLEAN : ReleaseDoes(k, r, t)
              \/ /\ UNCHANGED <<registryVars, park, life>>
                 /\ \A k \in Releasers :
                       \/ release'[k] = release[k]
                       \/ /\ release'[k].live = None
                          /\ release'[k].at # "idle" => release'[k].ref # None
<1>0. /\ release \in [Releasers -> ReleaseStates] /\ run \in [Refs -> Runs]
      /\ registered \in Refs \union {None}
  BY TypeParts DEF CallTypes, SessionTypes, RegistryTypes
<1>1. CASE \E k \in Releasers, r \in Refs : Kill(k, r)
  BY <1>1, ReleaseCallDoes DEF Kill
<1>2. ASSUME NEW k \in Releasers, NEW r \in Refs, FinishKilled(k, r) \/ FinishShutdown(k, r)
      PROVE  /\ UNCHANGED <<owner, revival, caller>> /\ RunOver(r, "done")
             /\ \E t \in BOOLEAN : ReleaseDoes(k, r, t)
  BY <1>2, ReleaseCallDoes DEF FinishKilled, FinishShutdown
<1>3. ASSUME NEW k \in Releasers, CancelCalled(k)
      PROVE  /\ UNCHANGED <<owner, run, revival, caller>> /\ registered \in Refs
             /\ \/ ReleaseDoes(k, registered, FALSE)
                \/ /\ release' = [release EXCEPT ![k] =
                          [NoRelease EXCEPT !.at = "aborting", !.ref = registered]]
                   /\ UNCHANGED <<registryVars, park, life>>
  BY <1>0, <1>3, ReleaseCallDoes DEF CancelCalled
<1>4. Target # None => Target \in Refs
  BY TypeParts DEF Target, RegistryTypes, ManagerTypes, Adoptions
<1>5. ASSUME NEW k \in Releasers, CancelReleases(k)
      PROVE  /\ UNCHANGED <<owner, run, revival, caller>>
             /\ \/ Target \in Refs /\ ReleaseDoes(k, Target, FALSE)
                \/ /\ release' = [release EXCEPT ![k] = NoRelease]
                   /\ UNCHANGED <<registryVars, park, life>>
  BY <1>4, <1>5, ReleaseCallDoes DEF CancelReleases
<1>6. ASSUME Close
      PROVE  /\ UNCHANGED <<owner, run, revival, caller>>
             /\ \/ Target \in Refs /\ ReleaseDoes(Teardown, Target, FALSE)
                \/ UNCHANGED <<registryVars, park, life, release>>
  BY <1>4, <1>6, ReleaseCallDoes, TeardownAssumption DEF Close
<1>7. ASSUME NEW k \in Releasers, ReleaseResumes(k)
      PROVE  /\ UNCHANGED <<owner, run, revival, caller>>
             /\ release[k].ref \in Refs /\ release[k].tombstone \in BOOLEAN
             /\ ReleaseDoes(k, release[k].ref, release[k].tombstone)
  <2>1. release[k].ref \in Refs /\ release[k].tombstone \in BOOLEAN
    BY <1>0, <1>7 DEF ReleaseResumes, WorkInv, ReleaseStates
  <2> QED
    BY <1>7, <2>1, SeizeDoes DEF ReleaseResumes
<1>8. CASE \E k \in Releasers, r \in Refs : FinishKilled(k, r) \/ FinishShutdown(k, r)
  BY <1>2, <1>8, RunOverDoes
<1>9. ASSUME NEW k \in Releasers,
             \/ release' = [release EXCEPT ![k] = NoRelease]
             \/ /\ release' = [release EXCEPT ![k] =
                       [NoRelease EXCEPT !.at = "aborting", !.ref = registered]]
                /\ registered \in Refs
      PROVE  \A j \in Releasers :
                \/ release'[j] = release[j]
                \/ /\ release'[j].live = None
                   /\ release'[j].at # "idle" => release'[j].ref # None
  <2>1. CASE release' = [release EXCEPT ![k] = NoRelease]
    BY <1>0, <2>1 DEF NoRelease
  <2>2. CASE /\ release' = [release EXCEPT ![k] =
                     [NoRelease EXCEPT !.at = "aborting", !.ref = registered]]
             /\ registered \in Refs
    <3>1. /\ \A j \in Releasers \ {k} : release'[j] = release[j]
          /\ release'[k] = [NoRelease EXCEPT !.at = "aborting", !.ref = registered]
      BY <1>0, <2>2
    <3> QED
      BY <2>2, <3>1, NoneAssumption DEF NoRelease
  <2> QED
    BY <1>9, <2>1, <2>2
<1>10. CASE \E k \in Releasers : CancelCalled(k) \/ CancelReleases(k)
  <2>1. PICK k \in Releasers : CancelCalled(k) \/ CancelReleases(k)
    BY <1>10
  <2>2. UNCHANGED <<owner, run, revival, caller>>
    BY <1>3, <1>5, <2>1
  <2>3. CASE \E r \in Refs : ReleaseDoes(k, r, FALSE)
    BY <2>2, <2>3
  <2>4. CASE ~\E r \in Refs : ReleaseDoes(k, r, FALSE)
    <3>1. /\ UNCHANGED <<registryVars, park, life>>
          /\ \/ release' = [release EXCEPT ![k] = NoRelease]
             \/ /\ release' = [release EXCEPT ![k] =
                       [NoRelease EXCEPT !.at = "aborting", !.ref = registered]]
                /\ registered \in Refs
      BY <1>3, <1>5, <2>1, <2>4
    <3>2. \A j \in Releasers :
             \/ release'[j] = release[j]
             \/ /\ release'[j].live = None
                /\ release'[j].at # "idle" => release'[j].ref # None
      BY <1>9, <3>1
    <3> QED
      BY <2>2, <3>1, <3>2
  <2> QED
    BY <2>3, <2>4
<1>11. CASE Close
  BY <1>6, <1>11, TeardownAssumption
<1>12. CASE \E k \in Releasers : ReleaseResumes(k)
  BY <1>7, <1>12
<1> QED
  BY <1>1, <1>8, <1>10, <1>11, <1>12 DEF Releases

LEMMA RunEndsDo ==
    ASSUME TypeOK, RunEnds
    PROVE  /\ UNCHANGED <<status, session, owner, park, revival, caller, release>>
           /\ \E r \in Refs :
                 /\ \A q \in Refs : run'[q] = run[q] \/ q = r
                 /\ run[r].phase \in {"settling", "disposing"} /\ run'[r] # run[r]
                 /\ run'[r].phase \in {"disposing", "done"}
                 /\ run'[r].session = run[r].session
                 /\ \/ registered' = registered
                    \/ /\ run[r].phase = "disposing" /\ registered = r
                       /\ registered' = None
                 /\ \A s \in Sessions :
                       \/ life'[s] = life[s]
                       \/ /\ life[s] = "live" /\ life'[s] = "disposing"
                          /\ s = run[r].session
<1>1. run \in [Refs -> Runs] /\ life \in [Sessions -> Lives]
  BY TypeParts DEF SessionTypes
<1>2. ASSUME NEW r \in Refs, OneShotEnds(r)
      PROVE  /\ UNCHANGED <<status, session, sessionVars, park, revival, callVars>>
             /\ \A q \in Refs : run'[q] = run[q] \/ q = r
             /\ run[r].phase = "disposing" /\ run'[r].phase = "done"
             /\ run'[r].session = run[r].session
             /\ registered' = registered \/ (registered = r /\ registered' = None)
  BY <1>1, <1>2 DEF OneShotEnds, OneShotReady, Unregister, Runs
<1>3. ASSUME NEW r \in Refs, FinishDisposes(r)
      PROVE  /\ UNCHANGED <<registryVars, owner, park, revival, caller, release>>
             /\ \A q \in Refs : run'[q] = run[q] \/ q = r
             /\ run[r].phase = "settling" /\ run'[r].phase \in {"disposing", "done"}
             /\ run'[r].session = run[r].session
             /\ \A s \in Sessions :
                   \/ life'[s] = life[s]
                   \/ life[s] = "live" /\ life'[s] = "disposing" /\ s = run[r].session
  <2>1. RunOver(r, "disposing") \/ RunOver(r, "done")
    BY <1>3 DEF FinishDisposes
  <2>2. /\ UNCHANGED <<registryVars, owner, park, revival, caller, release>>
        /\ \A s \in Sessions :
              \/ life'[s] = life[s]
              \/ life[s] = "live" /\ life'[s] = "disposing" /\ s = run[r].session
    BY <1>1, <1>3 DEF FinishDisposes, Disposing, managerVars, callVars
  <2> QED
    BY <1>1, <2>1, <2>2 DEF RunOver, Runs
<1>4. CASE \E r \in Refs : OneShotEnds(r)
  BY <1>2, <1>4 DEF sessionVars, callVars
<1>5. CASE \E r \in Refs : FinishDisposes(r)
  BY <1>3, <1>5 DEF registryVars
<1> QED
  BY <1>4, <1>5 DEF RunEnds

LEMMA ParkCommitsDoes ==
    ASSUME TypeOK, WorkInv, ParkCommits
    PROVE  /\ park.ref \in Refs /\ park.session \in Sessions
           /\ park.phase = "started" /\ registered = park.ref
           /\ session[park.ref] = park.session
           /\ UNCHANGED <<registered, owner, turn, run, revival, caller, release>>
           /\ park'.phase = "disposing" /\ park'.ref = park.ref
           /\ park'.session = park.session
           /\ \A q \in Refs :
                 IF q = park.ref THEN session'[q] = None /\ status'[q] = "parked"
                 ELSE session'[q] = session[q] /\ status'[q] = status[q]
           /\ \A s \in Sessions :
                 life'[s] = life[s] \/ (s = park.session /\ life'[s] = "disposing")
<1>1. /\ park \in Parks /\ session \in [Refs -> Sessions \union {None}]
      /\ status \in [Refs -> Statuses] /\ life \in [Sessions -> Lives]
  BY TypeParts DEF RegistryTypes, SessionTypes, ManagerTypes
<1>2. park.ref \in Refs /\ park.session \in Sessions
  BY <1>1 DEF ParkCommits, WorkInv, Parks
<1>3. /\ registered = park.ref /\ session[park.ref] = park.session
      /\ UNCHANGED <<registered, owner, turn, run, revival, caller, release>>
  BY <1>2, NoneAssumption DEF ParkCommits, ParkStands, Attached, callVars
<1>4. park.phase = "started" /\ park' = [park EXCEPT !.phase = "disposing"]
  BY DEF ParkCommits
<1>5. \A q \in Refs : IF q = park.ref THEN session'[q] = None /\ status'[q] = "parked"
                      ELSE session'[q] = session[q] /\ status'[q] = status[q]
  BY <1>1, <1>2 DEF ParkCommits, Detached
<1>6. \A s \in Sessions : life'[s] = life[s] \/ (s = park.session /\ life'[s] = "disposing")
  BY <1>1 DEF ParkCommits, Disposing
<1> QED
  BY <1>1, <1>2, <1>3, <1>4, <1>5, <1>6 DEF Parks

LEMMA AttachesDo ==
    ASSUME TypeOK, Attaches
    PROVE  \E r \in Refs, s \in Sessions :
              /\ registered = r /\ life[s] = "unborn" /\ status[r] # "aborted"
              /\ UNCHANGED <<registered, park, caller, release>>
              /\ \A q \in Refs : session'[q] = IF q = r THEN s ELSE session[q]
              /\ \A t \in Sessions : /\ life'[t] = IF t = s THEN "live" ELSE life[t]
                                     /\ owner'[t] = IF t = s THEN r ELSE owner[t]
              /\ \/ /\ run[r].phase = "starting" /\ UNCHANGED <<status, revival>>
                    /\ run'[r].phase = "running" /\ run'[r].session = s
                    /\ \A q \in Refs \ {r} : run'[q] = run[q]
                 \/ /\ revival[r].phase = "building" /\ run' = run
                    /\ revival'[r].phase = "starting" /\ revival'[r].session = s
                    /\ \A q \in Refs \ {r} : revival'[q] = revival[q]
                    /\ status'[r] = "running"
                    /\ \A q \in Refs \ {r} : status'[q] = status[q]
<1>1. /\ session \in [Refs -> Sessions \union {None}] /\ status \in [Refs -> Statuses]
      /\ life \in [Sessions -> Lives] /\ owner \in [Sessions -> Refs \union {None}]
      /\ run \in [Refs -> Runs] /\ revival \in [Refs -> Revivals]
  BY TypeParts DEF RegistryTypes, SessionTypes, ManagerTypes
<1>2. ASSUME NEW r \in Refs, NEW s \in Sessions, Attach(r, s) \/ AttachRevived(r, s)
      PROVE  /\ registered = r /\ life[s] = "unborn" /\ status[r] # "aborted"
             /\ UNCHANGED <<registered, park, caller, release>>
             /\ \A q \in Refs : session'[q] = IF q = r THEN s ELSE session[q]
             /\ \A t \in Sessions : /\ life'[t] = IF t = s THEN "live" ELSE life[t]
                                    /\ owner'[t] = IF t = s THEN r ELSE owner[t]
  BY <1>1, <1>2 DEF Attach, AttachRevived, Claimable, managerVars, callVars
<1>3. ASSUME NEW r \in Refs, NEW s \in Sessions, Attach(r, s)
      PROVE  /\ run[r].phase = "starting" /\ UNCHANGED <<status, revival>>
             /\ run'[r].phase = "running" /\ run'[r].session = s
             /\ \A q \in Refs \ {r} : run'[q] = run[q]
  BY <1>1, <1>3 DEF Attach, managerVars
<1>4. ASSUME NEW r \in Refs, NEW s \in Sessions, AttachRevived(r, s)
      PROVE  /\ revival[r].phase = "building" /\ run' = run
             /\ revival'[r].phase = "starting" /\ revival'[r].session = s
             /\ \A q \in Refs \ {r} : revival'[q] = revival[q]
             /\ status'[r] = "running"
             /\ \A q \in Refs \ {r} : status'[q] = status[q]
  BY <1>1, <1>4 DEF AttachRevived, SetStatus, Revivals
<1>5. PICK r \in Refs, s \in Sessions : Attach(r, s) \/ AttachRevived(r, s)
  BY DEF Attaches
<1> QED
  BY <1>2, <1>3, <1>4, <1>5

LEMMA ArrivesDo ==
    ASSUME TypeOK, Arrives
    PROVE  /\ UNCHANGED <<session, sessionVars, park, revival, caller, release>>
           /\ \E r \in Refs :
                 /\ \A q \in Refs \ {r} : run'[q] = run[q] /\ status'[q] = status[q]
                 /\ \/ /\ Unborn(r) /\ registered = None /\ registered' = r
                       /\ \/ status'[r] = "running" /\ run'[r].phase = "starting"
                             /\ run'[r].session = None
                          \/ status'[r] = "parked" /\ run'[r] = run[r]
                    \/ /\ run[r].phase = "starting" /\ run'[r].phase = "done"
                       /\ run'[r].session = run[r].session /\ status' = status
                       /\ \/ registered' = registered
                          \/ registered = r /\ status[r] # "aborted" /\ registered' = None
                    \/ /\ run[r].phase = "settling" /\ run'[r].phase = "done"
                       /\ run'[r].session = run[r].session /\ status'[r] = "idle"
                       /\ registered = r /\ session[r] = run[r].session
                       /\ registered' = registered
<1>1. run \in [Refs -> Runs] /\ status \in [Refs -> Statuses]
  BY TypeParts DEF RegistryTypes, SessionTypes
<1>2. ASSUME NEW r \in Refs, Spawn(r) \/ Restore(r)
      PROVE  /\ UNCHANGED <<session, sessionVars, park, revival, caller, release>>
             /\ \A q \in Refs \ {r} : run'[q] = run[q] /\ status'[q] = status[q]
             /\ Unborn(r) /\ registered = None /\ registered' = r
             /\ \/ status'[r] = "running" /\ run'[r].phase = "starting"
                   /\ run'[r].session = None
                \/ status'[r] = "parked" /\ run'[r] = run[r]
  BY <1>1, <1>2 DEF Spawn, Restore, managerVars, callVars
<1>3. ASSUME NEW r \in Refs, SpawnFails(r)
      PROVE  /\ UNCHANGED <<session, sessionVars, park, revival, caller, release>>
             /\ \A q \in Refs \ {r} : run'[q] = run[q] /\ status'[q] = status[q]
             /\ run[r].phase = "starting" /\ run'[r].phase = "done"
             /\ run'[r].session = run[r].session /\ status' = status
             /\ \/ registered' = registered
                \/ registered = r /\ status[r] # "aborted" /\ registered' = None
  BY <1>1, <1>3 DEF SpawnFails, Claimable, Unregister, Runs, callVars
<1>4. ASSUME NEW r \in Refs, FinishIdle(r)
      PROVE  /\ UNCHANGED <<session, sessionVars, park, revival, caller, release>>
             /\ \A q \in Refs \ {r} : run'[q] = run[q] /\ status'[q] = status[q]
             /\ run[r].phase = "settling" /\ run'[r].phase = "done"
             /\ run'[r].session = run[r].session /\ status'[r] = "idle"
             /\ registered = r /\ session[r] = run[r].session
             /\ registered' = registered
  BY <1>1, <1>4 DEF FinishIdle, RunOver, OwnsRef, Runs, callVars
<1>5. CASE \E r \in Refs : Spawn(r) \/ Restore(r)
  BY <1>2, <1>5
<1>6. CASE \E r \in Refs : SpawnFails(r)
  BY <1>3, <1>6
<1>7. CASE \E r \in Refs : FinishIdle(r)
  BY <1>4, <1>7
<1> QED
  BY <1>5, <1>6, <1>7 DEF Arrives

LEMMA ParkMovesDo ==
    ASSUME TypeOK, ParkMoves
    PROVE  /\ UNCHANGED <<registryVars, sessionVars, run, revival>>
           /\ \A k \in Releasers :
                 \/ release'[k] = release[k]
                 \/ /\ release[k].at = "parking" /\ release'[k].at = "parked"
                    /\ release'[k].ref = release[k].ref
                    /\ release'[k].live = release[k].live
           /\ \A c \in Callers :
                 \/ caller'[c] = caller[c]
                 \/ park'.phase = "none" /\ caller'[c].at \in {"cancelled", "waited"}
           /\ \/ park' = park
              \/ park' = NoPark
              \/ /\ \A c \in Callers : caller'[c].at \notin {"cancelled", "waited"}
                 /\ park'.phase = "started" /\ registered # None /\ Attached # None
                 /\ park'.ref = registered /\ park'.session = Attached
<1>1. /\ release \in [Releasers -> ReleaseStates] /\ caller \in [Callers -> CallerStates]
      /\ registered \in Refs \union {None}
  BY TypeParts DEF CallTypes, RegistryTypes
<1>2. CASE ParkGivesUp \/ ParkEnds
  <2>1. ParkReturns /\ UNCHANGED <<registryVars, sessionVars, run, revival>>
    BY <1>2 DEF ParkGivesUp, ParkEnds
  <2>2. \A k \in Releasers :
           \/ release'[k] = release[k]
           \/ /\ release[k].at = "parking" /\ release'[k].at = "parked"
              /\ release'[k].ref = release[k].ref /\ release'[k].live = release[k].live
    BY <1>1, <2>1 DEF ParkReturns, ReleaseStates
  <2>3. \A c \in Callers : \/ caller'[c] = caller[c]
                           \/ caller'[c].at \in {"cancelled", "waited"}
    BY <1>1, <2>1 DEF ParkReturns, CallerStates
  <2> QED
    BY <2>1, <2>2, <2>3 DEF ParkReturns, NoPark
<1>3. CASE Closed
  BY <1>3 DEF Closed, callVars
<1>4. CASE Drained /\ TimerFires
  BY <1>1, <1>4 DEF TimerFires, Drained, Attached, callVars
<1> QED
  BY <1>2, <1>3, <1>4 DEF ParkMoves

LEMMA RevivesDo ==
    ASSUME TypeOK, Revives
    PROVE  /\ UNCHANGED <<registered, session, owner, turn, run, park, release>>
           /\ \E r \in Refs :
                 /\ \A q \in Refs \ {r} : /\ revival'[q] = revival[q]
                                          /\ status'[q] = status[q]
                 /\ revival'[r] # revival[r]
                 /\ \/ revival'[r].phase = "none" /\ revival'[r].session = None
                    \/ /\ revival[r].phase = "starting" /\ revival'[r].phase = "discarding"
                       /\ revival'[r].session = revival[r].session
                 /\ \A s \in Sessions :
                       \/ life'[s] = life[s]
                       \/ /\ life[s] = "live" /\ life'[s] = "disposing"
                          /\ s = revival[r].session
                 /\ \/ /\ status' = status
                       /\ \A c \in Callers : caller'[c] = caller[c] \/ caller'[c] = NoCall
                    \/ /\ revival[r].phase = "starting" /\ registered = r
                       /\ session[r] = revival[r].session /\ life' = life
                       /\ status[r] = "running" /\ status'[r] = "idle"
                       /\ \A c \in Callers :
                             \/ caller'[c] = caller[c]
                             \/ /\ caller'[c].at = "returned"
                                /\ caller'[c].got = revival[r].session
<1>1. /\ revival \in [Refs -> Revivals] /\ status \in [Refs -> Statuses]
      /\ life \in [Sessions -> Lives] /\ caller \in [Callers -> CallerStates]
  BY TypeParts DEF RegistryTypes, SessionTypes, ManagerTypes, CallTypes
<1>2. ASSUME NEW r \in Refs,
             Discarded(r) \/ FactoryDeclines(r) \/ BuildFails(r) \/ ReviverFails(r)
      PROVE  /\ UNCHANGED <<registryVars, sessionVars, run, park, release>>
             /\ \A q \in Refs \ {r} : revival'[q] = revival[q]
             /\ revival'[r] # revival[r]
             /\ revival'[r].phase = "none" /\ revival'[r].session = None
             /\ \A c \in Callers : caller'[c] = caller[c] \/ caller'[c] = NoCall
  BY <1>1, <1>2 DEF Discarded, DiscardReady, FactoryDeclines, BuildFails, ReviverFails,
     RevivalThrows, NoRevival, Revivals
<1>3. ASSUME NEW r \in Refs, LateBuildFails(r) \/ RevivedTooLate(r)
      PROVE  /\ UNCHANGED <<registryVars, owner, turn, run, park, caller, release>>
             /\ \A q \in Refs \ {r} : revival'[q] = revival[q]
             /\ revival'[r] # revival[r]
             /\ revival[r].phase = "starting" /\ revival'[r].phase = "discarding"
             /\ revival'[r].session = revival[r].session
             /\ \A s \in Sessions :
                   \/ life'[s] = life[s]
                   \/ /\ life[s] = "live" /\ life'[s] = "disposing"
                      /\ s = revival[r].session
  BY <1>1, <1>3 DEF LateBuildFails, RevivedTooLate, Disposing, Revivals, callVars
<1>4. ASSUME NEW r \in Refs, Revived(r)
      PROVE  /\ UNCHANGED <<registered, session, sessionVars, run, park, release>>
             /\ \A q \in Refs \ {r} : revival'[q] = revival[q] /\ status'[q] = status[q]
             /\ revival'[r] # revival[r]
             /\ revival'[r].phase = "none" /\ revival'[r].session = None
             /\ revival[r].phase = "starting" /\ registered = r
             /\ session[r] = revival[r].session
             /\ status[r] = "running" /\ status'[r] = "idle"
             /\ \A c \in Callers :
                   \/ caller'[c] = caller[c]
                   \/ caller'[c].at = "returned" /\ caller'[c].got = revival[r].session
  BY <1>1, <1>4 DEF Revived, StillMine, SetStatus, NoRevival, NoCall
<1>5. CASE \E r \in Refs :
              Discarded(r) \/ FactoryDeclines(r) \/ BuildFails(r) \/ ReviverFails(r)
  BY <1>2, <1>5 DEF registryVars, sessionVars
<1>6. CASE \E r \in Refs : LateBuildFails(r) \/ RevivedTooLate(r)
  BY <1>3, <1>6 DEF registryVars
<1>7. CASE \E r \in Refs : Revived(r)
  BY <1>4, <1>7 DEF sessionVars
<1> QED
  BY <1>5, <1>6, <1>7 DEF Revives

LEMMA TurnsDo ==
    ASSUME TypeOK, Turns
    PROVE  /\ UNCHANGED <<registered, session, life, owner, park, revival, caller, release>>
           /\ \/ status' = status
              \/ /\ Attached # None /\ status[registered] # "aborted"
                 /\ \E to \in {"running", "idle"} :
                       status' = [status EXCEPT ![registered] = to]
           /\ \A q \in Refs :
                 \/ run'[q] = run[q]
                 \/ /\ run[q].phase = "running" /\ run'[q].phase = "settling"
                    /\ run'[q].session = run[q].session
<1>1. CASE \E s \in Sessions : TurnStarts(s)
  BY <1>1, NoneAssumption DEF TurnStarts, Mirrored, SetStatus, callVars
<1>2. CASE \E s \in Sessions : TurnEnds(s)
  BY <1>2, SettlingDoes, NoneAssumption DEF TurnEnds, Mirrored, SetStatus, callVars
<1> QED
  BY <1>1, <1>2 DEF Turns
-----------------------------------------------------------------------------
(* The parts of the invariant, and the action properties                    *)

\* Work in flight names what it works on.
LEMMA WorkInvStep ==
    ASSUME TypeOK, WorkInv, WokenInv, FreshInv, [Next]_vars
    PROVE  WorkInv'
<1> USE NoneAssumption DEF registryVars, sessionVars, managerVars, callVars, NoRun, NoAdoption, NoPark,
        NoRevival, NoCall, NoRelease, WorkInv, FreshInv, Unborn
<1>0. /\ registered \in Refs \union {None}
      /\ session \in [Refs -> Sessions \union {None}]
      /\ run \in [Refs -> Runs]
      /\ revival \in [Refs -> Revivals]
      /\ release \in [Releasers -> ReleaseStates]
      /\ park \in Parks
      /\ park.phase # "none" => park.ref \in Refs /\ park.session \in Sessions
  BY TypeParts DEF RegistryTypes, SessionTypes, ManagerTypes, CallTypes, Parks, WorkInv
<1>1. CASE Asks
  BY <1>1, <1>0, EnsureLiveDoes DEF Asks, CallDoes
<1>2. CASE Releases
  BY <1>2, <1>0, ReleasesDo DEF ReleaseDoes
<1>3. CASE Waits
  BY <1>3, <1>0 DEF Waits, ReleaseEnds, TombstoneWritten, CallerDone, Reclaimed,
         ReclaimRefused, ReclaimProbes, Unregister, Disposing, ReleaseStates
<1>4. CASE Arrives
  BY <1>4, <1>0, ArrivesDo
<1>5. CASE Attaches
  BY <1>5, <1>0, AttachesDo
<1>6. CASE Turns
  BY <1>6, <1>0, TurnsDo
<1>7. CASE RunEnds
  BY <1>7, <1>0, RunEndsDo
<1>8. CASE ParkMoves
  BY <1>8, <1>0, ParkMovesDo
<1>9. CASE ParkCommits
  BY <1>9, <1>0, ParkCommitsDoes
<1>10. CASE Revives
  BY <1>10, <1>0, RevivesDo
<1>11. CASE FactoryAnswers
  BY <1>11, <1>0, FactoryDoes DEF FactoryAnswers, FactoryReturns
<1>12. CASE Disposes
  BY <1>12, <1>0, SettlingDoes DEF Disposes, DisposeEnds, Unregister
<1>13. CASE UNCHANGED vars
  BY <1>13, <1>0 DEF vars
<1> QED
  BY NextCases, <1>1, <1>2, <1>3, <1>4, <1>5, <1>6, <1>7, <1>8, <1>9, <1>10, <1>11, <1>12, <1>13

\* Fresh refs hold nothing.
LEMMA FreshInvStep ==
    ASSUME TypeOK, WorkInv, WokenInv, FreshInv, BuildInv, [Next]_vars
    PROVE  FreshInv'
<1> USE NoneAssumption DEF registryVars, sessionVars, managerVars, callVars, NoRun, NoAdoption, NoPark,
        NoRevival, NoCall, NoRelease, FreshInv, BuildInv, WorkInv, Unborn
<1>0. /\ registered \in Refs \union {None}
      /\ session \in [Refs -> Sessions \union {None}]
      /\ status \in [Refs -> Statuses]
      /\ run \in [Refs -> Runs]
      /\ revival \in [Refs -> Revivals]
      /\ park \in Parks
      /\ park.phase # "none" => park.ref \in Refs /\ park.session \in Sessions
  BY TypeParts DEF RegistryTypes, SessionTypes, ManagerTypes, CallTypes, Parks, WorkInv
<1>1. CASE Asks
  BY <1>1, <1>0, EnsureLiveDoes DEF Asks, CallDoes
<1>2. CASE Releases
  BY <1>2, <1>0, ReleasesDo DEF ReleaseDoes
<1>3. CASE Waits
  BY <1>3, <1>0 DEF Waits, ReleaseEnds, TombstoneWritten, CallerDone, Reclaimed,
         ReclaimRefused, ReclaimProbes, Unregister, Disposing, ReleaseStates
<1>4. CASE Arrives
  BY <1>4, <1>0, ArrivesDo
<1>5. CASE Attaches
  BY <1>5, <1>0, AttachesDo
<1>6. CASE Turns
  BY <1>6, <1>0, TurnsDo DEF Attached
<1>7. CASE RunEnds
  BY <1>7, <1>0, RunEndsDo
<1>8. CASE ParkMoves
  BY <1>8, <1>0, ParkMovesDo
<1>9. CASE ParkCommits
  BY <1>9, <1>0, ParkCommitsDoes
<1>10. CASE Revives
  BY <1>10, <1>0, RevivesDo
<1>11. CASE FactoryAnswers
  BY <1>11, <1>0, FactoryDoes DEF FactoryAnswers, FactoryReturns
<1>12. CASE Disposes
  BY <1>12, <1>0, SettlingDoes DEF Disposes, DisposeEnds, Unregister
<1>13. CASE UNCHANGED vars
  BY <1>13, <1>0 DEF vars
<1> QED
  BY NextCases, <1>1, <1>2, <1>3, <1>4, <1>5, <1>6, <1>7, <1>8, <1>9, <1>10, <1>11, <1>12, <1>13

\* A ref that lost its row or was killed holds no session.
LEMMA RetiredRefsAreEmptyStep ==
    ASSUME TypeOK, WorkInv, WokenInv, RetiredRefsAreEmpty, FreshInv, [Next]_vars
    PROVE  RetiredRefsAreEmpty'
<1> USE NoneAssumption DEF registryVars, sessionVars, managerVars, callVars, NoRun, NoAdoption, NoPark,
        NoRevival, NoCall, NoRelease, RetiredRefsAreEmpty, FreshInv, WorkInv, Unborn
<1>0. /\ registered \in Refs \union {None}
      /\ session \in [Refs -> Sessions \union {None}]
      /\ status \in [Refs -> Statuses]
      /\ run \in [Refs -> Runs]
      /\ revival \in [Refs -> Revivals]
      /\ park \in Parks
      /\ park.phase # "none" => park.ref \in Refs /\ park.session \in Sessions
  BY TypeParts DEF RegistryTypes, SessionTypes, ManagerTypes, CallTypes, Parks, WorkInv
<1>1. CASE Asks
  BY <1>1, <1>0, EnsureLiveDoes DEF Asks, CallDoes
<1>2. CASE Releases
  BY <1>2, <1>0, ReleasesDo DEF ReleaseDoes
<1>3. CASE Waits
  BY <1>3, <1>0 DEF Waits, ReleaseEnds, TombstoneWritten, CallerDone, Reclaimed,
         ReclaimRefused, ReclaimProbes, Unregister, Disposing, ReleaseStates
<1>4. CASE Arrives
  BY <1>4, <1>0, ArrivesDo
<1>5. CASE Attaches
  BY <1>5, <1>0, AttachesDo
<1>6. CASE Turns
  BY <1>6, <1>0, TurnsDo
<1>7. CASE RunEnds
  BY <1>7, <1>0, RunEndsDo
<1>8. CASE ParkMoves
  BY <1>8, <1>0, ParkMovesDo
<1>9. CASE ParkCommits
  BY <1>9, <1>0, ParkCommitsDoes
<1>10. CASE Revives
  BY <1>10, <1>0, RevivesDo
<1>11. CASE FactoryAnswers
  BY <1>11, <1>0, FactoryDoes DEF FactoryAnswers, FactoryReturns
<1>12. CASE Disposes
  BY <1>12, <1>0, SettlingDoes DEF Disposes, DisposeEnds, Unregister
<1>13. CASE UNCHANGED vars
  BY <1>13, <1>0 DEF vars
<1> QED
  BY NextCases, <1>1, <1>2, <1>3, <1>4, <1>5, <1>6, <1>7, <1>8, <1>9, <1>10, <1>11, <1>12, <1>13

\* Everybody who holds a session holds it for its ref.
LEMMA OwnerInvStep ==
    ASSUME TypeOK, WorkInv, WokenInv, OwnerInv, FreshInv, [Next]_vars
    PROVE  OwnerInv'
<1> USE NoneAssumption DEF registryVars, sessionVars, managerVars, callVars, NoRun, NoAdoption, NoPark,
        NoRevival, NoCall, NoRelease, OwnerInv, FreshInv, WorkInv, Unborn
<1>0. /\ registered \in Refs \union {None}
      /\ session \in [Refs -> Sessions \union {None}]
      /\ status \in [Refs -> Statuses]
      /\ life \in [Sessions -> Lives]
      /\ owner \in [Sessions -> Refs \union {None}]
      /\ run \in [Refs -> Runs]
      /\ revival \in [Refs -> Revivals]
      /\ release \in [Releasers -> ReleaseStates]
      /\ park \in Parks
      /\ park.phase # "none" => park.ref \in Refs /\ park.session \in Sessions
  BY TypeParts DEF RegistryTypes, SessionTypes, ManagerTypes, CallTypes, Parks, WorkInv
<1>1. CASE Asks
  BY <1>1, <1>0, EnsureLiveDoes DEF Asks, CallDoes
<1>2. CASE Releases
  BY <1>2, <1>0, ReleasesDo DEF ReleaseDoes
<1>3. CASE Waits
  BY <1>3, <1>0 DEF Waits, ReleaseEnds, TombstoneWritten, CallerDone, Reclaimed,
         ReclaimRefused, ReclaimProbes, Unregister, Disposing, ReleaseStates
<1>4. CASE Arrives
  BY <1>4, <1>0, ArrivesDo
<1>5. CASE Attaches
  BY <1>5, <1>0, AttachesDo
<1>6. CASE Turns
  BY <1>6, <1>0, TurnsDo
<1>7. CASE RunEnds
  BY <1>7, <1>0, RunEndsDo
<1>8. CASE ParkMoves
  BY <1>8, <1>0, ParkMovesDo DEF Attached
<1>9. CASE ParkCommits
  BY <1>9, <1>0, ParkCommitsDoes
<1>10. CASE Revives
  BY <1>10, <1>0, RevivesDo
<1>11. CASE FactoryAnswers
  BY <1>11, <1>0, FactoryDoes DEF FactoryAnswers, FactoryReturns
<1>12. CASE Disposes
  BY <1>12, <1>0, SettlingDoes DEF Disposes, DisposeEnds, Unregister
<1>13. CASE UNCHANGED vars
  BY <1>13, <1>0 DEF vars
<1> QED
  BY NextCases, <1>1, <1>2, <1>3, <1>4, <1>5, <1>6, <1>7, <1>8, <1>9, <1>10, <1>11, <1>12, <1>13

\* A revival without a session is for a ref without one.
LEMMA BuildInvStep ==
    ASSUME TypeOK, WorkInv, WokenInv, BuildInv, FreshInv, [Next]_vars
    PROVE  BuildInv'
<1> USE NoneAssumption DEF registryVars, sessionVars, managerVars, callVars, NoRun, NoAdoption, NoPark,
        NoRevival, NoCall, NoRelease, BuildInv, FreshInv, Unborn
<1>0. /\ registered \in Refs \union {None}
      /\ session \in [Refs -> Sessions \union {None}]
      /\ status \in [Refs -> Statuses]
      /\ run \in [Refs -> Runs]
      /\ revival \in [Refs -> Revivals]
      /\ park.phase # "none" => park.ref \in Refs /\ park.session \in Sessions
  BY TypeParts DEF RegistryTypes, SessionTypes, ManagerTypes, CallTypes, Parks, WorkInv
<1>1. CASE Asks
  BY <1>1, <1>0, EnsureLiveDoes DEF Asks, CallDoes
<1>2. CASE Releases
  BY <1>2, <1>0, ReleasesDo DEF ReleaseDoes
<1>3. CASE Waits
  BY <1>3, <1>0 DEF Waits, ReleaseEnds, TombstoneWritten, CallerDone, Reclaimed,
         ReclaimRefused, ReclaimProbes, Unregister, Disposing, ReleaseStates
<1>4. CASE Arrives
  BY <1>4, <1>0, ArrivesDo
<1>5. CASE Attaches
  BY <1>5, <1>0, AttachesDo
<1>6. CASE Turns
  BY <1>6, <1>0, TurnsDo
<1>7. CASE RunEnds
  BY <1>7, <1>0, RunEndsDo
<1>8. CASE ParkMoves
  BY <1>8, <1>0, ParkMovesDo
<1>9. CASE ParkCommits
  BY <1>9, <1>0, ParkCommitsDoes
<1>10. CASE Revives
  BY <1>10, <1>0, RevivesDo
<1>11. CASE FactoryAnswers
  BY <1>11, <1>0, FactoryDoes DEF FactoryAnswers, FactoryReturns
<1>12. CASE Disposes
  BY <1>12, <1>0, SettlingDoes DEF Disposes, DisposeEnds, Unregister
<1>13. CASE UNCHANGED vars
  BY <1>13, <1>0 DEF vars
<1> QED
  BY NextCases, <1>1, <1>2, <1>3, <1>4, <1>5, <1>6, <1>7, <1>8, <1>9, <1>10, <1>11, <1>12, <1>13

\* No park starts before the callers that one has woken go on.
LEMMA WokenInvStep ==
    ASSUME TypeOK, WorkInv, WokenInv, [Next]_vars
    PROVE  WokenInv'
<1> USE NoneAssumption DEF registryVars, sessionVars, managerVars, callVars, NoRun, NoAdoption, NoPark,
        NoRevival, NoCall, NoRelease, WokenInv
<1>0. /\ park \in Parks
      /\ caller \in [Callers -> CallerStates]
      /\ park.phase # "none" => park.ref \in Refs /\ park.session \in Sessions
  BY TypeParts DEF RegistryTypes, SessionTypes, ManagerTypes, CallTypes, Parks, WorkInv
<1>1. CASE Asks
  BY <1>1, <1>0, EnsureLiveDoes DEF Asks, CallDoes
<1>2. CASE Releases
  BY <1>2, <1>0, ReleasesDo DEF ReleaseDoes
<1>3. CASE Waits
  BY <1>3, <1>0 DEF Waits, ReleaseEnds, TombstoneWritten, CallerDone, Reclaimed,
         ReclaimRefused, ReclaimProbes, Unregister, Disposing, ReleaseStates
<1>4. CASE Arrives
  BY <1>4, <1>0, ArrivesDo
<1>5. CASE Attaches
  BY <1>5, <1>0, AttachesDo
<1>6. CASE Turns
  BY <1>6, <1>0, TurnsDo
<1>7. CASE RunEnds
  BY <1>7, <1>0, RunEndsDo
<1>8. CASE ParkMoves
  BY <1>8, <1>0, ParkMovesDo
<1>9. CASE ParkCommits
  BY <1>9, <1>0, ParkCommitsDoes
<1>10. CASE Revives
  BY <1>10, <1>0, RevivesDo
<1>11. CASE FactoryAnswers
  BY <1>11, <1>0, FactoryDoes DEF FactoryAnswers, FactoryReturns
<1>12. CASE Disposes
  BY <1>12, <1>0, SettlingDoes DEF Disposes, DisposeEnds, Unregister
<1>13. CASE UNCHANGED vars
  BY <1>13, <1>0 DEF vars
<1> QED
  BY NextCases, <1>1, <1>2, <1>3, <1>4, <1>5, <1>6, <1>7, <1>8, <1>9, <1>10, <1>11, <1>12, <1>13

\* Nothing attaches to a ref while its park disposes the session.
LEMMA ParkInvStep ==
    ASSUME TypeOK, WorkInv, WokenInv, ParkInv, BuildInv, FreshInv, [Next]_vars
    PROVE  ParkInv'
<1> USE NoneAssumption DEF registryVars, sessionVars, managerVars, callVars, NoRun, NoAdoption, NoPark,
        NoRevival, NoCall, NoRelease, ParkInv, WokenInv, BuildInv, FreshInv, WorkInv, Unborn
<1>0. /\ registered \in Refs \union {None}
      /\ session \in [Refs -> Sessions \union {None}]
      /\ status \in [Refs -> Statuses]
      /\ run \in [Refs -> Runs]
      /\ revival \in [Refs -> Revivals]
      /\ park \in Parks
      /\ caller \in [Callers -> CallerStates]
      /\ park.phase # "none" => park.ref \in Refs /\ park.session \in Sessions
  BY TypeParts DEF RegistryTypes, SessionTypes, ManagerTypes, CallTypes, Parks, WorkInv
<1>1. CASE Asks
  BY <1>1, <1>0, EnsureLiveDoes DEF Asks, CallDoes
<1>2. CASE Releases
  BY <1>2, <1>0, ReleasesDo DEF ReleaseDoes
<1>3. CASE Waits
  BY <1>3, <1>0 DEF Waits, ReleaseEnds, TombstoneWritten, CallerDone, Reclaimed,
         ReclaimRefused, ReclaimProbes, Unregister, Disposing, ReleaseStates
<1>4. CASE Arrives
  BY <1>4, <1>0, ArrivesDo
<1>5. CASE Attaches
  BY <1>5, <1>0, AttachesDo
<1>6. CASE Turns
  BY <1>6, <1>0, TurnsDo
<1>7. CASE RunEnds
  BY <1>7, <1>0, RunEndsDo
<1>8. CASE ParkMoves
  BY <1>8, <1>0, ParkMovesDo
<1>9. CASE ParkCommits
  BY <1>9, <1>0, ParkCommitsDoes
<1>10. CASE Revives
  BY <1>10, <1>0, RevivesDo
<1>11. CASE FactoryAnswers
  BY <1>11, <1>0, FactoryDoes DEF FactoryAnswers, FactoryReturns
<1>12. CASE Disposes
  BY <1>12, <1>0, SettlingDoes DEF Disposes, DisposeEnds, Unregister
<1>13. CASE UNCHANGED vars
  BY <1>13, <1>0 DEF vars
<1> QED
  BY NextCases, <1>1, <1>2, <1>3, <1>4, <1>5, <1>6, <1>7, <1>8, <1>9, <1>10, <1>11, <1>12, <1>13

\* What is attached is not disposed.
LEMMA AliveInvStep ==
    ASSUME TypeOK, WorkInv, WokenInv, AliveInv, ParkInv, OwnerInv, RetiredRefsAreEmpty,
           FreshInv, [Next]_vars
    PROVE  AliveInv'
<1> USE NoneAssumption DEF registryVars, sessionVars, managerVars, callVars, NoRun, NoAdoption, NoPark,
        NoRevival, NoCall, NoRelease, AliveInv, ParkInv, OwnerInv, RetiredRefsAreEmpty,
        FreshInv, WorkInv, Unborn, Attached
<1>0. /\ registered \in Refs \union {None}
      /\ session \in [Refs -> Sessions \union {None}]
      /\ status \in [Refs -> Statuses]
      /\ life \in [Sessions -> Lives]
      /\ owner \in [Sessions -> Refs \union {None}]
      /\ run \in [Refs -> Runs]
      /\ revival \in [Refs -> Revivals]
      /\ release \in [Releasers -> ReleaseStates]
      /\ park \in Parks
      /\ park.phase # "none" => park.ref \in Refs /\ park.session \in Sessions
  BY TypeParts DEF RegistryTypes, SessionTypes, ManagerTypes, CallTypes, Parks, WorkInv
<1>1. CASE Asks
  BY <1>1, <1>0, EnsureLiveDoes DEF Asks, CallDoes
<1>2. CASE Releases
  BY <1>2, <1>0, ReleasesDo DEF ReleaseDoes
<1>3. CASE Waits
  BY <1>3, <1>0 DEF Waits, ReleaseEnds, TombstoneWritten, CallerDone, Reclaimed,
         ReclaimRefused, ReclaimProbes, Unregister, Disposing, ReleaseStates
<1>4. CASE Arrives
  BY <1>4, <1>0, ArrivesDo
<1>5. CASE Attaches
  BY <1>5, <1>0, AttachesDo
<1>6. CASE Turns
  BY <1>6, <1>0, TurnsDo
<1>7. CASE RunEnds
  BY <1>7, <1>0, RunEndsDo
<1>8. CASE ParkMoves
  BY <1>8, <1>0, ParkMovesDo
<1>9. CASE ParkCommits
  BY <1>9, <1>0, ParkCommitsDoes
<1>10. CASE Revives
  BY <1>10, <1>0, RevivesDo
<1>11. CASE FactoryAnswers
  BY <1>11, <1>0, FactoryDoes DEF FactoryAnswers, FactoryReturns
<1>12. CASE Disposes
  <2>1. PICK s \in Sessions : DisposeEnds(s)
    BY <1>12 DEF Disposes
  <2>2. /\ \A t \in Sessions : life'[t] = life[t] \/ t = s
        /\ UNCHANGED <<session, status>>
        /\ registered' \in {registered, None}
    BY <2>1, <1>0 DEF DisposeEnds, Unregister
  <2>3. ASSUME registered # None, session[registered] = s PROVE registered' = None
    <3>1. registered = owner[s]
      BY <1>0, <2>3
    <3>2. ~Spared(registered)
      BY <1>0, <2>3, <1>12 DEF Spared, Parking, Disposes, Drained, Parks
    <3> QED
      BY <2>1, <3>1, <3>2 DEF DisposeEnds, Unregister
  <2> QED
    BY <1>0, <2>2, <2>3
<1>13. CASE UNCHANGED vars
  BY <1>13, <1>0 DEF vars
<1> QED
  BY NextCases, <1>1, <1>2, <1>3, <1>4, <1>5, <1>6, <1>7, <1>8, <1>9, <1>10, <1>11, <1>12, <1>13

\* A step leaves a killed agent dead and its row where it is.
LEMMA KilledStepHolds ==
    ASSUME TypeOK, WorkInv, WokenInv, RetiredRefsAreEmpty, FreshInv, [Next]_vars
    PROVE  KilledStep
<1> USE NoneAssumption DEF registryVars, sessionVars, managerVars, callVars, NoRun, NoAdoption, NoPark,
        NoRevival, NoCall, NoRelease, RetiredRefsAreEmpty, FreshInv, KilledStep, AskedToGo,
        Unborn
<1>0. /\ registered \in Refs \union {None}
      /\ session \in [Refs -> Sessions \union {None}]
      /\ status \in [Refs -> Statuses]
      /\ run \in [Refs -> Runs]
      /\ revival \in [Refs -> Revivals]
      /\ release \in [Releasers -> ReleaseStates]
      /\ park \in Parks
      /\ park.phase # "none" => park.ref \in Refs /\ park.session \in Sessions
  BY TypeParts DEF RegistryTypes, SessionTypes, ManagerTypes, CallTypes, Parks, WorkInv
<1>1. CASE Asks
  BY <1>1, <1>0, EnsureLiveDoes DEF Asks, CallDoes
<1>2. CASE Releases
  <2>1. ASSUME NEW k \in Releasers, NEW r \in Refs, NEW t \in BOOLEAN, ReleaseDoes(k, r, t),
               t \/ AskedToGo(r) \/ status[r] # "aborted"
        PROVE  KilledStep
    BY <1>0, <2>1 DEF ReleaseDoes
  <2>2. CASE UNCHANGED registryVars
    BY <1>0, <2>2
  <2>3. CASE \E k \in Releasers, r \in Refs : Kill(k, r) \/ FinishKilled(k, r)
    BY <2>1, <2>3, ReleaseCallDoes DEF Kill, FinishKilled
  <2>4. CASE \E k \in Releasers, r \in Refs : FinishShutdown(k, r)
    <3>1. PICK k \in Releasers, r \in Refs : FinishShutdown(k, r)
      BY <2>4
    <3>2. status[r] # "aborted" /\ ReleaseDoes(k, r, FALSE)
      BY <1>0, <3>1, ReleaseCallDoes DEF FinishShutdown, RunOver, OwnsRef, WorkInv
    <3> QED
      BY <2>1, <3>2
  <2>5. CASE \E k \in Releasers : CancelCalled(k)
    BY <1>0, <2>1, <2>2, <2>5, ReleaseCallDoes DEF CancelCalled
  <2>6. Target # None => Target \in Refs
    BY TypeParts DEF Target, RegistryTypes, ManagerTypes, Adoptions
  <2>7. CASE \E k \in Releasers : CancelReleases(k)
    BY <1>0, <2>1, <2>2, <2>6, <2>7, ReleaseCallDoes DEF CancelReleases
  <2>8. CASE Close
    BY <1>0, <2>1, <2>2, <2>6, <2>8, ReleaseCallDoes, TeardownAssumption DEF Close
  <2>9. CASE \E k \in Releasers : ReleaseResumes(k)
    <3>1. PICK k \in Releasers : ReleaseResumes(k)
      BY <2>9
    <3>2. /\ release[k].at = "parked" /\ release[k].ref \in Refs
          /\ release[k].tombstone \in BOOLEAN
      BY <1>0, <3>1 DEF ReleaseResumes, WorkInv, ReleaseStates
    <3>3. ReleaseDoes(k, release[k].ref, release[k].tombstone)
      BY <3>1, <3>2, SeizeDoes DEF ReleaseResumes
    <3>4. release[k].tombstone \/ AskedToGo(release[k].ref)
      BY <3>2
    <3> QED
      BY <2>1, <3>2, <3>3, <3>4
  <2> QED
    BY <1>2, <2>3, <2>4, <2>5, <2>7, <2>8, <2>9 DEF Releases
<1>3. CASE Waits
  BY <1>3, <1>0 DEF Waits, ReleaseEnds, ReleaseReady, TombstoneWritten, CallerDone, Reclaimed,
         DeadCorpse, ReclaimRefused, ReclaimProbes, Unregister
<1>4. CASE Arrives
  BY <1>4, <1>0, ArrivesDo DEF WorkInv
<1>5. CASE Attaches
  BY <1>5, <1>0, AttachesDo
<1>6. CASE Turns
  BY <1>6, <1>0, TurnsDo
<1>7. CASE RunEnds
  BY <1>7, <1>0, RunEndsDo
<1>8. CASE ParkMoves
  BY <1>8, <1>0, ParkMovesDo
<1>9. CASE ParkCommits
  BY <1>9, <1>0, ParkCommitsDoes
<1>10. CASE Revives
  BY <1>10, <1>0, RevivesDo
<1>11. CASE FactoryAnswers
  BY <1>11, <1>0, FactoryDoes DEF FactoryAnswers, FactoryReturns
<1>12. CASE Disposes
  BY <1>12, <1>0 DEF Disposes, DisposeEnds, Spared
<1>13. CASE UNCHANGED vars
  BY <1>13, <1>0 DEF vars
<1> QED
  BY NextCases, <1>1, <1>2, <1>3, <1>4, <1>5, <1>6, <1>7, <1>8, <1>9, <1>10, <1>11, <1>12, <1>13

\* A step that ends an attached session was started for its ref.
LEMMA StaleStepHolds ==
    ASSUME TypeOK, WorkInv, WokenInv, OwnerInv, [Next]_vars
    PROVE  StaleStep
<1> USE NoneAssumption DEF registryVars, sessionVars, managerVars, callVars, NoRun, NoAdoption, NoPark,
        NoRevival, NoCall, NoRelease, OwnerInv, StaleStep, Concerned, Attached
<1>0. /\ registered \in Refs \union {None}
      /\ session \in [Refs -> Sessions \union {None}]
      /\ status \in [Refs -> Statuses]
      /\ life \in [Sessions -> Lives]
      /\ owner \in [Sessions -> Refs \union {None}]
      /\ run \in [Refs -> Runs]
      /\ revival \in [Refs -> Revivals]
      /\ release \in [Releasers -> ReleaseStates]
      /\ park \in Parks
      /\ park.phase # "none" => park.ref \in Refs /\ park.session \in Sessions
  BY TypeParts DEF RegistryTypes, SessionTypes, ManagerTypes, CallTypes, Parks, WorkInv
<1>1. CASE Asks
  BY <1>1, <1>0, EnsureLiveDoes DEF Asks, CallDoes
<1>2. CASE Releases
  BY <1>2, <1>0, ReleasesDo DEF ReleaseDoes
<1>3. CASE Waits
  BY <1>3, <1>0 DEF Waits, ReleaseEnds, TombstoneWritten, CallerDone, Reclaimed,
         ReclaimRefused, ReclaimProbes, Unregister, Disposing, ReleaseStates
<1>4. CASE Arrives
  BY <1>4, <1>0, ArrivesDo
<1>5. CASE Attaches
  BY <1>5, <1>0, AttachesDo
<1>6. CASE Turns
  BY <1>6, <1>0, TurnsDo
<1>7. CASE RunEnds
  BY <1>7, <1>0, RunEndsDo
<1>8. CASE ParkMoves
  BY <1>8, <1>0, ParkMovesDo
<1>9. CASE ParkCommits
  BY <1>9, <1>0, ParkCommitsDoes
<1>10. CASE Revives
  BY <1>10, <1>0, RevivesDo
<1>11. CASE FactoryAnswers
  BY <1>11, <1>0, FactoryDoes DEF FactoryAnswers, FactoryReturns
<1>12. CASE Disposes
  BY <1>12, <1>0, SettlingDoes DEF Disposes, DisposeEnds, Unregister
<1>13. CASE UNCHANGED vars
  BY <1>13, <1>0 DEF vars
<1> QED
  BY NextCases, <1>1, <1>2, <1>3, <1>4, <1>5, <1>6, <1>7, <1>8, <1>9, <1>10, <1>11, <1>12, <1>13

\* A step that hands out a session hands out what is attached.
LEMMA HandOutStepHolds ==
    ASSUME TypeOK, WorkInv, WokenInv, AliveInv, [Next]_vars
    PROVE  HandOutStep
<1> USE NoneAssumption DEF registryVars, sessionVars, managerVars, callVars, NoRun, NoAdoption, NoPark,
        NoRevival, NoCall, NoRelease, AliveInv, HandOutStep, HandedOut, Attached
<1>0. /\ registered \in Refs \union {None}
      /\ session \in [Refs -> Sessions \union {None}]
      /\ status \in [Refs -> Statuses]
      /\ life \in [Sessions -> Lives]
      /\ run \in [Refs -> Runs]
      /\ revival \in [Refs -> Revivals]
      /\ park \in Parks
      /\ caller \in [Callers -> CallerStates]
      /\ park.phase # "none" => park.ref \in Refs /\ park.session \in Sessions
  BY TypeParts DEF RegistryTypes, SessionTypes, ManagerTypes, CallTypes, Parks, WorkInv
<1>1. CASE Asks
  BY <1>1, <1>0, EnsureLiveDoes DEF Asks, CallDoes
<1>2. CASE Releases
  BY <1>2, <1>0, ReleasesDo DEF ReleaseDoes
<1>3. CASE Waits
  BY <1>3, <1>0 DEF Waits, ReleaseEnds, TombstoneWritten, CallerDone, Reclaimed,
         ReclaimRefused, ReclaimProbes, Unregister, Disposing, ReleaseStates
<1>4. CASE Arrives
  BY <1>4, <1>0, ArrivesDo
<1>5. CASE Attaches
  BY <1>5, <1>0, AttachesDo
<1>6. CASE Turns
  BY <1>6, <1>0, TurnsDo
<1>7. CASE RunEnds
  BY <1>7, <1>0, RunEndsDo
<1>8. CASE ParkMoves
  BY <1>8, <1>0, ParkMovesDo
<1>9. CASE ParkCommits
  BY <1>9, <1>0, ParkCommitsDoes
<1>10. CASE Revives
  BY <1>10, <1>0, RevivesDo DEF WorkInv
<1>11. CASE FactoryAnswers
  BY <1>11, <1>0, FactoryDoes DEF FactoryAnswers, FactoryReturns
<1>12. CASE Disposes
  BY <1>12, <1>0, SettlingDoes DEF Disposes, DisposeEnds, Unregister
<1>13. CASE UNCHANGED vars
  BY <1>13, <1>0 DEF vars
<1> QED
  BY NextCases, <1>1, <1>2, <1>3, <1>4, <1>5, <1>6, <1>7, <1>8, <1>9, <1>10, <1>11, <1>12, <1>13

-----------------------------------------------------------------------------

\* The invariant holds at the start, and every step keeps it.
LEMMA InitInv ==
    ASSUME Init
    PROVE  IInv
<1> USE NoneAssumption DEF Init, NoRun, NoAdoption, NoPark, NoRevival, NoCall, NoRelease
<1>1. RegistryTypes /\ SessionTypes /\ ManagerTypes /\ CallTypes
  BY RestTypes DEF RegistryTypes, SessionTypes, ManagerTypes, CallTypes, Statuses, Lives
<1>2. TypeOK
  BY <1>1, TypeParts
<1>3. WorkInv /\ FreshInv /\ RetiredRefsAreEmpty
  BY DEF WorkInv, FreshInv, RetiredRefsAreEmpty, Unborn
<1>4. OwnerInv /\ BuildInv /\ WokenInv /\ ParkInv /\ AliveInv
  BY DEF OwnerInv, BuildInv, WokenInv, ParkInv, AliveInv, Attached
<1> QED
  BY <1>2, <1>3, <1>4 DEF IInv

LEMMA IInvStep ==
    ASSUME IInv, [Next]_vars
    PROVE  IInv'
<1>1. TypeOK' /\ WorkInv' /\ FreshInv' /\ RetiredRefsAreEmpty'
  BY TypeStep, WorkInvStep, FreshInvStep, RetiredRefsAreEmptyStep DEF IInv
<1>2. OwnerInv' /\ BuildInv' /\ WokenInv' /\ ParkInv' /\ AliveInv'
  BY OwnerInvStep, BuildInvStep, WokenInvStep, ParkInvStep, AliveInvStep DEF IInv
<1> QED
  BY <1>1, <1>2 DEF IInv

-----------------------------------------------------------------------------

\* A session that still writes its transcript, and the four ways in which its ref
\* accounts for it: the row holds it, a park has detached it, a kill has, or
\* dispose() forgot a park that was taking it down.
Alive(s) == life[s] \in {"live", "disposing"}
Hangs(s) == registered = owner[s] /\ session[owner[s]] = s
Parked(s) ==
    /\ park.phase = "disposing" /\ park.session = s /\ life[s] = "disposing"
    /\ registered = owner[s] /\ status[owner[s]] = "parked" /\ session[owner[s]] = None
Killed(s) ==
    /\ status[owner[s]] = "aborted" /\ session[owner[s]] = None
    /\ \E k \in Releasers :
          /\ release[k].tombstone /\ release[k].live = s
          /\ \/ release[k].at = "writing"
             \/ release[k].at = "disposing" /\ life[s] = "disposing"
Dropped(s) ==
    /\ manager = "closed" /\ park.phase = "none" /\ life[s] = "disposing"
    /\ registered \in {owner[s], None} /\ session[owner[s]] = None
    /\ run[owner[s]].phase # "starting"
    /\ revival[owner[s]].phase \notin {"probing", "building"}
    /\ \A c \in Callers : caller[c].at \notin {"cancelled", "waited"}
Kept(s) == owner[s] \in Refs /\ (Hangs(s) \/ Parked(s) \/ Killed(s) \/ Dropped(s))

KeptInv == \A s \in Sessions : Alive(s) => Kept(s)
ParkedInv == park.phase = "disposing" /\ life[park.session] # "disposed" => Parked(park.session)

\* One session of a ref at a time, and one of the id that no cancellation has
\* let go while a kill was taking it down
SingleInv == \A s, t \in Sessions : Alive(s) /\ Alive(t) /\ owner[s] = owner[t] => s = t
WriterInv == \A s, t \in Sessions : Alive(s) /\ Alive(t) /\ ~RowTaken(s) /\ ~RowTaken(t) => s = t

\* Who is about to unregister a ref has seen its last session disposed.
Over(r) == \A s \in Sessions : owner[s] = r => ~Alive(s)
ReadyInv ==
    /\ \A k \in Releasers : ReleaseReady(k) /\ ~release[k].tombstone => Over(release[k].ref)
    /\ \A r \in Refs : OneShotReady(r) => Over(r)
ResumeInv ==
    /\ \A k \in Releasers : release[k].at = "parked" => park.phase = "none"
    /\ manager = "open" => release[Teardown].at = "idle"
    /\ \A k \in Releasers : release[k].at = "disposing" /\ ~release[k].tombstone => release[k].live # None
    /\ \A k \in Releasers : release[k].at = "writing" => release[k].tombstone

\* What a release of r takes from the registry once no park of r is left
Takes(k, r, t) ==
    \/ /\ registered # r \/ (~t /\ session[r] = None)
       /\ registered' = IF registered = r THEN None ELSE registered
       /\ UNCHANGED <<session, status, life>>
       /\ IF t THEN release'[k].at = "writing" /\ release'[k].tombstone /\ release'[k].live = None
          ELSE release'[k].at = "idle"
    \/ /\ registered = r /\ t
       /\ UNCHANGED <<registered, life>>
       /\ session' = [session EXCEPT ![r] = None]
       /\ status' = [status EXCEPT ![r] = "aborted"]
       /\ release'[k].at = "writing" /\ release'[k].tombstone
       /\ release'[k].live = session[r] /\ release'[k].ref = r
    \/ /\ registered = r /\ ~t /\ session[r] # None
       /\ UNCHANGED registryVars
       /\ life' = [life EXCEPT ![session[r]] = "disposing"]
       /\ release'[k].at = "disposing" /\ ~release'[k].tombstone
       /\ release'[k].live = session[r] /\ release'[k].ref = r

\* The seizing half of a release takes the ref in one of these three ways.
LEMMA SeizeTakes ==
    ASSUME TypeOK, AliveInv, NEW k \in Releasers, NEW r \in Refs, NEW t \in BOOLEAN,
           Seize(k, r, t)
    PROVE  Takes(k, r, t) /\ \A j \in Releasers \ {k} : release'[j] = release[j]
<1>1. /\ release \in [Releasers -> ReleaseStates] /\ session \in [Refs -> Sessions \union {None}]
      /\ status \in [Refs -> Statuses] /\ life \in [Sessions -> Lives]
      /\ registered \in Refs \union {None}
  BY TypeParts DEF CallTypes, RegistryTypes, SessionTypes
<1>2. \A j \in Releasers \ {k} : release'[j] = release[j]
  BY <1>1 DEF Seize
<1>3. CASE registered # r
  <2>1. /\ UNCHANGED <<registered, session, status, life>>
        /\ release' = [release EXCEPT ![k] =
               IF ~t THEN NoRelease
               ELSE [at |-> "writing", ref |-> r, tombstone |-> t, live |-> None]]
    BY <1>3 DEF Seize, LiveOf, Disposing
  <2> QED
    BY <1>1, <1>2, <1>3, <2>1 DEF Takes, NoRelease
<1>4. CASE registered = r /\ t
  <2>1. /\ UNCHANGED <<registered, life>>
        /\ session' = [session EXCEPT ![r] = None]
        /\ status' = [status EXCEPT ![r] = "aborted"]
        /\ release' = [release EXCEPT ![k] =
               [at |-> "writing", ref |-> r, tombstone |-> t, live |-> session[r]]]
    BY <1>4 DEF Seize, LiveOf, Detached
  <2> QED
    BY <1>1, <1>2, <1>4, <2>1 DEF Takes
<1>5. CASE registered = r /\ ~t /\ session[r] = None
  <2>1. /\ registered' = None /\ UNCHANGED <<session, status, life>>
        /\ release' = [release EXCEPT ![k] = NoRelease]
    BY <1>5 DEF Seize, LiveOf, Disposing
  <2> QED
    BY <1>1, <1>2, <1>5, <2>1 DEF Takes, NoRelease
<1>6. CASE registered = r /\ ~t /\ session[r] # None
  <2>1. session[r] \in Sessions /\ life[session[r]] \in {"live", "disposing"}
    BY <1>1, <1>6, NoneAssumption DEF AliveInv, Attached
  <2>2. life' = [life EXCEPT ![session[r]] = "disposing"]
    BY <1>1, <1>6, <2>1 DEF Seize, LiveOf, Disposing
  <2>3. /\ UNCHANGED registryVars
        /\ release' = [release EXCEPT ![k] =
               [at |-> "disposing", ref |-> r, tombstone |-> t, live |-> session[r]]]
    BY <1>6 DEF Seize, LiveOf, registryVars
  <2> QED
    BY <1>1, <1>2, <1>6, <2>2, <2>3 DEF Takes
<1> QED
  BY <1>2, <1>3, <1>4, <1>5, <1>6

\* What a step of a release, whoever called it, takes: nothing while it waits for
\* the abort of a turn or for a park, and of a ref that no park holds otherwise.
ReleaseTakes(k) ==
    /\ release[k].at \in {"idle", "aborting", "parked"}
    /\ \A j \in Releasers \ {k} : release'[j] = release[j]
    /\ \/ /\ UNCHANGED <<registryVars, life>>
          /\ release'[k].at \in {"idle", "aborting", "parking"}
       \/ \E r \in Refs, t \in BOOLEAN :
             /\ Takes(k, r, t)
             /\ park.phase = "none" \/ park.ref # r

\* A call of release, by whoever may call it then.
LEMMA ReleaseCallTakes ==
    ASSUME TypeOK, AliveInv, NEW k \in Releasers, NEW r \in Refs, NEW t \in BOOLEAN,
           ReleaseCall(k, r, t), release[k].at \in {"idle", "aborting"}
    PROVE  ReleaseTakes(k)
<1>1. release \in [Releasers -> ReleaseStates]
  BY TypeParts DEF CallTypes
<1>2. CASE park.phase # "none" /\ park.ref = r
  BY <1>1, <1>2 DEF ReleaseCall, ReleaseTakes, registryVars
<1>3. CASE ~(park.phase # "none" /\ park.ref = r)
  BY <1>3, SeizeTakes DEF ReleaseCall, ReleaseTakes
<1> QED
  BY <1>2, <1>3

\* Every release takes what it may, and changes nothing else but the end of a run;
\* and the teardown releases one thing only.
LEMMA ReleasesTake ==
    ASSUME TypeOK, WorkInv, AliveInv, ResumeInv, Releases
    PROVE  /\ UNCHANGED <<owner, revival, caller>>
           /\ park'.phase = park.phase /\ park'.ref = park.ref /\ park'.session = park.session
           /\ manager' = manager \/ (manager = "open" /\ manager' = "closing")
           /\ \A q \in Refs :
                 \/ run'[q] = run[q]
                 \/ run[q].phase = "settling" /\ run'[q].phase = "done"
           /\ \/ UNCHANGED <<registryVars, life, release>>
              \/ \E k \in Releasers : 
                    /\ ReleaseTakes(k)
                    /\ k = Teardown => manager' # "open"
<1>0. /\ release \in [Releasers -> ReleaseStates] /\ run \in [Refs -> Runs]
      /\ registered \in Refs \union {None} /\ park \in Parks
  BY TypeParts DEF CallTypes, SessionTypes, RegistryTypes, ManagerTypes
<1>1. /\ UNCHANGED <<owner, revival, caller>>
      /\ \A q \in Refs :
            \/ run'[q] = run[q]
            \/ run[q].phase = "settling" /\ run'[q].phase = "done"
  BY ReleasesDo
<1>2. park'.phase = park.phase /\ park'.ref = park.ref /\ park'.session = park.session
  BY ReleasesDo DEF ReleaseDoes
<1>3. manager' = manager \/ (manager = "open" /\ manager' = "closing")
  BY DEF Releases, CancelCalled, CancelReleases, ReleaseResumes, Kill, FinishKilled,
         FinishShutdown, Close
<1>4. Target # None => Target \in Refs
  BY TypeParts DEF Target, RegistryTypes, ManagerTypes, Adoptions
<1>5. ASSUME NEW k \in Releasers, NEW r \in Refs,
             Kill(k, r) \/ FinishKilled(k, r) \/ FinishShutdown(k, r)
      PROVE  ReleaseTakes(k) /\ k # Teardown
  BY <1>5, ReleaseCallTakes DEF Kill, FinishKilled, FinishShutdown
<1>6. ASSUME NEW k \in Releasers, CancelCalled(k)
      PROVE  ReleaseTakes(k) /\ k # Teardown
  <2>1. registered \in Refs /\ release[k].at = "idle" /\ k # Teardown
    BY <1>0, <1>6 DEF CancelCalled
  <2>2. CASE ReleaseCall(k, registered, FALSE)
    BY <2>1, <2>2, ReleaseCallTakes
  <2>3. CASE /\ release' = [release EXCEPT ![k] =
                    [NoRelease EXCEPT !.at = "aborting", !.ref = registered]]
             /\ UNCHANGED <<registryVars, adoption, park, life>>
    BY <1>0, <2>1, <2>3 DEF ReleaseTakes, NoRelease
  <2> QED
    BY <1>6, <2>1, <2>2, <2>3 DEF CancelCalled
<1>7. ASSUME NEW k \in Releasers, CancelReleases(k)
      PROVE  ReleaseTakes(k) /\ (k = Teardown => manager' # "open")
  <2>1. release[k].at = "aborting" /\ manager' = manager
    BY <1>7 DEF CancelReleases
  <2>2. CASE Target # None /\ ReleaseCall(k, Target, FALSE)
    BY <1>4, <2>1, <2>2, ReleaseCallTakes DEF ResumeInv
  <2>3. CASE /\ release' = [release EXCEPT ![k] = NoRelease]
             /\ UNCHANGED <<registryVars, adoption, park, life>>
    BY <1>0, <2>1, <2>3 DEF ReleaseTakes, NoRelease, ResumeInv
  <2> QED
    BY <1>7, <2>2, <2>3 DEF CancelReleases
<1>8. ASSUME NEW k \in Releasers, ReleaseResumes(k)
      PROVE  ReleaseTakes(k) /\ (k = Teardown => manager' # "open")
  <2>1. /\ release[k].at = "parked" /\ release[k].ref \in Refs
        /\ release[k].tombstone \in BOOLEAN /\ manager' = manager
    BY <1>0, <1>8 DEF ReleaseResumes, WorkInv, ReleaseStates
  <2>2. /\ Takes(k, release[k].ref, release[k].tombstone)
        /\ \A j \in Releasers \ {k} : release'[j] = release[j]
    BY <1>8, <2>1, SeizeTakes DEF ReleaseResumes
  <2> QED
    BY <2>1, <2>2 DEF ReleaseTakes, ResumeInv
<1>9. ASSUME Close
      PROVE  \/ UNCHANGED <<registryVars, life, release>>
             \/ ReleaseTakes(Teardown) /\ manager' # "open"
  <2>1. manager = "open" /\ manager' = "closing"
    BY <1>9 DEF Close
  <2>2. CASE Target # None /\ ReleaseCall(Teardown, Target, FALSE)
    BY <1>4, <2>1, <2>2, ReleaseCallTakes, TeardownAssumption DEF ResumeInv
  <2> QED
    BY <1>9, <2>1, <2>2 DEF Close
<1>10. \/ UNCHANGED <<registryVars, life, release>>
       \/ \E k \in Releasers : ReleaseTakes(k) /\ (k = Teardown => manager' # "open")
  BY <1>5, <1>6, <1>7, <1>8, <1>9, TeardownAssumption DEF Releases
<1> QED
  BY <1>1, <1>2, <1>3, <1>10

\* dispose() closes the manager once, and for good.
LEMMA ManagerDoes ==
    ASSUME [Next]_vars
    PROVE  \/ manager' = manager
           \/ manager = "open" /\ manager' = "closing"
           \/ Closed
BY DEF Next, Calls, Microtasks, Environment, Completions, ReleaseStep, RevivalStep,
       EnsureLive, CallerDone, CancelCalled, Kill, ParkCommits, ParkGivesUp, ParkEnds, KeepLive,
       ParkAwaited, ReleaseResumes, ReleaseEnds, Discarded, OneShotEnds, Spawn, Restore,
       ReclaimProbes, FinishIdle, FinishDisposes, SpawnFails, Attach, TurnStarts, TurnEnds,
       FinishKilled, FinishShutdown, TimerFires, Close, DisposeEnds, CancelReleases,
       TombstoneWritten, FactoryReturns, FactoryDeclines, AttachRevived, BuildFails,
       LateBuildFails, ReviverFails, Revived, RevivedTooLate, Reclaimed, ReclaimRefused,
       managerVars, vars

\* A session is attached to a ref that has none left: whoever is alive under the
\* id is being killed, under a ref that a cancellation has let go.
LEMMA AttachAlone ==
    ASSUME IInv, KeptInv, NEW r \in Refs, registered = r, status[r] # "aborted",
           run[r].phase = "starting" \/ revival[r].phase = "building"
    PROVE  \A t \in Sessions : Alive(t) => Killed(t) /\ RowTaken(t) /\ owner[t] # r
<1> SUFFICES ASSUME NEW t \in Sessions, Alive(t)
             PROVE  Killed(t) /\ RowTaken(t) /\ owner[t] # r
  OBVIOUS
<1>1. Kept(t)
  BY DEF KeptInv
<1>2. session[r] = None
  BY DEF IInv, FreshInv, BuildInv
<1>3. ~Hangs(t)
  BY <1>2, NoneAssumption DEF Hangs
<1>4. ~Parked(t)
  BY DEF Parked, IInv, ParkInv, OwnerInv
<1>5. ~Dropped(t)
  BY NoneAssumption DEF Dropped
<1>6. Killed(t) /\ owner[t] # r
  BY <1>1, <1>3, <1>4, <1>5 DEF Kept, Killed
<1>7. RowTaken(t)
  BY <1>6, NoneAssumption DEF Killed, RowTaken, IInv, OwnerInv
<1> QED
  BY <1>6, <1>7

\* An alive session stays accounted for.
LEMMA KeptInvStep ==
    ASSUME IInv, KeptInv, SingleInv, ReadyInv, ResumeInv, [Next]_vars
    PROVE  KeptInv'
<1> USE NoneAssumption DEF registryVars, sessionVars, managerVars, callVars, NoRun, NoAdoption,
        NoPark, NoRevival, NoCall, NoRelease, Unborn
<1> SUFFICES ASSUME NEW s \in Sessions, Alive(s)'
             PROVE  Kept(s)'
  BY DEF KeptInv
<1>0. /\ registered \in Refs \union {None}
      /\ session \in [Refs -> Sessions \union {None}]
      /\ status \in [Refs -> Statuses]
      /\ life \in [Sessions -> Lives]
      /\ owner \in [Sessions -> Refs \union {None}]
      /\ run \in [Refs -> Runs]
      /\ revival \in [Refs -> Revivals]
      /\ release \in [Releasers -> ReleaseStates]
      /\ park \in Parks
      /\ park.phase # "none" => park.ref \in Refs /\ park.session \in Sessions
      /\ Alive(s) => Kept(s)
  BY TypeParts DEF RegistryTypes, SessionTypes, ManagerTypes, CallTypes, Parks, WorkInv, IInv, KeptInv
<1>i. /\ TypeOK /\ WorkInv /\ FreshInv /\ RetiredRefsAreEmpty /\ OwnerInv
      /\ BuildInv /\ WokenInv /\ ParkInv /\ AliveInv
  BY DEF IInv
<1>m. \/ manager' = manager
      \/ manager = "open" /\ manager' = "closing"
      \/ Closed
  BY ManagerDoes
<1>1. CASE Asks
  <2>1. Alive(s) /\ CallDoes
    BY <1>1, <1>i, EnsureLiveDoes DEF Asks, CallDoes, Alive
  <2>2. ~Dropped(s)
    BY <1>1 DEF Asks, EnsureLive, KeepLive, ParkAwaited, Dropped
  <2> QED
    BY <1>0, <2>1, <2>2 DEF CallDoes, Kept, Hangs, Parked, Killed
<1>2. CASE Releases
  <2>1. /\ UNCHANGED <<owner, revival, caller>>
        /\ park'.phase = park.phase /\ park'.ref = park.ref /\ park'.session = park.session
        /\ manager = "closed" => manager' = "closed"
        /\ \A q \in Refs :
              \/ run'[q] = run[q]
              \/ run[q].phase = "settling" /\ run'[q].phase = "done"
    BY <1>2, <1>i, ReleasesTake
  <2>2. CASE UNCHANGED <<registryVars, life, release>>
    BY <1>0, <2>1, <2>2 DEF Alive, Kept, Hangs, Parked, Killed, Dropped
  <2>3. ASSUME NEW k \in Releasers, ReleaseTakes(k)
        PROVE  Kept(s)'
    <3>1. CASE UNCHANGED <<registryVars, life>>
      BY <1>0, <2>1, <2>3, <3>1 DEF ReleaseTakes, Alive, Kept, Hangs, Parked, Killed, Dropped
    <3>2. ASSUME NEW r \in Refs, NEW t \in BOOLEAN, Takes(k, r, t),
                 park.phase = "none" \/ park.ref # r
          PROVE  Kept(s)'
      <4>1. Alive(s) /\ Kept(s)
        <5>1. registered = r /\ session[r] # None => Alive(session[r])
          BY <1>0, <1>i DEF AliveInv, Attached, Alive
        <5> QED
          BY <1>0, <3>2, <5>1 DEF Takes, Alive
      <4>2. CASE Hangs(s)
        BY <1>0, <2>1, <2>3, <3>2, <4>1, <4>2 DEF Takes, Kept, Hangs, Killed
      <4>3. CASE Parked(s)
        <5>1. registered # r
          BY <1>0, <1>i, <3>2, <4>3 DEF Parked, OwnerInv
        <5> QED
          BY <1>0, <2>1, <3>2, <4>1, <4>3, <5>1 DEF Takes, Kept, Parked
      <4>4. CASE Killed(s)
        <5>1. Killed(s)'
          BY <1>0, <2>1, <2>3, <3>2, <4>1, <4>4 DEF ReleaseTakes, Takes, Kept, Killed
        <5> QED
          BY <2>1, <4>1, <5>1 DEF Kept
      <4>5. CASE Dropped(s)
        <5>1. Dropped(s)'
          BY <1>0, <2>1, <3>2, <4>1, <4>5 DEF Takes, Kept, Dropped
        <5> QED
          BY <2>1, <4>1, <5>1 DEF Kept
      <4> QED
        BY <4>1, <4>2, <4>3, <4>4, <4>5 DEF Kept
    <3> QED
      BY <2>3, <3>1, <3>2 DEF ReleaseTakes
  <2> QED
    BY <1>2, <1>i, <2>2, <2>3, ReleasesTake
<1>3. CASE Waits
  <2>1. ASSUME NEW k \in Releasers, ReleaseEnds(k) PROVE Kept(s)'
    <3>1. /\ UNCHANGED <<status, session, sessionVars, run, park, revival, manager, caller>>
          /\ \A j \in Releasers \ {k} : release'[j] = release[j]
          /\ ReleaseReady(k)
          /\ \/ registered' = registered
             \/ ~release[k].tombstone /\ registered = release[k].ref /\ registered' = None
      BY <1>0, <2>1 DEF ReleaseEnds, Unregister
    <3>2. Alive(s) /\ Kept(s)
      BY <1>0, <3>1 DEF Alive
    <3>3. registered' = registered \/ registered # owner[s]
      BY <1>0, <3>1, <3>2 DEF ReadyInv, Over
    <3>4. CASE Hangs(s) \/ Parked(s)
      BY <3>1, <3>2, <3>3, <3>4 DEF Kept, Hangs, Parked
    <3>5. CASE Killed(s)
      <4>1. Killed(s)'
        BY <3>1, <3>2, <3>5 DEF Killed, ReleaseReady, Disposed, Alive
      <4> QED
        BY <3>1, <3>2, <4>1 DEF Kept
    <3>6. CASE Dropped(s)
      <4>1. Dropped(s)'
        BY <3>1, <3>6 DEF Dropped
      <4> QED
        BY <3>1, <3>2, <4>1 DEF Kept
    <3> QED
      BY <3>2, <3>4, <3>5, <3>6 DEF Kept
  <2>2. ASSUME NEW k \in Releasers, TombstoneWritten(k) PROVE Kept(s)'
    <3>1. /\ UNCHANGED <<registryVars, owner, run, park, revival, manager, caller>>
          /\ \A j \in Releasers \ {k} : release'[j] = release[j]
          /\ release[k].at = "writing" /\ release'[k].at = "disposing"
          /\ release'[k].live = release[k].live /\ release'[k].tombstone = release[k].tombstone
          /\ \A u \in Sessions : \/ life'[u] = life[u] /\ (life[u] = "live" => u # release[k].live)
                                 \/ life[u] = "live" /\ life'[u] = "disposing"
      BY <1>0, <2>2 DEF TombstoneWritten, Disposing, ReleaseStates
    <3>2. Alive(s) /\ Kept(s)
      BY <1>0, <3>1 DEF Alive
    <3>3. CASE Killed(s)
      <4>1. PICK j \in Releasers :
               /\ release[j].tombstone /\ release[j].live = s
               /\ \/ release[j].at = "writing"
                  \/ release[j].at = "disposing" /\ life[s] = "disposing"
        BY <3>3 DEF Killed
      <4>2. Killed(s)'
        BY <3>1, <3>2, <3>3, <4>1 DEF Killed, Alive
      <4> QED
        BY <3>1, <3>2, <4>2 DEF Kept
    <3> QED
      BY <3>1, <3>2, <3>3 DEF Kept, Hangs, Parked, Dropped
  <2>3. CASE Reclaimed
    <3>1. /\ UNCHANGED <<status, session, sessionVars, run, park, revival, manager, caller, release>>
          /\ park.phase = "none" /\ session[registered] = None /\ registered' = None
      BY <2>3 DEF Reclaimed, DeadCorpse, Unregister
    <3>2. Alive(s) /\ Kept(s) /\ ~Hangs(s) /\ ~Parked(s)
      BY <1>0, <3>1 DEF Alive, Hangs, Parked
    <3> QED
      BY <3>1, <3>2 DEF Kept, Killed, Dropped
  <2>4. CASE ReclaimRefused \/ (\E r \in Refs : ReclaimProbes(r)) \/ (\E c \in Callers : CallerDone(c))
    <3>1. /\ UNCHANGED <<registryVars, sessionVars, run, park, revival, manager, release>>
          /\ \A c \in Callers : caller'[c] = caller[c] \/ caller'[c].at = "idle"
      <4>1. caller \in [Callers -> CallerStates]
        BY <1>i, TypeParts DEF CallTypes
      <4> QED
        BY <2>4, <4>1 DEF ReclaimRefused, ReclaimProbes, CallerDone
    <3>2. Alive(s) /\ Kept(s)
      BY <1>0, <3>1 DEF Alive
    <3> QED
      BY <3>1, <3>2 DEF Kept, Hangs, Parked, Killed, Dropped
  <2> QED
    BY <1>3, <2>1, <2>2, <2>3, <2>4 DEF Waits
<1>4. CASE Arrives
  <2>1. /\ UNCHANGED <<session, sessionVars, park, revival, caller, release>>
        /\ Alive(s) /\ Kept(s)
    BY <1>0, <1>4, <1>i, ArrivesDo DEF Alive
  <2>2. ASSUME NEW r \in Refs, Spawn(r) \/ Restore(r) PROVE Kept(s)'
    <3>1. /\ registered = None /\ manager = "open" /\ Unborn(r)
          /\ \A q \in Refs \ {r} : status'[q] = status[q]
      BY <1>0, <2>2 DEF Spawn, Restore
    <3>2. Killed(s)
      BY <2>1, <3>1 DEF Kept, Hangs, Parked, Dropped
    <3>3. Killed(s)'
      BY <2>1, <3>1, <3>2 DEF Killed, Kept
    <3> QED
      BY <2>1, <3>3 DEF Kept
  <2>3. ASSUME NEW r \in Refs, SpawnFails(r) PROVE Kept(s)'
    <3>1. /\ run[r].phase = "starting" /\ status' = status /\ manager' = manager
          /\ \A q \in Refs : run'[q] = run[q] \/ run'[q].phase = "done"
          /\ registered' = registered \/ (registered = r /\ registered' = None)
      BY <1>0, <2>3 DEF SpawnFails, Claimable, Unregister
    <3>2. CASE Hangs(s) \/ Parked(s)
      <4>1. owner[s] # r
        BY <1>i, <2>1, <3>1, <3>2 DEF Hangs, Parked, FreshInv, ParkInv, OwnerInv
      <4> QED
        BY <2>1, <3>1, <3>2, <4>1 DEF Kept, Hangs, Parked
    <3>3. CASE Killed(s) \/ Dropped(s)
      BY <2>1, <3>1, <3>3 DEF Kept, Killed, Dropped
    <3> QED
      BY <2>1, <3>2, <3>3 DEF Kept
  <2>4. ASSUME NEW r \in Refs, FinishIdle(r) PROVE Kept(s)'
    <3>1. /\ session[r] # None /\ registered' = registered /\ manager' = manager
          /\ manager # "closed"
          /\ \A q \in Refs \ {r} : status'[q] = status[q]
      BY <1>0, <1>i, <2>4 DEF FinishIdle, RunOver, OwnsRef, WorkInv
    <3>2. ~Dropped(s)
      BY <3>1 DEF Dropped
    <3> QED
      BY <2>1, <3>1, <3>2 DEF Kept, Hangs, Parked, Killed
  <2> QED
    BY <1>4, <2>2, <2>3, <2>4 DEF Arrives
<1>5. CASE Attaches
  <2>1. PICK r \in Refs, u \in Sessions :
              /\ registered = r /\ life[u] = "unborn" /\ status[r] # "aborted"
              /\ UNCHANGED <<registered, park, caller, release>>
              /\ \A q \in Refs : session'[q] = IF q = r THEN u ELSE session[q]
              /\ \A t \in Sessions : /\ life'[t] = IF t = u THEN "live" ELSE life[t]
                                     /\ owner'[t] = IF t = u THEN r ELSE owner[t]
              /\ run[r].phase = "starting" \/ revival[r].phase = "building"
              /\ \A q \in Refs \ {r} : status'[q] = status[q]
    BY <1>5, <1>i, AttachesDo
  <2>2. CASE s = u
    BY <2>1, <2>2 DEF Kept, Hangs
  <2>3. CASE s # u
    <3>1. Alive(s) /\ Kept(s)
      BY <1>0, <2>1, <2>3 DEF Alive
    <3>2. Killed(s) /\ owner[s] # r
      BY <2>1, <3>1, AttachAlone
    <3>3. Killed(s)'
      BY <1>0, <2>1, <2>3, <3>1, <3>2 DEF Killed, Kept
    <3> QED
      BY <2>1, <2>3, <3>1, <3>3 DEF Kept
  <2> QED
    BY <2>2, <2>3
<1>6. CASE Turns
  BY <1>6, <1>0, <1>i, <1>m, TurnsDo DEF Turns, TurnStarts, TurnEnds, Attached, Alive, Kept, Hangs, Parked, Killed, Dropped
<1>7. CASE RunEnds
  <2>1. /\ UNCHANGED <<status, session, owner, park, revival, caller, release>>
        /\ manager' = manager
        /\ \A q \in Refs : run'[q].phase = "starting" => run[q].phase = "starting"
        /\ \A u \in Sessions : life'[u] = life[u] \/ (life[u] = "live" /\ life'[u] = "disposing")
        /\ registered' = registered \/ registered' = None
    BY <1>7, <1>i, RunEndsDo DEF RunEnds, FinishDisposes, OneShotEnds
  <2>2. registered' = registered \/ Over(registered)
    BY <1>7, <1>i DEF RunEnds, FinishDisposes, OneShotEnds, Unregister, ReadyInv
  <2>3. Alive(s) /\ Kept(s)
    BY <1>0, <2>1 DEF Alive
  <2>4. CASE Hangs(s) \/ Parked(s)
    BY <2>1, <2>2, <2>3, <2>4 DEF Kept, Hangs, Parked, Over
  <2>5. CASE Killed(s)
    BY <2>1, <2>3, <2>5 DEF Kept, Killed
  <2>6. CASE Dropped(s)
    BY <2>1, <2>3, <2>6 DEF Kept, Dropped
  <2> QED
    BY <2>3, <2>4, <2>5, <2>6 DEF Kept
<1>8. CASE ParkMoves
  <2>1. /\ UNCHANGED <<registryVars, sessionVars, run, revival>>
        /\ \A k \in Releasers : release'[k] = release[k] \/ release[k].at = "parking"
    BY <1>8, <1>i, ParkMovesDo
  <2>2. Alive(s) /\ Kept(s)
    BY <1>0, <2>1 DEF Alive
  <2>3. CASE Hangs(s)
    BY <2>1, <2>2, <2>3 DEF Kept, Hangs
  <2>4. CASE Parked(s)
    <3>1. ~ParkGivesUp /\ ~ParkEnds
      BY <2>2, <2>4 DEF Parked, ParkGivesUp, ParkEnds, ParkReady, Disposed
    <3>2. CASE Closed
      <4>1. Dropped(s)'
        BY <1>i, <2>1, <2>2, <2>4, <3>2 DEF Closed, Parked, Dropped, WokenInv, ParkInv, Kept, OwnerInv
      <4> QED
        BY <2>1, <2>2, <4>1 DEF Kept
    <3>3. CASE TimerFires
      BY <2>1, <2>2, <2>4, <3>3 DEF TimerFires, Parked, Kept
    <3> QED
      BY <1>8, <3>1, <3>2, <3>3 DEF ParkMoves
  <2>5. CASE Killed(s)
    BY <2>1, <2>2, <2>5 DEF Kept, Killed
  <2>6. CASE Dropped(s)
    <3>1. ~ParkGivesUp /\ ~ParkEnds /\ ~Closed
      BY <2>6 DEF Dropped, ParkGivesUp, ParkEnds, ParkReady, Closed, CloseReady
    <3>2. TimerFires
      BY <1>8, <3>1 DEF ParkMoves
    <3>3. Attached = None
      BY <2>6 DEF Dropped, Attached
    <3>4. Dropped(s)'
      BY <2>1, <2>6, <3>2, <3>3 DEF TimerFires, Dropped
    <3> QED
      BY <2>1, <2>2, <3>4 DEF Kept
  <2> QED
    BY <2>2, <2>3, <2>4, <2>5, <2>6 DEF Kept
<1>9. CASE ParkCommits
  <2>1. /\ park.ref \in Refs /\ park.session \in Sessions /\ park.phase = "started"
        /\ registered = park.ref /\ session[park.ref] = park.session
        /\ UNCHANGED <<registered, owner, turn, run, revival, caller, release>>
        /\ park'.phase = "disposing" /\ park'.ref = park.ref /\ park'.session = park.session
        /\ \A q \in Refs :
              IF q = park.ref THEN session'[q] = None /\ status'[q] = "parked"
              ELSE session'[q] = session[q] /\ status'[q] = status[q]
        /\ \A u \in Sessions :
              life'[u] = life[u] \/ (u = park.session /\ life'[u] = "disposing")
    BY <1>9, <1>i, ParkCommitsDoes
  <2>2. Alive(park.session) /\ (life'[park.session] # "live")
    BY <1>0, <1>9, <1>i, <2>1 DEF AliveInv, Attached, Alive, ParkCommits, Disposing
  <2>3. Alive(s) /\ Kept(s)
    BY <1>0, <2>1, <2>2 DEF Alive
  <2>4. CASE Hangs(s)
    BY <2>1, <2>2, <2>3, <2>4 DEF Kept, Hangs, Parked, Alive
  <2>5. CASE Killed(s)
    <3>1. Killed(s)'
      BY <1>0, <2>1, <2>2, <2>3, <2>5 DEF Kept, Killed
    <3> QED
      BY <2>1, <2>3, <3>1 DEF Kept
  <2>6. ~Parked(s) /\ ~Dropped(s)
    BY <2>1 DEF Parked, Dropped
  <2> QED
    BY <2>3, <2>4, <2>5, <2>6 DEF Kept
<1>10. CASE Revives
  <2>1. /\ UNCHANGED <<registered, session, owner, turn, run, park, release>>
        /\ \A q \in Refs :
              /\ revival'[q].phase \in {"probing", "building"} => revival'[q] = revival[q]
              /\ status'[q] = status[q] \/ status[q] = "running"
        /\ \A u \in Sessions : life'[u] = life[u] \/ (life[u] = "live" /\ life'[u] = "disposing")
        /\ \A c \in Callers : caller'[c] = caller[c] \/ caller'[c].at \in {"idle", "returned"}
    BY <1>10, <1>i, RevivesDo
  <2>2. Alive(s) /\ Kept(s)
    BY <1>0, <2>1 DEF Alive
  <2>3. manager' = manager
    BY <1>10 DEF Revives, Discarded, FactoryDeclines, BuildFails, LateBuildFails,
       ReviverFails, Revived, RevivedTooLate
  <2> QED
    BY <2>1, <2>2, <2>3 DEF Kept, Hangs, Parked, Killed, Dropped
<1>11. CASE FactoryAnswers
  BY <1>11, <1>0, <1>i, <1>m, FactoryDoes DEF FactoryAnswers, FactoryReturns, Alive, Kept, Hangs, Parked, Killed, Dropped
<1>12. CASE Disposes
  <2>1. PICK u \in Sessions : DisposeEnds(u)
    BY <1>12 DEF Disposes
  <2>2. /\ UNCHANGED <<status, session, owner, park, revival, manager, caller, release>>
        /\ \A t \in Sessions : life'[t] = IF t = u THEN "disposed" ELSE life[t]
        /\ registered' = registered \/ (registered = owner[u] /\ registered' = None)
        /\ life[u] = "disposing"
    BY <1>0, <2>1 DEF DisposeEnds, Unregister
  <2>3. \A q \in Refs : run'[q].phase = "starting" => run[q].phase = "starting"
    BY <1>i, <2>1, SettlingDoes DEF DisposeEnds
  <2>4. Alive(s) /\ Kept(s) /\ s # u
    BY <1>0, <2>2 DEF Alive
  <2>5. owner[s] # owner[u]
    BY <2>2, <2>4 DEF SingleInv, Alive
  <2>6. CASE Hangs(s) \/ Parked(s)
    BY <2>2, <2>4, <2>5, <2>6 DEF Kept, Hangs, Parked
  <2>7. CASE Killed(s)
    BY <2>2, <2>4, <2>7 DEF Kept, Killed
  <2>8. CASE Dropped(s)
    BY <2>2, <2>3, <2>4, <2>8 DEF Kept, Dropped
  <2> QED
    BY <2>4, <2>6, <2>7, <2>8 DEF Kept
<1>13. CASE UNCHANGED vars
  BY <1>13, <1>0 DEF vars, Alive, Kept, Hangs, Parked, Killed, Dropped
<1> QED
  BY NextCases, <1>1, <1>2, <1>3, <1>4, <1>5, <1>6, <1>7, <1>8, <1>9, <1>10, <1>11, <1>12, <1>13

\* What a session goes through, the phases of a park, who sets `aborted', and how a
\* plain release and a one-shot finalizer come to wait for a dispose
LEMMA StepDoes ==
    ASSUME IInv, ResumeInv, [Next]_vars
    PROVE  /\ ~Attaches =>
                 \A s \in Sessions : /\ owner'[s] = owner[s] /\ (Alive(s)' => Alive(s))
                                     /\ life[s] = "disposed" => life'[s] = "disposed"
           /\ park'.phase = "disposing" =>
                 \/ ParkCommits
                 \/ /\ park.phase = "disposing" /\ park'.ref = park.ref
                    /\ park'.session = park.session
           /\ \A q \in Refs : status'[q] = "aborted" => status[q] = "aborted" \/ Releases
           /\ \A k \in Releasers :
                 release'[k].at = "disposing" /\ ~release'[k].tombstone =>
                    \/ release'[k] = release[k]
                    \/ release'[k].live \in Sessions /\ life'[release'[k].live] # "disposed"
           /\ \A r \in Refs : run'[r].phase = "disposing" =>
                 \/ run'[r] = run[r]
                 \/ run'[r].session \in Sessions /\ life'[run'[r].session] # "disposed"
<1> USE NoneAssumption DEF registryVars, sessionVars, managerVars, callVars, NoRun, NoAdoption,
        NoPark, NoRevival, NoCall, NoRelease, Unborn
<1>0. /\ registered \in Refs \union {None}
      /\ session \in [Refs -> Sessions \union {None}]
      /\ status \in [Refs -> Statuses]
      /\ life \in [Sessions -> Lives]
      /\ owner \in [Sessions -> Refs \union {None}]
      /\ run \in [Refs -> Runs]
      /\ revival \in [Refs -> Revivals]
      /\ release \in [Releasers -> ReleaseStates]
      /\ park \in Parks
      /\ park.phase # "none" => park.ref \in Refs /\ park.session \in Sessions
  BY TypeParts DEF RegistryTypes, SessionTypes, ManagerTypes, CallTypes, Parks, WorkInv, IInv
<1>i. /\ TypeOK /\ WorkInv /\ FreshInv /\ RetiredRefsAreEmpty /\ OwnerInv
      /\ BuildInv /\ WokenInv /\ ParkInv /\ AliveInv
  BY DEF IInv
<1>1. CASE Asks
  BY <1>1, <1>0, <1>i, EnsureLiveDoes DEF Asks, CallDoes, Alive
<1>2. CASE Releases
  <2>1. /\ UNCHANGED owner /\ park'.phase = park.phase /\ park'.ref = park.ref
        /\ park'.session = park.session
        /\ \A q \in Refs : run'[q] = run[q] \/ run'[q].phase = "done"
    BY <1>2, <1>i, ReleasesTake
  <2>2. /\ \A s \in Sessions :
              /\ Alive(s)' => Alive(s)
              /\ life[s] = "disposed" => life'[s] = "disposed"
        /\ \A k \in Releasers :
              release'[k].at = "disposing" /\ ~release'[k].tombstone =>
                 \/ release'[k] = release[k]
                 \/ release'[k].live \in Sessions /\ life'[release'[k].live] # "disposed"
    <3>1. CASE UNCHANGED <<registryVars, life, release>>
      BY <3>1 DEF Alive
    <3>2. ASSUME NEW k \in Releasers, ReleaseTakes(k), UNCHANGED <<registryVars, life>>,
                 release'[k].at \in {"idle", "aborting", "parking"}
          PROVE  <2>2!:
      BY <3>2 DEF ReleaseTakes, Alive
    <3>3. ASSUME NEW k \in Releasers, \A j \in Releasers \ {k} : release'[j] = release[j],
                 NEW r \in Refs, NEW t \in BOOLEAN, Takes(k, r, t)
          PROVE  <2>2!:
      <4>1. registered = r /\ session[r] # None => session[r] \in Sessions /\ Alive(session[r])
        BY <1>0, <1>i DEF AliveInv, Attached, Alive
      <4>2. \A j \in Releasers :
               release'[j].at = "disposing" /\ ~release'[j].tombstone =>
                 \/ release'[j] = release[j]
                 \/ release'[j].live \in Sessions /\ life'[release'[j].live] # "disposed"
        BY <1>0, <3>3, <4>1 DEF Takes, Alive
      <4>3. \A s \in Sessions :
               /\ Alive(s)' => Alive(s)
               /\ life[s] = "disposed" => life'[s] = "disposed"
        BY <1>0, <3>3, <4>1 DEF Takes, Alive
      <4> QED
        BY <4>2, <4>3
    <3> QED
      BY <1>2, <1>i, <3>1, <3>2, <3>3, ReleasesTake DEF ReleaseTakes
  <2> QED
    BY <1>2, <2>1, <2>2
<1>3. CASE Waits
  BY <1>3, <1>0, <1>i DEF Waits, ReleaseEnds, TombstoneWritten, CallerDone, Reclaimed,
         ReclaimRefused, ReclaimProbes, Unregister, Disposing, ReleaseStates, Alive, ResumeInv
<1>4. CASE Arrives
  BY <1>4, <1>0, <1>i, ArrivesDo DEF Alive
<1>5. CASE Attaches
  BY <1>5, <1>0, <1>i, AttachesDo DEF Alive
<1>6. CASE Turns
  BY <1>6, <1>0, <1>i, TurnsDo DEF Alive
<1>7. CASE RunEnds
  <2>1. /\ UNCHANGED <<status, owner, park, release>>
        /\ \A s \in Sessions : life'[s] = life[s] \/ (life[s] = "live" /\ life'[s] = "disposing")
    BY <1>7, <1>i, RunEndsDo
  <2>2. \A r \in Refs : run'[r].phase = "disposing" =>
           \/ run'[r] = run[r]
           \/ run'[r].session \in Sessions /\ life'[run'[r].session] # "disposed"
    <3>1. ASSUME NEW r \in Refs, FinishDisposes(r), run'[r].phase = "disposing"
          PROVE  run'[r].session \in Sessions /\ life'[run'[r].session] # "disposed"
      <4>1. /\ OwnsRef(r) /\ run'[r].session = run[r].session /\ run[r].phase = "settling"
        BY <1>0, <3>1 DEF FinishDisposes, RunOver, Runs
      <4>2. run[r].session \in Sessions
        BY <1>0, <1>i, <4>1 DEF WorkInv, Runs
      <4>3. Alive(run[r].session)
        BY <1>0, <1>i, <4>1, <4>2 DEF OwnsRef, AliveInv, Attached, Alive
      <4> QED
        BY <2>1, <4>1, <4>2, <4>3 DEF Alive
    <3>2. ASSUME NEW r \in Refs, FinishDisposes(r) \/ OneShotEnds(r)
          PROVE  /\ \A q \in Refs \ {r} : run'[q] = run[q]
                 /\ OneShotEnds(r) => run'[r].phase = "done"
      <4>1. \E phase \in {"disposing", "done"} : run' = [run EXCEPT ![r].phase = phase]
        BY <3>2 DEF FinishDisposes, RunOver, OneShotEnds
      <4>2. OneShotEnds(r) => run' = [run EXCEPT ![r].phase = "done"]
        BY DEF OneShotEnds
      <4> QED
        BY <1>0, <4>1, <4>2 DEF Runs
    <3>3. PICK r \in Refs : FinishDisposes(r) \/ OneShotEnds(r)
      BY <1>7 DEF RunEnds
    <3>4. run'[r].phase = "disposing" => run'[r].session \in Sessions /\ life'[run'[r].session] # "disposed"
      BY <3>1, <3>2, <3>3 DEF Alive
    <3> QED
      BY <3>2, <3>3, <3>4
  <2> QED
    BY <1>0, <2>1, <2>2 DEF Alive
<1>8. CASE ParkMoves
  BY <1>8, <1>0, <1>i, ParkMovesDo DEF Alive
<1>9. CASE ParkCommits
  BY <1>9, <1>0, <1>i, ParkCommitsDoes DEF Alive, AliveInv, Attached
<1>10. CASE Revives
  BY <1>10, <1>0, <1>i, RevivesDo DEF Alive
<1>11. CASE FactoryAnswers
  BY <1>11, <1>0, <1>i DEF FactoryAnswers, FactoryReturns, Alive
<1>12. CASE Disposes
  BY <1>12, <1>0, <1>i, SettlingDoes DEF Disposes, DisposeEnds, Unregister, Alive
<1>13. CASE UNCHANGED vars
  BY <1>13, <1>0 DEF vars, Alive
<1> QED
  BY NextCases, <1>1, <1>2, <1>3, <1>4, <1>5, <1>6, <1>7, <1>8, <1>9, <1>10, <1>11, <1>12, <1>13

\* A step of a release waits for parks and for the teardown's own release only.
LEMMA ResumeInvStep ==
    ASSUME IInv, ResumeInv, [Next]_vars
    PROVE  ResumeInv'
<1> USE NoneAssumption, TeardownAssumption DEF registryVars, sessionVars, managerVars, callVars, NoRun, NoAdoption,
        NoPark, NoRevival, NoCall, NoRelease, Unborn, ResumeInv
<1>0. /\ release \in [Releasers -> ReleaseStates]
      /\ park \in Parks
  BY TypeParts DEF ManagerTypes, CallTypes, IInv
<1>i. /\ TypeOK /\ WorkInv /\ FreshInv /\ RetiredRefsAreEmpty /\ OwnerInv
      /\ BuildInv /\ WokenInv /\ ParkInv /\ AliveInv
  BY DEF IInv
<1>m. \/ manager' = manager
      \/ manager = "open" /\ manager' = "closing"
      \/ Closed
  BY ManagerDoes
<1>1. CASE Asks
  BY <1>1, <1>i, <1>m, EnsureLiveDoes DEF Asks, CallDoes, Closed
<1>2. CASE Releases
  BY <1>2, <1>0, <1>i, <1>m, ReleasesTake DEF ReleaseTakes, Takes
<1>3. CASE Waits
  <2>1. UNCHANGED <<park, manager>>
    BY <1>3 DEF Waits, ReleaseEnds, TombstoneWritten, CallerDone, Reclaimed,
       ReclaimRefused, ReclaimProbes
  <2>2. \A k \in Releasers :
           \/ release'[k] = release[k]
           \/ release'[k].at = "idle"
           \/ /\ release[k].at = "writing" /\ release'[k].at = "disposing"
              /\ release'[k].tombstone = release[k].tombstone
    BY <1>0, <1>3 DEF Waits, ReleaseEnds, TombstoneWritten, CallerDone, Reclaimed,
       ReclaimRefused, ReclaimProbes, ReleaseStates
  <2> QED
    BY <2>1, <2>2
<1>4. CASE Arrives
  BY <1>4, <1>i, <1>m, ArrivesDo DEF Closed
<1>5. CASE Attaches
  BY <1>5, <1>i, <1>m, AttachesDo DEF Closed
<1>6. CASE Turns
  BY <1>6, <1>i, <1>m, TurnsDo DEF Closed
<1>7. CASE RunEnds
  BY <1>7, <1>i, <1>m, RunEndsDo DEF Closed
<1>8. CASE ParkMoves
  BY <1>8, <1>0, <1>m DEF ParkMoves, ParkGivesUp, ParkEnds, ParkReturns, Closed, TimerFires, Drained, ReleaseStates
<1>9. CASE ParkCommits
  BY <1>9, <1>i, <1>m, ParkCommitsDoes DEF Closed
<1>10. CASE Revives
  BY <1>10, <1>i, <1>m, RevivesDo DEF Closed
<1>11. CASE FactoryAnswers
  BY <1>11, <1>m DEF FactoryAnswers, FactoryReturns, Closed
<1>12. CASE Disposes
  BY <1>12, <1>m DEF Disposes, DisposeEnds, Closed
<1>13. CASE UNCHANGED vars
  BY <1>13 DEF vars
<1> QED
  BY NextCases, <1>1, <1>2, <1>3, <1>4, <1>5, <1>6, <1>7, <1>8, <1>9, <1>10, <1>11, <1>12, <1>13

\* A park that has detached its session keeps its ref registered and parked.
LEMMA ParkedInvStep ==
    ASSUME IInv, IInv', KeptInv', ParkedInv, ResumeInv, [Next]_vars
    PROVE  ParkedInv'
<1> SUFFICES ASSUME park'.phase = "disposing", NEW s, s = park'.session,
                    life'[s] # "disposed"
             PROVE  Parked(s)'
  BY DEF ParkedInv, Parked
<1>0. /\ TypeOK /\ RegistryTypes' /\ SessionTypes' /\ ManagerTypes'
  BY TypeParts, PTL DEF IInv
<1>1. /\ s \in Sessions /\ owner'[s] = park'.ref /\ park'.ref \in Refs
      /\ session'[park'.ref] = None /\ life'[s] # "unborn"
  BY <1>0, NoneAssumption
     DEF IInv, SessionTypes, ManagerTypes, Parks, WorkInv, OwnerInv, ParkInv
<1>2. Alive(s)'
  BY <1>0, <1>1 DEF SessionTypes, Alive, Lives
<1>3. Kept(s)'
  BY <1>1, <1>2 DEF KeptInv
<1>4. ~Hangs(s)' /\ ~Dropped(s)'
  BY <1>1, NoneAssumption DEF Hangs, Dropped
<1>5. status'[park'.ref] # "aborted"
  <2>1. CASE ParkCommits
    BY <1>1, <2>1, ParkCommitsDoes DEF IInv
  <2>2. CASE ~ParkCommits
    <3>1. park.phase = "disposing" /\ park'.ref = park.ref /\ park'.session = s
          /\ park.session = s
      BY <2>2, StepDoes
    <3>2. life[s] # "disposed"
      BY <1>1, <1>2, <3>1, StepDoes, AttachesDo DEF Alive, IInv
    <3>3. Parked(s)
      BY <3>1, <3>2 DEF ParkedInv
    <3>4. CASE ~Releases
      BY <1>1, <3>1, <3>3, <3>4, StepDoes DEF Parked, IInv, OwnerInv
    <3>5. CASE Releases
      <4>1. \A k \in Releasers, r \in Refs, t \in BOOLEAN :
               Takes(k, r, t) /\ park.ref # r => status'[park.ref] = status[park.ref]
        <5>1. status \in [Refs -> Statuses] /\ park.ref \in Refs
          BY <1>0, <1>1, <3>1, TypeParts DEF RegistryTypes
        <5> QED
          BY <5>1 DEF Takes, registryVars
      <4>2. status'[park.ref] = status[park.ref]
        BY <3>1, <3>5, <4>1, ReleasesTake DEF IInv, ReleaseTakes, registryVars
      <4>3. owner[s] = park.ref
        BY <1>1, <3>1 DEF IInv, OwnerInv
      <4> QED
        BY <3>1, <3>3, <4>2, <4>3 DEF Parked
    <3> QED
      BY <3>4, <3>5
  <2> QED
    BY <2>1, <2>2
<1>6. ~Killed(s)'
  BY <1>1, <1>5 DEF Killed
<1> QED
  BY <1>3, <1>4, <1>6 DEF Kept

\* A session of the ref a revival or a run attaches is the only one, and an end
\* leaves fewer.
LEMMA SingleInvStep ==
    ASSUME IInv, KeptInv, SingleInv, ResumeInv, [Next]_vars
    PROVE  SingleInv'
<1>1. CASE Attaches
  <2>1. PICK r \in Refs, u \in Sessions :
              /\ registered = r /\ status[r] # "aborted"
              /\ \A t \in Sessions : /\ life'[t] = IF t = u THEN "live" ELSE life[t]
                                     /\ owner'[t] = IF t = u THEN r ELSE owner[t]
              /\ run[r].phase = "starting" \/ revival[r].phase = "building"
    BY <1>1, AttachesDo DEF IInv
  <2>2. \A t \in Sessions : Alive(t) => owner[t] # r
    BY <2>1, AttachAlone
  <2> QED
    BY <2>1, <2>2 DEF SingleInv, Alive
<1>2. CASE ~Attaches
  BY <1>2, StepDoes DEF SingleInv
<1> QED
  BY <1>1, <1>2

\* A release that has seized its session keeps it until it is disposed, and the
\* id is taken again only by a ref that was never registered.
LEMMA SeizedStays ==
    ASSUME IInv, ResumeInv, [Next]_vars
    PROVE  /\ \A k \in Releasers : release[k].at \in {"writing", "disposing"} =>
                 \/ ReleaseReady(k)
                 \/ /\ release'[k].at \in {"writing", "disposing"}
                    /\ release'[k].tombstone = release[k].tombstone
                    /\ release'[k].live = release[k].live /\ release'[k].ref = release[k].ref
           /\ \/ registered' \in {registered, None}
              \/ /\ registered = None /\ registered' \in Refs /\ Unborn(registered')
                 /\ Drained /\ manager = "open"
<1>0. /\ registered \in Refs \union {None}
      /\ release \in [Releasers -> ReleaseStates]
  BY TypeParts DEF RegistryTypes, CallTypes, IInv
<1>i. TypeOK /\ WorkInv /\ WokenInv /\ AliveInv
  BY DEF IInv
<1>1. CASE Asks
  BY <1>1, <1>i, EnsureLiveDoes DEF Asks, CallDoes, registryVars
<1>2. CASE Releases
  BY <1>2, <1>0, <1>i, ReleasesTake DEF ReleaseTakes, Takes, registryVars
<1>3. CASE Waits
  BY <1>3, <1>0 DEF Waits, ReleaseEnds, TombstoneWritten, CallerDone, Reclaimed,
         ReclaimRefused, ReclaimProbes, Unregister, ReleaseStates, registryVars
<1>4. CASE Arrives
  <2>1. PICK r \in Refs : Spawn(r) \/ Restore(r) \/ SpawnFails(r) \/ FinishIdle(r)
    BY <1>4 DEF Arrives
  <2>2. CASE Spawn(r) \/ Restore(r)
    BY <1>4, <2>2 DEF Arrives, Spawn, Restore, callVars
  <2>3. CASE SpawnFails(r) \/ FinishIdle(r)
    BY <2>3 DEF SpawnFails, FinishIdle, Unregister, callVars
  <2> QED
    BY <2>1, <2>2, <2>3
<1>5. CASE Attaches
  BY <1>5, <1>i, AttachesDo
<1>6. CASE Turns
  BY <1>6, <1>i, TurnsDo
<1>7. CASE RunEnds
  BY <1>7, <1>i, RunEndsDo
<1>8. CASE ParkMoves
  BY <1>8, <1>i, ParkMovesDo DEF registryVars
<1>9. CASE ParkCommits
  BY <1>9, <1>i, ParkCommitsDoes
<1>10. CASE Revives
  BY <1>10, <1>i, RevivesDo
<1>11. CASE FactoryAnswers
  BY <1>11 DEF FactoryAnswers, FactoryReturns, registryVars
<1>12. CASE Disposes
  BY <1>12 DEF Disposes, DisposeEnds, Unregister, callVars
<1>13. CASE UNCHANGED vars
  BY <1>13 DEF vars, registryVars, callVars
<1> QED
  BY NextCases, <1>1, <1>2, <1>3, <1>4, <1>5, <1>6, <1>7, <1>8, <1>9, <1>10, <1>11, <1>12, <1>13

\* An id that a cancellation has let go while a kill was taking its session down
\* does not come back to the killed ref.
LEMMA RowStaysTaken ==
    ASSUME IInv, KeptInv, ResumeInv, [Next]_vars, NEW s \in Sessions,
           Alive(s), RowTaken(s)
    PROVE  RowTaken(s)'
<1>0. release \in [Releasers -> ReleaseStates]
  BY TypeParts DEF CallTypes, IInv
<1>1. PICK k \in Releasers :
         /\ release[k].at \in {"writing", "disposing"} /\ release[k].tombstone
         /\ release[k].live = s /\ registered # release[k].ref
  BY DEF RowTaken
<1>2. release[k].ref \in Refs /\ owner[s] = release[k].ref
  BY <1>0, <1>1, NoneAssumption DEF IInv, OwnerInv, ReleaseStates
<1>3. ~ReleaseReady(k)
  BY <1>1, NoneAssumption DEF ReleaseReady, Disposed, Alive
<1>4. /\ release'[k].at \in {"writing", "disposing"} /\ release'[k].tombstone
      /\ release'[k].live = s /\ release'[k].ref = release[k].ref
  BY <1>1, <1>3, SeizedStays
<1>5. registered' # release[k].ref
  <2>1. CASE registered' \in {registered, None}
    BY <1>1, <1>2, <2>1, NoneAssumption
  <2>2. CASE registered = None /\ Unborn(registered') /\ manager = "open"
    <3>1. Killed(s) \/ Parked(s)
      BY <1>2, <2>2, NoneAssumption DEF KeptInv, Kept, Hangs, Parked, Dropped
    <3> QED
      BY <1>2, <2>2, <3>1 DEF Unborn, Killed, Parked
  <2> QED
    BY <2>1, <2>2, SeizedStays
<1> QED
  BY <1>4, <1>5 DEF RowTaken

\* There is one writer: a new session is attached when the last one is disposed,
\* or is being killed under a ref that has lost its row.
LEMMA WriterInvStep ==
    ASSUME IInv, KeptInv, WriterInv, ResumeInv, [Next]_vars
    PROVE  WriterInv'
<1>1. CASE Attaches
  <2>1. PICK r \in Refs, u \in Sessions :
              /\ registered = r /\ status[r] # "aborted"
              /\ UNCHANGED <<registered, release>>
              /\ \A t \in Sessions : life'[t] = IF t = u THEN "live" ELSE life[t]
              /\ run[r].phase = "starting" \/ revival[r].phase = "building"
    BY <1>1, AttachesDo DEF IInv
  <2>2. \A t \in Sessions : Alive(t) => RowTaken(t)
    BY <2>1, AttachAlone
  <2>3. \A t \in Sessions : RowTaken(t)' <=> RowTaken(t)
    BY <2>1 DEF RowTaken
  <2> QED
    BY <2>1, <2>2, <2>3 DEF WriterInv, Alive
<1>2. CASE ~Attaches
  <2>1. \A t \in Sessions : Alive(t)' => Alive(t) /\ (RowTaken(t) => RowTaken(t)')
    BY <1>2, StepDoes, RowStaysTaken
  <2> QED
    BY <2>1 DEF WriterInv
<1> QED
  BY <1>1, <1>2

\* Whoever waits for a dispose has seen the last session of its ref end.
LEMMA ReadyInvStep ==
    ASSUME IInv, IInv', KeptInv, SingleInv, ReadyInv, ResumeInv, ResumeInv', [Next]_vars
    PROVE  ReadyInv'
<1>0. /\ TypeOK /\ SessionTypes' /\ CallTypes' /\ SessionTypes
  BY TypeParts, PTL DEF IInv
<1>1. ASSUME NEW u \in Sessions, life'[u] = "disposed", ~Attaches,
             NEW t \in Sessions, Alive(t)', owner'[t] = owner'[u]
      PROVE  life[u] = "disposed" /\ Alive(t) /\ owner[t] = owner[u]
  <2>1. Alive(t) /\ owner[t] = owner[u] /\ owner[u] \in Refs
    BY <1>1, StepDoes DEF KeptInv, Kept
  <2>2. ~Alive(u)
    BY <1>1, <2>1 DEF SingleInv, Alive
  <2> QED
    BY <1>0, <2>1, <2>2, NoneAssumption DEF IInv, OwnerInv, SessionTypes, Lives, Alive
<1>2. ASSUME NEW k \in Releasers, ReleaseReady(k)', ~release'[k].tombstone,
             NEW t \in Sessions, owner'[t] = release'[k].ref, Alive(t)'
      PROVE  FALSE
  <2>1. PICK u : u = release'[k].live
    OBVIOUS
  <2>2. /\ release'[k].at = "disposing" /\ u \in Sessions /\ life'[u] = "disposed"
        /\ owner'[u] = release'[k].ref
    BY <1>0, <1>2, <2>1 DEF ReleaseReady, Disposed, ResumeInv, IInv, OwnerInv, CallTypes, ReleaseStates
  <2>3. CASE Attaches
    BY <2>1, <2>2, <2>3, AttachesDo DEF IInv, Attaches, Drained, ReleaseReady, Disposed
  <2>4. CASE ~Attaches
    BY <1>1, <1>2, <2>1, <2>2, <2>4, StepDoes DEF ReadyInv, ReleaseReady, Disposed, Over
  <2> QED
    BY <2>3, <2>4
<1>3. ASSUME NEW r \in Refs, OneShotReady(r)',
             NEW t \in Sessions, owner'[t] = r, Alive(t)'
      PROVE  FALSE
  <2>1. PICK u : u = run'[r].session
    OBVIOUS
  <2>2. /\ run'[r].phase = "disposing" /\ u \in Sessions /\ life'[u] = "disposed"
        /\ owner'[u] = r
    BY <1>0, <1>3, <2>1 DEF OneShotReady, Disposed, IInv, WorkInv, OwnerInv, SessionTypes, Runs
  <2>3. CASE Attaches
    BY <2>1, <2>2, <2>3, AttachesDo DEF IInv, Attaches, Drained, OneShotReady, Disposed
  <2>4. CASE ~Attaches
    BY <1>1, <1>3, <2>1, <2>2, <2>4, StepDoes DEF ReadyInv, OneShotReady, Disposed, Over
  <2> QED
    BY <2>3, <2>4
<1> QED
  BY <1>2, <1>3 DEF ReadyInv, Over

\* A park is of the registered ref, and finds its session or none when it goes on.
ParkRefInv ==
    /\ park.phase # "none" => registered \in {park.ref, None}
    /\ park.phase = "started" => session[park.ref] \in {park.session, None}

\* Who cancels a park, or has, did so for the ref that was parked.
CancelInv ==
    manager = "open" => \A c \in Callers :
        /\ caller[c].at = "cancelling" => park.phase # "none" /\ caller[c].ref = park.ref
        /\ caller[c].at = "cancelled" => registered \in {caller[c].ref, None}

\* An idle adopted agent that is not parked has its timer, or a caller is about to
\* arm it: the one that cancels the park, or has.
Wanted ==
    /\ manager = "open" /\ adoption.ref # None /\ adoption.ref = registered
    /\ status[registered] = "idle" /\ Attached # None /\ life[Attached] = "live"
TimerInv ==
    Wanted /\ ~adoption.timer =>
        /\ \/ park.phase # "none"
           \/ \E c \in Callers : caller[c].at = "cancelled"
        /\ park.phase = "started" /\ park.cancelled =>
              \E c \in Callers : caller[c].at = "cancelling"

\* A park stays of the registered ref, and only others take its session off it.
LEMMA ParkRefInvStep ==
    ASSUME IInv, ParkedInv, ParkRefInv, ResumeInv, [Next]_vars
    PROVE  ParkRefInv'
<1>0. /\ registered \in Refs \union {None} /\ park \in Parks
      /\ session \in [Refs -> Sessions \union {None}]
      /\ park.phase # "none" => park.ref \in Refs /\ park.session \in Sessions
  BY TypeParts DEF RegistryTypes, ManagerTypes, Parks, WorkInv, IInv
<1>i. TypeOK /\ WorkInv /\ WokenInv /\ AliveInv
  BY DEF IInv
<1>1. \/ /\ park'.phase = park.phase /\ park'.ref = park.ref /\ park'.session = park.session
      \/ park'.phase = "none"
      \/ ParkCommits
      \/ /\ UNCHANGED registryVars
         /\ registered # None
         /\ park'.phase = "started" /\ park'.ref = registered /\ park'.session = Attached
  <2>1. CASE Asks
    BY <2>1, <1>i, EnsureLiveDoes DEF Asks, CallDoes
  <2>2. CASE Releases
    BY <2>2, <1>i, ReleasesTake
  <2>3. CASE Waits
    BY <2>3 DEF Waits, ReleaseEnds, TombstoneWritten, CallerDone, Reclaimed,
       ReclaimRefused, ReclaimProbes, managerVars
  <2>4. CASE Arrives
    BY <2>4, <1>i, ArrivesDo
  <2>5. CASE Attaches
    BY <2>5, <1>i, AttachesDo
  <2>6. CASE Turns
    BY <2>6, <1>i, TurnsDo
  <2>7. CASE RunEnds
    BY <2>7, <1>i, RunEndsDo
  <2>8. CASE ParkMoves
    BY <2>8, <1>i, ParkMovesDo DEF NoPark
  <2>9. CASE Revives
    BY <2>9, <1>i, RevivesDo
  <2>10. CASE FactoryAnswers
    BY <2>10 DEF FactoryAnswers, FactoryReturns
  <2>11. CASE Disposes
    BY <2>11 DEF Disposes, DisposeEnds
  <2>12. CASE UNCHANGED vars
    BY <2>12 DEF vars, managerVars
  <2> QED
    BY NextCases, <2>1, <2>2, <2>3, <2>4, <2>5, <2>6, <2>7, <2>8, <2>9, <2>10, <2>11, <2>12
<1>2. park.phase # "none" => registered' \in {registered, None}
  <2>1. ASSUME park.phase # "none", Drained, registered = None
        PROVE  FALSE
    <3>1. park.phase = "disposing" /\ life[park.session] # "disposed"
      BY <1>0, <2>1, NoneAssumption DEF Drained, ParkReady, Disposed, Parks
    <3>2. Parked(park.session) /\ owner[park.session] \in Refs
      BY <1>0, <3>1 DEF ParkedInv, IInv, OwnerInv
    <3> QED
      BY <2>1, <3>2, NoneAssumption DEF Parked
  <2> QED
    BY <2>1, SeizedStays
<1>3. \A q \in Refs : park.phase = "started" => session'[q] \in {session[q], None}
  <2> USE DEF registryVars
  <2>1. CASE Asks
    BY <2>1, <1>i, EnsureLiveDoes DEF Asks, CallDoes
  <2>2. CASE Releases
    BY <2>2, <1>0, <1>i, ReleasesDo DEF ReleaseDoes
  <2>3. CASE Waits
    BY <2>3 DEF Waits, ReleaseEnds, TombstoneWritten, CallerDone, Reclaimed,
       ReclaimRefused, ReclaimProbes
  <2>4. CASE Arrives
    BY <2>4, <1>i, ArrivesDo
  <2>5. CASE Attaches
    BY <2>5 DEF Attaches, Drained
  <2>6. CASE Turns
    BY <2>6, <1>i, TurnsDo
  <2>7. CASE RunEnds
    BY <2>7, <1>i, RunEndsDo
  <2>8. CASE ParkMoves
    BY <2>8, <1>i, ParkMovesDo
  <2>9. CASE ParkCommits
    BY <2>9, <1>i, ParkCommitsDoes
  <2>10. CASE Revives
    BY <2>10, <1>i, RevivesDo
  <2>11. CASE FactoryAnswers
    BY <2>11 DEF FactoryAnswers, FactoryReturns
  <2>12. CASE Disposes
    BY <2>12 DEF Disposes, DisposeEnds
  <2>13. CASE UNCHANGED vars
    BY <2>13 DEF vars
  <2> QED
    BY NextCases, <2>1, <2>2, <2>3, <2>4, <2>5, <2>6, <2>7, <2>8, <2>9, <2>10, <2>11, <2>12, <2>13
<1>4. CASE ParkCommits
  BY <1>0, <1>4, <1>i, ParkCommitsDoes DEF ParkRefInv
<1>5. CASE ~ParkCommits
  BY <1>0, <1>1, <1>2, <1>3, <1>5, NoneAssumption DEF ParkRefInv, registryVars, Attached
<1> QED
  BY <1>4, <1>5

\* What a step does to the flag of a park and to the callers that wait for it
LEMMA CancelDoes ==
    ASSUME IInv, ResumeInv, [Next]_vars
    PROVE  /\ park'.phase = "started" /\ park'.cancelled =>
                 /\ park.phase = "started"
                 /\ \/ park.cancelled
                    \/ \E c \in Callers : caller'[c].at = "cancelling"
                    \/ adoption'.ref # park.ref
           /\ \A c \in Callers :
                 /\ caller[c].at = "cancelling" =>
                       \/ caller'[c] = caller[c]
                       \/ /\ ParkGivesUp \/ ParkEnds
                          /\ caller'[c].at = "cancelled" /\ caller'[c].ref = caller[c].ref
                 /\ caller[c].at = "cancelled" => caller'[c] = caller[c] \/ KeepLive(c)
                 /\ caller'[c].at = "cancelling" =>
                       \/ caller'[c] = caller[c]
                       \/ park.phase # "none" /\ Attached # None /\ caller'[c].ref = registered
                 /\ caller'[c].at = "cancelled" =>
                       \/ caller'[c] = caller[c]
                       \/ caller[c].at = "cancelling" /\ caller'[c].ref = caller[c].ref
           /\ park'.phase = "none" =>
                 park.phase = "none" \/ ParkGivesUp \/ ParkEnds \/ manager' = "closed"
           /\ park.phase # "none" /\ park'.phase # "none" => park'.ref = park.ref
<1>0. /\ caller \in [Callers -> CallerStates] /\ park \in Parks
      /\ adoption \in Adoptions
  BY TypeParts DEF ManagerTypes, CallTypes, IInv
<1>i. TypeOK /\ WorkInv /\ WokenInv /\ AliveInv
  BY DEF IInv
<1>1. CASE Asks
  <2>1. ASSUME NEW c \in Callers, Resolve(c)
        PROVE  /\ \A d \in Callers \ {c} : caller'[d] = caller[d]
               /\ caller'[c].at \in {"idle", "returned", "reviving"}
    <3>1. \/ caller' = [caller EXCEPT ![c] =
                            [NoCall EXCEPT !.at = "reviving", !.ref = registered]]
          \/ caller' = [caller EXCEPT ![c] = NoCall]
          \/ caller' = [caller EXCEPT ![c] =
                            [NoCall EXCEPT !.at = "returned", !.got = session[registered]]]
      BY <2>1 DEF Resolve, Thrown, Returned
    <3>2. CASE caller' = [caller EXCEPT ![c] = NoCall]
      BY <1>0, <3>2 DEF NoCall
    <3>3. CASE caller' = [caller EXCEPT ![c] =
                             [NoCall EXCEPT !.at = "reviving", !.ref = registered]]
      BY <1>0, <3>3 DEF NoCall
    <3>4. CASE caller' = [caller EXCEPT ![c] =
                             [NoCall EXCEPT !.at = "returned", !.got = session[registered]]]
      BY <1>0, <3>4 DEF NoCall
    <3> QED
      BY <3>1, <3>2, <3>3, <3>4
  <2>2. ASSUME NEW c \in Callers, EnsureLive(c), park.phase # "none"
        PROVE  \E keep \in BOOLEAN :
                 /\ keep => park.phase = "started" /\ Attached # None
                 /\ park' = [park EXCEPT !.cancelled = park.cancelled \/ keep]
                 /\ caller[c].at = "idle" /\ \A d \in Callers \ {c} : caller'[d] = caller[d]
                 /\ caller'[c].at = IF keep THEN "cancelling" ELSE "waiting"
                 /\ caller'[c].ref = registered
    BY <1>0, <2>2 DEF EnsureLive, NoCall
  <2>3. ASSUME NEW c \in Callers, EnsureLive(c), park.phase = "none"
        PROVE  Resolve(c) /\ park' = park /\ caller[c].at = "idle"
    BY <2>3 DEF EnsureLive
  <2>4. ASSUME NEW c \in Callers, ParkAwaited(c)
        PROVE  Resolve(c) /\ park' = park /\ caller[c].at = "waited"
    BY <2>4 DEF ParkAwaited
  <2>5. ASSUME NEW c \in Callers, KeepLive(c)
        PROVE  /\ park' = park /\ caller[c].at = "cancelled"
               /\ \A d \in Callers \ {c} : caller'[d] = caller[d]
               /\ caller'[c].at \in {"idle", "returned", "reviving"}
    <3>1. CASE Attached # None
      BY <1>0, <2>5, <3>1 DEF KeepLive, Returned, NoCall
    <3>2. CASE Attached = None
      BY <2>1, <2>5, <3>2 DEF KeepLive
    <3> QED
      BY <3>1, <3>2
  <2>6. PICK c \in Callers : EnsureLive(c) \/ KeepLive(c) \/ ParkAwaited(c)
    BY <1>1 DEF Asks
  <2>7. CASE EnsureLive(c) /\ park.phase # "none"
    BY <1>0, <2>2, <2>7 DEF Parks
  <2>8. CASE (EnsureLive(c) /\ park.phase = "none") \/ ParkAwaited(c)
    BY <2>1, <2>3, <2>4, <2>8
  <2>9. CASE KeepLive(c)
    BY <2>5, <2>9
  <2> QED
    BY <2>6, <2>7, <2>8, <2>9
<1>2. CASE Releases
  <2>1. caller' = caller /\ park'.phase = park.phase /\ park'.ref = park.ref
    <3>1. caller' = caller
      BY <1>2, <1>i, ReleasesDo
    <3>2. park'.phase = park.phase /\ park'.ref = park.ref
      BY <1>2, <1>i, ReleasesTake
    <3> QED
      BY <3>1, <3>2
  <2>2. ASSUME NEW k \in Releasers, NEW r \in Refs, NEW t \in BOOLEAN, ReleaseCall(k, r, t)
        PROVE  park' = park \/ adoption'.ref # park.ref
    BY <1>0, <2>2, NoneAssumption DEF ReleaseCall, NoAdoption
  <2>3. Target # None => Target \in Refs
    BY <1>i, TypeParts DEF Target, RegistryTypes, ManagerTypes, Adoptions
  <2>4. registered # None => registered \in Refs
    BY <1>i, TypeParts DEF RegistryTypes
  <2>5. park' = park \/ adoption'.ref # park.ref
    BY <1>2, <2>2, <2>3, <2>4, TeardownAssumption DEF Releases, CancelCalled, CancelReleases,
       ReleaseResumes, Kill, FinishKilled, FinishShutdown, Close
  <2> QED
    BY <2>1, <2>5
<1>3. CASE Waits
  BY <1>0, <1>3 DEF Waits, ReleaseEnds, TombstoneWritten, CallerDone, Reclaimed,
     ReclaimRefused, ReclaimProbes, managerVars, NoCall
<1>4. CASE Arrives
  BY <1>4, <1>i, ArrivesDo
<1>5. CASE Attaches
  BY <1>5, <1>i, AttachesDo
<1>6. CASE Turns
  BY <1>6, <1>i, TurnsDo
<1>7. CASE RunEnds
  BY <1>7, <1>i, RunEndsDo
<1>8. CASE ParkMoves
  BY <1>0, <1>8 DEF ParkMoves, ParkGivesUp, ParkEnds, ParkReturns, Closed, TimerFires, NoPark, callVars, CallerStates
<1>9. CASE ParkCommits
  BY <1>9, <1>i, ParkCommitsDoes
<1>10. CASE Revives
  <2>1. park' = park
    BY <1>10, <1>i, RevivesDo
  <2>2. \A c \in Callers : caller'[c] = caller[c] \/
           (caller[c].at = "reviving" /\ caller'[c].at \in {"idle", "returned"})
    <3>1. PICK r \in Refs :
             \/ Discarded(r) \/ FactoryDeclines(r) \/ BuildFails(r) \/ LateBuildFails(r)
             \/ ReviverFails(r) \/ Revived(r) \/ RevivedTooLate(r)
      BY <1>10 DEF Revives
    <3>2. CASE Discarded(r) \/ FactoryDeclines(r) \/ BuildFails(r) \/ ReviverFails(r)
      BY <3>2 DEF Discarded, FactoryDeclines, BuildFails, ReviverFails, RevivalThrows, NoCall
    <3>3. CASE LateBuildFails(r) \/ RevivedTooLate(r)
      BY <3>3 DEF LateBuildFails, RevivedTooLate, callVars
    <3>4. CASE Revived(r)
      BY <3>4 DEF Revived, NoCall
    <3> QED
      BY <3>1, <3>2, <3>3, <3>4
  <2> QED
    BY <2>1, <2>2
<1>11. CASE FactoryAnswers
  BY <1>0, <1>11 DEF FactoryAnswers, FactoryReturns, NoCall
<1>12. CASE Disposes
  BY <1>12 DEF Disposes, DisposeEnds, callVars
<1>13. CASE UNCHANGED vars
  BY <1>13 DEF vars, managerVars, callVars
<1> QED
  BY NextCases, <1>1, <1>2, <1>3, <1>4, <1>5, <1>6, <1>7, <1>8, <1>9, <1>10, <1>11, <1>12, <1>13

\* Who cancels a park stays with the ref that was parked until it re-arms.
LEMMA CancelInvStep ==
    ASSUME IInv, ParkRefInv, CancelInv, ResumeInv, [Next]_vars
    PROVE  CancelInv'
<1> SUFFICES ASSUME manager' = "open", NEW c \in Callers
             PROVE  /\ caller'[c].at = "cancelling" => park'.phase # "none"
                                                       /\ caller'[c].ref = park'.ref
                    /\ caller'[c].at = "cancelled" => registered' \in {caller'[c].ref, None}
  BY DEF CancelInv
<1>1. manager = "open"
  BY ManagerDoes DEF Closed
<1>2. ASSUME caller'[c].at = "cancelling"
      PROVE  park'.phase # "none" /\ caller'[c].ref = park'.ref
  <2>1. park.phase # "none" /\ caller'[c].ref = park.ref
    BY <1>1, <1>2, CancelDoes DEF CancelInv, ParkRefInv, Attached
  <2>2. ~ParkGivesUp /\ ~ParkEnds
    <3>1. caller \in [Callers -> CallerStates]
      BY TypeParts DEF CallTypes, IInv
    <3> QED
      BY <1>2, <3>1 DEF ParkGivesUp, ParkEnds, ParkReturns, CallerStates
  <2> QED
    BY <2>1, <2>2, CancelDoes
<1>3. ASSUME caller'[c].at = "cancelled"
      PROVE  registered' \in {caller'[c].ref, None}
  <2>1. CASE caller'[c] = caller[c]
    BY <1>1, <1>3, <2>1, SeizedStays DEF CancelInv, Drained
  <2>2. CASE caller'[c] # caller[c]
    <3>1. caller[c].at = "cancelling" /\ caller'[c].ref = caller[c].ref
          /\ (ParkGivesUp \/ ParkEnds)
      BY <1>3, <2>2, CancelDoes
    <3> QED
      BY <1>1, <3>1 DEF CancelInv, ParkRefInv, ParkGivesUp, ParkEnds, registryVars
  <2> QED
    BY <2>1, <2>2
<1> QED
  BY <1>2, <1>3

\* What a step may do to an idle adopted agent: it leaves its timer alone, arms it,
\* or finds a park that nobody has cancelled.
LEMMA WantedDoes ==
    ASSUME IInv, ResumeInv, [Next]_vars, Wanted'
    PROVE  \/ Wanted /\ adoption'.timer = adoption.timer
           \/ adoption'.timer
           \/ park'.phase # "none" /\ (park'.phase = "started" => ~park'.cancelled)
<1> USE NoneAssumption DEF registryVars, sessionVars, managerVars, callVars, NoRun, NoAdoption,
        NoPark, NoRevival, NoCall, NoRelease, Unborn, Wanted, Attached
<1>0. /\ registered \in Refs \union {None}
      /\ session \in [Refs -> Sessions \union {None}]
      /\ status \in [Refs -> Statuses]
      /\ life \in [Sessions -> Lives]
      /\ adoption \in Adoptions
  BY TypeParts DEF RegistryTypes, SessionTypes, ManagerTypes, IInv
<1>i. /\ TypeOK /\ WorkInv /\ FreshInv /\ RetiredRefsAreEmpty /\ OwnerInv
      /\ BuildInv /\ WokenInv /\ ParkInv /\ AliveInv
  BY DEF IInv
<1>1. CASE Asks
  <2>1. UNCHANGED <<registered, status, session, life>>
    BY <1>1, <1>i, EnsureLiveDoes DEF Asks, CallDoes
  <2>2. adoption' = adoption \/ adoption' = [adoption EXCEPT !.timer = TRUE]
    BY <1>1 DEF Asks, EnsureLive, KeepLive, ParkAwaited
  <2>3. manager' = manager
    BY <1>1 DEF Asks, EnsureLive, KeepLive, ParkAwaited
  <2> QED
    BY <1>0, <2>1, <2>2, <2>3 DEF Adoptions
<1>2. CASE Releases
  <2>1. adoption' = adoption \/ adoption' = NoAdoption
    BY <1>2 DEF Releases, CancelCalled, CancelReleases, ReleaseResumes, Kill, FinishKilled,
       FinishShutdown, Close, ReleaseCall, AfterRemoval
  <2>2. manager = "open"
    BY ManagerDoes DEF Closed
  <2>3. /\ registered' \in {registered, None}
        /\ \A q \in Refs : /\ session'[q] \in {session[q], None}
                           /\ status'[q] \in {status[q], "aborted"}
        /\ \A s \in Sessions : life'[s] \in {life[s], "disposing"}
    <3>1. CASE UNCHANGED <<registryVars, life, release>>
      BY <3>1
    <3>2. ASSUME NEW k \in Releasers, ReleaseTakes(k)
          PROVE  <2>3!:
      BY <1>0, <3>2 DEF ReleaseTakes, Takes
    <3> QED
      BY <1>2, <1>i, <3>1, <3>2, ReleasesTake
  <2> QED
    BY <1>0, <2>1, <2>2, <2>3
<1>3. CASE Waits
  BY <1>3, <1>0 DEF Waits, ReleaseEnds, TombstoneWritten, CallerDone, Reclaimed,
         ReclaimRefused, ReclaimProbes, Unregister, AfterRemoval, Disposing
<1>4. CASE Arrives
  BY <1>4, <1>0, <1>i DEF Arrives, Spawn, Restore, SpawnFails, FinishIdle, Unregister, AfterRemoval, FreshInv
<1>5. CASE Attaches
  BY <1>5, <1>0, <1>i, AttachesDo DEF FreshInv
<1>6. CASE Turns
  <2>1. PICK s \in Sessions : TurnStarts(s) \/ TurnEnds(s)
    BY <1>6 DEF Turns
  <2>2. UNCHANGED <<registered, session, life, manager, park>> /\ registered # None
    BY <2>1 DEF TurnStarts, TurnEnds
  <2>3. CASE UNCHANGED <<status, adoption>>
    BY <2>2, <2>3
  <2>4. CASE SetStatus(registered, "running")
    BY <1>0, <2>2, <2>4 DEF SetStatus
  <2>5. CASE SetStatus(registered, "idle")
    <3>1. park.phase # "started"
      BY <1>6 DEF Turns, Drained
    <3>2. CASE status[registered] = "idle"
      BY <1>0, <2>2, <2>5, <3>2 DEF SetStatus, AfterStatus
    <3>3. CASE status[registered] # "idle" /\ park.phase = "none"
      BY <1>0, <2>2, <2>5, <3>3 DEF SetStatus, AfterStatus, Heard, Adoptions
    <3> QED
      BY <2>2, <3>1, <3>2, <3>3
  <2> QED
    BY <2>1, <2>3, <2>4, <2>5 DEF TurnStarts, TurnEnds
<1>7. CASE RunEnds
  BY <1>7, <1>0 DEF RunEnds, FinishDisposes, OneShotEnds, Unregister, AfterRemoval, Disposing
<1>8. CASE ParkMoves
  <2>1. ~Closed
    BY DEF Closed
  <2>2. CASE ParkGivesUp \/ ParkEnds
    BY <2>2 DEF ParkGivesUp, ParkEnds
  <2>3. CASE Drained /\ TimerFires
    <3>1. UNCHANGED <<registered, session>> /\ adoption'.ref = adoption.ref
      BY <1>0, <2>3 DEF TimerFires, Adoptions
    <3> QED
      BY <2>3, <3>1 DEF TimerFires, Drained
  <2> QED
    BY <1>8, <2>1, <2>2, <2>3 DEF ParkMoves
<1>9. CASE ParkCommits
  BY <1>9, <1>0, <1>i, ParkCommitsDoes
<1>10. CASE Revives
  <2>1. PICK r \in Refs :
           \/ Discarded(r) \/ FactoryDeclines(r) \/ BuildFails(r) \/ LateBuildFails(r)
           \/ ReviverFails(r) \/ (Drained /\ Revived(r)) \/ RevivedTooLate(r)
    BY <1>10 DEF Revives
  <2>2. CASE Discarded(r) \/ FactoryDeclines(r) \/ BuildFails(r) \/ ReviverFails(r)
    BY <2>2 DEF Discarded, FactoryDeclines, BuildFails, ReviverFails, RevivalThrows
  <2>3. CASE LateBuildFails(r) \/ RevivedTooLate(r)
    BY <1>0, <2>3 DEF LateBuildFails, RevivedTooLate, Disposing
  <2>4. CASE Drained /\ Revived(r)
    <3>1. /\ UNCHANGED <<registered, session, life, manager, park>> /\ registered = r
          /\ park.phase # "started" /\ status[r] = "running"
          /\ adoption' = AfterStatus(r, "idle")
      BY <2>4 DEF Revived, StillMine, SetStatus, Drained
    <3>2. CASE park.phase = "none"
      BY <1>0, <3>1, <3>2 DEF AfterStatus, Heard, Adoptions
    <3> QED
      BY <3>1, <3>2
  <2> QED
    BY <2>1, <2>2, <2>3, <2>4
<1>11. CASE FactoryAnswers
  BY <1>11, <1>0, <1>i DEF FactoryAnswers, FactoryReturns, ColdAdopted, BuildInv
<1>12. CASE Disposes
  BY <1>12, <1>0 DEF Disposes, DisposeEnds, Unregister, AfterRemoval
<1>13. CASE UNCHANGED vars
  BY <1>13 DEF vars
<1> QED
  BY NextCases, <1>1, <1>2, <1>3, <1>4, <1>5, <1>6, <1>7, <1>8, <1>9, <1>10, <1>11, <1>12, <1>13

\* The timer of an idle adopted agent is not lost.
LEMMA TimerInvStep ==
    ASSUME IInv, ParkRefInv, CancelInv, TimerInv, ResumeInv, [Next]_vars
    PROVE  TimerInv'
<1> SUFFICES ASSUME Wanted', ~adoption'.timer
             PROVE  /\ \/ park'.phase # "none"
                       \/ \E c \in Callers : caller'[c].at = "cancelled"
                    /\ park'.phase = "started" /\ park'.cancelled =>
                          \E c \in Callers : caller'[c].at = "cancelling"
  BY DEF TimerInv
<1>0. registered \in Refs \union {None}
  BY TypeParts DEF RegistryTypes, IInv
<1>1. CASE park'.phase # "none" /\ (park'.phase = "started" => ~park'.cancelled)
  BY <1>1
<1>2. CASE Wanted /\ ~adoption.timer
  <2>1. park.phase # "none" => park.ref = registered
    BY <1>2, NoneAssumption DEF Wanted, ParkRefInv
  <2>2. ASSUME park'.phase = "started", park'.cancelled
        PROVE  \E c \in Callers : caller'[c].at = "cancelling"
    <3>1. /\ park.phase = "started"
          /\ \/ park.cancelled
             \/ \E c \in Callers : caller'[c].at = "cancelling"
             \/ adoption'.ref # park.ref
      BY <2>2, CancelDoes
    <3>2. CASE park.cancelled
      <4>1. PICK c \in Callers : caller[c].at = "cancelling"
        BY <1>2, <3>1, <3>2 DEF TimerInv
      <4>2. ~ParkGivesUp /\ ~ParkEnds
        BY <2>2 DEF ParkGivesUp, ParkEnds, ParkReturns, NoPark
      <4> QED
        BY <4>1, <4>2, CancelDoes
    <3>3. CASE adoption'.ref # park.ref
      <4>1. registered' = registered
        BY <1>0, <3>1, SeizedStays, NoneAssumption DEF Wanted, Drained
      <4> QED
        BY <2>1, <3>1, <3>3, <4>1 DEF Wanted
    <3> QED
      BY <3>1, <3>2, <3>3
  <2>3. ASSUME park'.phase = "none"
        PROVE  \E c \in Callers : caller'[c].at = "cancelled"
    <3>1. CASE park.phase = "none"
      <4>1. PICK c \in Callers : caller[c].at = "cancelled"
        BY <1>2, <3>1 DEF TimerInv
      <4>2. ~KeepLive(c)
        <5>1. caller[c].ref = registered
          BY <1>2, <4>1, NoneAssumption DEF Wanted, CancelInv
        <5>2. adoption \in Adoptions
          BY TypeParts DEF IInv, ManagerTypes
        <5> QED
          BY <1>2, <5>1, <5>2 DEF KeepLive, Wanted, Adoptions
      <4> QED
        BY <4>1, <4>2, CancelDoes
    <3>2. CASE ParkGivesUp
      <4>1. park.phase = "started" /\ Attached = park.session /\ registered = park.ref
            /\ adoption.ref = park.ref
        BY <1>2, <2>1, <3>2 DEF ParkGivesUp, Wanted, Attached, ParkRefInv
      <4>2. PICK c \in Callers : caller[c].at = "cancelling"
        BY <1>2, <3>2, <4>1 DEF ParkGivesUp, ParkStands, TimerInv
      <4>3. caller \in [Callers -> CallerStates]
        BY TypeParts DEF CallTypes, IInv
      <4> QED
        BY <3>2, <4>2, <4>3 DEF ParkGivesUp, ParkReturns, CallerStates
    <3>3. ~ParkEnds
      BY <1>2, <2>1 DEF ParkEnds, ParkReady, Wanted, Attached, IInv, ParkInv
    <3>4. manager' # "closed"
      BY DEF Wanted
    <3> QED
      BY <2>3, <3>1, <3>2, <3>3, <3>4, CancelDoes
  <2> QED
    BY <2>2, <2>3
<1> QED
  BY <1>1, <1>2, WantedDoes

\* SafeInv is inductive together with IInv.
SafeInv ==
    /\ KeptInv
    /\ ParkedInv
    /\ SingleInv
    /\ WriterInv
    /\ ReadyInv
    /\ ResumeInv
    /\ ParkRefInv
    /\ CancelInv
    /\ TimerInv

\* Nothing is alive, waits or is adopted at the start.
LEMMA SafeInit ==
    ASSUME Init
    PROVE  SafeInv
<1> USE NoneAssumption, TeardownAssumption
        DEF Init, NoRun, NoAdoption, NoPark, NoRevival, NoCall, NoRelease
<1>1. \A s \in Sessions : ~Alive(s)
  BY DEF Alive
<1>2. KeptInv /\ SingleInv /\ WriterInv
  BY <1>1 DEF KeptInv, SingleInv, WriterInv
<1>3. ParkedInv /\ ParkRefInv
  BY DEF ParkedInv, ParkRefInv
<1>4. ReadyInv
  BY <1>1 DEF ReadyInv, Over
<1>5. ResumeInv /\ CancelInv
  BY DEF ResumeInv, CancelInv
<1>6. TimerInv
  BY DEF TimerInv, Wanted
<1> QED
  BY <1>2, <1>3, <1>4, <1>5, <1>6 DEF SafeInv

\* Every step keeps the parts, in an order in which each finds what it rests on.
LEMMA SafeInvStep ==
    ASSUME IInv, SafeInv, [Next]_vars
    PROVE  SafeInv'
<1>1. IInv'
  BY IInvStep
<1>2. KeptInv' /\ ResumeInv'
  BY KeptInvStep, ResumeInvStep DEF SafeInv
<1>3. ParkedInv' /\ SingleInv' /\ WriterInv'
  BY <1>1, <1>2, ParkedInvStep, SingleInvStep, WriterInvStep DEF SafeInv
<1>4. ReadyInv'
  BY <1>1, <1>2, ReadyInvStep DEF SafeInv
<1>5. ParkRefInv' /\ CancelInv' /\ TimerInv'
  BY ParkRefInvStep, CancelInvStep, TimerInvStep DEF SafeInv
<1> QED
  BY <1>2, <1>3, <1>4, <1>5 DEF SafeInv

-----------------------------------------------------------------------------

\* IInv holds in every state of the program.
THEOREM Inductive == Spec => []IInv
BY InitInv, IInvStep, PTL DEF Spec

\* SafeInv holds in every state of the program.
THEOREM InductiveSafe == Spec => []SafeInv
<1>1. Init => SafeInv
  BY SafeInit
<1>2. IInv /\ SafeInv /\ [Next]_vars => SafeInv'
  BY SafeInvStep
<1> QED
  BY Inductive, <1>1, <1>2, PTL DEF Spec

\* Every variable keeps its type, whatever the order of calls, timers, kills and
\* completions.
THEOREM Typed == Spec => []TypeOK
<1>1. IInv => TypeOK
  BY DEF IInv
<1> QED
  BY Inductive, <1>1, PTL

\* A ref that lost its row or was killed holds no session, so what comes late for
\* it (a park's continuation, a reviver, a finalizer) finds nothing to revive or
\* to hand out.
THEOREM RetiredRefsHoldNothing == Spec => []RetiredRefsAreEmpty
<1>1. IInv => RetiredRefsAreEmpty
  BY DEF IInv
<1> QED
  BY Inductive, <1>1, PTL

\* A killed agent stays dead: no park, reviver, finalizer or timer that was under
\* way brings its status or a session back, and only a plain release, the
\* teardown or its one-shot finalizer removes the tombstone.
THEOREM KilledAgentsStayDead == Spec => KilledStaysDead
<1>1. IInv /\ [Next]_vars => KilledStep
  BY KilledStepHolds DEF IInv
<1>2. KilledStep => [\A r \in Refs : status[r] = "aborted" =>
                        /\ status'[r] = "aborted" /\ session'[r] = None
                        /\ registered = r => registered' = r \/ AskedToGo(r)]_vars
  BY DEF KilledStep
<1> QED
  BY Inductive, <1>1, <1>2, PTL DEF Spec, KilledStaysDead

\* A session attached to the current ref is disposed only by work that was started
\* for that ref: a release, park or revival of an older generation under the same
\* id ends none.
THEOREM StaleWorkIsHarmless == Spec => StaleWorkHarmless
<1>1. IInv /\ [Next]_vars => StaleStep
  BY StaleStepHolds DEF IInv
<1>2. StaleStep => [\A s \in Sessions :
                       s = Attached /\ life[s] = "live" /\ life'[s] # "live"
                           => Concerned(registered)]_vars
  BY DEF StaleStep
<1> QED
  BY Inductive, <1>1, <1>2, PTL DEF Spec, StaleWorkHarmless

\* What ensureLive returns is the session attached to the registered ref at that
\* moment, and it is not disposed.
THEOREM HandOutIsAttached == Spec => HandOutAttached
<1>1. IInv /\ [Next]_vars => HandOutStep
  BY HandOutStepHolds DEF IInv
<1>2. HandOutStep => [\A c \in Callers : HandedOut(c) =>
                         /\ registered' # None
                         /\ caller'[c].got = session'[registered']
                         /\ life'[caller'[c].got] \in {"live", "disposing"}]_vars
  BY DEF HandOutStep
<1> QED
  BY Inductive, <1>1, <1>2, PTL DEF Spec, HandOutAttached

\* Two sessions never write the same transcript, whichever ref they belong to: a
\* revival or a respawn opens it only when the session before is disposed, unless
\* a cancellation let go of a ref whose session a kill was still taking down.
THEOREM OneWriterAtATime == Spec => []OneWriter
<1>1. WriterInv => OneWriter
  <2> DEFINE W == {s \in Sessions : life[s] \in {"live", "disposing"} /\ ~RowTaken(s)}
  <2>1. SUFFICES ASSUME WriterInv
                 PROVE  Cardinality(W) <= 1
    BY DEF OneWriter
  <2>2. \A s, t \in W : s = t
    BY <2>1 DEF WriterInv, Alive
  <2>3. W = {} \/ \E s : W = {s}
    BY <2>2
  <2> HIDE DEF W
  <2>4. Cardinality(W) \in {0, 1}
    BY <2>3, FS_EmptySet, FS_Singleton
  <2> QED
    BY <2>4
<1>2. SafeInv => WriterInv
  BY DEF SafeInv
<1> QED
  BY InductiveSafe, <1>1, <1>2, PTL

\* Nothing is forgotten: a live session hangs off the registered ref or is held by
\* the kill that is going to dispose it, an idle adopted agent has a timer or a
\* park or a caller that will arm it, and a retired ref holds no session.
THEOREM NothingIsForgotten == Spec => []NothingForgotten
<1>1. IInv /\ SafeInv => NoOrphan
  <2> SUFFICES ASSUME IInv, KeptInv, NEW s \in Sessions, life[s] = "live"
               PROVE  \/ s = Attached
                      \/ \E k \in Releasers : release[k].at = "writing" /\ release[k].live = s
    BY DEF NoOrphan, SafeInv
  <2>1. Kept(s)
    BY DEF KeptInv, Alive
  <2>2. CASE Hangs(s)
    BY <2>1, <2>2, NoneAssumption DEF Kept, Hangs, Attached
  <2>3. CASE Killed(s)
    BY <2>3 DEF Killed
  <2> QED
    BY <2>1, <2>2, <2>3 DEF Kept, Parked, Dropped
<1>2. SafeInv => TtlNeverLost
  BY DEF SafeInv, TimerInv, Wanted, TtlNeverLost
<1>3. IInv => RetiredRefsAreEmpty
  BY DEF IInv
<1>4. IInv /\ SafeInv => NothingForgotten
  BY <1>1, <1>2, <1>3 DEF NothingForgotten
<1> QED
  BY Inductive, InductiveSafe, <1>4, PTL
=============================================================================
