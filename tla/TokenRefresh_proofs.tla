------------------------- MODULE TokenRefresh_proofs -------------------------
(***************************************************************************)
(* Proofs about TokenRefresh, for any processes, callers, bounds and       *)
(* faults.                                                                 *)
(*                                                                         *)
(* TypeOK is inductive.  Over it the proofs use what a refresh in flight   *)
(* knows (FlightInv, WireInv), which bear NoLiveGrantDisabled; who waits   *)
(* for it (JoinInv), and what the callers of a finished refresh hold       *)
(* (GotInv), which bear RowForward; and who owns the lease as long as      *)
(* nothing fails (LeaseInv, OrphanInv, AtHand), which bear GrantKept.      *)
(***************************************************************************)
EXTENDS TokenRefresh, TLAPS

\* What was asked for is older than what was answered; what was rejected is not
\* the token of the grant.
FlightInv ==
    \A p \in Procs :
        /\ flight[p].at = "answered" => flight[p].current < flight[p].answer
        /\ flight[p].at = "rejected" => flight[p].current < newest \/ revoked

\* A request on its way is the one its process waits for.
WireInv ==
    \A r \in wire : r.to \in Procs =>
        flight[r.to].at = "requesting" /\ flight[r.to].current = r.token

\* Who started a refresh waits for it as long as it goes on.
JoinInv ==
    \A p \in Procs : flight[p].at # "none" =>
        /\ flight[p].by \in Callers
        /\ ProcOf[flight[p].by] = p /\ at[flight[p].by] = "joined"

\* c has a result, and is about to use it.
HasResult(c) == at[c] = "resumed" /\ got[c] # 0

\* Another caller of its process is busy.
Accompanied(c) == \E k \in Callers : k # c /\ ProcOf[k] = ProcOf[c] /\ at[k] # "idle"

\* Where no usage report is awaited: the callers of a finished refresh hold what
\* the pool of their process has; and the row has it too where several callers
\* of a process are busy, or has been disabled.
GotInv ==
    \A c \in Callers :
        /\ at[c] # "usage"
        /\ HasResult(c) /\ row # 0 =>
              /\ pool[ProcOf[c]] = got[c]
              /\ Accompanied(c) => row = pool[ProcOf[c]]

\* Who is refreshing owns the lease, unless it was stopped for too long; and
\* nobody's lease expires, unless its process died.
LeaseInv ==
    /\ "stall" \notin faults =>
        /\ \A p \in Procs : flight[p].at \in Owning => lease = p
        /\ expired => lease = "dead"
    /\ "crash" \notin faults => lease # "dead"

\* As long as nothing fails, somebody waits for every request.
OrphanInv == faults \subseteq {"revoke"} => \A r \in wire : r.to # "nobody"

-----------------------------------------------------------------------------
(* Types *)

Flights == [at : {"none", "waiting", "trying"} \union Owning,
            by : Callers \union {"nobody"}, forced : BOOLEAN,
            current : Tokens, answer : Tokens]

CallerTypes ==
    /\ at \in [Callers -> {"idle", "joined", "resumed", "trying", "usage"}]
    /\ stage \in [Callers -> {"preflight", "resolve", "byId"}]
    /\ sel \in [Callers -> Tokens] /\ got \in [Callers -> Tokens]

FlightTypes == flight \in [Procs -> Flights]

StoreTypes ==
    /\ newest \in Nat /\ revoked \in BOOLEAN /\ aged \in Tokens
    /\ wire \subseteq [to : Procs \union {"nobody"}, token : Tokens]
    /\ row \in Tokens /\ lease \in Procs \union {"free", "dead"} /\ expired \in BOOLEAN
    /\ pool \in [Procs -> Tokens]
    /\ faults \subseteq Faults

OwnerRefreshes == lease \in Procs => flight[lease].at \in Owning

LEMMA TypeParts ==
    TypeOK <=> StoreTypes /\ CallerTypes /\ FlightTypes /\ OwnerRefreshes
BY DEF TypeOK, StoreTypes, CallerTypes, FlightTypes, OwnerRefreshes, Flights

LEMMA SameTokens ==
    ASSUME newest' = newest
    PROVE  Tokens' = Tokens /\ Flights' = Flights
BY DEF Tokens, Flights

\* The end of a refresh keeps the types.
LEMMA FinishType ==
    ASSUME TypeOK, NEW p \in Procs, NEW token \in Tokens, Finish(p, token), newest' = newest
    PROVE  /\ CallerTypes' /\ FlightTypes'
           /\ \A q \in Procs : q # p => flight'[q] = flight[q]
           /\ flight'[p] = NoFlight
<1>1. CallerTypes'
  BY SameTokens DEF TypeOK, CallerTypes, Finish
<1>2. 0 \in Tokens
  BY DEF TypeOK, Tokens
<1>3. NoFlight \in Flights
  BY <1>2 DEF NoFlight, Flights
<1>4. flight \in [Procs -> Flights]
  BY DEF TypeOK, Flights
<1>5. flight' = [flight EXCEPT ![p] = NoFlight]
  BY DEF Finish
<1> QED
  BY <1>1, <1>3, <1>4, <1>5, SameTokens DEF FlightTypes

\* So does a caller that asks for a refresh.
LEMMA RefreshType ==
    ASSUME TypeOK, NEW c \in Callers, NEW token \in Tokens, NEW force \in BOOLEAN,
           NEW as \in {"preflight", "resolve", "byId"}, Refresh(c, token, force, as),
           newest' = newest
    PROVE  /\ CallerTypes' /\ FlightTypes'
           /\ \A q \in Procs : \/ flight'[q] = flight[q]
                               \/ flight[q].at = "none" /\ flight'[q].at = "waiting"
<1>1. ProcOf[c] \in Procs
  BY CallerAssumption
<1>2. 0 \in Tokens
  BY DEF TypeOK, Tokens
<1>3. CallerTypes'
  BY <1>2, SameTokens DEF TypeOK, CallerTypes, Refresh
<1> DEFINE started == [at |-> "waiting", by |-> c, forced |-> force, current |-> 0, answer |-> 0]
<1>4. \/ flight' = flight
      \/ flight[ProcOf[c]].at = "none" /\ flight' = [flight EXCEPT ![ProcOf[c]] = started]
  BY DEF Refresh
<1>5. started \in Flights /\ started.at = "waiting"
  BY <1>2 DEF Flights
<1>6. flight \in [Procs -> Flights]
  BY DEF TypeOK, Flights
<1>7. /\ flight' \in [Procs -> Flights]
      /\ \A q \in Procs : \/ flight'[q] = flight[q]
                          \/ flight[q].at = "none" /\ flight'[q].at = "waiting"
  <2> HIDE DEF started
  <2> QED
    BY <1>1, <1>4, <1>5, <1>6
<1> QED
  BY <1>3, <1>7, SameTokens DEF FlightTypes

LEMMA TypeInit ==
    ASSUME Init
    PROVE  TypeOK
<1>1. 0 \in Tokens /\ 1 \in Tokens
  BY DEF Init, Tokens
<1>2. NoFlight \in Flights
  BY <1>1 DEF NoFlight, Flights
<1>3. StoreTypes /\ OwnerRefreshes
  BY <1>1, NameAssumption DEF Init, StoreTypes, OwnerRefreshes
<1>4. CallerTypes
  BY <1>1 DEF Init, CallerTypes
<1>5. FlightTypes
  BY <1>2 DEF Init, FlightTypes
<1> QED
  BY <1>3, <1>4, <1>5, TypeParts

\* A caller's steps keep the types.
LEMMA CallerType ==
    ASSUME TypeOK, NEW c \in Callers, CallerNext(c) \/ Resume(c)
    PROVE  TypeOK'
<1> USE CallerAssumption DEF providerVars
<1>1. /\ 0 \in Tokens /\ row \in Tokens /\ pool[ProcOf[c]] \in Tokens /\ sel[c] \in Tokens
      /\ pool \in [Procs -> Tokens]
  BY DEF TypeOK, Tokens
<1>2. lease \in Procs => flight[lease].at \notin {"none", "waiting", "trying"}
  BY DEF TypeOK, Owning
<1>3. newest' = newest
  BY DEF CallerNext, Begin, BeginById, Select, UsageReported, Leaves, Resume
<1>4. StoreTypes'
  <2>1. row' \in Tokens /\ pool' \in [Procs -> Tokens]
    <3>1. CASE Resume(c)
      BY <1>1, <3>1 DEF Resume, Replace, TypeOK
    <3>2. CASE CallerNext(c)
      <4>1. row' = row /\ (pool' = pool \/ pool' = [pool EXCEPT ![ProcOf[c]] = row])
        BY <3>2 DEF CallerNext, Begin, BeginById, Select, UsageReported, Leaves
      <4> QED
        BY <1>1, <4>1
    <3> QED
      BY <3>1, <3>2
  <2>2. UNCHANGED <<providerVars, lease, expired, faults>>
    BY DEF CallerNext, Begin, BeginById, Select, UsageReported, Leaves, Resume
  <2> QED
    BY <1>3, <2>1, <2>2, SameTokens DEF StoreTypes, TypeOK
<1>5. ASSUME NEW token \in Tokens, NEW force \in BOOLEAN,
             NEW as \in {"preflight", "resolve", "byId"}, Refresh(c, token, force, as),
             lease' = lease
      PROVE  TypeOK'
  <2>1. /\ CallerTypes' /\ FlightTypes'
        /\ \A q \in Procs : \/ flight'[q] = flight[q]
                            \/ flight[q].at = "none" /\ flight'[q].at = "waiting"
    BY <1>3, <1>5, RefreshType
  <2>2. OwnerRefreshes'
    BY <1>2, <1>5, <2>1 DEF OwnerRefreshes, TypeOK
  <2> QED
    BY <1>4, <2>1, <2>2, TypeParts, PTL
<1>6. ASSUME UNCHANGED <<flight, lease>>, CallerTypes'
      PROVE  TypeOK'
  <2>1. FlightTypes' /\ OwnerRefreshes'
    BY <1>3, <1>6, SameTokens, TypeParts DEF FlightTypes, OwnerRefreshes
  <2> QED
    BY <1>4, <1>6, <2>1, TypeParts, PTL
<1>7. ASSUME NEW force \in BOOLEAN, Begin(c, force)
      PROVE  TypeOK'
  <2>1. CASE force \/ ~Fresh(row)
    BY <1>1, <1>5, <1>7, <2>1 DEF Begin
  <2>2. CASE ~(force \/ ~Fresh(row))
    <3>1. CallerTypes'
      BY <1>3, <1>7, <2>2, SameTokens DEF Begin, TypeOK, CallerTypes
    <3> QED
      BY <1>6, <1>7, <2>2, <3>1 DEF Begin
  <2> QED
    BY <2>1, <2>2
<1>8. CASE BeginById(c)
  BY <1>1, <1>5, <1>8 DEF BeginById
<1>9. CASE Select(c)
  <2>1. CASE row = 0 \/ ChecksUsage
    <3>1. CallerTypes'
      BY <1>1, <1>3, <1>9, <2>1, SameTokens DEF Select, TypeOK, CallerTypes
    <3> QED
      BY <1>6, <1>9, <2>1, <3>1 DEF Select
  <2>2. CASE ~(row = 0 \/ ChecksUsage)
    BY <1>1, <1>5, <1>9, <2>2 DEF Select
  <2> QED
    BY <2>1, <2>2
<1>10. CASE UsageReported(c)
  BY <1>1, <1>5, <1>10 DEF UsageReported
<1>11. CASE Leaves(c)
  <2>1. CASE flight[ProcOf[c]].by # c
    <3>1. /\ at' = [at EXCEPT ![c] = "idle"] /\ sel' = [sel EXCEPT ![c] = 0]
          /\ stage' = [stage EXCEPT ![c] = "preflight"] /\ UNCHANGED <<got, flight, lease>>
      BY <1>11, <2>1 DEF Leaves
    <3>2. CallerTypes'
      BY <1>1, <1>3, <3>1, SameTokens DEF TypeOK, CallerTypes
    <3> QED
      BY <1>6, <3>1, <3>2
  <2>2. CASE flight[ProcOf[c]].at = "waiting" /\ Finish(ProcOf[c], 0)
    <3>1. /\ CallerTypes' /\ FlightTypes'
          /\ \A q \in Procs : q # ProcOf[c] => flight'[q] = flight[q]
      BY <1>1, <1>3, <2>2, FinishType
    <3>2. OwnerRefreshes'
      BY <1>2, <1>11, <2>2, <3>1 DEF Leaves, OwnerRefreshes, TypeOK
    <3> QED
      BY <1>4, <3>1, <3>2, TypeParts, PTL
  <2> QED
    BY <1>11, <2>1, <2>2 DEF Leaves
<1>12. CASE Resume(c)
  <2>1. CallerTypes'
    BY <1>1, <1>3, <1>12, SameTokens DEF Resume, TypeOK, CallerTypes
  <2> QED
    BY <1>6, <1>12, <2>1 DEF Resume
<1> QED
  BY <1>7, <1>8, <1>9, <1>10, <1>11, <1>12 DEF CallerNext

\* So do the steps of a refresh.
LEMMA FlightType ==
    ASSUME TypeOK, NEW p \in Procs, FlightNext(p) \/ GivesUp(p)
    PROVE  TypeOK'
<1>1. /\ 0 \in Tokens /\ row \in Tokens /\ pool \in [Procs -> Tokens]
      /\ flight \in [Procs -> Flights]
  BY TypeParts DEF StoreTypes, FlightTypes, Tokens
<1>2. newest' = newest /\ revoked' = revoked /\ aged' = aged
  BY DEF FlightNext, GivesUp, Looks, TakesLease, Persist, Rejected, providerVars
<1>3. flight[p].answer \in Tokens
  BY <1>1 DEF Flights
\* What is left to show: the types of what the store keeps, and the owner's state.
<1>4. ASSUME NEW token \in Tokens, Finish(p, token), row' \in Tokens,
             pool' \in [Procs -> Tokens], expired' \in BOOLEAN, faults' \subseteq Faults,
             wire' \subseteq [to : Procs \union {"nobody"}, token : Tokens],
             lease' = lease \/ lease' = "free", lease' # p
      PROVE  TypeOK'
  <2>1. /\ CallerTypes' /\ FlightTypes'
        /\ \A q \in Procs : q # p => flight'[q] = flight[q]
    BY <1>2, <1>4, FinishType
  <2>2. OwnerRefreshes'
    BY <1>4, <2>1, TypeParts, NameAssumption DEF OwnerRefreshes
  <2>3. StoreTypes'
    BY <1>2, <1>4, SameTokens, TypeParts DEF StoreTypes
  <2> QED
    BY <2>1, <2>2, <2>3, TypeParts, PTL
<1>5. ASSUME NEW new \in Flights, flight' = [flight EXCEPT ![p] = new], UNCHANGED callerVars,
             pool' \in [Procs -> Tokens], row' = row, faults' = faults,
             wire' \subseteq [to : Procs \union {"nobody"}, token : Tokens],
             \/ lease' = lease /\ expired' = expired /\ flight[p].at \notin Owning
             \/ lease' = p /\ expired' = FALSE /\ new.at \in Owning
      PROVE  TypeOK'
  <2>1. StoreTypes'
    BY <1>2, <1>5, SameTokens, TypeParts DEF StoreTypes
  <2>2. CallerTypes'
    BY <1>2, <1>5, SameTokens, TypeParts DEF CallerTypes, callerVars
  <2>3. FlightTypes'
    BY <1>1, <1>2, <1>5, SameTokens DEF FlightTypes
  <2>4. OwnerRefreshes'
    BY <1>1, <1>5, TypeParts DEF OwnerRefreshes
  <2> QED
    BY <2>1, <2>2, <2>3, <2>4, TypeParts, PTL
<1>6. CASE Looks(p)
  <2>1. lease # p
    BY <1>6 DEF Looks, TypeOK, Owning
  <2>2. /\ UNCHANGED <<row, lease, expired, faults, wire>> /\ pool' = [pool EXCEPT ![p] = row]
        /\ flight[p].at = "waiting"
    BY <1>6 DEF Looks, providerVars
  <2>3. CASE Finish(p, row)
    BY <1>1, <1>4, <2>1, <2>2, <2>3, TypeParts DEF StoreTypes
  <2>4. CASE flight' = [flight EXCEPT ![p].at = "trying"] /\ UNCHANGED callerVars
    <3>1. [flight[p] EXCEPT !.at = "trying"] \in Flights
      BY <1>1 DEF Flights
    <3>2. flight' = [flight EXCEPT ![p] = [flight[p] EXCEPT !.at = "trying"]]
      BY <2>4
    <3> QED
      BY <1>1, <1>5, <2>2, <2>4, <3>1, <3>2, TypeParts DEF StoreTypes, Owning
  <2> QED
    BY <1>6, <2>3, <2>4 DEF Looks
<1>7. CASE TakesLease(p)
  <2>1. lease # p /\ flight[p].at = "trying" /\ UNCHANGED <<row, faults>>
    BY <1>7 DEF TakesLease, TypeOK, Owning
  <2>2. CASE ~LeaseFree
    <3>1. /\ flight' = [flight EXCEPT ![p] = [flight[p] EXCEPT !.at = "waiting"]]
          /\ UNCHANGED <<pool, lease, expired, wire, callerVars>>
      BY <1>7, <2>2 DEF TakesLease
    <3>2. [flight[p] EXCEPT !.at = "waiting"] \in Flights
      BY <1>1 DEF Flights
    <3> QED
      BY <1>1, <1>5, <2>1, <3>1, <3>2, TypeParts DEF StoreTypes, Owning
  <2>3. CASE LeaseFree /\ (row = 0 \/ Adopted(p))
    <3>1. /\ Finish(p, row) /\ lease' = "free" /\ expired' = FALSE /\ wire' = wire
          /\ pool' = [pool EXCEPT ![p] = row]
      BY <1>7, <2>3 DEF TakesLease
    <3> QED
      BY <1>1, <1>4, <2>1, <3>1, TypeParts, NameAssumption DEF StoreTypes
  <2>4. CASE LeaseFree /\ ~(row = 0 \/ Adopted(p))
    <3> DEFINE asked == [flight[p] EXCEPT !.at = "requesting", !.current = row]
    <3>1. /\ flight' = [flight EXCEPT ![p] = asked]
          /\ wire' = wire \union {[to |-> p, token |-> row]}
          /\ lease' = p /\ expired' = FALSE /\ UNCHANGED callerVars
          /\ pool' = [pool EXCEPT ![p] = row]
      BY <1>7, <2>4 DEF TakesLease
    <3>2. asked \in Flights /\ asked.at \in Owning
      BY <1>1 DEF Flights, Owning
    <3>3. wire' \subseteq [to : Procs \union {"nobody"}, token : Tokens]
      BY <1>1, <3>1, TypeParts DEF StoreTypes
    <3> HIDE DEF asked
    <3> QED
      BY <1>1, <1>5, <2>1, <3>1, <3>2, <3>3
  <2> QED
    BY <2>2, <2>3, <2>4
<1>8. CASE Persist(p) \/ Rejected(p) \/ GivesUp(p)
  <2>1. Release(p) /\ faults' \subseteq Faults
    BY <1>8, TypeParts DEF Persist, Rejected, GivesUp, FaultUsed, StoreTypes
  <2>2. (lease' = lease \/ lease' = "free") /\ lease' # p /\ expired' \in BOOLEAN
    BY <2>1, TypeParts, NameAssumption DEF Release, StoreTypes
  <2>3. PICK token \in Tokens : Finish(p, token)
    BY <1>1, <1>3, <1>8 DEF Persist, Rejected, GivesUp, Reloaded
  <2>4. row' \in Tokens /\ pool' \in [Procs -> Tokens]
    BY <1>1, <1>3, <1>8 DEF Persist, Rejected, GivesUp, Reloaded
  <2>5. wire' \subseteq [to : Procs \union {"nobody"}, token : Tokens]
    <3>1. wire' = wire \/ wire' = Orphaned(p) \/ wire' = {r \in wire : r.to # p}
      BY <1>8 DEF Persist, Rejected, GivesUp, providerVars
    <3>2. Orphaned(p) \subseteq [to : Procs \union {"nobody"}, token : Tokens]
      BY TypeParts DEF Orphaned, StoreTypes
    <3> QED
      BY <3>1, <3>2, TypeParts DEF StoreTypes
  <2> QED
    BY <1>4, <2>1, <2>2, <2>3, <2>4, <2>5
<1> QED
  BY <1>6, <1>7, <1>8 DEF FlightNext

\* So does what happens to a process, to time and at the provider.
LEMMA WorldType ==
    ASSUME TypeOK,
           \/ \E p \in Procs : Renews(p) \/ Crash(p) \/ Login(p)
           \/ \E r \in wire : ProviderAnswers(r)
           \/ Expires \/ Age \/ Revoke
    PROVE  TypeOK'
<1> USE NameAssumption
<1> USE DEF providerVars, CallersUnchanged
<1>1. /\ StoreTypes /\ CallerTypes /\ FlightTypes /\ OwnerRefreshes
      /\ 0 \in Tokens /\ newest \in Nat
  BY TypeParts DEF StoreTypes, Tokens
<1>2. CASE \E p \in Procs : Renews(p)
  <2>1. /\ UNCHANGED <<newest, revoked, aged, wire, row, lease, pool, flight, faults, callerVars>>
        /\ expired' = FALSE
    BY <1>2 DEF Renews
  <2>2. StoreTypes' /\ CallerTypes' /\ FlightTypes' /\ OwnerRefreshes'
    BY <1>1, <2>1, SameTokens DEF StoreTypes, CallerTypes, FlightTypes, OwnerRefreshes, callerVars
  <2> QED
    BY <2>2, TypeParts, PTL
<1>3. ASSUME NEW p \in Procs, Crash(p)
      PROVE  TypeOK'
  <2>1. NoFlight \in Flights
    BY <1>1 DEF NoFlight, Flights
  <2>2. faults' \subseteq Faults
    BY <1>1, <1>3 DEF Crash, FaultUsed, StoreTypes
  <2>3. wire' \subseteq [to : Procs \union {"nobody"}, token : Tokens]
    BY <1>1, <1>3 DEF Crash, Orphaned, StoreTypes
  <2>4. StoreTypes'
    BY <1>1, <1>3, <2>2, <2>3, SameTokens DEF Crash, StoreTypes
  <2>5. CallerTypes'
    BY <1>1, <1>3, SameTokens DEF Crash, CallerTypes
  <2>6. FlightTypes'
    BY <1>1, <1>3, <2>1, SameTokens DEF Crash, FlightTypes
  <2>7. OwnerRefreshes'
    BY <1>1, <1>3 DEF Crash, OwnerRefreshes, FlightTypes
  <2> QED
    BY <2>4, <2>5, <2>6, <2>7, TypeParts, PTL
<1>4. ASSUME NEW p \in Procs, Login(p)
      PROVE  TypeOK'
  <2>1. Tokens \subseteq Tokens' /\ newest' \in Tokens' /\ newest' = newest + 1
    BY <1>1, <1>4 DEF Login, Tokens
  <2>2. StoreTypes'
    <3>1. /\ pool' \in [Procs -> Tokens'] /\ aged' \in Tokens'
          /\ wire' \subseteq [to : Procs \union {"nobody"}, token : Tokens']
      BY <1>1, <1>4, <2>1 DEF Login, StoreTypes
    <3>2. newest' \in Nat /\ row' \in Tokens'
      BY <1>1, <1>4, <2>1 DEF Login
    <3>3. revoked' \in BOOLEAN /\ UNCHANGED <<lease, expired, faults>>
      BY <1>4 DEF Login
    <3> QED
      BY <1>1, <3>1, <3>2, <3>3 DEF StoreTypes
  <2>3. CallerTypes'
    BY <1>1, <1>4, <2>1 DEF Login, CallerTypes, callerVars
  <2>4. FlightTypes' /\ OwnerRefreshes'
    BY <1>1, <1>4, <2>1 DEF Login, FlightTypes, Flights, OwnerRefreshes
  <2> QED
    BY <2>2, <2>3, <2>4, TypeParts, PTL
<1>5. ASSUME NEW r \in wire, ProviderAnswers(r)
      PROVE  TypeOK'
  <2>1. /\ newest' \in Nat /\ Tokens \subseteq Tokens'
        /\ newest' = newest + 1 => newest + 1 \in Tokens'
    BY <1>1, <1>5 DEF ProviderAnswers, Tokens
  <2>2. StoreTypes'
    BY <1>1, <1>5, <2>1 DEF ProviderAnswers, StoreTypes
  <2>3. CallerTypes'
    BY <1>1, <1>5, <2>1 DEF ProviderAnswers, CallerTypes, callerVars
  <2>4. flight \in [Procs -> Flights']
    <3>1. Flights \subseteq Flights'
      BY <2>1 DEF Flights
    <3> QED
      BY <1>1, <3>1 DEF FlightTypes
  <2>5. CASE r.to = "nobody"
    <3>1. flight' = flight /\ lease' = lease
      BY <1>5, <2>5 DEF ProviderAnswers
    <3>2. FlightTypes' /\ OwnerRefreshes'
      BY <1>1, <2>4, <3>1 DEF FlightTypes, OwnerRefreshes
    <3> QED
      BY <2>2, <2>3, <3>2, TypeParts, PTL
  <2>6. CASE r.to # "nobody"
    <3>1. r.to \in Procs
      BY <1>1, <2>6 DEF StoreTypes
    <3>2. PICK new \in Flights' : flight' = [flight EXCEPT ![r.to] = new] /\ new.at \in Owning
      <4>1. CASE r.token = newest /\ ~revoked
        <5> DEFINE answered == [flight[r.to] EXCEPT !.at = "answered", !.answer = newest + 1]
        <5>1. flight' = [flight EXCEPT ![r.to] = answered] /\ newest' = newest + 1
          BY <1>5, <2>6, <4>1 DEF ProviderAnswers
        <5>2. answered \in Flights' /\ answered.at \in Owning
          BY <2>1, <2>4, <3>1, <5>1 DEF Flights, Owning
        <5> QED
          BY <5>1, <5>2
      <4>2. CASE ~(r.token = newest /\ ~revoked)
        <5> DEFINE rejected == [flight[r.to] EXCEPT !.at = "rejected"]
        <5>1. flight' = [flight EXCEPT ![r.to] = rejected]
          BY <1>5, <2>6, <4>2 DEF ProviderAnswers
        <5>2. rejected \in Flights' /\ rejected.at \in Owning
          BY <2>4, <3>1 DEF Flights, Owning
        <5> QED
          BY <5>1, <5>2
      <4> QED
        BY <4>1, <4>2
    <3>3. FlightTypes'
      BY <2>4, <3>1, <3>2 DEF FlightTypes
    <3>4. OwnerRefreshes'
      BY <1>1, <1>5, <3>1, <3>2 DEF ProviderAnswers, FlightTypes, OwnerRefreshes
    <3> QED
      BY <2>2, <2>3, <3>3, <3>4, TypeParts, PTL
  <2> QED
    BY <2>5, <2>6
<1>6. CASE Expires \/ Age \/ Revoke
  <2>1. UNCHANGED <<newest, wire, row, lease, pool, flight, callerVars>>
    BY <1>6 DEF Expires, Age, Revoke
  <2>2. aged' \in Tokens
    BY <1>1, <1>6 DEF Expires, Age, Revoke, StoreTypes, Tokens
  <2>3. revoked' \in BOOLEAN /\ expired' \in BOOLEAN /\ faults' \subseteq Faults
    BY <1>1, <1>6 DEF Expires, Age, Revoke, FaultUsed, StoreTypes
  <2>4. StoreTypes'
    BY <1>1, <2>1, <2>2, <2>3, SameTokens DEF StoreTypes
  <2>5. CallerTypes' /\ FlightTypes' /\ OwnerRefreshes'
    BY <1>1, <2>1, SameTokens DEF CallerTypes, FlightTypes, OwnerRefreshes, callerVars
  <2> QED
    BY <2>4, <2>5, TypeParts, PTL
<1> QED
  BY <1>2, <1>3, <1>4, <1>5, <1>6

LEMMA TypeStep ==
    ASSUME TypeOK, [Next]_vars
    PROVE  TypeOK'
<1>1. CASE Next
  BY <1>1, CallerType, FlightType, WorldType DEF Next, ProcessNext
<1>2. CASE UNCHANGED vars
  BY <1>2, SameTokens DEF vars, providerVars, callerVars, TypeOK, Tokens
<1> QED
  BY <1>1, <1>2

\* Every variable has its type, and a process that owns the lease is refreshing
\* (refreshStored releases it on every way out).
THEOREM Typed == Spec => []TypeOK
<1>1. Init => TypeOK
  BY TypeInit
<1>2. TypeOK /\ [Next]_vars => TypeOK'
  BY TypeStep
<1> QED
  BY <1>1, <1>2, PTL DEF Spec

-----------------------------------------------------------------------------
(* What a refresh in flight knows *)

\* A caller leaves the provider and the lease alone, and the refreshes that are
\* past the check of the row.
LEMMA CallerFrame ==
    ASSUME TypeOK, NEW c \in Callers, CallerNext(c) \/ Resume(c)
    PROVE  /\ UNCHANGED <<newest, revoked, aged, wire, lease, expired, faults>>
           /\ \A q \in Procs :
                 \/ flight'[q] = flight[q]
                 \/ {flight[q].at, flight'[q].at} \subseteq {"none", "waiting"}
<1>1. UNCHANGED <<newest, revoked, aged, wire, lease, expired, faults>>
  BY DEF CallerNext, Begin, BeginById, Select, UsageReported, Leaves, Resume, providerVars
<1>2. 0 \in Tokens /\ row \in Tokens /\ pool[ProcOf[c]] \in Tokens /\ sel[c] \in Tokens
  BY CallerAssumption DEF TypeOK, Tokens
<1>3. \/ flight' = flight
      \/ \E token \in Tokens, force \in BOOLEAN, as \in {"preflight", "resolve", "byId"} :
            Refresh(c, token, force, as)
      \/ flight[ProcOf[c]].at = "waiting" /\ Finish(ProcOf[c], 0)
  <2>1. ASSUME NEW force \in BOOLEAN, Begin(c, force)
        PROVE  \/ flight' = flight
               \/ \E token \in Tokens, as \in {"preflight", "resolve", "byId"} :
                     Refresh(c, token, force, as)
    BY <1>2, <2>1 DEF Begin
  <2>2. CASE BeginById(c) \/ Select(c) \/ UsageReported(c)
    BY <1>2, <2>2 DEF BeginById, Select, UsageReported
  <2>3. CASE Leaves(c) \/ Resume(c)
    BY <2>3 DEF Leaves, Resume
  <2> QED
    BY <2>1, <2>2, <2>3 DEF CallerNext
<1>4. \A q \in Procs : \/ flight'[q] = flight[q]
                      \/ {flight[q].at, flight'[q].at} \subseteq {"none", "waiting"}
  <2>1. CASE flight[ProcOf[c]].at = "waiting" /\ Finish(ProcOf[c], 0)
    BY <1>1, <1>2, <2>1, FinishType, CallerAssumption DEF NoFlight
  <2> QED
    BY <1>1, <1>3, <2>1, RefreshType
<1> QED
  BY <1>1, <1>4

\* A refresh moves no other one, and it has no answer when its step ends.
LEMMA FlightFrame ==
    ASSUME TypeOK, NEW p \in Procs,
           Looks(p) \/ TakesLease(p) \/ Persist(p) \/ Rejected(p) \/ GivesUp(p)
    PROVE  /\ UNCHANGED <<newest, revoked, aged>>
           /\ \A q \in Procs : q # p => flight'[q] = flight[q]
           /\ flight'[p].at \in {"none", "waiting", "trying", "requesting"}
<1>1. UNCHANGED <<newest, revoked, aged>>
  BY DEF GivesUp, Looks, TakesLease, Persist, Rejected, providerVars
<1>2. row \in Tokens /\ 0 \in Tokens /\ flight[p].answer \in Tokens
  BY DEF TypeOK, Tokens
<1>3. flight \in [Procs -> Flights]
  BY TypeParts DEF FlightTypes
<1>4. \/ \E token \in Tokens : Finish(p, token)
      \/ flight' = [flight EXCEPT ![p].at = "trying"]
      \/ flight' = [flight EXCEPT ![p].at = "waiting"]
      \/ flight' = [flight EXCEPT ![p].at = "requesting", ![p].current = row]
  BY <1>2 DEF GivesUp, Looks, TakesLease, Persist, Rejected, Reloaded
<1>5. CASE \E token \in Tokens : Finish(p, token)
  BY <1>1, <1>5, FinishType DEF NoFlight
<1> QED
  BY <1>1, <1>3, <1>4, <1>5 DEF Flights

\* The provider's answer is newer than what it was asked with.
LEMMA FlightStep ==
    ASSUME TypeOK, FlightInv, WireInv, [Next]_vars
    PROVE  FlightInv'
<1>1. ASSUME NEW c \in Callers, CallerNext(c) \/ Resume(c)
      PROVE  FlightInv'
  BY <1>1, CallerFrame DEF FlightInv
<1>2. ASSUME NEW p \in Procs, FlightNext(p) \/ GivesUp(p)
      PROVE  FlightInv'
  BY <1>2, FlightFrame DEF FlightNext, FlightInv
<1>3. CASE (\E p \in Procs : Renews(p)) \/ Expires \/ Age \/ Revoke
  BY <1>3 DEF Renews, Expires, Age, Revoke, FlightInv, providerVars
<1>4. ASSUME NEW p \in Procs, Crash(p)
      PROVE  FlightInv'
  BY <1>4 DEF Crash, FlightInv, TypeOK, NoFlight
<1>5. ASSUME NEW p \in Procs, Login(p)
      PROVE  FlightInv'
  BY <1>5 DEF Login, FlightInv, TypeOK, Tokens
<1>6. ASSUME NEW r \in wire, ProviderAnswers(r)
      PROVE  FlightInv'
  <2>1. CASE r.to = "nobody"
    BY <1>6, <2>1 DEF ProviderAnswers, FlightInv, TypeOK, Tokens
  <2>2. CASE r.to # "nobody"
    <3>1. r.to \in Procs /\ flight[r.to].current = r.token /\ r.token \in Tokens
      BY <2>2 DEF TypeOK, WireInv
    <3>2. CASE r.token = newest /\ ~revoked
      <4>1. /\ newest' = newest + 1 /\ revoked' = revoked
            /\ flight' = [flight EXCEPT ![r.to] = [flight[r.to] EXCEPT !.at = "answered",
                                                                        !.answer = newest + 1]]
        BY <1>6, <2>2, <3>2 DEF ProviderAnswers
      <4> QED
        BY <3>1, <4>1 DEF FlightInv, TypeOK, Tokens
    <3>3. CASE ~(r.token = newest /\ ~revoked)
      <4>1. /\ newest' = newest /\ revoked' = revoked
            /\ flight' = [flight EXCEPT ![r.to] = [flight[r.to] EXCEPT !.at = "rejected"]]
        BY <1>6, <2>2, <3>3 DEF ProviderAnswers
      <4>2. r.token < newest \/ revoked
        BY <3>1, <3>3 DEF TypeOK, Tokens
      <4>3. \A q \in Procs : \/ flight'[q] = flight[q]
                             \/ flight'[q].at = "rejected" /\ flight'[q].current = r.token
        BY <3>1, <4>1 DEF TypeOK
      <4> QED
        BY <4>1, <4>2, <4>3 DEF FlightInv
    <3> QED
      BY <3>2, <3>3
  <2> QED
    BY <2>1, <2>2
<1>7. CASE UNCHANGED vars
  BY <1>7 DEF vars, providerVars, FlightInv
<1> QED
  BY <1>1, <1>2, <1>3, <1>4, <1>5, <1>6, <1>7 DEF Next, ProcessNext

\* A request on its way is the one its process waits for.
LEMMA WireStep ==
    ASSUME TypeOK, WireInv, [Next]_vars
    PROVE  WireInv'
<1>1. ASSUME NEW c \in Callers, CallerNext(c) \/ Resume(c)
      PROVE  WireInv'
  BY <1>1, CallerFrame DEF WireInv
<1>2. ASSUME NEW p \in Procs, wire' \subseteq Orphaned(p) \/ wire' \subseteq {r \in wire : r.to # p},
             \A q \in Procs : q # p => flight'[q] = flight[q]
      PROVE  WireInv'
  BY <1>2, NameAssumption DEF WireInv, Orphaned, TypeOK
<1>3. ASSUME NEW p \in Procs, FlightNext(p)
      PROVE  WireInv'
  <2>1. \A q \in Procs : q # p => flight'[q] = flight[q]
    BY <1>3, FlightFrame DEF FlightNext
  <2>2. flight[p].at # "requesting"
    BY <1>3 DEF FlightNext, Looks, TakesLease, Persist, Rejected
  <2>3. CASE wire' = wire
    BY <1>2, <2>1, <2>2, <2>3 DEF WireInv
  <2>4. CASE wire' # wire
    <3>1. /\ wire' = wire \union {[to |-> p, token |-> row]}
          /\ flight' = [flight EXCEPT ![p] = [flight[p] EXCEPT !.at = "requesting", !.current = row]]
      BY <1>3, <2>4 DEF FlightNext, Looks, TakesLease, Persist, Rejected, providerVars
    <3> QED
      BY <2>1, <2>2, <3>1 DEF WireInv, TypeOK
  <2> QED
    BY <2>3, <2>4
<1>4. ASSUME NEW p \in Procs, GivesUp(p)
      PROVE  WireInv'
  BY <1>2, <1>4, FlightFrame DEF GivesUp
<1>5. ASSUME NEW p \in Procs, Crash(p)
      PROVE  WireInv'
  BY <1>2, <1>5 DEF Crash, TypeOK
<1>6. CASE (\E p \in Procs : Renews(p) \/ Login(p)) \/ Expires \/ Age \/ Revoke
  BY <1>6 DEF Renews, Login, Expires, Age, Revoke, WireInv, providerVars
<1>7. ASSUME NEW r \in wire, ProviderAnswers(r)
      PROVE  WireInv'
  <2>1. wire' = wire \ {r}
    BY <1>7 DEF ProviderAnswers
  <2>2. \A q \in Procs : q # r.to => flight'[q] = flight[q]
    BY <1>7 DEF ProviderAnswers, TypeOK
  <2>3. \A w \in wire : w.to \in Procs /\ w.to = r.to => w = r
    BY DEF WireInv, TypeOK
  <2> QED
    BY <2>1, <2>2, <2>3 DEF WireInv
<1>8. CASE UNCHANGED vars
  BY <1>8 DEF vars, providerVars, WireInv
<1> QED
  BY <1>1, <1>3, <1>4, <1>5, <1>6, <1>7, <1>8 DEF Next, ProcessNext

\* What the steps above say together.
LEMMA Refreshing == Spec => [](TypeOK /\ FlightInv /\ WireInv)
<1>1. Init => TypeOK /\ FlightInv /\ WireInv
  <2> SUFFICES ASSUME Init
               PROVE  TypeOK /\ FlightInv /\ WireInv
    OBVIOUS
  <2>1. wire = {} /\ \A p \in Procs : flight[p].at = "none"
    BY DEF Init, NoFlight
  <2> QED
    BY <2>1, TypeInit DEF FlightInv, WireInv
<1>2. TypeOK /\ FlightInv /\ WireInv /\ [Next]_vars => (TypeOK /\ FlightInv /\ WireInv)'
  BY TypeStep, FlightStep, WireStep
<1> QED
  BY <1>1, <1>2, PTL DEF Spec

\* The row is disabled by the process whose token was rejected, and under the
\* compare-and-set: what is stored then is what the provider rejected
\* (tryDisableAuthCredentialIfMatches).
THEOREM NoLiveGrantIsDisabled == Spec => NoLiveGrantDisabled
<1>1. TypeOK /\ FlightInv /\ WireInv /\ [Next]_vars
      => [row # 0 /\ row' = 0 => row # newest \/ revoked]_vars
  <2> SUFFICES ASSUME TypeOK, FlightInv, Next, row # 0, row' = 0
               PROVE  row # newest \/ revoked
    OBVIOUS
  <2>1. PICK p \in Procs : Persist(p) \/ Rejected(p)
    <3>1. ASSUME NEW c \in Callers, CallerNext(c) \/ Resume(c)
          PROVE  FALSE
      BY <3>1 DEF CallerNext, Begin, BeginById, Select, UsageReported, Leaves, Resume, Replace
    <3>2. ASSUME NEW q \in Procs, Looks(q) \/ TakesLease(q) \/ GivesUp(q) \/ Renews(q)
                                 \/ Crash(q) \/ Login(q)
          PROVE  FALSE
      BY <3>2 DEF Looks, TakesLease, GivesUp, Renews, Crash, Login, TypeOK
    <3>3. ~(Expires \/ Age \/ Revoke \/ \E r \in wire : ProviderAnswers(r))
      BY DEF Expires, Age, Revoke, ProviderAnswers
    <3> QED
      BY <3>1, <3>2, <3>3 DEF Next, FlightNext, ProcessNext
  <2>2. CASE Persist(p)
    <3>1. flight[p].answer = 0 /\ flight[p].at = "answered"
      BY <2>2 DEF Persist, Reloaded
    <3> QED
      BY <3>1 DEF FlightInv, TypeOK, Tokens
  <2>3. CASE Rejected(p)
    <3>1. flight[p].at = "rejected" /\ row = flight[p].current
      BY <2>3 DEF Rejected, Reloaded, Fenced
    <3> QED
      BY <3>1 DEF FlightInv, TypeOK, Tokens
  <2> QED
    BY <2>1, <2>2, <2>3
<1> QED
  BY <1>1, Refreshing, PTL DEF Spec, NoLiveGrantDisabled

-----------------------------------------------------------------------------
(* What the callers of a finished refresh hold *)

\* Who started a refresh waits for it.
LEMMA JoinStep ==
    ASSUME TypeOK, WireInv, JoinInv, [Next]_vars
    PROVE  JoinInv'
<1>1. ASSUME NEW p \in Procs, flight'[p].at # "none" => flight'[p].by = flight[p].by /\ flight[p].at # "none",
             \A q \in Procs : q # p => flight'[q] = flight[q],
             \A c \in Callers : ProcOf[c] # p \/ flight'[p].at # "none" => at'[c] = at[c] \/ at[c] # "joined"
      PROVE  JoinInv'
  BY <1>1 DEF JoinInv
<1>2. ASSUME NEW p \in Procs, NEW token \in Tokens, Finish(p, token), newest' = newest
      PROVE  JoinInv'
  <2>1. flight'[p].at = "none" /\ \A q \in Procs : q # p => flight'[q] = flight[q]
    BY <1>2, FinishType DEF NoFlight
  <2>2. \A c \in Callers : ProcOf[c] # p => at'[c] = at[c]
    BY <1>2 DEF Finish
  <2> QED
    BY <1>1, <2>1, <2>2
<1>3. ASSUME UNCHANGED flight, \A c \in Callers : at'[c] = at[c] \/ at[c] # "joined"
      PROVE  JoinInv'
  BY <1>3 DEF JoinInv
<1>4. ASSUME NEW c \in Callers, NEW token \in Tokens, NEW force \in BOOLEAN,
             NEW as \in {"preflight", "resolve", "byId"}, Refresh(c, token, force, as),
             at[c] # "joined"
      PROVE  JoinInv'
  <2>1. \A k \in Callers : k # c => at'[k] = at[k]
    BY <1>4 DEF Refresh, TypeOK
  <2>2. CASE flight' = flight
    BY <1>3, <1>4, <2>1, <2>2
  <2>3. CASE flight' # flight
    <3>1. /\ at'[c] = "joined"
          /\ flight' = [flight EXCEPT ![ProcOf[c]] = [at |-> "waiting", by |-> c, forced |-> force,
                                                      current |-> 0, answer |-> 0]]
      BY <1>4, <2>3 DEF Refresh, TypeOK
    <3>2. flight'[ProcOf[c]].by = c /\ \A q \in Procs : q # ProcOf[c] => flight'[q] = flight[q]
      BY <3>1, CallerAssumption DEF TypeOK
    <3> QED
      BY <1>4, <2>1, <3>1, <3>2 DEF JoinInv
  <2> QED
    BY <2>2, <2>3
<1>5. ASSUME NEW c \in Callers, CallerNext(c)
      PROVE  JoinInv'
  <2>1. /\ ProcOf[c] \in Procs /\ 0 \in Tokens /\ row \in Tokens
        /\ pool[ProcOf[c]] \in Tokens /\ sel[c] \in Tokens
    BY CallerAssumption DEF TypeOK, Tokens
  <2>2. ASSUME NEW force \in BOOLEAN, Begin(c, force)
        PROVE  JoinInv'
    BY <1>3, <1>4, <2>1, <2>2 DEF Begin, TypeOK
  <2>3. CASE BeginById(c) \/ UsageReported(c)
    BY <1>4, <2>1, <2>3 DEF BeginById, UsageReported
  <2>4. CASE Select(c)
    BY <1>3, <1>4, <2>1, <2>4 DEF Select, TypeOK
  <2>5. CASE Leaves(c)
    <3>1. CASE flight[ProcOf[c]].by # c
      <4>1. flight' = flight /\ at' = [at EXCEPT ![c] = "idle"]
        BY <2>5, <3>1 DEF Leaves
      <4> QED
        BY <3>1, <4>1 DEF JoinInv, TypeOK
    <3>2. CASE Finish(ProcOf[c], 0)
      BY <1>2, <2>1, <2>5, <3>2 DEF Leaves, providerVars
    <3> QED
      BY <2>5, <3>1, <3>2 DEF Leaves
  <2> QED
    BY <1>5, <2>2, <2>3, <2>4, <2>5 DEF CallerNext
<1>6. ASSUME NEW c \in Callers, Resume(c)
      PROVE  JoinInv'
  BY <1>3, <1>6 DEF Resume, TypeOK
<1>7. ASSUME NEW p \in Procs, FlightNext(p) \/ GivesUp(p)
      PROVE  JoinInv'
  <2>1. row \in Tokens /\ 0 \in Tokens /\ flight[p].answer \in Tokens /\ newest' = newest
    BY <1>7, FlightFrame DEF FlightNext, TypeOK, Tokens
  <2>2. \/ \E token \in Tokens : Finish(p, token)
        \/ /\ \/ flight' = [flight EXCEPT ![p].at = "trying"]
              \/ flight' = [flight EXCEPT ![p].at = "waiting"]
              \/ flight' = [flight EXCEPT ![p].at = "requesting", ![p].current = row]
           /\ flight[p].at # "none" /\ at' = at
    BY <1>7, <2>1 DEF FlightNext, GivesUp, Looks, TakesLease, Persist, Rejected, Reloaded, callerVars
  <2>3. CASE \E token \in Tokens : Finish(p, token)
    BY <1>2, <2>1, <2>3
  <2>4. CASE ~\E token \in Tokens : Finish(p, token)
    <3>1. flight'[p].by = flight[p].by /\ \A q \in Procs : q # p => flight'[q] = flight[q]
      BY <2>2, <2>4 DEF TypeOK
    <3> QED
      BY <1>1, <2>2, <2>4, <3>1
  <2> QED
    BY <2>3, <2>4
<1>8. ASSUME NEW p \in Procs, Crash(p)
      PROVE  JoinInv'
  <2>1. flight'[p].at = "none" /\ \A q \in Procs : q # p => flight'[q] = flight[q]
    BY <1>8 DEF Crash, TypeOK, NoFlight
  <2>2. \A c \in Callers : ProcOf[c] # p => at'[c] = at[c]
    BY <1>8 DEF Crash
  <2> QED
    BY <1>1, <2>1, <2>2
<1>9. CASE (\E p \in Procs : Renews(p) \/ Login(p)) \/ Expires \/ Age \/ Revoke
  BY <1>3, <1>9 DEF Renews, Login, Expires, Age, Revoke, callerVars, CallersUnchanged
<1>10. ASSUME NEW r \in wire, ProviderAnswers(r)
       PROVE  JoinInv'
  <2>1. CASE r.to = "nobody"
    BY <1>3, <1>10, <2>1 DEF ProviderAnswers, callerVars
  <2>2. CASE r.to # "nobody"
    <3>1. r.to \in Procs /\ flight[r.to].at = "requesting" /\ at' = at
      BY <1>10, <2>2 DEF TypeOK, WireInv, ProviderAnswers, callerVars
    <3>2. /\ flight'[r.to].by = flight[r.to].by
          /\ \A q \in Procs : q # r.to => flight'[q] = flight[q]
      BY <1>10, <2>2, <3>1 DEF ProviderAnswers, TypeOK
    <3> QED
      BY <1>1, <3>1, <3>2
  <2> QED
    BY <2>1, <2>2
<1>11. CASE UNCHANGED vars
  BY <1>3, <1>11 DEF vars, callerVars
<1> QED
  BY <1>5, <1>6, <1>7, <1>8, <1>9, <1>10, <1>11 DEF Next, ProcessNext

\* A caller that writes what it got writes what is stored.
LEMMA ResumeKeepsRow ==
    ASSUME GotInv, NEW c \in Callers, Resume(c)
    PROVE  row' = row
BY DEF GotInv, HasResult, Resume, Replace

\* GotInv survives a step of p that leaves the row alone: the pool of p is
\* reloaded only where nobody has a result, or has company.
LEMMA GotKept ==
    ASSUME TypeOK, GotInv, NEW p \in Procs, row' = row,
           \A q \in Procs : q # p => pool'[q] = pool[q],
           pool'[p] \in {pool[p], row},
           \A c \in Callers : ProcOf[c] # p => at'[c] = at[c] /\ got'[c] = got[c],
           \A c \in Callers : ProcOf[c] = p =>
               /\ at'[c] # "usage"
               /\ HasResult(c)' => \/ HasResult(c) /\ got'[c] = got[c] /\ Accompanied(c)
                                   \/ pool'[p] = row /\ got'[c] = row
    PROVE  GotInv'
<1> SUFFICES ASSUME NEW c \in Callers
             PROVE  /\ at'[c] # "usage"
                    /\ HasResult(c)' /\ row # 0 =>
                          /\ pool'[ProcOf[c]] = got'[c]
                          /\ Accompanied(c)' => row = pool'[ProcOf[c]]
  BY DEF GotInv
<1>1. ProcOf[c] \in Procs
  BY CallerAssumption
<1>2. CASE ProcOf[c] # p
  <2>1. HasResult(c)' = HasResult(c) /\ Accompanied(c)' = Accompanied(c)
    BY <1>2 DEF HasResult, Accompanied
  <2> QED
    BY <1>1, <1>2, <2>1 DEF GotInv
<1>3. CASE ProcOf[c] = p
  BY <1>3 DEF GotInv
<1> QED
  BY <1>2, <1>3

\* And a step in which p stores a token: who has a result is alone in its process.
LEMMA GotStored ==
    ASSUME ~StoresBetween, TypeOK, GotInv, NEW p \in Procs, MayStore, SettledIn(p), row # 0,
           pool' = [pool EXCEPT ![p] = row'],
           \A c \in Callers : ProcOf[c] # p => at'[c] = at[c] /\ got'[c] = got[c],
           \A c \in Callers : ProcOf[c] = p =>
               at'[c] # "usage" /\ (HasResult(c)' => got'[c] = row')
    PROVE  GotInv'
<1> SUFFICES ASSUME NEW c \in Callers
             PROVE  /\ at'[c] # "usage"
                    /\ HasResult(c)' =>
                          /\ pool'[ProcOf[c]] = got'[c]
                          /\ Accompanied(c)' => row' = pool'[ProcOf[c]]
  BY DEF GotInv
<1>1. ProcOf[c] \in Procs /\ pool \in [Procs -> Tokens]
  BY CallerAssumption DEF TypeOK
<1>2. CASE ProcOf[c] # p
  <2>1. HasResult(c)' = HasResult(c) /\ Accompanied(c)' = Accompanied(c)
    BY <1>2 DEF HasResult, Accompanied
  <2>2. HasResult(c) => ~Accompanied(c)
    BY DEF MayStore, HasResult, Accompanied
  <2>3. pool'[ProcOf[c]] = pool[ProcOf[c]]
    BY <1>1, <1>2
  <2> QED
    BY <1>2, <2>1, <2>2, <2>3 DEF GotInv
<1>3. CASE ProcOf[c] = p
  <2>1. pool'[p] = row'
    BY <1>1
  <2> QED
    BY <1>3, <2>1
<1> QED
  BY <1>2, <1>3

LEMMA GotStep ==
    ASSUME ~ChecksUsage, ~StoresBetween, TypeOK, JoinInv, GotInv, [Next]_vars
    PROVE  GotInv'
<1> USE CallerAssumption
<1>1. pool \in [Procs -> Tokens] /\ at \in [Callers -> {"idle", "joined", "resumed", "trying", "usage"}]
      /\ got \in [Callers -> Tokens]
  BY DEF TypeOK
<1>2. ASSUME NEW c \in Callers, Resume(c)
      PROVE  GotInv'
  <2>1. row' = row
    BY <1>2, ResumeKeepsRow
  <2>2. at' = [at EXCEPT ![c] = at'[c]] /\ at'[c] \in {"idle", "trying"} /\ got' = [got EXCEPT ![c] = 0]
    BY <1>1, <1>2 DEF Resume
  <2>3. /\ \A q \in Procs : q # ProcOf[c] => pool'[q] = pool[q]
        /\ pool'[ProcOf[c]] \in {pool[ProcOf[c]], row}
    BY <1>1, <1>2 DEF Resume, Replace, GotInv, HasResult
  <2>4. \A k \in Callers : k # c => at'[k] = at[k] /\ got'[k] = got[k]
    BY <1>1, <2>2
  <2>5. \A k \in Callers : k # c /\ ProcOf[k] = ProcOf[c] => Accompanied(k)
    BY <1>2 DEF Resume, Accompanied
  <2>6. \A k \in Callers : at'[k] # "usage"
    BY <2>2, <2>4 DEF GotInv
  <2> QED
    BY <2>1, <2>2, <2>3, <2>4, <2>5, <2>6, GotKept DEF HasResult
\* The steps after which nobody of p has a result that it had.
<1>3. ASSUME NEW p \in Procs, row' = row,
             pool' = pool \/ pool' = [pool EXCEPT ![p] = row],
             \A c \in Callers : ProcOf[c] # p => at'[c] = at[c] /\ got'[c] = got[c],
             \A c \in Callers : ProcOf[c] = p =>
                 /\ at'[c] # "usage"
                 /\ HasResult(c)' => \/ HasResult(c) /\ got'[c] = got[c] /\ Accompanied(c)
                                     \/ pool' = [pool EXCEPT ![p] = row] /\ got'[c] = row
      PROVE  GotInv'
  <2>1. /\ \A q \in Procs : q # p => pool'[q] = pool[q]
        /\ pool'[p] \in {pool[p], row}
        /\ pool' = [pool EXCEPT ![p] = row] => pool'[p] = row
    BY <1>1, <1>3
  <2> QED
    BY <1>3, <2>1, GotKept
<1>4. ASSUME NEW c \in Callers, CallerNext(c)
      PROVE  GotInv'
  <2>1. /\ ProcOf[c] \in Procs /\ row' = row
        /\ pool' = pool \/ pool' = [pool EXCEPT ![ProcOf[c]] = row]
    BY <1>4 DEF CallerNext, Begin, BeginById, Select, UsageReported, Leaves
  <2>2. \A k \in Callers : at[k] # "usage"
    BY DEF GotInv
  <2>3. CASE Select(c)
    <3>1. /\ pool' = [pool EXCEPT ![ProcOf[c]] = row]
          /\ \A k \in Callers : k # c => at'[k] = at[k] /\ got'[k] = got[k]
          /\ at'[c] # "usage" /\ (HasResult(c)' => got'[c] = row)
      BY <1>1, <2>3 DEF Select, Refresh, HasResult
    <3>2. \A k \in Callers : k # c /\ ProcOf[k] = ProcOf[c] => Accompanied(k)
      BY <2>3 DEF Select, Accompanied
    <3>3. \A k \in Callers : k # c /\ HasResult(k)' => at[k] = "resumed" /\ HasResult(k) /\ got'[k] = got[k]
      BY <3>1 DEF HasResult
    <3>4. \A k \in Callers : at'[k] # "usage"
      BY <2>2, <3>1
    <3>5. \A k \in Callers : ProcOf[k] = ProcOf[c] /\ HasResult(k)' =>
             \/ HasResult(k) /\ got'[k] = got[k] /\ Accompanied(k)
             \/ pool' = [pool EXCEPT ![ProcOf[c]] = row] /\ got'[k] = row
      BY <3>1, <3>2, <3>3
    <3>6. \A k \in Callers : ProcOf[k] # ProcOf[c] => at'[k] = at[k] /\ got'[k] = got[k]
      BY <3>1
    <3> QED
      BY <1>3, <2>1, <3>4, <3>5, <3>6
  <2>4. CASE ~Select(c)
    <3>1. SettledIn(ProcOf[c])
      BY <1>4, <2>4 DEF CallerNext
    <3>2. ~UsageReported(c)
      BY <2>2 DEF UsageReported
    <3>3. CASE Leaves(c)
      <4>1. \A k \in Callers : \/ at'[k] = at[k] /\ got'[k] = got[k]
                               \/ ProcOf[k] = ProcOf[c] /\ at'[k] = "idle"
                               \/ ProcOf[k] = ProcOf[c] /\ at'[k] = "resumed" /\ got'[k] = 0
        BY <1>1, <3>3 DEF Leaves, Finish
      <4> QED
        BY <1>3, <2>1, <2>2, <3>1, <4>1 DEF SettledIn, HasResult
    <3>4. ASSUME NEW force \in BOOLEAN, Begin(c, force) \/ BeginById(c)
          PROVE  GotInv'
      <4>1. /\ at'[c] \in {"joined", "trying"}
            /\ \A k \in Callers : k # c => at'[k] = at[k] /\ got'[k] = got[k]
        BY <1>1, <3>4 DEF Begin, BeginById, Refresh
      <4> QED
        BY <1>3, <2>1, <2>2, <3>1, <4>1 DEF SettledIn, HasResult
    <3> QED
      BY <1>4, <2>4, <3>2, <3>3, <3>4 DEF CallerNext
  <2> QED
    BY <2>3, <2>4
<1>5. ASSUME NEW p \in Procs, NEW token, Finish(p, token)
      PROVE  /\ \A c \in Callers : ProcOf[c] # p => at'[c] = at[c] /\ got'[c] = got[c]
             /\ \A c \in Callers : ProcOf[c] = p => at'[c] # "usage"
             /\ \A c \in Callers : ProcOf[c] = p /\ HasResult(c)' =>
                    \/ HasResult(c) /\ got'[c] = got[c]
                    \/ got'[c] = token /\ token # 0
  BY <1>5 DEF Finish, HasResult, GotInv
<1>6. ASSUME NEW p \in Procs, Looks(p) \/ TakesLease(p)
      PROVE  GotInv'
  <2>1. /\ row' = row
        /\ \/ UNCHANGED callerVars /\ (pool' = pool \/ pool' = [pool EXCEPT ![p] = row])
           \/ Finish(p, row) /\ pool' = [pool EXCEPT ![p] = row]
    BY <1>6 DEF Looks, TakesLease
  <2>2. \A c \in Callers : ProcOf[c] = p /\ at[c] = "resumed" => Accompanied(c)
    <3>1. flight[p].at # "none"
      BY <1>6 DEF Looks, TakesLease
    <3> QED
      BY <3>1 DEF JoinInv, Accompanied
  <2>3. CASE UNCHANGED callerVars
    BY <1>3, <2>1, <2>2, <2>3 DEF callerVars, HasResult, GotInv, Finish
  <2>4. CASE Finish(p, row) /\ pool' = [pool EXCEPT ![p] = row]
    <3>1. \A c \in Callers : HasResult(c) => at[c] = "resumed"
      BY DEF HasResult
    <3>2. \A c \in Callers : ProcOf[c] = p /\ HasResult(c)' =>
             \/ HasResult(c) /\ got'[c] = got[c] /\ Accompanied(c)
             \/ pool' = [pool EXCEPT ![p] = row] /\ got'[c] = row
      BY <1>5, <2>2, <2>4, <3>1
    <3>3. /\ \A c \in Callers : ProcOf[c] # p => at'[c] = at[c] /\ got'[c] = got[c]
          /\ \A c \in Callers : ProcOf[c] = p => at'[c] # "usage"
      BY <1>5, <2>4
    <3> QED
      BY <1>3, <2>1, <2>4, <3>2, <3>3
  <2> QED
    BY <2>1, <2>3, <2>4
<1>7. ASSUME NEW p \in Procs, SettledIn(p), NEW token, Finish(p, token), row' = row,
             \/ token = 0 /\ pool' = pool
             \/ token \in {0, row} /\ pool' = [pool EXCEPT ![p] = row]
      PROVE  GotInv'
  BY <1>3, <1>5, <1>7 DEF SettledIn, HasResult
<1>8. ASSUME NEW p \in Procs, SettledIn(p), MayStore, Persist(p)
      PROVE  GotInv'
  <2>1. CASE Fenced(p) /\ row' = flight[p].answer /\ pool' = [pool EXCEPT ![p] = row'] /\ Finish(p, row')
    <3>1. row # 0
      BY <2>1 DEF Fenced
    <3> QED
      <4>1. \A c \in Callers : ProcOf[c] = p => ~HasResult(c)
        BY <1>8 DEF SettledIn, HasResult
      <4>2. /\ \A c \in Callers : ProcOf[c] # p => at'[c] = at[c] /\ got'[c] = got[c]
            /\ \A c \in Callers : ProcOf[c] = p =>
                   at'[c] # "usage" /\ (HasResult(c)' => got'[c] = row')
        BY <1>5, <2>1, <4>1
      <4> QED
        BY <1>8, <2>1, <3>1, <4>2, GotStored
  <2>2. CASE Reloaded(p)
    BY <1>7, <1>8, <2>2 DEF Reloaded
  <2>3. CASE Finish(p, 0) /\ UNCHANGED <<row, pool>>
    BY <1>7, <1>8, <2>3
  <2> QED
    BY <1>8, <2>1, <2>2, <2>3 DEF Persist
<1>9. ASSUME NEW p \in Procs, SettledIn(p), Rejected(p)
      PROVE  GotInv'
  <2>1. CASE row' = 0 /\ Finish(p, 0)
    BY <1>5, <2>1 DEF GotInv
  <2>2. CASE Reloaded(p)
    BY <1>7, <1>9, <2>2 DEF Reloaded
  <2> QED
    BY <1>9, <2>1, <2>2 DEF Rejected
<1>10. ASSUME NEW p \in Procs, SettledIn(p), GivesUp(p)
       PROVE  GotInv'
  BY <1>7, <1>10 DEF GivesUp
<1>11. ASSUME NEW p \in Procs, Crash(p)
       PROVE  GotInv'
  BY <1>3, <1>11 DEF Crash, HasResult
<1>12. ASSUME NEW p \in Procs, SettledIn(p), MayStore, Login(p)
       PROVE  GotInv'
  <2>1. row # 0 /\ pool' = [pool EXCEPT ![p] = row'] /\ UNCHANGED <<at, got>>
    BY <1>12 DEF Login, callerVars
  <2> QED
    BY <1>12, <2>1, GotStored DEF SettledIn, HasResult, GotInv
<1>13. CASE \/ \E p \in Procs : Renews(p)
            \/ Expires \/ Age \/ Revoke
            \/ \E r \in wire : ProviderAnswers(r)
            \/ UNCHANGED vars
  <2>1. UNCHANGED <<at, got, row, pool>>
    BY <1>13 DEF Renews, Expires, Age, Revoke, ProviderAnswers, vars, callerVars, CallersUnchanged
  <2> QED
    BY <2>1 DEF GotInv, HasResult, Accompanied
<1> QED
  BY <1>2, <1>4, <1>6, <1>8, <1>9, <1>10, <1>11, <1>12, <1>13 DEF Next, FlightNext, ProcessNext

\* What changes the row.
LEMMA RowChanges ==
    ASSUME TypeOK, FlightInv, Next, row' # 0, row' # row
    PROVE  \/ row' >= row
           \/ \E c \in Callers : Resume(c) /\ HasResult(c) /\ row' = got[c]
<1>1. ASSUME NEW c \in Callers, Resume(c)
      PROVE  HasResult(c) /\ row' = got[c]
  BY <1>1 DEF Resume, Replace, HasResult
<1>2. ~\E c \in Callers : CallerNext(c)
  BY DEF CallerNext, Begin, BeginById, Select, UsageReported, Leaves
<1>3. ~(Expires \/ Age \/ Revoke \/ \E r \in wire : ProviderAnswers(r))
  BY DEF Expires, Age, Revoke, ProviderAnswers
<1>4. ASSUME NEW p \in Procs, Persist(p) \/ Rejected(p) \/ Login(p)
      PROVE  row' >= row
  <2>1. CASE Persist(p)
    <3>1. row = flight[p].current /\ row' = flight[p].answer /\ flight[p].at = "answered"
      BY <2>1 DEF Persist, Reloaded, Fenced
    <3> QED
      BY <3>1 DEF FlightInv, TypeOK, Tokens
  <2>2. CASE Rejected(p)
    BY <2>2 DEF Rejected, Reloaded
  <2>3. CASE Login(p)
    BY <2>3 DEF Login, TypeOK, Tokens
  <2> QED
    BY <1>4, <2>1, <2>2, <2>3
<1>5. ASSUME NEW p \in Procs, Looks(p) \/ TakesLease(p) \/ GivesUp(p) \/ Renews(p) \/ Crash(p)
      PROVE  FALSE
  BY <1>5 DEF Looks, TakesLease, GivesUp, Renews, Crash
<1> QED
  BY <1>1, <1>2, <1>3, <1>4, <1>5 DEF Next, FlightNext, ProcessNext

\* However the processes interleave and whatever fails, the steps of a refresh
\* and a sign-in never take the row back (persistRefreshed and disable, under the
\* lease and the compare-and-set): when it does go back, a caller has written a
\* result it had before (replaceById, pool.ts 476).
THEOREM OnlyResultsGoBack ==
    Spec => [][row' # 0 /\ row' < row
               => \E c \in Callers : at[c] = "resumed" /\ row' = got[c]]_vars
<1>1. TypeOK /\ FlightInv /\ WireInv /\ [Next]_vars
      => [row' # 0 /\ row' < row => \E c \in Callers : at[c] = "resumed" /\ row' = got[c]]_vars
  <2> SUFFICES ASSUME TypeOK, FlightInv, Next, row' # 0, row' < row
               PROVE  \E c \in Callers : at[c] = "resumed" /\ row' = got[c]
    OBVIOUS
  <2>1. row' \in Nat /\ row \in Nat
    BY TypeStep DEF TypeOK, Tokens
  <2> QED
    BY <2>1, RowChanges DEF Resume
<1> QED
  BY <1>1, Refreshing, PTL DEF Spec

\* Where no usage report is awaited, and a result is used before another process
\* stores a token or by the only caller of its process: the row never goes back
\* to a token that was spent, whatever fails and however late that caller is.
THEOREM RowNeverBack ==
    ASSUME ~ChecksUsage, ~StoresBetween
    PROVE  Spec => RowForward
<1>1. Init => JoinInv /\ GotInv
  BY DEF Init, JoinInv, GotInv, HasResult, NoFlight
<1>2. TypeOK /\ WireInv /\ JoinInv /\ GotInv /\ [Next]_vars => JoinInv' /\ GotInv'
  BY JoinStep, GotStep
<1>3. TypeOK /\ FlightInv /\ GotInv /\ [Next]_vars => [row' # 0 => row' >= row]_vars
  <2> SUFFICES ASSUME TypeOK, FlightInv, GotInv, Next, row' # 0
               PROVE  row' >= row
    OBVIOUS
  <2>1. CASE row' = row
    BY <2>1 DEF TypeOK, Tokens
  <2>2. CASE row' # row
    BY <2>2, RowChanges, ResumeKeepsRow
  <2> QED
    BY <2>1, <2>2
<1> QED
  BY <1>1, <1>2, <1>3, Refreshing, PTL DEF Spec, RowForward

-----------------------------------------------------------------------------
(* Who owns the lease *)

LEMMA LeaseStep ==
    ASSUME TypeOK, WireInv, LeaseInv, [Next]_vars
    PROVE  LeaseInv'
<1> USE NameAssumption
<1>1. ASSUME NEW c \in Callers, CallerNext(c) \/ Resume(c)
      PROVE  LeaseInv'
  BY <1>1, CallerFrame DEF LeaseInv, Owning
<1>2. ASSUME NEW p \in Procs, flight'[p].at \notin Owning, faults \subseteq faults',
             \A q \in Procs : q # p => flight'[q] = flight[q],
             \/ UNCHANGED <<lease, expired>> /\ lease # p
             \/ lease' = "free" /\ expired' = FALSE /\ (lease = p \/ LeaseFree)
      PROVE  LeaseInv'
  BY <1>2 DEF LeaseInv, LeaseFree, TypeOK
<1>3. ASSUME NEW p \in Procs, Looks(p)
      PROVE  LeaseInv'
  <2>1. flight'[p].at \notin Owning
    BY <1>3, FinishType DEF Looks, TypeOK, Owning, NoFlight, providerVars
  <2>2. lease # p /\ UNCHANGED <<lease, expired, faults>>
    BY <1>3 DEF Looks, TypeOK, Owning
  <2>3. \A q \in Procs : q # p => flight'[q] = flight[q]
    BY <1>3, FlightFrame
  <2> QED
    BY <1>2, <2>1, <2>2, <2>3
<1>4. ASSUME NEW p \in Procs, TakesLease(p)
      PROVE  LeaseInv'
  <2>1. \A q \in Procs : q # p => flight'[q] = flight[q]
    BY <1>4, FlightFrame
  <2>2. lease # p /\ faults' = faults /\ newest' = newest
    BY <1>4 DEF TakesLease, TypeOK, Owning
  <2>3. CASE ~LeaseFree
    <3>1. flight'[p].at \notin Owning /\ UNCHANGED <<lease, expired>>
      BY <1>4, <2>3 DEF TakesLease, TypeOK, Owning
    <3> QED
      BY <1>2, <2>1, <2>2, <3>1
  <2>4. CASE LeaseFree /\ (row = 0 \/ Adopted(p))
    <3>1. Finish(p, row) /\ lease' = "free" /\ expired' = FALSE /\ row \in Tokens
      BY <1>4, <2>4 DEF TakesLease, TypeOK
    <3>2. flight'[p].at \notin Owning
      BY <2>2, <3>1, FinishType DEF NoFlight, Owning
    <3> QED
      BY <1>2, <2>1, <2>2, <2>4, <3>1, <3>2
  <2>5. CASE LeaseFree /\ ~(row = 0 \/ Adopted(p))
    <3>1. lease' = p /\ expired' = FALSE
      BY <1>4, <2>5 DEF TakesLease
    <3> QED
      BY <2>1, <2>2, <2>5, <3>1 DEF LeaseInv, LeaseFree
  <2> QED
    BY <2>3, <2>4, <2>5
<1>5. ASSUME NEW p \in Procs, Persist(p) \/ Rejected(p) \/ GivesUp(p)
      PROVE  LeaseInv'
  <2>1. Release(p) /\ faults \subseteq faults'
    BY <1>5 DEF Persist, Rejected, GivesUp, FaultUsed
  <2>2. /\ \A q \in Procs : q # p => flight'[q] = flight[q]
        /\ newest' = newest
    BY <1>5, FlightFrame
  <2>3. row \in Tokens /\ 0 \in Tokens /\ flight[p].answer \in Tokens
    BY DEF TypeOK, Tokens
  <2>4. \E token \in Tokens : Finish(p, token)
    BY <1>5, <2>3 DEF Persist, Rejected, GivesUp, Reloaded
  <2>5. flight'[p].at \notin Owning
    BY <2>2, <2>4, FinishType DEF NoFlight, Owning
  <2> QED
    BY <1>2, <2>1, <2>2, <2>5 DEF Release
<1>6. ASSUME NEW p \in Procs, Crash(p)
      PROVE  LeaseInv'
  BY <1>6 DEF Crash, FaultUsed, LeaseInv, TypeOK, NoFlight, Owning
<1>7. CASE Expires
  BY <1>7 DEF Expires, FaultUsed, LeaseInv
<1>8. CASE (\E p \in Procs : Renews(p) \/ Login(p)) \/ Age \/ Revoke
  BY <1>8 DEF Renews, Login, Age, Revoke, FaultUsed, LeaseInv
<1>9. ASSUME NEW r \in wire, ProviderAnswers(r)
      PROVE  LeaseInv'
  BY <1>9 DEF ProviderAnswers, WireInv, LeaseInv, TypeOK, Owning
<1>10. CASE UNCHANGED vars
  BY <1>10 DEF vars, LeaseInv
<1> QED
  BY <1>1, <1>3, <1>4, <1>5, <1>6, <1>7, <1>8, <1>9, <1>10 DEF Next, FlightNext, ProcessNext

LEMMA OrphanStep ==
    ASSUME TypeOK, OrphanInv, [Next]_vars
    PROVE  OrphanInv'
<1>1. ASSUME NEW c \in Callers, CallerNext(c) \/ Resume(c)
      PROVE  OrphanInv'
  BY <1>1, CallerFrame DEF OrphanInv
<1>2. ASSUME NEW p \in Procs, FlightNext(p)
      PROVE  OrphanInv'
  BY <1>2, NameAssumption
     DEF FlightNext, Looks, TakesLease, Persist, Rejected, providerVars, OrphanInv
<1>3. ASSUME NEW p \in Procs, GivesUp(p) \/ Crash(p)
      PROVE  OrphanInv'
  BY <1>3 DEF GivesUp, Crash, FaultUsed, OrphanInv
<1>4. CASE (\E p \in Procs : Renews(p) \/ Login(p)) \/ Expires \/ Age \/ Revoke
  BY <1>4 DEF Renews, Login, Expires, Age, Revoke, FaultUsed, OrphanInv, providerVars
<1>5. ASSUME NEW r \in wire, ProviderAnswers(r)
      PROVE  OrphanInv'
  BY <1>5 DEF ProviderAnswers, OrphanInv
<1>6. CASE UNCHANGED vars
  BY <1>6 DEF vars, providerVars, OrphanInv
<1> QED
  BY <1>1, <1>2, <1>3, <1>4, <1>5, <1>6 DEF Next, ProcessNext

-----------------------------------------------------------------------------
(* The grant is kept *)

\* Who has a newer token than the one stored, and may store it.
Holder(p) == flight[p].at = "answered" /\ flight[p].answer = newest /\ Fenced(p)

\* As long as nothing fails, who is refreshing owns the lease.
LEMMA OneOwner ==
    ASSUME LeaseInv, faults \subseteq {"revoke"}
    PROVE  ~expired /\ \A p \in Procs : flight[p].at \in Owning => lease = p
BY DEF LeaseInv

\* AtHand survives a step that leaves the row, the provider and the holder alone.
LEMMA AtHandKept ==
    ASSUME AtHand, UNCHANGED <<newest, row>>, faults \subseteq faults',
           \A p \in Procs : faults' \subseteq {"revoke"} /\ Holder(p) => Holder(p)'
    PROVE  AtHand'
BY DEF AtHand, Holder

LEMMA AtHandStep ==
    ASSUME TypeOK, FlightInv, WireInv, GotInv, LeaseInv, OrphanInv, AtHand, [Next]_vars
    PROVE  AtHand'
<1> USE NameAssumption
<1>1. ASSUME NEW c \in Callers, CallerNext(c) \/ Resume(c)
      PROVE  AtHand'
  <2>1. row' = row
    BY <1>1, ResumeKeepsRow DEF CallerNext, Begin, BeginById, Select, UsageReported, Leaves
  <2>2. \A p \in Procs : Holder(p) => Holder(p)'
    BY <1>1, <2>1, CallerFrame DEF Holder, Fenced
  <2> QED
    BY <1>1, <2>1, <2>2, CallerFrame, AtHandKept
<1>2. ASSUME NEW p \in Procs, Looks(p) \/ TakesLease(p)
      PROVE  AtHand'
  <2>1. UNCHANGED <<newest, row, faults>> /\ flight[p].at \in {"waiting", "trying"}
    BY <1>2 DEF Looks, TakesLease, providerVars
  <2>2. \A q \in Procs : q # p => flight'[q] = flight[q]
    BY <1>2, FlightFrame
  <2>3. \A q \in Procs : faults \subseteq {"revoke"} /\ Holder(q) => UNCHANGED <<lease, expired>>
    BY <1>2, OneOwner DEF Holder, Fenced, Looks, TakesLease, LeaseFree, Owning
  <2> QED
    BY <2>1, <2>2, <2>3, AtHandKept DEF Holder, Fenced
<1>3. ASSUME NEW p \in Procs, Persist(p)
      PROVE  AtHand'
  <2>1. /\ UNCHANGED <<newest, faults>> /\ flight[p].at = "answered"
        /\ \A q \in Procs : q # p => flight'[q] = flight[q]
    BY <1>3, FlightFrame DEF Persist, providerVars
  <2> SUFFICES ASSUME faults \subseteq {"revoke"}, row' # 0
               PROVE  row' = newest
    BY <2>1 DEF AtHand
  <2>2. lease = p /\ ~expired /\ \A q \in Procs : Holder(q) => q = p
    BY <2>1, OneOwner DEF Holder, Owning
  <2>3. CASE Fenced(p)
    <3>1. row' = flight[p].answer /\ row = flight[p].current /\ row # 0
      BY <1>3, <2>2, <2>3 DEF Persist, Fenced
    <3>2. flight[p].current < flight[p].answer /\ flight[p].answer <= newest
      BY <2>1 DEF FlightInv, TypeOK, Tokens
    <3>3. row = newest \/ flight[p].answer = newest
      BY <2>2, <3>1 DEF AtHand, Holder
    <3> QED
      BY <3>1, <3>2, <3>3 DEF TypeOK, Tokens
  <2>4. CASE ~Fenced(p)
    <3>1. row' = row
      BY <1>3, <2>2, <2>4 DEF Persist, Reloaded
    <3> QED
      BY <2>2, <2>4, <3>1 DEF AtHand, Holder
  <2> QED
    BY <2>3, <2>4
<1>4. ASSUME NEW p \in Procs, Rejected(p)
      PROVE  AtHand'
  <2>1. UNCHANGED <<newest, faults>> /\ flight[p].at = "rejected"
    BY <1>4 DEF Rejected, providerVars
  <2> SUFFICES ASSUME faults \subseteq {"revoke"}, row' # 0
               PROVE  row' = newest
    BY <2>1 DEF AtHand
  <2>2. row' = row
    BY <1>4 DEF Rejected, Reloaded
  <2>3. \A q \in Procs : ~Holder(q)
    BY <2>1, OneOwner DEF Holder, Owning
  <2> QED
    BY <2>2, <2>3 DEF AtHand, Holder
<1>5. ASSUME NEW p \in Procs, GivesUp(p) \/ Crash(p)
      PROVE  AtHand'
  BY <1>5 DEF GivesUp, Crash, FaultUsed, AtHand
<1>6. ASSUME NEW p \in Procs, Login(p)
      PROVE  AtHand'
  BY <1>6 DEF Login, AtHand
<1>7. CASE (\E p \in Procs : Renews(p)) \/ Age \/ Revoke
  BY <1>7, AtHandKept DEF Renews, Age, Revoke, FaultUsed, Holder, Fenced, providerVars
<1>8. CASE Expires
  <2>1. ~(faults' \subseteq {"revoke"})
    BY <1>8 DEF Expires, FaultUsed, LeaseInv
  <2> QED
    BY <2>1 DEF AtHand
<1>9. ASSUME NEW r \in wire, ProviderAnswers(r)
      PROVE  AtHand'
  <2>1. UNCHANGED <<row, lease, expired, faults, revoked>>
    BY <1>9 DEF ProviderAnswers
  <2> SUFFICES ASSUME faults \subseteq {"revoke"}, row # 0
               PROVE  row = newest' \/ \E p \in Procs : Holder(p)'
    BY <2>1 DEF AtHand, Holder
  <2>2. r.to \in Procs /\ flight[r.to].at = "requesting" /\ flight[r.to].current = r.token
    BY DEF OrphanInv, WireInv, TypeOK
  <2>3. lease = r.to /\ ~expired
    BY <2>2, OneOwner DEF Owning
  <2>4. row = newest
    BY <2>2, <2>3 DEF AtHand, Fenced
  <2>5. CASE r.token = newest /\ ~revoked
    <3>1. /\ newest' = newest + 1
          /\ flight' = [flight EXCEPT ![r.to] = [flight[r.to] EXCEPT !.at = "answered",
                                                                      !.answer = newest + 1]]
      BY <1>9, <2>2, <2>5 DEF ProviderAnswers
    <3>2. /\ flight'[r.to].at = "answered" /\ flight'[r.to].answer = newest'
          /\ flight'[r.to].current = row
      BY <2>2, <2>4, <2>5, <3>1 DEF TypeOK
    <3> QED
      BY <2>1, <2>2, <2>3, <3>2 DEF Holder, Fenced
  <2>6. CASE ~(r.token = newest /\ ~revoked)
    BY <1>9, <2>4, <2>6 DEF ProviderAnswers
  <2> QED
    BY <2>5, <2>6
<1>10. CASE UNCHANGED vars
  BY <1>10 DEF vars, providerVars, AtHand, Fenced
<1> QED
  BY <1>1, <1>2, <1>3, <1>4, <1>5, <1>6, <1>7, <1>8, <1>9, <1>10 DEF Next, FlightNext, ProcessNext

\* Two processes that refresh own the lease both, unless one was stopped.
LEMMA OneSpenderHolds ==
    ASSUME LeaseInv
    PROVE  OneSpender
BY DEF LeaseInv, OneSpender

\* What is sent is read under the lease: nobody else is about to store another.
LEMMA SentIsNewest ==
    ASSUME TypeOK, LeaseInv, AtHand, Next, NEW r \in wire' \ wire, faults' \subseteq {"revoke"}
    PROVE  r.token = newest
<1>1. PICK p \in Procs : TakesLease(p)
  <2>1. \A c \in Callers : ~CallerNext(c) /\ ~Resume(c)
    BY CallerFrame
  <2>2. \A p \in Procs : ~(Looks(p) \/ Persist(p) \/ Rejected(p) \/ Renews(p) \/ Login(p))
    BY DEF Looks, Persist, Rejected, Renews, Login, providerVars
  <2>3. \A p \in Procs : ~GivesUp(p) /\ ~Crash(p)
    BY DEF GivesUp, Crash, FaultUsed
  <2>4. ~(Expires \/ Age \/ Revoke \/ \E w \in wire : ProviderAnswers(w))
    BY DEF Expires, Age, Revoke, ProviderAnswers, providerVars
  <2> QED
    BY <2>1, <2>2, <2>3, <2>4 DEF Next, FlightNext, ProcessNext
<1>2. LeaseFree /\ row # 0 /\ r = [to |-> p, token |-> row] /\ faults' = faults
  BY <1>1 DEF TakesLease
<1>3. \A q \in Procs : ~(lease = q /\ ~expired)
  BY <1>2, NameAssumption DEF LeaseFree
<1> QED
  BY <1>2, <1>3 DEF AtHand, Fenced

\* However the processes interleave: as long as no process is stopped for longer
\* than a lease lasts, no two processes spend the same token (the lease of
\* tryAcquireCredentialRefreshLease, and its renewal).
THEOREM OneSpends == Spec => []OneSpender
<1>1. Init => LeaseInv
  BY NameAssumption DEF Init, LeaseInv, NoFlight, Owning
<1>2. TypeOK /\ WireInv /\ LeaseInv /\ [Next]_vars => LeaseInv'
  BY LeaseStep
<1>3. LeaseInv => OneSpender
  BY OneSpenderHolds
<1> QED
  BY <1>1, <1>2, <1>3, Refreshing, PTL DEF Spec

\* Where no usage report is awaited, and a result is used before another process
\* stores a token or by the only caller of its process: as long as nothing fails,
\* no token is sent that was spent before, and the row has the token the provider
\* accepts, or gets it from the owner of the lease; and no two processes spend
\* the same token.
THEOREM GrantIsKept ==
    ASSUME ~ChecksUsage, ~StoresBetween
    PROVE  Spec => GrantKept
<1> DEFINE Inv == /\ TypeOK /\ FlightInv /\ WireInv /\ JoinInv /\ GotInv
                  /\ LeaseInv /\ OrphanInv /\ AtHand
<1>1. Init => Inv
  <2> SUFFICES ASSUME Init
               PROVE  Inv
    OBVIOUS
  <2>1. wire = {} /\ \A p \in Procs : flight[p].at = "none"
    BY DEF Init, NoFlight
  <2> QED
    BY <2>1, TypeInit, NameAssumption
       DEF Init, FlightInv, WireInv, JoinInv, GotInv, HasResult, LeaseInv, OrphanInv, AtHand, Owning
<1>2. Inv /\ [Next]_vars => Inv'
  BY TypeStep, FlightStep, WireStep, JoinStep, GotStep, LeaseStep, OrphanStep, AtHandStep
<1>3. Inv /\ Inv' /\ [Next]_vars
      => [/\ OneSpender' /\ AtHand'
          /\ \A r \in wire' \ wire : faults' \subseteq {"revoke"} => r.token = newest]_vars
  <2> SUFFICES ASSUME Inv, Inv', Next
               PROVE  /\ OneSpender' /\ AtHand'
                      /\ \A r \in wire' \ wire : faults' \subseteq {"revoke"} => r.token = newest
    OBVIOUS
  <2>1. OneSpender'
    BY OneSpenderHolds, PTL
  <2> QED
    BY <2>1, SentIsNewest
<1> QED
  BY <1>1, <1>2, <1>3, PTL DEF Spec, GrantKept

=============================================================================
