----------------------------- MODULE TokenRefresh -----------------------------
(***************************************************************************)
(* OAuth credentials that several processes share                          *)
(* (packages/ai/src/auth/refresh.ts, select.ts, pool.ts and the leases of  *)
(* sqlite-credential-store.ts).  The provider replaces the refresh token   *)
(* at every use, and rejects one that was used: what a process keeps of a  *)
(* credential is worthless as soon as another one has refreshed it.  A     *)
(* lease in the database lets one process refresh at a time, the results   *)
(* are written by compare-and-set, and the callers of a process share one  *)
(* refresh in flight.                                                      *)
(*                                                                         *)
(* One credential row is modelled.  A credential is the number of its      *)
(* refresh token, counted as the provider hands them out; its data and its *)
(* access token go with it.  Access tokens age in the order they were      *)
(* made.  A login ends the grant that was there.  The callers of a         *)
(* finished refresh resume in microtasks: before other tasks of their      *)
(* process, in any order among themselves, while the other processes and   *)
(* the provider go on.  A second pass of resolveOAuth over its accounts is *)
(* another call, and a forced call that reuses a recent mint is one that   *)
(* is not forced.                                                          *)
(***************************************************************************)
EXTENDS Naturals, FiniteSets

CONSTANTS
    Procs, Callers,
    ProcOf,       \* the process of each caller
    MaxTokens,    \* bound: with that many tokens made, no call begins
    MaxAtLogin,   \* bound: and with so many, no login
    Faults,       \* which of "crash", "giveUp", "stall" and "revoke" may happen,
    MaxFaults,    \* bound: and how many of them, each once
    ChecksUsage,  \* a usage report is awaited before the refresh: several
                  \* accounts and an explicit pin, or a plan gate
    StoresBetween \* a process may store a token while one of several callers
                  \* of a process has a result and has yet to use it

ASSUME CallerAssumption == ProcOf \in [Callers -> Procs]
ASSUME BoundAssumption == MaxTokens \in Nat /\ MaxAtLogin \in Nat /\ MaxFaults \in Nat
ASSUME FaultAssumption == Faults \subseteq {"crash", "giveUp", "stall", "revoke"}
ASSUME WindowAssumption == ChecksUsage \in BOOLEAN /\ StoresBetween \in BOOLEAN
ASSUME NameAssumption == Procs \intersect {"free", "dead", "nobody"} = {}

VARIABLES
    \* The provider
    newest,    \* the refresh token it accepts
    revoked,   \* unless the grant was revoked
    aged,      \* access tokens up to here are expired, or nearly so
    wire,      \* refresh requests it has to answer
    \* The database
    row,       \* auth_credentials: the token stored; 0: disabled
    lease,     \* auth_credential_refresh_leases: its owner
    expired,   \* expires_at_ms has passed
    \* Each process
    pool,      \* CredentialPool: its copy of the row; 0: none
    flight,    \* #oauthCredentialRefreshInFlight, and where refreshStored is
    \* Each caller
    at, stage, sel, got,
    faults     \* those that have happened

providerVars == <<newest, revoked, aged, wire>>
callerVars == <<at, stage, sel, got>>
vars == <<providerVars, row, lease, expired, pool, flight, callerVars, faults>>

Tokens == 0 .. newest
NoFlight == [at |-> "none", by |-> "nobody", forced |-> FALSE, current |-> 0, answer |-> 0]
Owning == {"requesting", "answered", "rejected"}

\* The last conjunct: who owns the lease is refreshing.
TypeOK ==
    /\ newest \in Nat /\ revoked \in BOOLEAN /\ aged \in Tokens
    /\ wire \subseteq [to : Procs \union {"nobody"}, token : Tokens]
    /\ row \in Tokens /\ lease \in Procs \union {"free", "dead"} /\ expired \in BOOLEAN
    /\ pool \in [Procs -> Tokens]
    /\ flight \in [Procs -> [at : {"none", "waiting", "trying"} \union Owning,
                             by : Callers \union {"nobody"}, forced : BOOLEAN,
                             current : Tokens, answer : Tokens]]
    /\ at \in [Callers -> {"idle", "joined", "resumed", "trying", "usage"}]
    /\ stage \in [Callers -> {"preflight", "resolve", "byId"}]
    /\ sel \in [Callers -> Tokens] /\ got \in [Callers -> Tokens]
    /\ faults \subseteq Faults
    /\ lease \in Procs => flight[lease].at \in Owning

Init ==
    /\ newest = 1 /\ revoked = FALSE /\ aged \in {0, 1} /\ wire = {}
    /\ row = 1 /\ lease = "free" /\ expired = FALSE
    /\ pool = [p \in Procs |-> 1]
    /\ flight = [p \in Procs |-> NoFlight]
    /\ at = [c \in Callers |-> "idle"] /\ stage = [c \in Callers |-> "preflight"]
    /\ sel = [c \in Callers |-> 0] /\ got = [c \in Callers |-> 0]
    /\ faults = {}

Fresh(token) == token > aged

FaultUsed(kind) ==
    kind \in Faults \ faults /\ Cardinality(faults) < MaxFaults /\ faults' = faults \union {kind}

\* Mutant: an expired lease is not taken over.
LeaseFreed == lease = "free"
\* Mutant: a lease is not looked at.
LeaseIgnored == TRUE

\* tryAcquireCredentialRefreshLease
LeaseFree == lease = "free" \/ expired

\* releaseCredentialRefreshLease
Release(p) ==
    IF lease = p THEN lease' = "free" /\ expired' = FALSE ELSE UNCHANGED <<lease, expired>>

\* Mutant: the row may have changed.
FencedByLease(p) == row # 0 /\ lease = p /\ ~expired

\* tryUpdateAuthCredentialIfMatches and tryDisableAuthCredentialIfMatches, with
\* the lease
Fenced(p) == row # 0 /\ row = flight[p].current /\ lease = p /\ ~expired

\* The refresh in flight is over; its callers get the token, or 0.
Finish(p, token) ==
    LET joined == {c \in Callers : ProcOf[c] = p /\ at[c] = "joined"} IN
    /\ flight' = [flight EXCEPT ![p] = NoFlight]
    /\ at' = [c \in Callers |-> IF c \in joined THEN "resumed" ELSE at[c]]
    /\ got' = [c \in Callers |-> IF c \in joined THEN token ELSE got[c]]
    /\ UNCHANGED <<stage, sel>>

-----------------------------------------------------------------------------
(* A caller: #refreshSingleFlight                                           *)

\* Joins the refresh in flight, gets the token back, or starts a refresh.
Refresh(c, token, force, as) ==
    LET p == ProcOf[c]
        immediate == flight[p].at = "none" /\ ~force /\ Fresh(token)
    IN
    /\ stage' = [stage EXCEPT ![c] = as]
    /\ sel' = [sel EXCEPT ![c] = IF as = "preflight" THEN token ELSE 0]
    /\ at' = [at EXCEPT ![c] = IF immediate THEN "resumed" ELSE "joined"]
    /\ got' = [got EXCEPT ![c] = IF immediate THEN token ELSE 0]
    /\ flight' = IF flight[p].at # "none" \/ immediate THEN flight
                 ELSE [flight EXCEPT ![p] = [at |-> "waiting", by |-> c, forced |-> force,
                                             current |-> 0, answer |-> 0]]

\* resolveOAuth: the row is read again, and refreshed when it has to be, or
\* when the provider rejected its access token.
Begin(c, force) ==
    /\ at[c] = "idle" /\ row # 0 /\ newest < MaxTokens
    /\ pool' = [pool EXCEPT ![ProcOf[c]] = row]
    /\ IF force \/ ~Fresh(row)
       THEN Refresh(c, row, force, "preflight")
       ELSE /\ at' = [at EXCEPT ![c] = "trying"]
            /\ UNCHANGED <<stage, sel, got, flight>>
    /\ UNCHANGED <<providerVars, row, lease, expired, faults>>

\* refreshById, of the broker: always a new token
BeginById(c) ==
    /\ at[c] = "idle" /\ pool[ProcOf[c]] # 0 /\ newest < MaxTokens
    /\ Refresh(c, pool[ProcOf[c]], TRUE, "byId")
    /\ UNCHANGED <<providerVars, row, lease, expired, pool, faults>>

\* tryOAuth, up to its first await
Select(c) ==
    /\ at[c] = "trying"
    /\ pool' = [pool EXCEPT ![ProcOf[c]] = row]
    /\ IF row = 0
       THEN at' = [at EXCEPT ![c] = "idle"] /\ UNCHANGED <<stage, sel, got, flight>>
       ELSE IF ChecksUsage
       THEN /\ at' = [at EXCEPT ![c] = "usage"]
            /\ sel' = [sel EXCEPT ![c] = row]
            /\ UNCHANGED <<stage, got, flight>>
       ELSE Refresh(c, row, FALSE, "resolve")
    /\ UNCHANGED <<providerVars, row, lease, expired, faults>>

\* The usage report has come: tryOAuth goes on with what it selected.
UsageReported(c) ==
    /\ at[c] = "usage"
    /\ Refresh(c, sel[c], FALSE, "resolve")
    /\ UNCHANGED <<providerVars, row, lease, expired, pool, faults>>

\* replaceById: compare-and-set against the pool's copy
Replace(p, token) ==
    IF pool[p] = 0 THEN UNCHANGED <<row, pool>>
    ELSE IF row # pool[p] THEN pool' = [pool EXCEPT ![p] = row] /\ UNCHANGED row
    ELSE row' = token /\ pool' = [pool EXCEPT ![p] = token]

\* A caller has the token, or an error.  After the preflight it selects again.
Resume(c) ==
    /\ at[c] = "resumed"
    /\ IF got[c] = 0 THEN UNCHANGED <<row, pool>>
       ELSE IF stage[c] = "preflight" /\ got[c] = sel[c]
       THEN pool' = [pool EXCEPT ![ProcOf[c]] = row] /\ UNCHANGED row
       ELSE Replace(ProcOf[c], got[c])
    /\ at' = [at EXCEPT ![c] = IF stage[c] = "preflight" /\ got[c] # 0
                               THEN "trying" ELSE "idle"]
    /\ stage' = [stage EXCEPT ![c] = "preflight"]
    /\ sel' = [sel EXCEPT ![c] = 0] /\ got' = [got EXCEPT ![c] = 0]
    /\ UNCHANGED <<providerVars, lease, expired, flight, faults>>

\* A caller is aborted.  The refresh goes on without it, unless its signal is
\* the one the refresh was started with: then the wait for the lease is over,
\* for everyone (GivesUp when the provider has been asked).
Leaves(c) ==
    LET p == ProcOf[c] IN
    /\ at[c] = "joined"
    /\ IF flight[p].by # c
       THEN /\ at' = [at EXCEPT ![c] = "idle"] /\ sel' = [sel EXCEPT ![c] = 0]
            /\ stage' = [stage EXCEPT ![c] = "preflight"]
            /\ UNCHANGED <<got, flight>>
       ELSE flight[p].at = "waiting" /\ Finish(p, 0)
    /\ UNCHANGED <<providerVars, row, lease, expired, pool, faults>>

-----------------------------------------------------------------------------
(* A refresh: refreshStored                                                 *)

\* A stored token that is fresh is adopted, unless the refresh is forced.
Adopted(p) == row # 0 /\ Fresh(row) /\ ~flight[p].forced

\* The row is read; when it needs a refresh, the lease is asked for.
Looks(p) ==
    /\ flight[p].at = "waiting"
    /\ pool' = [pool EXCEPT ![p] = row]
    /\ IF row = 0 \/ Adopted(p) THEN Finish(p, row)
       ELSE flight' = [flight EXCEPT ![p].at = "trying"] /\ UNCHANGED callerVars
    /\ UNCHANGED <<providerVars, row, lease, expired, faults>>

\* Mutant: what was read before the lease was acquired is refreshed.
TakesLeaseUnchecked(p) ==
    /\ flight[p].at = "trying"
    /\ IF ~LeaseFree
       THEN /\ flight' = [flight EXCEPT ![p].at = "waiting"]
            /\ UNCHANGED <<pool, lease, expired, wire, callerVars>>
       ELSE /\ flight' = [flight EXCEPT ![p].at = "requesting", ![p].current = pool[p]]
            /\ wire' = wire \union {[to |-> p, token |-> pool[p]]}
            /\ lease' = p /\ expired' = FALSE
            /\ UNCHANGED <<pool, callerVars>>
    /\ UNCHANGED <<newest, revoked, aged, row, faults>>

\* With the lease the row is read again, and the provider asked.
TakesLease(p) ==
    /\ flight[p].at = "trying"
    /\ IF ~LeaseFree
       THEN /\ flight' = [flight EXCEPT ![p].at = "waiting"]
            /\ UNCHANGED <<pool, lease, expired, wire, callerVars>>
       ELSE /\ pool' = [pool EXCEPT ![p] = row]
            /\ IF row = 0 \/ Adopted(p)
               THEN Finish(p, row) /\ lease' = "free" /\ expired' = FALSE /\ UNCHANGED wire
               ELSE /\ flight' = [flight EXCEPT ![p].at = "requesting", ![p].current = row]
                    /\ wire' = wire \union {[to |-> p, token |-> row]}
                    /\ lease' = p /\ expired' = FALSE
                    /\ UNCHANGED callerVars
    /\ UNCHANGED <<newest, revoked, aged, row, faults>>

\* The row has changed, or the lease is lost: what is stored now is the result,
\* when it is fresh.
Reloaded(p) ==
    /\ pool' = [pool EXCEPT ![p] = row]
    /\ Finish(p, IF Fresh(row) THEN row ELSE 0)
    /\ UNCHANGED row

\* The answer is persisted, under the lease.  A renewal that found it lost is an
\* error.
Persist(p) ==
    LET token == flight[p].answer IN
    /\ flight[p].at = "answered"
    /\ \/ /\ Fenced(p)
          /\ row' = token
          /\ pool' = [pool EXCEPT ![p] = token]
          /\ Finish(p, token)
       \/ ~Fenced(p) /\ Reloaded(p)
       \/ lease # p /\ Finish(p, 0) /\ UNCHANGED <<row, pool>>
    /\ Release(p)
    /\ UNCHANGED <<providerVars, faults>>

\* The provider has rejected the token: the row is disabled.
Rejected(p) ==
    /\ flight[p].at = "rejected"
    /\ IF Fenced(p)
       THEN row' = 0 /\ pool' = [pool EXCEPT ![p] = 0] /\ Finish(p, 0)
       ELSE Reloaded(p)
    /\ Release(p)
    /\ UNCHANGED <<providerVars, faults>>

\* The requests of p are nobody's; they matter if their token is still good.
Orphaned(p) == {IF r.to = p THEN [r EXCEPT !.to = "nobody"] ELSE r :
                r \in {w \in wire : w.to = p => w.token = newest}}

\* Mutant: the lease is kept until it expires.
GivesUpLeased(p) ==
    /\ flight[p].at = "requesting" /\ FaultUsed("giveUp")
    /\ wire' \in {Orphaned(p), {r \in wire : r.to # p}}
    /\ Finish(p, 0)
    /\ UNCHANGED <<newest, revoked, aged, row, lease, expired, pool>>

\* A timeout, an abort or an error of the transport: the provider may have the
\* request, and may answer it yet.
GivesUp(p) ==
    /\ flight[p].at = "requesting" /\ FaultUsed("giveUp")
    /\ wire' \in {Orphaned(p), {r \in wire : r.to # p}}
    /\ Finish(p, 0) /\ Release(p)
    /\ UNCHANGED <<newest, revoked, aged, row, pool>>

-----------------------------------------------------------------------------
(* Time, processes and the provider                                         *)

CallersUnchanged == UNCHANGED callerVars

\* The lease of a dead process expires, and that of a process that is stopped
\* for longer than it lasts.
Expires ==
    /\ ~expired
    /\ \/ lease = "dead" /\ UNCHANGED faults
       \/ lease \in Procs /\ FaultUsed("stall")
    /\ expired' = TRUE
    /\ UNCHANGED <<providerVars, row, lease, pool, flight>> /\ CallersUnchanged

\* renewCredentialRefreshLease looks at the owner only.
Renews(p) ==
    /\ lease = p /\ expired
    /\ expired' = FALSE
    /\ UNCHANGED <<providerVars, row, lease, pool, flight, faults>>
    /\ CallersUnchanged

\* A process dies, and starts again.
Crash(p) ==
    /\ FaultUsed("crash")
    /\ wire' = Orphaned(p)
    /\ lease' = IF lease = p THEN "dead" ELSE lease
    /\ pool' = [pool EXCEPT ![p] = row]
    /\ flight' = [flight EXCEPT ![p] = NoFlight]
    /\ at' = [c \in Callers |-> IF ProcOf[c] = p THEN "idle" ELSE at[c]]
    /\ stage' = [c \in Callers |-> IF ProcOf[c] = p THEN "preflight" ELSE stage[c]]
    /\ sel' = [c \in Callers |-> IF ProcOf[c] = p THEN 0 ELSE sel[c]]
    /\ UNCHANGED <<newest, revoked, aged, row, expired, got>>

Age ==
    /\ aged < newest
    /\ aged' = aged + 1
    /\ UNCHANGED <<newest, revoked, wire, row, lease, expired, pool, flight, faults>>
    /\ UNCHANGED callerVars

\* A refresh token is good for one use.
ProviderAnswers(r) ==
    LET accepted == r.token = newest /\ ~revoked IN
    /\ wire' = wire \ {r}
    /\ newest' = IF accepted THEN newest + 1 ELSE newest
    /\ flight' = IF r.to = "nobody" THEN flight
                 ELSE IF accepted
                 THEN [flight EXCEPT ![r.to].at = "answered", ![r.to].answer = newest + 1]
                 ELSE [flight EXCEPT ![r.to].at = "rejected"]
    /\ UNCHANGED <<revoked, aged, row, lease, expired, pool, callerVars, faults>>

\* The user signs in again, in a process of the application: upsertOAuth.
Login(p) ==
    /\ row # 0 /\ newest < MaxAtLogin
    /\ newest' = newest + 1 /\ revoked' = FALSE
    /\ row' = newest + 1 /\ pool' = [pool EXCEPT ![p] = newest + 1]
    /\ UNCHANGED <<aged, wire, lease, expired, flight, callerVars, faults>>

Revoke ==
    /\ FaultUsed("revoke")
    /\ revoked' = TRUE
    /\ UNCHANGED <<newest, aged, wire, row, lease, expired, pool, flight, callerVars>>

-----------------------------------------------------------------------------
\* The microtasks of p have run: its next task may.
SettledIn(p) == \A c \in Callers : ProcOf[c] = p => at[c] # "resumed"

\* Unless StoresBetween: who has a result to use is the only caller of its
\* process (the pool of a process is one, whoever of it reloads it).
MayStore ==
    \/ StoresBetween
    \/ \A c, k \in Callers :
          c # k /\ ProcOf[c] = ProcOf[k] /\ at[c] = "resumed" /\ got[c] # 0 => at[k] = "idle"

CallerNext(c) ==
    \/ Select(c)
    \/ /\ SettledIn(ProcOf[c])
       /\ \/ Begin(c, TRUE) \/ Begin(c, FALSE) \/ BeginById(c)
          \/ UsageReported(c) \/ Leaves(c)

FlightNext(p) ==
    \/ Looks(p) \/ TakesLease(p)
    \/ /\ SettledIn(p)
       /\ \/ MayStore /\ Persist(p)
          \/ Rejected(p)

ProcessNext(p) ==
    \/ Crash(p)
    \/ /\ SettledIn(p)
       /\ \/ GivesUp(p) \/ Renews(p)
          \/ MayStore /\ Login(p)

Next ==
    \/ \E c \in Callers : Resume(c) \/ CallerNext(c)
    \/ \E p \in Procs : FlightNext(p) \/ ProcessNext(p)
    \/ \E r \in wire : ProviderAnswers(r)
    \/ Expires \/ Age \/ Revoke

Spec == Init /\ [][Next]_vars

(***************************************************************************)
(* Promises resolve, a request is answered (or given up), the poll of the  *)
(* lease is repeated, and the lease of a dead process runs out: strong     *)
(* fairness where a step waits for the microtasks of its process, which    *)
(* come to an end, or for the lease.                                       *)
(***************************************************************************)
Fairness ==
    /\ \A c \in Callers :
          /\ WF_vars(Resume(c))
          /\ SF_vars(Select(c) \/ (SettledIn(ProcOf[c]) /\ UsageReported(c)))
    /\ \A p \in Procs : SF_vars(FlightNext(p))
    /\ SF_vars(\E r \in wire : r.to # "nobody" /\ ProviderAnswers(r))
    /\ SF_vars(lease = "dead" /\ Expires)

FairSpec == Spec /\ Fairness

-----------------------------------------------------------------------------
(* Properties                                                               *)

\* "Concurrent callers for the same row await the same upstream refresh attempt,
\* which is required for providers that rotate refresh tokens" (refresh.ts 599):
\* as long as no process is stopped for longer than a lease lasts, no two
\* processes spend the same token.
OneSpender ==
    "stall" \notin faults =>
        \A p, q \in Procs :
            p # q /\ {flight[p].at, flight[q].at} \subseteq Owning
            => flight[p].current # flight[q].current

\* As long as nothing fails, the token of an active row is the one the provider
\* accepts, or the process that owns the lease is about to store that one.
AtHand ==
    faults \subseteq {"revoke"} /\ row # 0 =>
        \/ row = newest
        \/ \E p \in Procs : flight[p].at = "answered" /\ flight[p].answer = newest /\ Fenced(p)

\* And a token that was spent is not sent again: the grant is kept, and no
\* token is spent by two.
GrantKept ==
    [][/\ OneSpender' /\ AtHand'
       /\ \A r \in wire' \ wire : faults' \subseteq {"revoke"} => r.token = newest]_vars

\* A refresh that fails does not disable a row that somebody has given a token
\* that works: "a peer rotation that lands between ... doesn't soft-delete the
\* freshly-rotated row" (refresh.ts 408).
NoLiveGrantDisabled == [][row # 0 /\ row' = 0 => row # newest \/ revoked]_vars

\* The row never goes back to a token that was spent: "A peer rotation wins the
\* CAS and is reloaded instead of being overwritten" (pool.ts 469).
RowForward == [][row' # 0 => row' >= row]_vars

\* Every call comes to its end, whoever owns the lease or dies with it.
CallersReturn == \A c \in Callers : (at[c] # "idle") ~> (at[c] = "idle")
=============================================================================
