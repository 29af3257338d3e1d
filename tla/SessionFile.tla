----------------------------- MODULE SessionFile -----------------------------
(***************************************************************************)
(* How a session manager keeps its journal in a file                       *)
(* (packages/coding-agent/src/session/session-manager.ts over the file     *)
(* backend of session-storage.ts): completed entries are appended inside   *)
(* the call that records them, while rewrites, title changes, atomic       *)
(* batches and repairs of the same file wait on promises, and while other  *)
(* processes write it too.                                                 *)
(*                                                                         *)
(* An action is what the code does between two awaits.  Abstractions: an   *)
(* entry is an identity and a file a set of entries; #expectedDiskSize is  *)
(* the set whose length it is, that is, sizes differ where contents do;    *)
(* the file exists and nobody deletes or replaces it; what an in-place     *)
(* update changes in an entry, the title slot, drafts, relocation and      *)
(* backends that defer a publish are left out; a failed append is rolled   *)
(* back whole; a file can be read back.                                    *)
(***************************************************************************)
EXTENDS Naturals, FiniteSets

CONSTANTS
    Appends,        \* entries recorded one by one
    Foreign,        \* entries another process appends, with the session's claim or without
    Titles, Rewrites, Batches, Recovers, Closes,   \* calls, each made once
    MaxRecoveries,  \* MAX_WRITE_CONFLICT_RECOVERIES
    Behaviours,     \* what the instance includes: "fails", a write that fails;
                    \* "rejects", one that is done and reported as failed; "owner",
                    \* another process that claims the session; "seal";
                    \* "between", a call between the end of a rewrite and what its
                    \* caller makes of it; "late", superseded work that undoes
                    \* the dirty flag, the fence or the flags of newer work;
                    \* "relapse", an entry of another process between a batch's
                    \* publish and its end
    None            \* no call

Ops == Titles \union Rewrites \union Batches \union Recovers \union Closes

ASSUME NoneAssumption == None \notin Ops
ASSUME RecoveriesAssumption == MaxRecoveries \in Nat
ASSUME BatchAssumption ==
    Batches \intersect (Titles \union Rewrites \union Recovers \union Closes) = {}
ASSUME BehaviourAssumption == Behaviours \subseteq {"fails", "rejects", "owner", "seal", "between", "late", "relapse"}

VARIABLES
    \* The manager
    entries,   \* #entries
    path,      \* #sessionFile: "home", or the "sibling" it moved to
    expected,  \* #expectedDiskSize, as the entries whose length it is
    current,   \* #fileIsCurrent
    required,  \* #rewriteRequired
    dirty,     \* #atomicRewriteDirty
    released,  \* #released
    failure,   \* #diskFailure is set
    broken,    \* the open writer has failed
    fresh,     \* calls whose work has the epoch #diskEpoch
    fence,     \* #atomicRewriteFenceEpoch is that epoch
    batch,     \* the call whose #atomicEntryBatch is set
    tail,      \* the call whose work is last in the #diskTail
    pc, job,   \* the calls
    \* The world
    disk,      \* what each file holds
    claim,     \* who holds the claim on the session at home
    \* Observation only
    undone     \* entries of batches that were rolled back

flags == <<current, required, dirty>>
state == <<released, failure, broken>>
queue == <<fresh, fence, batch, tail>>
calls == <<pc, job>>
files == <<disk, path, claim, expected>>
vars == <<entries, flags, state, queue, calls, files, undone>>

Paths == {"home", "sibling"}
Staged(b) == {<<b, 1>>, <<b, 2>>}
TitleOf(t) == <<t, 0>>
ASSUME EntryAssumption == \A b \in Batches : Staged(b) \intersect (Appends \union Foreign) = {}
ASSUME ForeignAssumption == Foreign \intersect (Appends \union {TitleOf(t) : t \in Titles}) = {}

Entries == Appends \union Foreign \union {TitleOf(t) : t \in Titles}
             \union UNION {Staged(b) : b \in Batches}

\* Where a call may be in the disk chain ...
InTask == {"queued", "closing", "staging", "published", "conflicted", "reread", "unwritten",
           "marking", "titling"}
\* ... and how it may end.
Ended == {"done", "failed", "committed", "refused", "unrepaired", "indeterminate", "dropped"}

\* mode: what its work is; behind: the work it waits for; turn: how often it
\* has queued; body, exp: what it publishes over what; seen: what it has read
\* back; tries: conflicts so far
Jobs == [mode : {"none", "rewrite", "ensure", "title", "fallback", "close", "repair"},
         behind : (Ops \X (0 .. 2)) \union {<<None, 0>>}, turn : 0 .. 2,
         body : SUBSET Entries, exp : SUBSET Entries, seen : SUBSET Entries, file : Paths,
         tries : 0 .. MaxRecoveries]
NoWork == <<None, 0>>
NoJob == [mode |-> "none", behind |-> NoWork, turn |-> 0, body |-> {}, exp |-> {},
          seen |-> {}, file |-> "home", tries |-> 0]

TypeOK ==
    /\ entries \subseteq Entries /\ expected \subseteq Entries /\ undone \subseteq Entries
    /\ disk \in [Paths -> SUBSET Entries]
    /\ path \in Paths /\ claim \in {"free", "mine", "other"}
    /\ current \in BOOLEAN /\ required \in BOOLEAN /\ dirty \in BOOLEAN
    /\ released \in BOOLEAN /\ failure \in BOOLEAN /\ broken \in BOOLEAN
    /\ fresh \subseteq Ops /\ fence \in BOOLEAN
    /\ batch \in Batches \union {None}
    /\ tail \in (Ops \X (0 .. 2)) \union {NoWork}
    /\ pc \in [Ops -> {"idle", "flushing", "decide", "rollback", "waiting"}
                        \union InTask \union Ended]
    /\ job \in [Ops -> Jobs]

Init ==
    /\ entries = {} /\ expected = {} /\ undone = {}
    /\ disk = [p \in Paths |-> {}] /\ path = "home"
    /\ claim = "free"
    /\ current = TRUE /\ required = FALSE /\ dirty = FALSE
    /\ released = FALSE /\ failure = FALSE /\ broken = FALSE
    /\ fresh = {} /\ fence = FALSE /\ batch = None /\ tail = NoWork
    /\ pc = [o \in Ops |-> "idle"] /\ job = [o \in Ops |-> NoJob]

-----------------------------------------------------------------------------
(* Parts of the operations                                                  *)

Fails == "fails" \in Behaviours
Rejects == "rejects" \in Behaviours

\* #sessionOwnedElsewhere: it claims the session, or finds it claimed.
Lost == ~released /\ path = "home" /\ claim = "other"
Claimed == IF ~released /\ path = "home" /\ claim = "free" THEN "mine" ELSE claim

\* The epoch moves on: what is under way is superseded, and so is its fence.
EpochMoves == fresh' = {} /\ fence' = FALSE
Stale(o) == o \notin fresh
FenceLeft(o) == fence /\ Stale(o)

\* #rewriteSynchronously of mem.  Meeting entries it does not know, it keeps
\* them and publishes again.
RewriteNow(mem, cur, req) ==
    LET to == IF Lost THEN "sibling" ELSE path
        known == IF Lost THEN {} ELSE expected
        body == IF known = disk[to] THEN mem ELSE mem \union disk[to]
        Fail == failure' = TRUE /\ current' = (cur /\ ~Lost) /\ required' = (req \/ Lost)
    IN  /\ path' = to /\ claim' = Claimed
        /\ EpochMoves /\ tail' = NoWork /\ broken' = FALSE
        /\ \/ /\ disk' = [disk EXCEPT ![to] = body]
              /\ entries' = body /\ expected' = body
              /\ current' = TRUE /\ required' = FALSE /\ failure' = FALSE
           \/ /\ Fails /\ Fail
              /\ \/ entries' = mem /\ expected' = known
                 \/ entries' = body /\ expected' = disk[to]
              /\ UNCHANGED disk
           \/ /\ Rejects /\ Fail
              /\ "relapse" \in Behaviours \/ batch = None
              /\ disk' = [disk EXCEPT ![to] = body]
              /\ entries' = body /\ expected' = disk[to]

\* #scheduleDiskWork
Schedule(o, mode) ==
    LET work == <<o, job[o].turn + 1>> IN
    /\ job' = [job EXCEPT ![o] = [@ EXCEPT !.mode = mode, !.behind = tail, !.turn = work[2]]]
    /\ tail' = work /\ fresh' = fresh \union {o}
    /\ pc' = [pc EXCEPT ![o] = "queued"]

Settled(work) ==
    work # NoWork =>
        LET o == work[1] IN
        job[o].turn > work[2] \/ job[o].mode = "repair" \/ pc[o] \notin InTask

\* The promise of the work resolves, and its caller goes on.
Resolves(o) ==
    LET ensured == job[o].mode = "ensure" IN
    /\ pc' = [pc EXCEPT ![o] = IF ensured THEN "flushing"
                              ELSE IF o \in Batches THEN "decide" ELSE "done"]
    /\ job' = [job EXCEPT ![o] = [NoJob EXCEPT !.turn = job[o].turn,
                                              !.behind = IF ensured THEN tail ELSE NoWork]]
    /\ fresh' = fresh \ {o}

\* It rejects: #noteDiskFailure.
Rejected(o) ==
    /\ failure' = TRUE
    /\ pc' = [pc EXCEPT ![o] = IF o \in Batches THEN "rollback" ELSE "failed"]
    /\ job' = [job EXCEPT ![o] = [NoJob EXCEPT !.turn = job[o].turn]]
    /\ fresh' = fresh \ {o}

\* No write has returned whose caller has yet to set the flags.
NoneBetween == "between" \in Behaviours \/ \A o \in Ops : pc[o] \notin {"published", "marking"}

\* None is superseded that has yet to reset the dirty flag.
NoneLags ==
    "late" \in Behaviours \/ \A o \in Ops : Stale(o) => pc[o] \notin {"conflicted", "reread"}

\* A settled promise has a continuation to run: no I/O ends before it has run.
Busy ==
    \E o \in Ops :
        \/ pc[o] \in {"closing", "published", "marking", "titling", "decide", "rollback"}
        \/ /\ pc[o] \in {"queued", "flushing", "waiting"} /\ Settled(job[o].behind)
           /\ pc[o] = "flushing" => NoneLags

-----------------------------------------------------------------------------
(* Synchronous operations                                                   *)

\* #recordEntry, #appendToSessionFile
Append(e) ==
    LET mem == entries \union {e}
        cur == current /\ ~failure
        req == required \/ failure
    IN  /\ e \notin entries /\ ~released /\ NoneBetween
        /\ \/ /\ batch # None
              /\ entries' = mem
              /\ current' = FALSE /\ required' = TRUE /\ dirty' = TRUE
              /\ UNCHANGED <<files, failure, broken, fresh, fence, tail>>
           \/ /\ batch = None
              /\ dirty' = (dirty \/ fence)
              /\ fence \/ ~cur \/ req \/ Lost
              /\ RewriteNow(mem, cur, req)
           \/ /\ batch = None /\ ~fence /\ cur /\ ~req /\ ~Lost
              /\ entries' = mem /\ claim' = Claimed
              /\ \/ /\ ~broken
                    /\ disk' = [disk EXCEPT ![path] = @ \union {e}]
                    /\ expected' = expected \union {e}
                    /\ UNCHANGED <<flags, failure, broken>>
                 \/ /\ Fails \/ broken
                    /\ current' = FALSE /\ required' = TRUE /\ failure' = TRUE /\ broken' = TRUE
                    /\ UNCHANGED <<disk, expected, dirty>>
              /\ UNCHANGED <<path, fresh, fence, tail>>
    /\ UNCHANGED <<released, batch, calls, undone>>

\* flushSync
FlushSync ==
    /\ NoneBetween
    /\ ~released /\ batch = None /\ ~failure /\ (~current \/ required)
    /\ RewriteNow(entries, current, required)
    /\ UNCHANGED <<dirty, released, batch, calls, undone>>

\* seal
Seal ==
    /\ "seal" \in Behaviours /\ ~released
    /\ released' = TRUE /\ EpochMoves
    /\ UNCHANGED <<entries, flags, failure, broken, batch, tail, calls, files, undone>>

-----------------------------------------------------------------------------
(* Calls                                                                    *)

\* The rewrite of a title change under a latched failure supersedes no batch's.
SparesBatch == "late" \in Behaviours \/ batch = None

\* setSessionName, #persistTitleChangeEntry
TitleSet(t) ==
    LET mem == entries \union {TitleOf(t)} IN
    /\ pc[t] = "idle" /\ ~released /\ NoneBetween
    /\ \/ /\ failure /\ SparesBatch
          /\ RewriteNow(mem, FALSE, TRUE)
          /\ pc' = [pc EXCEPT ![t] = IF failure' THEN "failed" ELSE "done"]
          /\ UNCHANGED job
       \/ /\ ~failure
          /\ entries' = mem /\ claim' = Claimed
          /\ Schedule(t, IF ~current \/ required \/ Lost THEN "rewrite" ELSE "title")
          /\ UNCHANGED <<current, required, failure, broken, fence, path, disk, expected>>
    /\ UNCHANGED <<dirty, released, batch, undone>>

\* rewriteEntries; #persistWorkspaceDirectoriesChange, which sets the flag
Rewrite(r) ==
    /\ pc[r] = "idle" /\ ~released
    /\ \E change \in BOOLEAN : required' = (required \/ change)
    /\ Schedule(r, "rewrite")
    /\ UNCHANGED <<entries, current, dirty, state, fence, batch, files, undone>>

Close(c) ==
    /\ pc[c] = "idle"
    /\ claim' = IF claim = "mine" /\ path = "home" THEN "free" ELSE claim
    /\ Schedule(c, "close")
    /\ UNCHANGED <<entries, flags, state, fence, batch, disk, path, expected, undone>>

\* #withAtomicPersistenceLock
LockFree == \A o \in Batches \union Recovers : pc[o] \in {"idle"} \union Ended

\* appendEntriesAtomically: ensureOnDisk, and flush, which waits for the chain ...
BatchCalled(b) ==
    /\ pc[b] = "idle" /\ LockFree
    /\ IF released \/ (current /\ ~required)
       THEN /\ pc' = [pc EXCEPT ![b] = "flushing"]
            /\ job' = [job EXCEPT ![b].behind = tail]
            /\ UNCHANGED <<tail, fresh>>
       ELSE Schedule(b, "ensure")
    /\ UNCHANGED <<entries, flags, state, fence, batch, files, undone>>

\* ... then the entries are staged, and a rewrite is to publish them.
BatchStaged(b) ==
    /\ pc[b] = "flushing" /\ Settled(job[b].behind) /\ NoneBetween /\ NoneLags
    /\ \/ /\ failure
          /\ pc' = [pc EXCEPT ![b] = "rollback"]
          /\ UNCHANGED <<entries, flags, batch, job, tail, fresh>>
       \/ /\ ~failure /\ released
          /\ pc' = [pc EXCEPT ![b] = "dropped"]
          /\ UNCHANGED <<entries, flags, batch, job, tail, fresh>>
       \/ /\ ~failure /\ ~released
          /\ batch' = b /\ entries' = entries \union Staged(b)
          /\ current' = FALSE /\ required' = TRUE /\ dirty' = TRUE
          /\ Schedule(b, "rewrite")
    /\ UNCHANGED <<state, fence, files, undone>>

\* Mutant: a rewrite that was superseded is taken for done.
BatchPublishedAssumed == TRUE

\* Its rewrite was superseded when the flags say that the file is not current.
BatchPublished == current /\ ~required
BatchCommits(b) ==
    /\ pc[b] = "decide" /\ BatchPublished
    /\ batch' = None /\ pc' = [pc EXCEPT ![b] = "committed"]
    /\ UNCHANGED <<entries, flags, state, fresh, fence, tail, job, files, undone>>

\* #authoritativelyRewriteCurrentStateLocked up to the wait for the chain
RepairBegins(o) ==
    /\ fresh' = {o} /\ fence' = TRUE /\ tail' = NoWork
    /\ current' = FALSE /\ required' = TRUE
    /\ failure' = TRUE /\ broken' = FALSE
    /\ job' = [job EXCEPT ![o] = [@ EXCEPT !.mode = "repair", !.behind = tail]]
    /\ pc' = [pc EXCEPT ![o] = "waiting"]

\* The batch failed or was superseded: #rollbackAtomicEntryBatch and the repair
BatchRollsBack(b) ==
    /\ pc[b] = "rollback" \/ (pc[b] = "decide" /\ ~BatchPublished)
    /\ IF batch = b
       THEN entries' = entries \ Staged(b) /\ undone' = undone \union Staged(b)
       ELSE UNCHANGED <<entries, undone>>
    /\ IF released
       THEN /\ batch' = None /\ pc' = [pc EXCEPT ![b] = "unrepaired"]
            /\ UNCHANGED <<flags, failure, broken, fresh, fence, tail, job>>
       ELSE RepairBegins(b) /\ UNCHANGED <<dirty, batch>>
    /\ UNCHANGED <<released, files>>

\* recoverPersistenceFromCurrentState
Recover(v) ==
    /\ pc[v] = "idle" /\ LockFree /\ ~released /\ NoneBetween
    /\ RepairBegins(v)
    /\ UNCHANGED <<entries, dirty, released, batch, files, undone>>

-----------------------------------------------------------------------------
(* Work in the disk chain                                                   *)

Startable(o) == pc[o] = "queued" /\ Settled(job[o].behind)

\* Superseded work is a no-op, and a latched failure refuses all but a close.
WorkDropped(o) ==
    /\ Startable(o) /\ (Stale(o) \/ (released /\ job[o].mode # "close"))
    /\ Resolves(o)
    /\ UNCHANGED <<entries, flags, state, fence, batch, tail, files, undone>>

WorkRefused(o) ==
    /\ Startable(o) /\ ~Stale(o) /\ failure /\ job[o].mode # "close"
    /\ Rejected(o)
    /\ UNCHANGED <<entries, flags, released, broken, fence, batch, tail, files, undone>>

Runs(o) == Startable(o) /\ ~Stale(o) /\ ~failure /\ ~released

CloseRuns(c) ==
    /\ Startable(c) /\ job[c].mode = "close" /\ ~Stale(c)
    /\ current' = (current \/ ~broken) /\ broken' = FALSE
    /\ pc' = [pc EXCEPT ![c] = IF broken \/ failure THEN "failed" ELSE "done"]
    /\ job' = [job EXCEPT ![c] = NoJob] /\ fresh' = fresh \ {c}
    /\ UNCHANGED <<entries, required, dirty, released, failure, fence, batch, tail, files, undone>>

\* #persistTitleChangeEntry: its line, and when that fails the rewrite, which
\* ends at the close of the failed writer
TitleAppends(t) ==
    /\ Runs(t) /\ job[t].mode = "title"
    /\ \/ /\ ~broken
          /\ disk' = [disk EXCEPT ![path] = @ \union {TitleOf(t)}]
          /\ expected' = expected \union {TitleOf(t)}
          /\ pc' = [pc EXCEPT ![t] = "titling"]
          /\ UNCHANGED <<dirty, failure, broken, fresh, fence, job>>
       \/ /\ Fails \/ broken
          /\ dirty' = FALSE /\ broken' = FALSE /\ fence' = FALSE
          /\ Rejected(t)
          /\ UNCHANGED <<disk, expected>>
    /\ UNCHANGED <<entries, current, required, released, batch, tail, path, claim, undone>>

\* A superseded title change takes no newer work's fence.
SparesFence(t) == "late" \in Behaviours \/ ~Stale(t)

\* ... then updateSessionTitle, and when that fails the rewrite, whose fence has
\* the epoch of the change, superseded or not.
TitleSlot(t) ==
    /\ pc[t] = "titling"
    /\ \/ /\ current' = (current \/ ~Stale(t))
          /\ Resolves(t)
          /\ UNCHANGED <<dirty, broken, fence, failure>>
       \/ /\ Fails /\ released
          /\ Resolves(t)
          /\ UNCHANGED <<current, dirty, broken, fence, failure>>
       \/ /\ Fails /\ ~released /\ broken /\ SparesFence(t)
          /\ dirty' = FALSE /\ broken' = FALSE /\ fence' = FALSE
          /\ Rejected(t)
          /\ UNCHANGED current
       \/ /\ Fails /\ ~released /\ ~broken /\ SparesFence(t)
          /\ fence' = ~Stale(t) /\ dirty' = FALSE
          /\ job' = [job EXCEPT ![t].mode = "fallback"]
          /\ pc' = [pc EXCEPT ![t] = "closing"]
          /\ UNCHANGED <<current, broken, failure, fresh>>
    /\ UNCHANGED <<entries, required, released, batch, tail, files, undone>>

\* #runFencedAtomicRewrite: the fence goes up, and the writer is closed.
RewriteStarts(o) ==
    /\ Runs(o) /\ job[o].mode \in {"rewrite", "ensure"}
    /\ fence' = TRUE /\ dirty' = FALSE
    /\ pc' = [pc EXCEPT ![o] = "closing"]
    /\ UNCHANGED <<entries, current, required, state, fresh, batch, tail, job, files, undone>>

RepairStarts(o) ==
    /\ pc[o] = "waiting" /\ Settled(job[o].behind)
    /\ dirty' = FALSE /\ pc' = [pc EXCEPT ![o] = "closing"]
    /\ UNCHANGED <<entries, current, required, state, queue, job, files, undone>>

Repairs(o) == job[o].mode = "repair"

\* A rewrite that finds itself superseded returns false, without the fence.
Abandoned(o) == fence' = FenceLeft(o) /\ Resolves(o)

\* A failed writer cannot be closed: the rewrite ends.
CloseFails(o) ==
    /\ pc[o] = "closing" /\ ~Repairs(o) /\ broken
    /\ broken' = FALSE /\ fence' = FenceLeft(o)
    /\ Rejected(o)
    /\ UNCHANGED <<entries, flags, released, batch, tail, files, undone>>

\* One pass: the session may move (#moveOffSessionFile), and the body is
\* serialized and staged.
Serializes(o) ==
    LET to == IF Lost THEN "sibling" ELSE path
        known == IF Lost THEN {} ELSE expected
    IN  /\ pc[o] = "closing" /\ (Repairs(o) \/ ~broken)
        /\ path' = to /\ claim' = Claimed /\ expected' = known
        /\ current' = (current /\ ~Lost) /\ required' = (required \/ Lost)
        /\ broken' = (broken /\ ~Lost)
        /\ \/ /\ ~Repairs(o) /\ Stale(o)
              /\ Abandoned(o)
           \/ /\ Repairs(o) \/ ~Stale(o)
              /\ job' = [job EXCEPT ![o] = [@ EXCEPT !.body = entries, !.exp = known, !.file = to]]
              /\ pc' = [pc EXCEPT ![o] = "staging"]
              /\ UNCHANGED <<fresh, fence>>
    /\ UNCHANGED <<entries, dirty, released, failure, batch, tail, disk, undone>>

\* Mutants: the file is not looked at; one conflict too many is put up with.
AsExpectedUnchecked(j) == TRUE
MayRecoverOnceMore(j) == j.tries <= MaxRecoveries

\* #assertExpectedSize; MAX_WRITE_CONFLICT_RECOVERIES
AsExpected(j) == disk[j.file] = j.exp
MayRecover(j) == j.tries < MaxRecoveries

\* publishAtomic from the commit guard to the rename
Publishes(o) ==
    LET j == job[o]
        mayCommit == ~released /\ ~Stale(o)
    IN  /\ pc[o] = "staging" /\ ~Busy
        /\ \/ /\ ~mayCommit
              /\ pc' = [pc EXCEPT ![o] = "published"] /\ UNCHANGED disk
           \/ /\ mayCommit /\ ~AsExpected(j) /\ MayRecover(j)
              /\ pc' = [pc EXCEPT ![o] = "conflicted"] /\ UNCHANGED disk
           \/ /\ mayCommit /\ AsExpected(j)
              /\ disk' = [disk EXCEPT ![j.file] = j.body]
              /\ \/ pc' = [pc EXCEPT ![o] = "published"]
                 \/ Rejects /\ pc' = [pc EXCEPT ![o] = "unwritten"]
           \/ /\ Fails
              /\ pc' = [pc EXCEPT ![o] = "unwritten"] /\ UNCHANGED disk
        /\ UNCHANGED <<entries, flags, state, queue, job, path, claim, expected, undone>>

\* #recoverFromWriteConflict gives up: the session moves to a sibling.
Contested(o) ==
    LET j == job[o] IN
    /\ pc[o] = "staging" /\ ~Busy /\ ~released /\ ~Stale(o)
    /\ ~AsExpected(j) /\ ~MayRecover(j)
    /\ path' = "sibling" /\ expected' = {}
    /\ current' = FALSE /\ required' = TRUE
    /\ dirty' = (dirty /\ Repairs(o))
    /\ pc' = [pc EXCEPT ![o] = "closing"]
    /\ broken' = FALSE
    /\ UNCHANGED <<entries, released, failure, queue, job, disk, claim, undone>>

\* The next pass.  A rewrite sets the dirty flag and clears it at once.
Retries(o) ==
    /\ dirty' = (dirty /\ Repairs(o))
    /\ pc' = [pc EXCEPT ![o] = "closing"]

Superseded(o) == Stale(o) \/ path # job[o].file

\* The file is read, its unknown entries' blobs are resolved ...
ReadsBack(o) ==
    /\ pc[o] = "conflicted" /\ ~Busy
    /\ job' = [job EXCEPT ![o] = [@ EXCEPT !.seen = disk[job[o].file],
                                         !.tries = job[o].tries + 1]]
    /\ IF Superseded(o) THEN Retries(o)
       ELSE pc' = [pc EXCEPT ![o] = "reread"] /\ UNCHANGED dirty
    /\ UNCHANGED <<entries, current, required, state, queue, files, undone>>

\* ... and they are kept: #adoptForeignEntries.
Adopts(o) ==
    /\ pc[o] = "reread"
    /\ IF Superseded(o) THEN UNCHANGED <<entries, expected>>
       ELSE entries' = entries \union job[o].seen /\ expected' = job[o].seen
    /\ Retries(o)
    /\ UNCHANGED <<current, required, state, queue, job, disk, path, claim, undone>>

\* Mutant: appends during a rewrite are forgotten.
MoreToWriteForgotten == FALSE

\* An entry was appended after the body was serialized.
MoreToWrite == dirty

\* The publish has returned to #runFencedAtomicRewrite.
Recorded(o) ==
    /\ pc[o] = "published" /\ ~Repairs(o)
    /\ \/ /\ Stale(o)
          /\ Abandoned(o) /\ UNCHANGED <<dirty, expected>>
       \/ /\ ~Stale(o) /\ expected' = job[o].body
          /\ \/ /\ MoreToWrite /\ Retries(o)
                /\ UNCHANGED <<fresh, fence, job>>
             \/ /\ ~MoreToWrite /\ fence' = FenceLeft(o)
                /\ pc' = [pc EXCEPT ![o] = "marking"]
                /\ UNCHANGED <<dirty, fresh, job>>
    /\ UNCHANGED <<entries, current, required, state, batch, tail, disk, path, claim, undone>>

\* #runFencedAtomicRewrite has returned true to its caller.
Marks(o) ==
    /\ pc[o] = "marking"
    /\ current' = TRUE /\ required' = FALSE
    /\ failure' = (failure /\ job[o].mode # "fallback")
    /\ Resolves(o)
    /\ UNCHANGED <<entries, dirty, released, broken, fence, batch, tail, files, undone>>

\* A failed publish is read back: it may have been done.
Verifies(o) ==
    /\ pc[o] = "unwritten" /\ ~Busy /\ ~Repairs(o)
    /\ expected' = IF disk[job[o].file] = job[o].body THEN job[o].body ELSE expected
    /\ fence' = FenceLeft(o)
    /\ Rejected(o)
    /\ UNCHANGED <<entries, flags, released, broken, batch, tail, disk, path, claim, undone>>

\* The publish has returned to the repair, or is found to have been done.
RepairRecorded(o) ==
    /\ Repairs(o)
    /\ pc[o] = "published" \/ (pc[o] = "unwritten" /\ ~Busy /\ disk[job[o].file] = job[o].body)
    /\ ~Stale(o) /\ expected' = job[o].body
    /\ \/ /\ MoreToWrite
          /\ dirty' = FALSE /\ pc' = [pc EXCEPT ![o] = "closing"]
          /\ UNCHANGED <<current, required, failure, fresh, fence, batch, job>>
       \/ /\ ~MoreToWrite
          /\ current' = TRUE /\ required' = FALSE /\ failure' = FALSE
          /\ fence' = FenceLeft(o)
          /\ batch' = IF batch = o THEN None ELSE batch
          /\ pc' = [pc EXCEPT ![o] = IF o \in Batches THEN "refused" ELSE "done"]
          /\ job' = [job EXCEPT ![o] = NoJob] /\ fresh' = fresh \ {o}
          /\ UNCHANGED dirty
    /\ UNCHANGED <<entries, released, broken, tail, disk, path, claim, undone>>

\* #latchIndeterminate
RepairFails(o) ==
    LET done == pc[o] = "published" \/ disk[job[o].file] = job[o].body IN
    /\ Repairs(o) /\ (pc[o] = "published" \/ (pc[o] = "unwritten" /\ ~Busy))
    /\ ~done \/ Stale(o)
    /\ expected' = IF done THEN job[o].body ELSE expected
    /\ failure' = TRUE /\ fence' = FenceLeft(o)
    /\ IF batch = o
       THEN batch' = None /\ current' = FALSE /\ required' = TRUE
       ELSE UNCHANGED <<batch, current, required>>
    /\ pc' = [pc EXCEPT ![o] = "indeterminate"]
    /\ job' = [job EXCEPT ![o] = NoJob] /\ fresh' = fresh \ {o}
    /\ UNCHANGED <<entries, dirty, released, broken, tail, disk, path, claim, undone>>

-----------------------------------------------------------------------------
(* Other processes                                                          *)

ForeignAppends(x) ==
    /\ \A p \in Paths : x \notin disk[p]
    /\ \/ "relapse" \in Behaviours
       \/ \A b \in Batches : Staged(b) \subseteq disk["home"] => pc[b] \in Ended
    /\ disk' = [disk EXCEPT !["home"] = @ \union {x}]
    /\ UNCHANGED <<entries, flags, state, queue, calls, path, claim, expected, undone>>

OwnerChanges ==
    /\ "owner" \in Behaviours
    /\ \A o \in Ops : pc[o] \in {"idle"} \union Ended
    /\ \/ claim = "free" /\ claim' = "other"
       \/ claim = "other" /\ claim' = "free"
    /\ UNCHANGED <<entries, flags, state, queue, calls, disk, path, expected, undone>>

-----------------------------------------------------------------------------
\* What a promise or the file system brings about, whatever others do
Continues(o) ==
    \/ WorkDropped(o) \/ WorkRefused(o) \/ RewriteStarts(o) \/ RepairStarts(o)
    \/ CloseFails(o) \/ Serializes(o) \/ Publishes(o) \/ Contested(o) \/ ReadsBack(o) \/ Adopts(o)
    \/ Recorded(o) \/ Marks(o) \/ Verifies(o) \/ RepairRecorded(o) \/ RepairFails(o)
    \/ o \in Closes /\ CloseRuns(o)
    \/ o \in Titles /\ (TitleAppends(o) \/ TitleSlot(o))
    \/ o \in Batches /\ (BatchStaged(o) \/ BatchCommits(o) \/ BatchRollsBack(o))

Next ==
    \/ \E e \in Appends : Append(e)
    \/ FlushSync \/ Seal
    \/ \E t \in Titles : TitleSet(t)
    \/ \E r \in Rewrites : Rewrite(r)
    \/ \E c \in Closes : Close(c)
    \/ \E b \in Batches : BatchCalled(b)
    \/ \E v \in Recovers : Recover(v)
    \/ \E o \in Ops : Continues(o)
    \/ \E x \in Foreign : ForeignAppends(x)
    \/ OwnerChanges

Spec == Init /\ [][Next]_vars

\* Promises settle and their continuations run.
FairSpec == Spec /\ \A o \in Ops : WF_vars(Continues(o))

-----------------------------------------------------------------------------
(* Properties                                                               *)

\* A file the session left (`home') still counts until the sibling is written.
OnDisk(e) == e \in disk[path] \/ (required /\ e \in disk["home"])

\* "completed entries ... are handed to the OS synchronously in-body on append"
\* (session-manager.ts 841): an entry the manager has recorded is in its file,
\* or the failure that kept it out is latched, or a batch is being published,
\* or its title change has not returned.
CompletedIsOnDisk ==
    \A e \in entries :
        \/ OnDisk(e) \/ failure \/ batch # None \/ released
        \/ \E t \in Titles : e = TitleOf(t) /\ pc[t] \notin Ended

\* appendEntriesAtomically (2702): no file ever holds a part of a batch; ...
Undivided(S) == \A b \in Batches : Staged(b) \subseteq S \/ Staged(b) \intersect S = {}
BatchUndivided == \A p \in Paths : Undivided(disk[p])

\* ... one reported as committed is on disk; ...
BatchCommitted ==
    \A b \in Batches : pc[b] = "committed" => \A e \in Staged(b) : OnDisk(e)

\* ... one reported as rolled back is neither there nor in memory.
BatchRefused ==
    \A b \in Batches : pc[b] = "refused" => Staged(b) \intersect (disk[path] \union entries) = {}

BatchWhole == BatchUndivided /\ BatchCommitted /\ BatchRefused

\* Whoever wrote it and whatever write is late, no write of this manager takes
\* an entry out of a file, except for a batch it rolled back; sealed, it writes
\* nothing, for the file may have a new manager.
NothingErased ==
    [][\A p \in Paths :
         /\ disk[p] \ disk'[p] \subseteq undone'
         /\ released => disk'[p] \ disk[p] \subseteq Foreign /\ disk[p] \subseteq disk'[p]]_vars

\* Every call returns, whatever supersedes its work.
CallsReturn == \A o \in Ops : pc[o] # "idle" ~> pc[o] \in Ended
=============================================================================
