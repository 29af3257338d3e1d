------------------------------- MODULE Semaphore -------------------------------
(***************************************************************************)
(* Semaphore (packages/coding-agent/src/task/parallel.ts) as a value: a    *)
(* ceiling, the number of slots taken, and the callers that wait for one,  *)
(* in order.  Each operator is what one method does without suspending;    *)
(* the waiters that leave the queue in it have been admitted.              *)
(***************************************************************************)
EXTENDS Integers, Sequences

Unbounded == 0   \* a setting <= 0: no ceiling

\* The constructor
Make(max) == [max |-> max, current |-> 0, queue |-> <<>>]

HasSlot(s) == s.max = Unbounded \/ s.current < s.max

\* Mutant: resize() replaces the instance, and the slots in use are not counted.
ResizedAnew(s, max) == [s EXCEPT !.max = max, !.current = 0]

\* The first n waiters are admitted.
Admit(s, n) ==
    [s EXCEPT !.current = @ + n, !.queue = SubSeq(@, n + 1, Len(@))]

\* How many waiters fit under the ceiling.
Fitting(s) ==
    IF s.max = Unbounded \/ s.current + Len(s.queue) <= s.max THEN Len(s.queue)
    ELSE IF s.current < s.max THEN s.max - s.current ELSE 0

\* resize
Resized(s, max) == LET r == [s EXCEPT !.max = max] IN Admit(r, Fitting(r))

\* acquire, when it gets a slot at once, and when it has to wait
Taken(s) == [s EXCEPT !.current = @ + 1]
Enqueued(s, c) == [s EXCEPT !.queue = Append(@, c)]

\* Mutant: the stream's end and its reader both release, and the count has no floor.
FreedTwice(s) == [s EXCEPT !.current = @ - 2]

\* Mutant: nobody is admitted.
FreedQuietly(s) == [s EXCEPT !.current = IF @ > 0 THEN @ - 1 ELSE 0]

\* release: the next waiter is admitted if that is under the ceiling.
Freed(s) ==
    LET r == [s EXCEPT !.current = IF @ > 0 THEN @ - 1 ELSE 0] IN
    IF HasSlot(r) /\ r.queue # <<>> THEN Admit(r, 1) ELSE r

\* Mutant: onAbort rejects the waiters C and leaves them in the queue.
AbandonedInQueue(s, C) == s

\* Queue q without the waiters C.
Without(q, C) ==
    LET left[n \in 0 .. Len(q)] ==
            IF n = 0 THEN <<>>
            ELSE IF q[n] \in C THEN left[n - 1] ELSE Append(left[n - 1], q[n])
    IN left[Len(q)]

\* onAbort: the waiters C leave the queue.
Abandoned(s, C) == [s EXCEPT !.queue = Without(@, C)]
=============================================================================
