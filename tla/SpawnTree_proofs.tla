---------------------------- MODULE SpawnTree_proofs ----------------------------
(***************************************************************************)
(* What SpawnTree keeps for any tree of agents, any limits and any number  *)
(* of requests.  The queues first: what the recursion of Without leaves,   *)
(* by induction over the places of a queue; then, of each operation of a   *)
(* semaphore, that its count and its queue agree with who holds a slot and *)
(* who waits (Sound), and whom it lets in; last, for each action, that     *)
(* holders and waiters are what the agents do.                             *)
(***************************************************************************)
EXTENDS SpawnTree, TLAPS, SequenceTheorems, FiniteSetTheorems

-----------------------------------------------------------------------------
(* Queues                                                                   *)

Before == {p \in Nat \X Nat : p[1] < p[2]}

\* Induction over a set of numbers.
LEMMA NumbersFromZero ==
    ASSUME NEW S, 0 \in S, \A n \in Nat : n \in S => n + 1 \in S
    PROVE  Nat \subseteq S
<1>1. SUFFICES ASSUME Nat \ S # {} PROVE FALSE
  OBVIOUS
<1>2. IsWellFoundedOn(Before, Nat)
  BY NatLessThanWellFounded DEF OpToRel, Before
<1>3. PICK x \in Nat \ S : \A y \in Nat \ S : ~(<<y, x>> \in Before)
  BY <1>1, <1>2, WFMin
<1>4. x \in Nat /\ x # 0 /\ x - 1 \in Nat
  OBVIOUS
<1>5. <<x - 1, x>> \in Before
  BY <1>4 DEF Before
<1>6. x - 1 \in S
  BY <1>3, <1>4, <1>5
<1> QED
  BY <1>4, <1>6

\* An element is in a sequence exactly if it has a position.
LEMMA InQueue ==
    ASSUME NEW A, NEW q \in Seq(A), NEW x
    PROVE  x \in ToSet(q) <=> \E i \in 1 .. Len(q) : q[i] = x
BY DEF ToSet

LEMMA QueueCounted ==
    ASSUME NEW A, NEW q \in Seq(A)
    PROVE  /\ IsFiniteSet(ToSet(q)) /\ Cardinality(ToSet(q)) \in Nat
           /\ IsInjective(q) <=> Len(q) = Cardinality(ToSet(q))
<1> DEFINE D == 1 .. Len(q)
<1>1. IsFiniteSet(D) /\ Cardinality(D) = Len(q)
  <2>1. 1 \in Int /\ Len(q) \in Int /\ Len(q) >= 0
    OBVIOUS
  <2>2. IsFiniteSet(D) /\ Cardinality(D) = IF 1 > Len(q) THEN 0 ELSE Len(q) - 1 + 1
    BY <2>1, FS_Interval
  <2> QED
    BY <2>1, <2>2
<1>2. q \in [D -> ToSet(q)] /\ \A x \in ToSet(q) : \E i \in D : q[i] = x
  BY DEF ToSet
<1>3. q \in Surjection(D, ToSet(q))
  BY <1>2 DEF Surjection
<1>4. IsFiniteSet(ToSet(q)) /\ (Cardinality(ToSet(q)) = Cardinality(D) <=> q \in Injection(D, ToSet(q)))
  BY <1>1, <1>3, FS_Surjection
<1>5. q \in Injection(D, ToSet(q)) <=> IsInjective(q)
  BY <1>2 DEF Injection
<1> QED
  BY <1>1, <1>4, <1>5, FS_CardinalityType

Rest(q, n) == SubSeq(q, n + 1, Len(q))

\* The first n leave, the others stay in order.
LEMMA FirstLeave ==
    ASSUME NEW A, NEW q \in Seq(A), IsInjective(q), NEW n \in 0 .. Len(q)
    PROVE  LET r == Rest(q, n) IN
           /\ r \in Seq(A) /\ IsInjective(r) /\ Len(r) = Len(q) - n
           /\ ToSet(r) \subseteq ToSet(q)
           /\ IsFiniteSet(ToSet(q) \ ToSet(r)) /\ Cardinality(ToSet(q) \ ToSet(r)) = n
<1> DEFINE r == Rest(q, n)
<1>1. /\ r \in Seq(A) /\ Len(r) = Len(q) - n
      /\ \A i \in 1 .. Len(q) - n : r[i] = q[n + i]
  <2>1. \A i \in n + 1 .. Len(q) : q[i] \in A
    OBVIOUS
  <2>2. n + 1 \in Int /\ Len(q) \in Int
    OBVIOUS
  <2>3. /\ r \in Seq(A)
        /\ Len(r) = IF n + 1 <= Len(q) THEN Len(q) - (n + 1) + 1 ELSE 0
        /\ \A i \in 1 .. Len(q) - (n + 1) + 1 : r[i] = q[n + 1 + i - 1]
    BY <2>1, <2>2, SubSeqProperties DEF Rest
  <2> QED
    BY <2>3
<1> HIDE DEF r
<1>2. IsInjective(r)
  <2> SUFFICES ASSUME NEW i \in 1 .. Len(r), NEW j \in 1 .. Len(r), r[i] = r[j] PROVE i = j
    BY <1>1 DEF IsInjective
  <2>1. q[n + i] = q[n + j] /\ n + i \in 1 .. Len(q) /\ n + j \in 1 .. Len(q)
    BY <1>1
  <2>2. n + i = n + j
    BY <2>1 DEF IsInjective
  <2> QED
    BY <2>2
<1>3. ToSet(r) \subseteq ToSet(q)
  <2> SUFFICES ASSUME NEW i \in 1 .. Len(r) PROVE r[i] \in ToSet(q)
    BY <1>1, InQueue
  <2>1. r[i] = q[n + i] /\ n + i \in 1 .. Len(q)
    BY <1>1
  <2> QED
    BY <2>1, InQueue
<1>4. /\ IsFiniteSet(ToSet(q)) /\ Cardinality(ToSet(q)) = Len(q)
      /\ IsFiniteSet(ToSet(r)) /\ Cardinality(ToSet(r)) = Len(q) - n
  BY <1>1, <1>2, QueueCounted
<1>5. ToSet(q) \intersect ToSet(r) = ToSet(r)
  BY <1>3
<1>6. /\ IsFiniteSet(ToSet(q) \ ToSet(r))
      /\ Cardinality(ToSet(q) \ ToSet(r)) = Cardinality(ToSet(q)) - Cardinality(ToSet(r))
  <2>1. /\ IsFiniteSet(ToSet(q) \ ToSet(r))
        /\ Cardinality(ToSet(q) \ ToSet(r))
             = Cardinality(ToSet(q)) - Cardinality(ToSet(q) \intersect ToSet(r))
    BY <1>4, FS_Difference
  <2> QED
    BY <2>1, <1>5
<1>7. Cardinality(ToSet(q) \ ToSet(r)) = n
  <2>1. Cardinality(ToSet(q) \ ToSet(r)) = Len(q) - (Len(q) - n)
    BY <1>4, <1>5, <1>6
  <2> QED
    BY <2>1
<1> QED
  BY <1>1, <1>2, <1>3, <1>6, <1>7 DEF r

\* One more at the end.
LEMMA OneJoins ==
    ASSUME NEW A, NEW q \in Seq(A), IsInjective(q), NEW c \in A, c \notin ToSet(q)
    PROVE  LET r == Append(q, c) IN
           r \in Seq(A) /\ IsInjective(r) /\ ToSet(r) = ToSet(q) \union {c}
<1> DEFINE r == Append(q, c)
<1>1. /\ r \in Seq(A) /\ Len(r) = Len(q) + 1
      /\ \A i \in 1 .. Len(q) : r[i] = q[i]
      /\ r[Len(q) + 1] = c
  BY AppendProperties
<1> HIDE DEF r
<1>2. \A i \in 1 .. Len(q) : q[i] # c
  BY InQueue
<1>3. IsInjective(r)
  BY <1>1, <1>2 DEF IsInjective
<1>4. \A x : x \in ToSet(r) <=> x \in ToSet(q) \/ x = c
  BY <1>1, InQueue
<1> QED
  BY <1>1, <1>3, <1>4 DEF r

\* What is left of the first n places of q when the waiters C have left it.
Left(q, C, f, n) ==
    f[n] = IF n = 0 THEN <<>>
           ELSE IF q[n] \in C THEN f[n - 1] ELSE Append(f[n - 1], q[n])

Solves(q, C, f) ==
    f = [n \in 0 .. Len(q) |->
           IF n = 0 THEN <<>>
           ELSE IF q[n] \in C THEN f[n - 1] ELSE Append(f[n - 1], q[n])]

\* The recursion of Without has a solution: one more place at a time.
LEMMA LeftExists ==
    ASSUME NEW A, NEW q \in Seq(A), NEW C
    PROVE  \E f : Solves(q, C, f)
<1> DEFINE Upto(n) == \E f : f \in [0 .. n -> Seq(A)] /\ \A k \in 0 .. n : Left(q, C, f, k)
           S == {n \in Nat : n <= Len(q) => Upto(n)}
<1>1. 0 \in S
  <2> DEFINE f == [k \in 0 .. 0 |-> <<>>]
  <2>1. f \in [0 .. 0 -> Seq(A)]
    BY EmptySeq
  <2>2. \A k \in 0 .. 0 : Left(q, C, f, k)
    BY DEF Left
  <2>3. Upto(0)
    BY <2>1, <2>2
  <2> QED
    BY <2>3
<1>2. ASSUME NEW n \in Nat, n \in S PROVE n + 1 \in S
  <2>1. SUFFICES ASSUME n + 1 <= Len(q) PROVE Upto(n + 1)
    OBVIOUS
  <2>2. PICK f : f \in [0 .. n -> Seq(A)] /\ \A k \in 0 .. n : Left(q, C, f, k)
    <3>1. n <= Len(q)
      BY <2>1
    <3> HIDE DEF Upto
    <3>2. Upto(n)
      BY <1>2, <3>1
    <3> QED
      BY <3>2 DEF Upto
  <2> DEFINE last == IF q[n + 1] \in C THEN f[n] ELSE Append(f[n], q[n + 1])
             g == [k \in 0 .. n + 1 |-> IF k <= n THEN f[k] ELSE last]
  <2>3. last \in Seq(A)
    <3>1. q[n + 1] \in A /\ f[n] \in Seq(A)
      BY <2>1, <2>2
    <3>2. Append(f[n], q[n + 1]) \in Seq(A)
      BY <3>1
    <3> QED
      BY <3>1, <3>2
  <2>4. g \in [0 .. n + 1 -> Seq(A)]
    <3> HIDE DEF last
    <3> QED
      BY <2>2, <2>3
  <2>5. ASSUME NEW k \in 0 .. n PROVE Left(q, C, g, k)
    <3>1. Left(q, C, f, k)
      BY <2>2
    <3>2. g[k] = f[k] /\ (k # 0 => g[k - 1] = f[k - 1])
      OBVIOUS
    <3> HIDE DEF g
    <3> QED
      BY <3>1, <3>2 DEF Left
  <2>6. Left(q, C, g, n + 1)
    <3>1. g[n + 1] = last /\ g[n + 1 - 1] = f[n] /\ n + 1 # 0
      OBVIOUS
    <3> HIDE DEF g
    <3> QED
      BY <3>1 DEF Left
  <2> HIDE DEF g
  <2>7. \A k \in 0 .. n + 1 : Left(q, C, g, k)
    BY <2>5, <2>6
  <2> QED
    BY <2>4, <2>7
<1> HIDE DEF Upto
<1>3. Nat \subseteq S
  <2> HIDE DEF S
  <2> QED
    BY <1>1, <1>2, NumbersFromZero
<1>4. Upto(Len(q))
  BY <1>3
<1>5. PICK f : f \in [0 .. Len(q) -> Seq(A)] /\ \A k \in 0 .. Len(q) : Left(q, C, f, k)
  BY <1>4 DEF Upto
<1>6. Solves(q, C, f)
  BY <1>5 DEF Left, Solves
<1> QED
  BY <1>6

\* Those of C have left, the others stay, each once.
LEMMA Leave ==
    ASSUME NEW A, NEW q \in Seq(A), IsInjective(q), NEW C
    PROVE  LET r == Without(q, C) IN
           r \in Seq(A) /\ IsInjective(r) /\ ToSet(r) = ToSet(q) \ C
<1> DEFINE left == CHOOSE f : Solves(q, C, f)
           First(n) == {q[i] : i \in 1 .. n}
           Good(r, n) == r \in Seq(A) /\ IsInjective(r) /\ ToSet(r) = First(n) \ C
           S == {n \in Nat : n <= Len(q) => Good(left[n], n)}
<1>1. Solves(q, C, left)
  BY LeftExists
<1>2. Without(q, C) = left[Len(q)]
  BY Zenon DEF Without, Solves
<1> HIDE DEF left
<1>3. \A n \in 0 .. Len(q) : Left(q, C, left, n)
  BY <1>1 DEF Left, Solves
<1>4. 0 \in S
  <2>1. left[0] = <<>>
    BY <1>3 DEF Left
  <2>2. <<>> \in Seq(A) /\ IsInjective(<<>>) /\ ToSet(<<>>) = {} /\ First(0) = {}
    BY DEF IsInjective, ToSet
  <2> HIDE DEF First
  <2> QED
    BY <2>1, <2>2
<1>5. ASSUME NEW n \in Nat, n \in S PROVE n + 1 \in S
  <2> SUFFICES ASSUME n + 1 <= Len(q) PROVE Good(left[n + 1], n + 1)
    OBVIOUS
  <2>1. n <= Len(q) /\ q[n + 1] \in A
    OBVIOUS
  <2>2. Good(left[n], n)
    <3> HIDE DEF Good
    <3> QED
      BY <1>5, <2>1
  <2>3. First(n + 1) = First(n) \union {q[n + 1]}
    OBVIOUS
  <2>4. q[n + 1] \notin First(n)
    BY DEF IsInjective
  <2>5. left[n + 1] = IF q[n + 1] \in C THEN left[n] ELSE Append(left[n], q[n + 1])
    <3>1. Left(q, C, left, n + 1)
      BY <1>3
    <3> QED
      BY <3>1 DEF Left
  <2> HIDE DEF First
  <2>6. CASE q[n + 1] \in C
    BY <2>2, <2>3, <2>5, <2>6
  <2>7. CASE q[n + 1] \notin C
    <3>1. q[n + 1] \notin ToSet(left[n])
      BY <2>2, <2>4
    <3> DEFINE r == Append(left[n], q[n + 1])
    <3>2. r \in Seq(A) /\ IsInjective(r) /\ ToSet(r) = ToSet(left[n]) \union {q[n + 1]}
      BY <2>1, <2>2, <3>1, OneJoins
    <3> HIDE DEF r
    <3>3. left[n + 1] = r
      BY <2>5, <2>7 DEF r
    <3> QED
      BY <2>2, <2>3, <2>7, <3>2, <3>3
  <2> QED
    BY <2>6, <2>7
<1>6. Good(left[Len(q)], Len(q))
  <2>1. Nat \subseteq S
    <3> HIDE DEF S
    <3> QED
      BY <1>4, <1>5, NumbersFromZero
  <2> HIDE DEF Good
  <2> QED
    BY <2>1
<1>7. First(Len(q)) = ToSet(q)
  BY DEF ToSet
<1> QED
  BY <1>2, <1>6, <1>7

-----------------------------------------------------------------------------
(* Semaphores                                                               *)

Semaphores(A) == [max : Nat, current : Nat, queue : Seq(A)]

\* Semaphore s is held by H, and W wait for it.
Sound(A, s, H, W) ==
    /\ s \in Semaphores(A)
    /\ IsFiniteSet(H) /\ s.current = Cardinality(H)
    /\ IsInjective(s.queue) /\ ToSet(s.queue) = W
    /\ s.queue # <<>> => ~HasSlot(s)

\* The ceiling allows what is held.
Capped(s) == s.max = Unbounded \/ s.current <= s.max

LEMMA Joining ==
    ASSUME NEW H, NEW K, IsFiniteSet(H), IsFiniteSet(K), H \intersect K = {}
    PROVE  /\ IsFiniteSet(H \union K) /\ Cardinality(H) \in Nat /\ Cardinality(K) \in Nat
           /\ Cardinality(H \union K) = Cardinality(H) + Cardinality(K)
<1>1. /\ IsFiniteSet(H \union K)
      /\ Cardinality(H \union K) = Cardinality(H) + Cardinality(K) - Cardinality(H \intersect K)
  BY FS_Union
<1>2. Cardinality(H \intersect K) = 0
  BY FS_EmptySet
<1>3. Cardinality(H) \in Nat /\ Cardinality(K) \in Nat
  BY FS_CardinalityType
<1> QED
  BY <1>1, <1>2, <1>3

LEMMA AdmitFields ==
    ASSUME NEW A, NEW s \in Semaphores(A), NEW n \in 0 .. Len(s.queue), NEW t, t = Admit(s, n)
    PROVE  /\ t \in Semaphores(A) /\ t.max = s.max
           /\ t.current = s.current + n /\ t.queue = Rest(s.queue, n)
<1>1. s.queue \in Seq(A) /\ s.current \in Nat /\ s.max \in Nat
  BY DEF Semaphores
<1>2. \A i \in n + 1 .. Len(s.queue) : s.queue[i] \in A
  BY <1>1
<1>3. SubSeq(s.queue, n + 1, Len(s.queue)) \in Seq(A)
  BY <1>1, <1>2, SubSeqProperties
<1>4. s.current + n \in Nat
  BY <1>1
<1> QED
  BY <1>1, <1>3, <1>4 DEF Admit, Semaphores, Rest

\* The first n waiters fill s up to its ceiling.
Filling(A, s, H, W, n) ==
    /\ s \in Semaphores(A) /\ n \in 0 .. Len(s.queue)
    /\ IsFiniteSet(H) /\ s.current = Cardinality(H)
    /\ IsInjective(s.queue) /\ ToSet(s.queue) = W /\ H \intersect W = {}
    /\ n < Len(s.queue) => s.max # Unbounded /\ s.current + n >= s.max

\* The waiters K that are no longer in the queue are holders.
Filled(A, s, H, W, n, t) ==
    LET K == W \ ToSet(t.queue) IN
    /\ Sound(A, t, H \union K, W \ K) /\ t.max = s.max
    /\ t.current = s.current + n /\ (n = 0 => K = {})

LEMMA AdmitSound ==
    ASSUME NEW A, NEW H, NEW W, NEW s, NEW n, Filling(A, s, H, W, n)
    PROVE  Filled(A, s, H, W, n, Admit(s, n))
<1> DEFINE t == Admit(s, n)
           K == W \ ToSet(t.queue)
<1> USE DEF Filling
<1>1. s.queue \in Seq(A) /\ s.current \in Nat /\ s.max \in Nat
  BY DEF Semaphores
<1>2. /\ t \in Semaphores(A) /\ t.max = s.max
      /\ t.current = s.current + n /\ t.queue = Rest(s.queue, n)
  BY AdmitFields
<1> HIDE DEF t
<1>3. /\ IsInjective(t.queue) /\ Len(t.queue) = Len(s.queue) - n
      /\ ToSet(t.queue) \subseteq W /\ IsFiniteSet(K) /\ Cardinality(K) = n
  <2>1. LET r == Rest(s.queue, n) IN
        /\ IsInjective(r) /\ Len(r) = Len(s.queue) - n /\ ToSet(r) \subseteq ToSet(s.queue)
        /\ IsFiniteSet(ToSet(s.queue) \ ToSet(r)) /\ Cardinality(ToSet(s.queue) \ ToSet(r)) = n
    BY <1>1, FirstLeave
  <2> QED
    BY <1>2, <2>1
<1>4. ToSet(t.queue) = W \ K
  BY <1>3
<1>5. H \intersect K = {}
  OBVIOUS
<1>6. IsFiniteSet(H \union K) /\ Cardinality(H \union K) = s.current + n
  <2>1. IsFiniteSet(H \union K) /\ Cardinality(H \union K) = Cardinality(H) + Cardinality(K)
    BY <1>3, <1>5, Joining
  <2> QED
    BY <2>1, <1>3
<1>7. t.queue # <<>> => ~HasSlot(t)
  <2> SUFFICES ASSUME t.queue # <<>> PROVE ~HasSlot(t)
    OBVIOUS
  <2>1. Len(t.queue) # 0
    <3>1. t.queue \in Seq(A)
      BY <1>2 DEF Semaphores
    <3> QED
      BY <3>1
  <2>2. n < Len(s.queue)
    BY <1>1, <1>3, <2>1
  <2> QED
    BY <1>1, <1>2, <2>2 DEF HasSlot
<1>8. n = 0 => K = {}
  BY <1>3, FS_EmptySet
<1> QED
  BY <1>2, <1>3, <1>4, <1>6, <1>7, <1>8 DEF Sound, Filled, t

\* As much, with nobody admitted over the ceiling.
LetIn(A, H, W, t) ==
    LET K == W \ ToSet(t.queue) IN
    Sound(A, t, H \union K, W \ K) /\ (K = {} \/ Capped(t))

\* resize: those that now fit are admitted, under the new ceiling.
LEMMA ResizedSound ==
    ASSUME NEW A, NEW H, NEW W, NEW s, Sound(A, s, H, W), H \intersect W = {},
           NEW max \in Nat
    PROVE  LetIn(A, H, W, Resized(s, max))
<1>1. /\ s \in Semaphores(A) /\ s.queue \in Seq(A) /\ s.current \in Nat /\ s.max \in Nat
      /\ IsFiniteSet(H) /\ s.current = Cardinality(H)
      /\ IsInjective(s.queue) /\ ToSet(s.queue) = W
  BY DEF Sound, Semaphores
<1> DEFINE r == [s EXCEPT !.max = max]
           n == Fitting(r)
           t == Resized(s, max)
           K == W \ ToSet(t.queue)
<1>2. r \in Semaphores(A) /\ r.max = max /\ r.current = s.current /\ r.queue = s.queue
  BY <1>1 DEF Semaphores
<1>3. t = Admit(r, n)
  BY DEF Resized
<1> HIDE DEF r, t
<1>4. Len(s.queue) \in Nat
  BY <1>1
<1>5. /\ n \in 0 .. Len(s.queue)
      /\ n < Len(s.queue) => max # Unbounded /\ s.current + n >= max
      /\ n # 0 => max = Unbounded \/ s.current + n <= max
  BY <1>1, <1>2, <1>4 DEF Fitting, Unbounded
<1> HIDE DEF n
<1>6. /\ Sound(A, t, H \union K, W \ K) /\ t.max = max
      /\ t.current = s.current + n /\ (n = 0 => K = {})
  <2>1. Filling(A, r, H, W, n)
    BY <1>1, <1>2, <1>5 DEF Filling
  <2>2. Filled(A, r, H, W, n, t)
    BY <1>3, <2>1, AdmitSound
  <2> QED
    BY <1>2, <2>2 DEF Filled
<1>7. K = {} \/ Capped(t)
  BY <1>5, <1>6 DEF Capped
<1>8. LetIn(A, H, W, t)
  BY <1>6, <1>7 DEF LetIn
<1> QED
  BY <1>8 DEF t

\* acquire, with a slot and without one.
LEMMA TakenSound ==
    ASSUME NEW A, NEW H, NEW W, NEW s, Sound(A, s, H, W), HasSlot(s), NEW c, c \notin H
    PROVE  Sound(A, Taken(s), H \union {c}, W) /\ Capped(Taken(s)) /\ Taken(s).max = s.max
<1>1. /\ s \in Semaphores(A) /\ s.current \in Nat /\ s.max \in Nat
      /\ IsFiniteSet(H) /\ s.current = Cardinality(H)
  BY DEF Sound, Semaphores
<1> DEFINE t == Taken(s)
<1>2. t \in Semaphores(A) /\ t.max = s.max /\ t.current = s.current + 1 /\ t.queue = s.queue
  BY <1>1 DEF Taken, Semaphores
<1> HIDE DEF t
<1>3. IsFiniteSet(H \union {c}) /\ Cardinality(H \union {c}) = s.current + 1
  BY <1>1, FS_AddElement
<1>4. t.queue = <<>>
  BY <1>2 DEF Sound
<1>5. Capped(t)
  BY <1>1, <1>2 DEF Capped, HasSlot
<1> QED
  BY <1>2, <1>3, <1>4, <1>5 DEF Sound, t

LEMMA EnqueuedSound ==
    ASSUME NEW A, NEW H, NEW W, NEW s, Sound(A, s, H, W), ~HasSlot(s), NEW c \in A, c \notin W
    PROVE  Sound(A, Enqueued(s, c), H, W \union {c}) /\ Enqueued(s, c).max = s.max
<1>1. s \in Semaphores(A) /\ s.queue \in Seq(A) /\ IsInjective(s.queue) /\ ToSet(s.queue) = W
  BY DEF Sound, Semaphores
<1> DEFINE q == Append(s.queue, c)
           t == Enqueued(s, c)
<1>2. q \in Seq(A) /\ IsInjective(q) /\ ToSet(q) = W \union {c}
  BY <1>1, OneJoins
<1>3. t = [s EXCEPT !.queue = q]
  BY DEF Enqueued
<1> HIDE DEF q, t
<1>4. t \in Semaphores(A) /\ t.max = s.max /\ t.current = s.current /\ t.queue = q
  BY <1>1, <1>2, <1>3 DEF Semaphores
<1>5. ~HasSlot(t)
  BY <1>4 DEF HasSlot
<1> QED
  BY <1>2, <1>4, <1>5 DEF Sound, t

\* onAbort.
LEMMA AbandonedSound ==
    ASSUME NEW A, NEW H, NEW W, NEW s, Sound(A, s, H, W), NEW C
    PROVE  Sound(A, Abandoned(s, C), H, W \ C)
<1>1. s \in Semaphores(A) /\ s.queue \in Seq(A) /\ IsInjective(s.queue) /\ ToSet(s.queue) = W
  BY DEF Sound, Semaphores
<1> DEFINE q == Without(s.queue, C)
           t == Abandoned(s, C)
<1>2. q \in Seq(A) /\ IsInjective(q) /\ ToSet(q) = W \ C
  BY <1>1, Leave
<1>3. t = [s EXCEPT !.queue = q]
  BY DEF Abandoned
<1> HIDE DEF q, t
<1>4. t \in Semaphores(A) /\ t.max = s.max /\ t.current = s.current /\ t.queue = q
  BY <1>1, <1>2, <1>3 DEF Semaphores
<1>5. q # <<>> => s.queue # <<>>
  <2> SUFFICES ASSUME s.queue = <<>> PROVE q = <<>>
    OBVIOUS
  <2>1. ToSet(q) = {}
    BY <1>1, <1>2 DEF ToSet
  <2>2. Len(q) = 0
    BY <1>2, <2>1 DEF ToSet
  <2> QED
    BY <1>2, <2>2
<1>6. t.queue # <<>> => ~HasSlot(t)
  BY <1>4, <1>5 DEF HasSlot, Sound
<1> QED
  BY <1>2, <1>4, <1>6 DEF Sound, t

\* release by a holder.
LEMMA FreedSound ==
    ASSUME NEW A, NEW H, NEW W, NEW s, Sound(A, s, H, W), H \intersect W = {},
           NEW a \in H
    PROVE  LetIn(A, H \ {a}, W, Freed(s))
<1>1. /\ s \in Semaphores(A) /\ s.queue \in Seq(A) /\ s.current \in Nat /\ s.max \in Nat
      /\ IsFiniteSet(H) /\ s.current = Cardinality(H)
      /\ IsInjective(s.queue) /\ ToSet(s.queue) = W
  BY DEF Sound, Semaphores
<1> DEFINE r == [s EXCEPT !.current = IF @ > 0 THEN @ - 1 ELSE 0]
           G == H \ {a}
           t == Freed(s)
           K == W \ ToSet(t.queue)
<1> SUFFICES LetIn(A, G, W, t)
  OBVIOUS
<1>2. IsFiniteSet(G) /\ Cardinality(G) = s.current - 1 /\ s.current > 0
  <2>1. IsFiniteSet(G) /\ Cardinality(G) = s.current - 1
    BY <1>1, FS_RemoveElement
  <2>2. Cardinality(G) \in Nat
    BY <2>1, FS_CardinalityType
  <2> QED
    BY <1>1, <2>1, <2>2
<1>3. /\ r \in Semaphores(A) /\ r.max = s.max
      /\ r.current = s.current - 1 /\ r.queue = s.queue
  BY <1>1, <1>2 DEF Semaphores
<1>4. t = IF HasSlot(r) /\ r.queue # <<>> THEN Admit(r, 1) ELSE r
  BY DEF Freed
<1> HIDE DEF r, t
<1>5. G \intersect W = {}
  OBVIOUS
<1> HIDE DEF G
<1>6. CASE HasSlot(r) /\ r.queue # <<>>
  <2>1. t = Admit(r, 1) /\ 1 \in 0 .. Len(r.queue)
    BY <1>1, <1>3, <1>4, <1>6
  <2>2. ~HasSlot(s)
    BY <1>3, <1>6 DEF Sound
  <2>3. s.max # Unbounded /\ s.current = s.max
    <3>1. s.max # Unbounded /\ ~(s.current < s.max)
      BY <2>2 DEF HasSlot
    <3>2. s.current - 1 < s.max
      BY <1>3, <1>6, <3>1 DEF HasSlot
    <3> QED
      BY <1>1, <3>1, <3>2
  <2>4. Sound(A, t, G \union K, W \ K) /\ t.max = s.max /\ t.current = r.current + 1
    <3>1. Filling(A, r, G, W, 1)
      BY <1>1, <1>2, <1>3, <1>5, <2>1, <2>3 DEF Filling
    <3>2. Filled(A, r, G, W, 1, t)
      BY <2>1, <3>1, AdmitSound
    <3> QED
      BY <1>3, <3>2 DEF Filled
  <2>5. t.current = t.max
    <3>1. t.current = (s.current - 1) + 1
      BY <1>3, <2>4
    <3>2. (s.current - 1) + 1 = s.current
      BY <1>1
    <3> QED
      BY <2>3, <2>4, <3>1, <3>2
  <2>6. Capped(t)
    <3>1. t.current <= t.max
      BY <1>1, <2>3, <2>4, <2>5
    <3> QED
      BY <3>1 DEF Capped
  <2> QED
    BY <2>4, <2>6 DEF LetIn
<1>7. CASE ~(HasSlot(r) /\ r.queue # <<>>)
  <2>1. t = r /\ K = {}
    BY <1>1, <1>3, <1>4, <1>7
  <2>2. G \union K = G /\ W \ K = W
    BY <2>1
  <2>3. Sound(A, t, G, W)
    BY <1>1, <1>2, <1>3, <1>7, <2>1 DEF Sound
  <2> QED
    BY <2>1, <2>2, <2>3 DEF LetIn
<1> QED
  BY <1>6, <1>7

\* What was within the ceiling stays so.
LEMMA FreedCapped ==
    ASSUME NEW A, NEW s \in Semaphores(A), Capped(s)
    PROVE  Capped(Freed(s))
<1> DEFINE r == [s EXCEPT !.current = IF @ > 0 THEN @ - 1 ELSE 0]
           t == Freed(s)
<1>1. s.queue \in Seq(A) /\ s.current \in Nat /\ s.max \in Nat
  BY DEF Semaphores
<1>2. /\ r \in Semaphores(A) /\ r.max = s.max /\ r.queue = s.queue
      /\ r.current \in Nat /\ r.current <= s.current
  BY <1>1 DEF Semaphores
<1>3. t = IF HasSlot(r) /\ r.queue # <<>> THEN Admit(r, 1) ELSE r
  BY DEF Freed
<1> HIDE DEF r, t
<1>4. CASE HasSlot(r) /\ r.queue # <<>>
  <2>1. t = Admit(r, 1) /\ 1 \in 0 .. Len(r.queue)
    BY <1>1, <1>2, <1>3, <1>4
  <2>2. t.max = r.max /\ t.current = r.current + 1
    BY <1>2, <2>1, AdmitFields
  <2>3. r.max # Unbounded => r.current + 1 <= r.max
    BY <1>1, <1>2, <1>4 DEF HasSlot
  <2> QED
    BY <2>2, <2>3 DEF Capped, t
<1>5. CASE ~(HasSlot(r) /\ r.queue # <<>>)
  <2>1. t = r
    BY <1>3, <1>5
  <2>2. s.max # Unbounded => r.current <= r.max
    BY <1>1, <1>2 DEF Capped
  <2> QED
    BY <1>2, <2>1, <2>2 DEF Capped, t
<1> QED
  BY <1>4, <1>5

-----------------------------------------------------------------------------
(* The tree                                                                 *)

\* The agents are where the semaphores say, and nobody waits for a free slot.
Counted == \A s \in Sems : Sound(Agents, sem[s], Holders(s), Waiters(s))

IInv == TypeOK /\ Counted

\* A step keeps it so, and lets nobody in over a ceiling.
CountedStep ==
    \A s \in Sems :
        /\ Sound(Agents, sem'[s], Holders(s)', Waiters(s)')
        /\ Holders(s)' \subseteq Holders(s) \/ Capped(sem'[s])

LEMMA Apart == \A s \in Sems : Holders(s) \intersect Waiters(s) = {}
BY DEF Holders, Waiters

LEMMA ParentTyped == ASSUME NEW c \in Agents \ {Root} PROVE Parent[c] \in Agents /\ Parent[c] # Provider
BY TreeAssumption

\* A semaphore that a step leaves alone.
LEMMA Unmoved ==
    ASSUME Counted, NEW s \in Sems, sem'[s] = sem[s],
           Holders(s)' = Holders(s), Waiters(s)' = Waiters(s)
    PROVE  /\ Sound(Agents, sem'[s], Holders(s)', Waiters(s)')
           /\ Holders(s)' \subseteq Holders(s) \/ Capped(sem'[s])
BY DEF Counted

\* A semaphore that a step has resized or freed.
LEMMA Moved ==
    ASSUME NEW s \in Sems, NEW H, NEW W, NEW K, LetIn(Agents, H, W, sem'[s]),
           K = W \ ToSet(sem'[s].queue), H \subseteq Holders(s),
           Holders(s)' = H \union K, Waiters(s)' = W \ K
    PROVE  /\ Sound(Agents, sem'[s], Holders(s)', Waiters(s)')
           /\ Holders(s)' \subseteq Holders(s) \/ Capped(sem'[s])
BY DEF LetIn

LEMMA SpawnStep ==
    ASSUME IInv, NEW c \in Agents \ {Root}, Spawn(c)
    PROVE  CountedStep
<1> DEFINE a == Parent[c]
           W == Waiters(a)
           H == Holders(a)
<1>1. a \in Agents /\ a # Provider /\ a \in Sems /\ st \in [Agents -> States] /\ sem \in [Sems -> Semaphores(Agents)]
  BY ParentTyped DEF IInv, TypeOK, Sems, Semaphores
<1>2. PICK s \in {Resized(sem[a], max) : max \in Limits} :
        /\ sem' = [sem EXCEPT ![a] = IF HasSlot(s) THEN Taken(s) ELSE Enqueued(s, c)]
        /\ st' = [b \in Agents |->
                     IF b \in Admitted(sem[a], s) \/ (b = c /\ HasSlot(s))
                     THEN "ready" ELSE IF b = c THEN "permit" ELSE st[b]]
  BY Zenon DEF Spawn, SpawnSem
<1>2a. PICK max \in Limits : s = Resized(sem[a], max)
  OBVIOUS
<1> DEFINE K == W \ ToSet(s.queue)
<1>3. Sound(Agents, sem[a], H, W) /\ H \intersect W = {} /\ ToSet(sem[a].queue) = W
  <2>1. Sound(Agents, sem[a], H, W)
    BY <1>1 DEF IInv, Counted
  <2>2. ToSet(sem[a].queue) = W
    BY <2>1 DEF Sound
  <2> QED
    BY <1>1, <2>1, <2>2, Apart
<1>4. Admitted(sem[a], s) = K
  BY <1>3 DEF Admitted
<1>5. max \in Nat
  BY LimitAssumption
<1>6. Sound(Agents, s, H \union K, W \ K) /\ (K = {} \/ Capped(s))
  <2>1. LetIn(Agents, H, W, s)
    BY <1>3, <1>2a, <1>5, ResizedSound
  <2> QED
    BY <2>1 DEF LetIn
<1>7. /\ sem' = [sem EXCEPT ![a] = IF HasSlot(s) THEN Taken(s) ELSE Enqueued(s, c)]
      /\ \A b \in Agents : st'[b] = IF b \in K \/ (b = c /\ HasSlot(s)) THEN "ready"
                                    ELSE IF b = c THEN "permit" ELSE st[b]
  BY <1>2, <1>4
<1>8. st[c] = "none" /\ c \in Children(a)
  BY DEF Spawn, Children
<1>9. c \notin H /\ c \notin W /\ W \subseteq Children(a)
  BY <1>1, <1>8 DEF Holders, Waiters
<1>10. \A b \in K : st[b] = "permit" /\ b \in Children(a) /\ b \in Agents
  BY <1>1 DEF Waiters, Children
<1> HIDE DEF K
<1>11. ASSUME NEW x \in Sems, x # a
       PROVE  sem'[x] = sem[x] /\ Holders(x)' = Holders(x) /\ Waiters(x)' = Waiters(x)
  <2>1. sem'[x] = sem[x]
    BY <1>1, <1>7, <1>11
  <2>2. CASE x = Provider
    <3>1. \A b \in Agents : (st'[b] = "request" <=> st[b] = "request") /\ (st'[b] = "slot" <=> st[b] = "slot")
      BY <1>7, <1>8, <1>10
    <3> QED
      BY <2>1, <2>2, <3>1 DEF Holders, Waiters
  <2>3. CASE x # Provider
    <3>1. \A b \in Children(x) : b \in Agents /\ b # c /\ b \notin K
      BY <1>8, <1>10, <1>11 DEF Children
    <3>2. \A b \in Children(x) : st'[b] = st[b]
      BY <1>7, <3>1
    <3> QED
      BY <2>1, <2>3, <3>2 DEF Holders, Waiters, Children
  <2> QED
    BY <2>2, <2>3
<1>12. /\ Sound(Agents, sem'[a], Holders(a)', Waiters(a)')
       /\ Holders(a)' \subseteq Holders(a) \/ Capped(sem'[a])
  <2>1. c \notin H \union K /\ c \notin W \ K
    BY <1>9 DEF K
  <2>2. CASE HasSlot(s)
    <3>1. sem'[a] = Taken(s)
      BY <1>1, <1>7, <2>2
    <3>2. Sound(Agents, Taken(s), (H \union K) \union {c}, W \ K) /\ Capped(Taken(s))
      BY <1>6, <2>1, <2>2, TakenSound
    <3>3. \A b \in Children(a) : st'[b] = IF b \in K \/ b = c THEN "ready" ELSE st[b]
      BY <1>7, <2>2 DEF Children
    <3>4. Holders(a)' = (H \union K) \union {c} /\ Waiters(a)' = W \ K
      BY <1>1, <1>8, <1>10, <3>3 DEF Holders, Waiters, Children
    <3> QED
      BY <3>1, <3>2, <3>4
  <2>3. CASE ~HasSlot(s)
    <3>1. sem'[a] = Enqueued(s, c)
      BY <1>1, <1>7, <2>3
    <3>2. Sound(Agents, Enqueued(s, c), H \union K, (W \ K) \union {c})
      BY <1>6, <2>1, <2>3, EnqueuedSound
    <3>3. \A b \in Children(a) : st'[b] = IF b \in K THEN "ready" ELSE IF b = c THEN "permit" ELSE st[b]
      BY <1>7, <2>3 DEF Children
    <3>4. c \notin K
      BY <2>1
    <3>5. Holders(a)' = H \union K /\ Waiters(a)' = (W \ K) \union {c}
      BY <1>1, <1>8, <1>10, <3>3, <3>4 DEF Holders, Waiters, Children
    <3>6. Capped(s) => Capped(Enqueued(s, c))
      BY <1>6 DEF Capped, Enqueued, Sound, Semaphores
    <3> QED
      BY <1>6, <3>1, <3>2, <3>5, <3>6
  <2> QED
    BY <2>2, <2>3
<1> QED
  BY <1>11, <1>12, Unmoved DEF CountedStep, IInv

LEMMA RequestStep ==
    ASSUME IInv, NEW a \in Agents, Request(a)
    PROVE  CountedStep
<1> DEFINE z == Provider
           W == Waiters(z)
           H == Holders(z)
<1>1. z \in Sems /\ st \in [Agents -> States] /\ sem \in [Sems -> Semaphores(Agents)]
  BY DEF IInv, TypeOK, Sems, Semaphores
<1>2. PICK s \in {Resized(sem[z], max) : max \in Limits} :
        /\ sem' = [sem EXCEPT ![z] = IF HasSlot(s) THEN Taken(s) ELSE Enqueued(s, a)]
        /\ st' = [b \in Agents |->
                     IF b \in Admitted(sem[z], s) \/ (b = a /\ HasSlot(s))
                     THEN "request" ELSE IF b = a THEN "slot" ELSE st[b]]
  BY Zenon DEF Request
<1>2a. PICK max \in Limits : s = Resized(sem[z], max)
  OBVIOUS
<1> DEFINE K == W \ ToSet(s.queue)
<1>3. Sound(Agents, sem[z], H, W) /\ H \intersect W = {} /\ ToSet(sem[z].queue) = W
  <2>1. Sound(Agents, sem[z], H, W)
    BY <1>1 DEF IInv, Counted
  <2>2. ToSet(sem[z].queue) = W
    BY <2>1 DEF Sound
  <2> QED
    BY <1>1, <2>1, <2>2, Apart
<1>4. Admitted(sem[z], s) = K
  BY <1>3 DEF Admitted
<1>5. max \in Nat
  BY LimitAssumption
<1>6. Sound(Agents, s, H \union K, W \ K) /\ (K = {} \/ Capped(s))
  <2>1. LetIn(Agents, H, W, s)
    BY <1>3, <1>2a, <1>5, ResizedSound
  <2> QED
    BY <2>1 DEF LetIn
<1>7. /\ sem' = [sem EXCEPT ![z] = IF HasSlot(s) THEN Taken(s) ELSE Enqueued(s, a)]
      /\ \A b \in Agents : st'[b] = IF b \in K \/ (b = a /\ HasSlot(s)) THEN "request"
                                    ELSE IF b = a THEN "slot" ELSE st[b]
  BY <1>2, <1>4
<1>8. st[a] \in {"ready", "turn"}
  BY DEF Request
<1>9. a \notin H /\ a \notin W
  BY <1>8 DEF Holders, Waiters
<1>10. \A b \in K : st[b] = "slot" /\ b \in Agents
  BY DEF Waiters
<1> HIDE DEF K
<1>11. ASSUME NEW x \in Sems, x # z
       PROVE  sem'[x] = sem[x] /\ Holders(x)' = Holders(x) /\ Waiters(x)' = Waiters(x)
  <2>1. sem'[x] = sem[x]
    BY <1>1, <1>7, <1>11
  <2>2. \A b \in Agents :
          /\ st'[b] \in {"ready", "slot", "request", "turn", "reaping"}
               <=> st[b] \in {"ready", "slot", "request", "turn", "reaping"}
          /\ st'[b] = "permit" <=> st[b] = "permit"
    BY <1>7, <1>8, <1>10
  <2> QED
    BY <1>11, <2>1, <2>2 DEF Holders, Waiters, Children
<1>12. /\ Sound(Agents, sem'[z], Holders(z)', Waiters(z)')
       /\ Holders(z)' \subseteq Holders(z) \/ Capped(sem'[z])
  <2>1. a \notin H \union K /\ a \notin W \ K
    BY <1>9 DEF K
  <2>2. CASE HasSlot(s)
    <3>1. sem'[z] = Taken(s)
      BY <1>1, <1>7, <2>2
    <3>2. Sound(Agents, Taken(s), (H \union K) \union {a}, W \ K) /\ Capped(Taken(s))
      BY <1>6, <2>1, <2>2, TakenSound
    <3>3. \A b \in Agents : st'[b] = IF b \in K \/ b = a THEN "request" ELSE st[b]
      BY <1>7, <2>2
    <3>4. Holders(z)' = (H \union K) \union {a} /\ Waiters(z)' = W \ K
      BY <1>8, <1>10, <3>3 DEF Holders, Waiters
    <3> QED
      BY <3>1, <3>2, <3>4
  <2>3. CASE ~HasSlot(s)
    <3>1. sem'[z] = Enqueued(s, a)
      BY <1>1, <1>7, <2>3
    <3>2. Sound(Agents, Enqueued(s, a), H \union K, (W \ K) \union {a})
      BY <1>6, <2>1, <2>3, EnqueuedSound
    <3>3. \A b \in Agents : st'[b] = IF b \in K THEN "request" ELSE IF b = a THEN "slot" ELSE st[b]
      BY <1>7, <2>3
    <3>4. a \notin K
      BY <2>1
    <3>5. Holders(z)' = H \union K /\ Waiters(z)' = (W \ K) \union {a}
      BY <1>8, <1>10, <3>3, <3>4 DEF Holders, Waiters
    <3>6. Capped(s) => Capped(Enqueued(s, a))
      BY <1>6 DEF Capped, Enqueued, Sound, Semaphores
    <3> QED
      BY <1>6, <3>1, <3>2, <3>5, <3>6
  <2> QED
    BY <2>2, <2>3
<1> QED
  BY <1>11, <1>12, Unmoved DEF CountedStep, IInv

LEMMA RequestEndsStep ==
    ASSUME IInv, NEW a \in Agents, RequestEnds(a)
    PROVE  CountedStep
<1> DEFINE z == Provider
           W == Waiters(z)
           H == Holders(z)
           s == Freed(sem[z])
           K == W \ ToSet(s.queue)
<1>1. z \in Sems /\ st \in [Agents -> States] /\ sem \in [Sems -> Semaphores(Agents)]
  BY DEF IInv, TypeOK, Sems, Semaphores
<1>2. /\ sem' = [sem EXCEPT ![z] = s]
      /\ st' = [b \in Agents |-> IF b \in Admitted(sem[z], s) THEN "request"
                                 ELSE IF b = a THEN "turn" ELSE st[b]]
  BY Zenon DEF RequestEnds
<1>3. Sound(Agents, sem[z], H, W) /\ H \intersect W = {} /\ ToSet(sem[z].queue) = W
  <2>1. Sound(Agents, sem[z], H, W)
    BY <1>1 DEF IInv, Counted
  <2>2. ToSet(sem[z].queue) = W
    BY <2>1 DEF Sound
  <2> QED
    BY <1>1, <2>1, <2>2, Apart
<1>4. Admitted(sem[z], s) = K
  BY <1>3 DEF Admitted
<1>5. st[a] = "request" /\ a \in H
  BY DEF RequestEnds, Holders
<1>6. LetIn(Agents, H \ {a}, W, s)
  BY <1>3, <1>5, FreedSound
<1> HIDE DEF s
<1>7. /\ sem'[z] = s /\ \A x \in Sems \ {z} : sem'[x] = sem[x]
      /\ \A b \in Agents : st'[b] = IF b \in K THEN "request" ELSE IF b = a THEN "turn" ELSE st[b]
  BY <1>1, <1>2, <1>4
<1>8. \A b \in K : st[b] = "slot" /\ b \in Agents
  BY DEF Waiters
<1>9. a \notin K
  BY <1>5, <1>8
<1>10. K = W \ ToSet(sem'[z].queue)
  BY <1>7
<1> HIDE DEF K
<1>11. ASSUME NEW x \in Sems, x # z
       PROVE  sem'[x] = sem[x] /\ Holders(x)' = Holders(x) /\ Waiters(x)' = Waiters(x)
  <2>1. sem'[x] = sem[x]
    BY <1>7, <1>11
  <2>2. \A b \in Agents :
          /\ st'[b] \in {"ready", "slot", "request", "turn", "reaping"}
               <=> st[b] \in {"ready", "slot", "request", "turn", "reaping"}
          /\ st'[b] = "permit" <=> st[b] = "permit"
    BY <1>5, <1>7, <1>8
  <2> QED
    BY <1>11, <2>1, <2>2 DEF Holders, Waiters, Children
<1>12. Holders(z)' = (H \ {a}) \union K /\ Waiters(z)' = W \ K
  BY <1>5, <1>7, <1>8, <1>9 DEF Holders, Waiters
<1>13. /\ Sound(Agents, sem'[z], Holders(z)', Waiters(z)')
       /\ Holders(z)' \subseteq Holders(z) \/ Capped(sem'[z])
  <2>1. LetIn(Agents, H \ {a}, W, sem'[z])
    BY <1>6, <1>7
  <2> QED
    BY <1>1, <1>10, <1>12, <2>1, Moved
<1> QED
  BY <1>11, <1>13, Unmoved DEF CountedStep, IInv

\* Those that wait stop waiting, and nobody gets in.
LEMMA AbortsStep ==
    ASSUME IInv, NEW A, NEW now \in [Agents -> States], Aborts(A, now),
           \A b \in Agents : now[b] # st[b] => st[b] \in {"ready", "turn"} /\ now[b] = "reaping"
    PROVE  CountedStep
<1>1. /\ \A x \in Sems : sem'[x] = Abandoned(sem[x], A)
      /\ \A b \in Agents : st'[b] = IF b \in A /\ now[b] = "permit" THEN "ended"
                                    ELSE IF b \in A /\ now[b] = "slot" THEN "turn" ELSE now[b]
  BY DEF Aborts
<1>2. ASSUME NEW x \in Sems
      PROVE  /\ Sound(Agents, sem'[x], Holders(x)', Waiters(x)')
             /\ Holders(x)' \subseteq Holders(x) \/ Capped(sem'[x])
  <2>1. Sound(Agents, sem[x], Holders(x), Waiters(x))
    BY DEF IInv, Counted
  <2>2. Sound(Agents, sem'[x], Holders(x), Waiters(x) \ A)
    BY <1>1, <2>1, AbandonedSound
  <2>3. \A b \in Agents :
          /\ st'[b] \in {"ready", "slot", "request", "turn", "reaping"}
               <=> st[b] \in {"ready", "slot", "request", "turn", "reaping"}
          /\ st'[b] = "request" <=> st[b] = "request"
          /\ st'[b] = "permit" <=> st[b] = "permit" /\ b \notin A
          /\ st'[b] = "slot" <=> st[b] = "slot" /\ b \notin A
    BY <1>1
  <2>4. Holders(x)' = Holders(x) /\ Waiters(x)' = Waiters(x) \ A
    BY <2>3 DEF Holders, Waiters, Children
  <2> QED
    BY <2>2, <2>4
<1> QED
  BY <1>2 DEF CountedStep

LEMMA AbortStep ==
    ASSUME IInv, NEW a \in Agents, Abort(a)
    PROVE  CountedStep
<1>1. Aborts({a} \union Below[a], st) /\ st \in [Agents -> States]
  BY DEF Abort, IInv, TypeOK
<1> QED
  BY <1>1, AbortsStep

LEMMA StopStep ==
    ASSUME IInv, NEW a \in Agents, Stop(a)
    PROVE  CountedStep
<1>1. st \in [Agents -> States] /\ sem \in [Sems -> Semaphores(Agents)] /\ st[a] \in {"turn", "ready"}
  BY DEF Stop, IInv, TypeOK, Semaphores
<1>2. CASE a = Root
  <2>1. st' = [st EXCEPT ![a] = "ended"] /\ sem' = sem
    BY <1>2 DEF Stop
  <2>2. ASSUME NEW x \in Sems
        PROVE  sem'[x] = sem[x] /\ Holders(x)' = Holders(x) /\ Waiters(x)' = Waiters(x)
    <3>1. a \notin Children(x)
      BY <1>2 DEF Children
    <3>2. \A b \in Agents : (st'[b] = "request" <=> st[b] = "request") /\ (st'[b] = "slot" <=> st[b] = "slot")
      BY <1>1, <2>1
    <3>3. \A b \in Children(x) : st'[b] = st[b]
      BY <1>1, <2>1, <3>1 DEF Children
    <3> QED
      BY <2>1, <3>2, <3>3 DEF Holders, Waiters, Children
  <2> QED
    BY <2>2, Unmoved DEF CountedStep, IInv
<1>3. CASE a # Root
  <2> DEFINE now == [st EXCEPT ![a] = "reaping"]
  <2>1. now \in [Agents -> States] /\ Aborts(Below[a], now)
    BY <1>1, <1>3 DEF Stop, States
  <2>2. \A b \in Agents : now[b] # st[b] => st[b] \in {"ready", "turn"} /\ now[b] = "reaping"
    BY <1>1
  <2> HIDE DEF now
  <2> QED
    BY <2>1, <2>2, AbortsStep
<1> QED
  BY <1>2, <1>3

LEMMA EndsStep ==
    ASSUME IInv, NEW a \in Agents, Ends(a)
    PROVE  CountedStep
<1> DEFINE z == Parent[a]
           W == Waiters(z)
           H == Holders(z)
<1>1. /\ a \in Agents \ {Root} /\ z \in Agents /\ z # Provider /\ z \in Sems
      /\ st \in [Agents -> States] /\ sem \in [Sems -> Semaphores(Agents)]
  BY ParentTyped DEF Ends, IInv, TypeOK, Sems, Semaphores
<1>2. PICK s \in {Freed(Resized(sem[z], max)) : max \in Limits} :
        /\ sem' = [sem EXCEPT ![z] = s]
        /\ st' = [b \in Agents |-> IF b \in Admitted(sem[z], s) THEN "ready"
                                   ELSE IF b = a THEN "ended" ELSE st[b]]
  BY Zenon DEF Ends, SpawnSem
<1>3. PICK max \in Limits : s = Freed(Resized(sem[z], max))
  OBVIOUS
<1>4. max \in Nat
  BY LimitAssumption
<1> DEFINE r == Resized(sem[z], max)
           J == W \ ToSet(r.queue)
           K == W \ ToSet(s.queue)
           G == H \ {a}
<1>5. Sound(Agents, sem[z], H, W) /\ H \intersect W = {} /\ ToSet(sem[z].queue) = W
  <2>1. Sound(Agents, sem[z], H, W)
    BY <1>1 DEF IInv, Counted
  <2>2. ToSet(sem[z].queue) = W
    BY <2>1 DEF Sound
  <2> QED
    BY <1>1, <2>1, <2>2, Apart
<1>6. Admitted(sem[z], s) = K
  BY <1>5 DEF Admitted
<1>7. a \in H /\ a \notin W /\ st[a] = "reaping" /\ a \in Children(z)
  BY <1>1 DEF Ends, Holders, Waiters, Children
<1>8. Sound(Agents, r, H \union J, W \ J) /\ (J = {} \/ Capped(r))
  <2>1. LetIn(Agents, H, W, r)
    BY <1>4, <1>5, ResizedSound
  <2> QED
    BY <2>1 DEF LetIn
<1> HIDE DEF r
<1>9. s = Freed(r)
  BY <1>3 DEF r
<1>10. Sound(Agents, s, G \union K, W \ K) /\ (K = {} \/ Capped(s))
  <2> DEFINE V == W \ J
             L == V \ ToSet(s.queue)
             F == (H \union J) \ {a}
  <2>1. (H \union J) \intersect V = {} /\ a \in H \union J
    BY <1>5, <1>7
  <2>2. LetIn(Agents, F, V, s)
    BY <1>8, <1>9, <2>1, FreedSound
  <2>3. Sound(Agents, s, F \union L, V \ L) /\ (L = {} \/ Capped(s))
    BY <2>2 DEF LetIn
  <2>4. ToSet(s.queue) = V \ L
    BY <2>3 DEF Sound
  <2>5. K = J \union L /\ W \ K = V \ L
    BY <2>4
  <2>6. G \union K = F \union L
    BY <1>7, <2>5
  <2>7. J # {} => Capped(s)
    BY <1>8, <1>9, FreedCapped DEF Sound
  <2> HIDE DEF F, L, V, K, J, G
  <2>8. K = {} \/ Capped(s)
    BY <2>3, <2>5, <2>7
  <2> QED
    BY <2>3, <2>5, <2>6, <2>8
<1>11. /\ sem'[z] = s /\ \A x \in Sems \ {z} : sem'[x] = sem[x]
       /\ \A b \in Agents : st'[b] = IF b \in K THEN "ready" ELSE IF b = a THEN "ended" ELSE st[b]
  BY <1>1, <1>2, <1>6
<1>12. \A b \in K : st[b] = "permit" /\ b \in Children(z) /\ b \in Agents
  BY <1>1 DEF Waiters, Children
<1>13. a \notin K
  BY <1>7
<1> HIDE DEF K
<1>14. ASSUME NEW x \in Sems, x # z
       PROVE  sem'[x] = sem[x] /\ Holders(x)' = Holders(x) /\ Waiters(x)' = Waiters(x)
  <2>1. sem'[x] = sem[x]
    BY <1>11, <1>14
  <2>2. CASE x = Provider
    <3>1. \A b \in Agents : (st'[b] = "request" <=> st[b] = "request") /\ (st'[b] = "slot" <=> st[b] = "slot")
      BY <1>7, <1>11, <1>12
    <3> QED
      BY <2>1, <2>2, <3>1 DEF Holders, Waiters
  <2>3. CASE x # Provider
    <3>1. \A b \in Children(x) : b \in Agents /\ b # a /\ b \notin K
      BY <1>7, <1>12, <1>14 DEF Children
    <3>2. \A b \in Children(x) : st'[b] = st[b]
      BY <1>11, <3>1
    <3> QED
      BY <2>1, <2>3, <3>2 DEF Holders, Waiters, Children
  <2> QED
    BY <2>2, <2>3
<1>15. Holders(z)' = G \union K /\ Waiters(z)' = W \ K
  <2>1. \A b \in Children(z) : st'[b] = IF b \in K THEN "ready" ELSE IF b = a THEN "ended" ELSE st[b]
    BY <1>11 DEF Children
  <2> QED
    BY <1>1, <1>7, <1>12, <1>13, <2>1 DEF Holders, Waiters, Children
<1>16. Holders(z)' \subseteq Holders(z) \/ Capped(sem'[z])
  BY <1>10, <1>11, <1>15
<1>17. Sound(Agents, sem'[z], Holders(z)', Waiters(z)')
  BY <1>10, <1>11, <1>15
<1> QED
  BY <1>14, <1>16, <1>17, Unmoved DEF CountedStep, IInv

LEMMA CountStep ==
    ASSUME IInv, Next
    PROVE  CountedStep
BY SpawnStep, RequestStep, RequestEndsStep, StopStep, EndsStep, AbortStep, Zenon DEF Next

-----------------------------------------------------------------------------
(* Types                                                                    *)

LEMMA AbortsTyped ==
    ASSUME TypeOK, NEW A, A \subseteq Agents, NEW now \in [Agents -> States], Aborts(A, now)
    PROVE  st' \in [Agents -> States] /\ aborted' \subseteq Agents
<1>1. \A b \in Agents : (IF b \in A /\ now[b] = "permit" THEN "ended"
                         ELSE IF b \in A /\ now[b] = "slot" THEN "turn" ELSE now[b]) \in States
  BY DEF States
<1>2. st' \in [Agents -> States]
  BY <1>1 DEF Aborts
<1>3. aborted' \subseteq Agents
  BY DEF Aborts, TypeOK
<1> QED
  BY <1>2, <1>3

OthersTyped ==
    /\ st \in [Agents -> States]
    /\ asked \in [Agents -> Nat] /\ \A a \in Agents : asked[a] <= MaxRequests[a]
    /\ blocking \subseteq Agents /\ aborted \subseteq Agents

LEMMA OthersStep ==
    ASSUME TypeOK, Next
    PROVE  OthersTyped'
<1> USE DEF TypeOK
<1>1. ASSUME NEW a \in Agents \ {Root}, Spawn(a) PROVE OthersTyped'
  <2>1. blocking' \subseteq Agents /\ asked' = asked /\ aborted' = aborted
    BY <1>1 DEF Spawn
  <2>2. st' \in [Agents -> States]
    BY <1>1 DEF Spawn, States
  <2> QED
    BY <2>1, <2>2 DEF OthersTyped
<1>2. ASSUME NEW a \in Agents, Request(a) PROVE OthersTyped'
  <2>1. blocking' = blocking /\ aborted' = aborted
    BY <1>2 DEF Request
  <2>2. st' \in [Agents -> States]
    BY <1>2 DEF Request, States
  <2>3. asked' = [asked EXCEPT ![a] = @ + 1] /\ asked[a] < MaxRequests[a]
    BY <1>2 DEF Request
  <2>4. asked' \in [Agents -> Nat] /\ \A b \in Agents : asked'[b] <= MaxRequests[b]
    <3>1. asked \in [Agents -> Nat] /\ MaxRequests \in [Agents -> Nat]
      BY LimitAssumption
    <3>2. asked' \in [Agents -> Nat]
      BY <2>3, <3>1
    <3>3. asked'[a] = asked[a] + 1 /\ \A b \in Agents \ {a} : asked'[b] = asked[b]
      BY <2>3, <3>1
    <3>4. asked'[a] <= MaxRequests[a]
      BY <2>3, <3>1, <3>3
    <3> QED
      BY <3>2, <3>3, <3>4
  <2> QED
    BY <2>1, <2>2, <2>4 DEF OthersTyped
<1>3. ASSUME NEW a \in Agents, RequestEnds(a) PROVE OthersTyped'
  <2>1. blocking' = blocking /\ aborted' = aborted /\ asked' = asked
    BY <1>3 DEF RequestEnds
  <2>2. st' \in [Agents -> States]
    BY <1>3 DEF RequestEnds, States
  <2> QED
    BY <2>1, <2>2 DEF OthersTyped
<1>4. ASSUME NEW a \in Agents, Stop(a) PROVE OthersTyped'
  <2>1. blocking' = blocking /\ asked' = asked
    BY <1>4 DEF Stop
  <2>2. st' \in [Agents -> States] /\ aborted' \subseteq Agents
    <3>1. CASE a = Root
      BY <1>4, <3>1 DEF Stop, States
    <3>2. CASE a # Root
      <4>1. Aborts(Below[a], [st EXCEPT ![a] = "reaping"])
        BY <1>4, <3>2 DEF Stop
      <4>2. [st EXCEPT ![a] = "reaping"] \in [Agents -> States] /\ Below[a] \subseteq Agents
        BY <3>2, TreeAssumption DEF States
      <4> QED
        BY <4>1, <4>2, AbortsTyped
    <3> QED
      BY <3>1, <3>2
  <2> QED
    BY <2>1, <2>2 DEF OthersTyped
<1>5. ASSUME NEW a \in Agents, Ends(a) PROVE OthersTyped'
  <2>1. blocking' = blocking /\ aborted' = aborted /\ asked' = asked
    BY <1>5 DEF Ends
  <2>2. st' \in [Agents -> States]
    BY <1>5 DEF Ends, States
  <2> QED
    BY <2>1, <2>2 DEF OthersTyped
<1>6. ASSUME NEW a \in Agents, Abort(a) PROVE OthersTyped'
  <2>1. blocking' = blocking /\ asked' = asked /\ Aborts({a} \union Below[a], st)
    BY <1>6 DEF Abort
  <2>2. {a} \union Below[a] \subseteq Agents
    BY TreeAssumption
  <2>3. st' \in [Agents -> States] /\ aborted' \subseteq Agents
    BY <2>1, <2>2, AbortsTyped
  <2> QED
    BY <2>1, <2>3 DEF OthersTyped
<1> QED
  BY <1>1, <1>2, <1>3, <1>4, <1>5, <1>6 DEF Next

\* sem' is a function of the semaphores.
LEMMA SemStep ==
    ASSUME TypeOK, Next
    PROVE  sem' = [s \in Sems |-> sem'[s]]
<1>1. sem = [s \in Sems |-> sem[s]]
  BY DEF TypeOK
<1>2. ASSUME NEW a \in Agents \ {Root}, Spawn(a) PROVE sem' = [s \in Sems |-> sem'[s]]
  BY <1>1, <1>2 DEF Spawn
<1>3. ASSUME NEW a \in Agents, Request(a) PROVE sem' = [s \in Sems |-> sem'[s]]
  BY <1>1, <1>3 DEF Request
<1>4. ASSUME NEW a \in Agents, RequestEnds(a) PROVE sem' = [s \in Sems |-> sem'[s]]
  BY <1>1, <1>4 DEF RequestEnds
<1>5. ASSUME NEW a \in Agents, Stop(a) PROVE sem' = [s \in Sems |-> sem'[s]]
  BY <1>1, <1>5 DEF Stop, Aborts
<1>6. ASSUME NEW a \in Agents, Ends(a) PROVE sem' = [s \in Sems |-> sem'[s]]
  BY <1>1, <1>6 DEF Ends
<1>7. ASSUME NEW a \in Agents, Abort(a) PROVE sem' = [s \in Sems |-> sem'[s]]
  BY <1>7 DEF Abort, Aborts
<1> QED
  BY <1>2, <1>3, <1>4, <1>5, <1>6, <1>7 DEF Next

-----------------------------------------------------------------------------
(* Theorems                                                                 *)

LEMMA InductiveInit == Init => IInv
<1> SUFFICES ASSUME Init PROVE IInv
  OBVIOUS
<1>1. PICK max \in Limits : sem = [s \in Sems |-> Make(max)]
  BY DEF Init
<1>2. Make(max) \in Semaphores(Agents) /\ Make(max).current = 0 /\ Make(max).queue = <<>>
  BY LimitAssumption DEF Make, Semaphores
<1>3. st \in [Agents -> States] /\ \A a \in Agents : st[a] = IF a = Root THEN "ready" ELSE "none"
  BY DEF Init, States
<1>4. TypeOK
  BY <1>1, <1>2, <1>3, LimitAssumption DEF Init, TypeOK, Semaphores
<1>5. ASSUME NEW s \in Sems PROVE Sound(Agents, sem[s], Holders(s), Waiters(s))
  <2>1. Holders(s) = {} /\ Waiters(s) = {}
    BY <1>3 DEF Holders, Waiters, Children
  <2>2. IsFiniteSet({}) /\ Cardinality({}) = 0
    BY FS_EmptySet
  <2>3. IsInjective(<<>>) /\ ToSet(<<>>) = {}
    BY DEF IsInjective, ToSet
  <2>4. sem[s] = Make(max)
    BY <1>1
  <2> QED
    BY <1>2, <2>1, <2>2, <2>3, <2>4 DEF Sound
<1> QED
  BY <1>4, <1>5 DEF IInv, Counted

LEMMA InductiveStep == IInv /\ [Next]_vars => IInv'
<1> SUFFICES ASSUME IInv, [Next]_vars PROVE IInv'
  OBVIOUS
<1>1. CASE Next
  <2>1. CountedStep
    BY <1>1, CountStep
  <2>2. Counted'
    BY <2>1 DEF CountedStep, Counted, Sems
  <2>3. OthersTyped'
    BY <1>1, OthersStep DEF IInv
  <2>4. sem' = [s \in Sems |-> sem'[s]]
    BY <1>1, SemStep DEF IInv
  <2>5. \A s \in Sems : sem'[s] \in Semaphores(Agents)
    BY <2>1 DEF CountedStep, Sound
  <2>6. sem' \in [Sems -> Semaphores(Agents)]
    BY <2>4, <2>5
  <2>7. TypeOK'
    BY <2>3, <2>6 DEF TypeOK, OthersTyped, Semaphores, Sems
  <2> QED
    BY <2>2, <2>7 DEF IInv
<1>2. CASE UNCHANGED vars
  <2>1. TypeOK'
    BY <1>2 DEF IInv, TypeOK, vars, Sems
  <2>2. Counted'
    BY <1>2 DEF IInv, Counted, vars, Sems, Sound, Holders, Waiters, Children
  <2> QED
    BY <2>1, <2>2 DEF IInv
<1> QED
  BY <1>1, <1>2

\* The inductive invariant: types, and each semaphore agrees with the agents.
THEOREM Inductive == Spec => []IInv
BY InductiveInit, InductiveStep, PTL DEF Spec

\* Every variable keeps its type; no agent asks the model more often than it may.
THEOREM TypeCorrect == Spec => []TypeOK
<1>1. IInv => TypeOK
  BY DEF IInv
<1> QED
  BY <1>1, Inductive, PTL

LEMMA AccountedFromCounted == IInv => SlotsAccounted /\ NoIdleSlot
<1> SUFFICES ASSUME IInv, NEW s \in Sems
             PROVE  /\ sem[s].current = Cardinality(Holders(s))
                    /\ ToSet(sem[s].queue) = Waiters(s)
                    /\ Len(sem[s].queue) = Cardinality(Waiters(s))
                    /\ sem[s].queue # <<>> => ~HasSlot(sem[s])
  BY DEF SlotsAccounted, NoIdleSlot
<1>1. Sound(Agents, sem[s], Holders(s), Waiters(s))
  BY DEF IInv, Counted
<1>2. sem[s].queue \in Seq(Agents) /\ IsInjective(sem[s].queue)
  BY <1>1 DEF Sound, Semaphores
<1>3. Len(sem[s].queue) = Cardinality(ToSet(sem[s].queue))
  BY <1>2, QueueCounted
<1> QED
  BY <1>1, <1>3 DEF Sound

\* No abort, resize or release leaks a slot, returns one twice or loses a waiter;
\* nobody waits for a free slot, and nobody gets one above the ceiling.
THEOREM SlotsStaySound == Spec => SlotsSound
<1> DEFINE Within ==
      \A s \in Sems :
          ~(Holders(s)' \subseteq Holders(s)) /\ sem'[s].max # Unbounded
              => Cardinality(Holders(s)') <= sem'[s].max
<1>1. IInv /\ [Next]_vars => [Within]_vars
  <2> SUFFICES ASSUME IInv, Next PROVE Within
    OBVIOUS
  <2>1. CountedStep
    BY CountStep
  <2>2. ASSUME NEW s \in Sems, ~(Holders(s)' \subseteq Holders(s)), sem'[s].max # Unbounded
        PROVE  Cardinality(Holders(s)') <= sem'[s].max
    <3>1. sem'[s].current = Cardinality(Holders(s)')
      BY <2>1 DEF CountedStep, Sound
    <3>2. Capped(sem'[s])
      BY <2>1, <2>2 DEF CountedStep
    <3> QED
      BY <2>2, <3>1, <3>2 DEF Capped
  <2> QED
    BY <2>2
<1> HIDE DEF Within
<1>2. Spec => [][Within]_vars
  BY <1>1, Inductive, PTL DEF Spec
<1>3. Spec => CapRespected
  BY <1>2, PTL DEF CapRespected, Within
<1> QED
  BY <1>3, Inductive, AccountedFromCounted, PTL DEF SlotsSound
================================================================================
