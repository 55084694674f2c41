----------------------------- MODULE FutexProofs -----------------------------
(***************************************************************************)
(* Reference counts, queues and wake-ups of kernel/futex.c, proved for any *)
(* number of threads, addresses and any wake and requeue counts.           *)
(***************************************************************************)
EXTENDS Futex, FiniteSetTheorems, TLAPS

------------------------------------------------------------------------------
(* The list operations, on sequences without repetition.                   *)

\* Waking or moving the first n waiters splits a queue in two parts that
\* share no waiter.
LEMMA TakeDrop ==
  ASSUME NEW S, NEW q \in Seq(S), NEW n \in Nat, OnceIn(q)
  PROVE  /\ Take(q, n) \in Seq(S) /\ OnceIn(Take(q, n))
         /\ Drop(q, n) \in Seq(S) /\ OnceIn(Drop(q, n))
         /\ Elems(Take(q, n)) \cup Elems(Drop(q, n)) = Elems(q)
         /\ Elems(Take(q, n)) \cap Elems(Drop(q, n)) = {}
<1> DEFINE m == IF n < Len(q) THEN n ELSE Len(q)
           T == Take(q, n)
           D == Drop(q, n)
<1>1. m \in Nat /\ m <= Len(q) /\ m <= n
  OBVIOUS
<1>2. T \in Seq(S) /\ DOMAIN T = 1 .. m /\ \A i \in 1 .. m : T[i] = q[i]
  BY <1>1 DEF Take
<1>3. /\ D \in Seq(S) /\ DOMAIN D = 1 .. (Len(q) - m)
      /\ \A i \in 1 .. (Len(q) - m) : D[i] = q[i + m]
  <2>1. CASE n < Len(q)
    BY <2>1 DEF Drop
  <2>2. CASE ~(n < Len(q))
    BY <2>2 DEF Drop
  <2>3. QED
    BY <2>1, <2>2
<1>4. DOMAIN q = 1 .. Len(q)
  OBVIOUS
<1> HIDE DEF m, T, D
<1>0. \A i, j \in 1 .. Len(q) : q[i] = q[j] => i = j
  BY <1>4 DEF OnceIn
<1>5. OnceIn(T)
  <2> SUFFICES ASSUME NEW i \in 1 .. m, NEW j \in 1 .. m, T[i] = T[j]
               PROVE  i = j
    BY <1>2 DEF OnceIn
  <2>1. i \in 1 .. Len(q) /\ j \in 1 .. Len(q)
    BY <1>1
  <2>2. QED
    BY <2>1, <1>0, <1>2
<1>6. OnceIn(D)
  <2> SUFFICES ASSUME NEW i \in 1 .. (Len(q) - m), NEW j \in 1 .. (Len(q) - m),
                      D[i] = D[j]
               PROVE  i = j
    BY <1>3 DEF OnceIn
  <2>1. i + m \in 1 .. Len(q) /\ j + m \in 1 .. Len(q)
    BY <1>1
  <2>2. i + m = j + m
    BY <2>1, <1>0, <1>3
  <2>3. QED
    BY <2>2, <1>1
<1>7. Elems(T) \cap Elems(D) = {}
  <2> SUFFICES ASSUME NEW i \in 1 .. m, NEW j \in 1 .. (Len(q) - m), T[i] = D[j]
               PROVE  FALSE
    BY <1>2, <1>3 DEF Elems
  <2>1. i \in 1 .. Len(q) /\ j + m \in 1 .. Len(q) /\ i # j + m
    BY <1>1
  <2>2. QED
    BY <2>1, <1>0, <1>2, <1>3
<1>8. Elems(T) \cup Elems(D) \subseteq Elems(q)
  <2>1. \A i \in 1 .. m : i \in DOMAIN q
    BY <1>1, <1>4
  <2>2. \A i \in 1 .. (Len(q) - m) : i + m \in DOMAIN q
    BY <1>1, <1>4
  <2>3. QED
    BY <2>1, <2>2, <1>2, <1>3 DEF Elems
<1>9. ASSUME NEW i \in DOMAIN q PROVE q[i] \in Elems(T) \cup Elems(D)
  <2>1. CASE i <= m
    <3>1. i \in 1 .. m
      BY <2>1, <1>1, <1>4
    <3>2. QED
      BY <3>1, <1>2 DEF Elems
  <2>2. CASE i > m
    <3>1. i - m \in 1 .. (Len(q) - m) /\ (i - m) + m = i
      BY <2>2, <1>1, <1>4
    <3>2. QED
      BY <3>1, <1>3 DEF Elems
  <2>3. QED
    BY <2>1, <2>2, <1>1, <1>4
<1>10. Elems(q) \subseteq Elems(T) \cup Elems(D)
  BY <1>9 DEF Elems
<1>11. QED
  BY <1>2, <1>3, <1>5, <1>6, <1>7, <1>8, <1>10 DEF T, D

\* Moving waiters to the tail of another queue adds exactly those waiters.
LEMMA Concat ==
  ASSUME NEW S, NEW p \in Seq(S), NEW q \in Seq(S), OnceIn(p), OnceIn(q),
         Elems(p) \cap Elems(q) = {}
  PROVE  /\ p \o q \in Seq(S) /\ OnceIn(p \o q)
         /\ Elems(p \o q) = Elems(p) \cup Elems(q)
<1> DEFINE r == p \o q
<1>1. /\ r \in Seq(S) /\ DOMAIN r = 1 .. (Len(p) + Len(q))
      /\ DOMAIN p = 1 .. Len(p) /\ DOMAIN q = 1 .. Len(q)
      /\ Len(p) \in Nat /\ Len(q) \in Nat
  OBVIOUS
<1>2. /\ \A i \in 1 .. Len(p) : r[i] = p[i]
      /\ \A i \in 1 .. Len(q) : r[Len(p) + i] = q[i]
  OBVIOUS
<1> HIDE DEF r
<1>3. ASSUME NEW i \in DOMAIN r
      PROVE  \/ i \in DOMAIN p /\ r[i] = p[i]
             \/ i - Len(p) \in DOMAIN q /\ r[i] = q[i - Len(p)]
  <2>1. CASE i <= Len(p)
    BY <2>1, <1>1, <1>2
  <2>2. CASE i > Len(p)
    <3>1. i - Len(p) \in 1 .. Len(q) /\ Len(p) + (i - Len(p)) = i
      BY <2>2, <1>1
    <3>2. QED
      BY <3>1, <1>1, <1>2
  <2>3. QED
    BY <2>1, <2>2, <1>1
<1>4. Elems(r) = Elems(p) \cup Elems(q)
  <2>1. Elems(r) \subseteq Elems(p) \cup Elems(q)
    BY <1>3 DEF Elems
  <2>2. Elems(p) \subseteq Elems(r)
    BY <1>1, <1>2 DEF Elems
  <2>3. Elems(q) \subseteq Elems(r)
    <3>1. \A i \in 1 .. Len(q) : Len(p) + i \in DOMAIN r
      BY <1>1
    <3>2. QED
      BY Zenon, <3>1, <1>1, <1>2 DEF Elems
  <2>4. QED
    BY <2>1, <2>2, <2>3
<1>5. OnceIn(r)
  <2> SUFFICES ASSUME NEW i \in DOMAIN r, NEW j \in DOMAIN r, r[i] = r[j]
               PROVE  i = j
    BY DEF OnceIn
  <2>1. CASE i \in DOMAIN p /\ r[i] = p[i] /\ j \in DOMAIN p /\ r[j] = p[j]
    BY Zenon, <2>1 DEF OnceIn
  <2>2. CASE /\ i - Len(p) \in DOMAIN q /\ r[i] = q[i - Len(p)]
             /\ j - Len(p) \in DOMAIN q /\ r[j] = q[j - Len(p)]
    <3>1. i - Len(p) = j - Len(p)
      BY Zenon, <2>2 DEF OnceIn
    <3>2. QED
      BY <3>1, <1>1
  <2>3. QED
    BY <2>1, <2>2, <1>3 DEF Elems
<1>6. QED
  BY <1>1, <1>4, <1>5 DEF r

\* list_add_tail of a waiter that is on no queue.
LEMMA AppendOnce ==
  ASSUME NEW S, NEW q \in Seq(S), NEW t \in S, OnceIn(q), t \notin Elems(q)
  PROVE  /\ Append(q, t) \in Seq(S) /\ OnceIn(Append(q, t))
         /\ Elems(Append(q, t)) = Elems(q) \cup {t}
<1> DEFINE r == <<t>>
<1>1. r \in Seq(S) /\ OnceIn(r) /\ Elems(r) = {t}
  BY DEF OnceIn, Elems
<1>2. Append(q, t) = q \o r
  OBVIOUS
<1> HIDE DEF r
<1>3. Elems(q) \cap Elems(r) = {}
  BY <1>1
<1>4. QED
  BY <1>1, <1>2, <1>3, Concat

\* list_remove_safe takes out one waiter and nothing else.
LEMMA WithoutOnce ==
  ASSUME NEW S, NEW q \in Seq(S), NEW t, OnceIn(q)
  PROVE  /\ Without(q, t) \in Seq(S) /\ OnceIn(Without(q, t))
         /\ Elems(Without(q, t)) = Elems(q) \ {t}
<1>1. CASE t \notin Elems(q)
  BY <1>1 DEF Without
<1>2. CASE t \in Elems(q)
  <2> DEFINE i == CHOOSE k \in DOMAIN q : q[k] = t
             A == Take(q, i - 1)
             R == Drop(q, i - 1)
             B == Drop(R, 1)
             C == Take(R, 1)
  <2>1. i \in DOMAIN q /\ q[i] = t
    BY <1>2 DEF Elems
  <2>2. i \in Nat /\ i >= 1 /\ i <= Len(q) /\ i - 1 \in Nat
    BY <2>1
  <2> HIDE DEF i
  <2>3. Without(q, t) = A \o B
    <3>1. A = SubSeq(q, 1, i - 1)
      BY <2>2 DEF Take
    <3>2. B = SubSeq(q, i + 1, Len(q))
      BY <2>2 DEF Drop
    <3>3. QED
      BY Zenon, <3>1, <3>2, <1>2 DEF Without, i
  <2>4. DOMAIN C = {1} /\ C[1] = t
    <3>1. R \in Seq(S) /\ Len(R) = Len(q) - i + 1 /\ Len(R) >= 1 /\ R[1] = q[i]
      BY <2>2 DEF Drop
    <3>2. C = SubSeq(R, 1, 1)
      BY <3>1 DEF Take
    <3>3. QED
      BY <3>1, <3>2, <2>1
  <2> HIDE DEF A, B, C, R
  <2>5. /\ A \in Seq(S) /\ OnceIn(A) /\ R \in Seq(S) /\ OnceIn(R)
        /\ Elems(A) \cup Elems(R) = Elems(q) /\ Elems(A) \cap Elems(R) = {}
    BY Zenon, <2>2, TakeDrop DEF A, R
  <2>6. /\ B \in Seq(S) /\ OnceIn(B)
        /\ Elems(C) \cup Elems(B) = Elems(R) /\ Elems(C) \cap Elems(B) = {}
    BY Zenon, <2>5, TakeDrop DEF B, C
  <2>7. Elems(C) = {t}
    BY <2>4 DEF Elems
  <2>8. Elems(A) \cap Elems(B) = {}
    BY <2>5, <2>6
  <2>9. QED
    BY <2>3, <2>5, <2>6, <2>7, <2>8, Concat
<1>3. QED
  BY <1>1, <1>2

\* Requeueing onto the same address reorders the queue and loses nobody.
LEMMA RotateOnce ==
  ASSUME NEW S, NEW q \in Seq(S), NEW n \in Nat, OnceIn(q)
  PROVE  /\ Rotate(q, n) \in Seq(S) /\ OnceIn(Rotate(q, n))
         /\ Elems(Rotate(q, n)) = Elems(q)
<1>1. CASE Len(q) < 2
  BY <1>1 DEF Rotate
<1>2. CASE ~(Len(q) < 2)
  <2> DEFINE k == n % Len(q)
  <2>1. k \in Nat
    BY <1>2
  <2> DEFINE D == Drop(q, k)
             T == Take(q, k)
  <2>2. Rotate(q, n) = D \o T
    BY <1>2 DEF Rotate
  <2> HIDE DEF k
  <2>3. /\ T \in Seq(S) /\ OnceIn(T) /\ D \in Seq(S) /\ OnceIn(D)
        /\ Elems(T) \cup Elems(D) = Elems(q) /\ Elems(T) \cap Elems(D) = {}
    BY Zenon, <2>1, TakeDrop
  <2> HIDE DEF D, T
  <2>4. Elems(D) \cap Elems(T) = {} /\ Elems(D) \cup Elems(T) = Elems(q)
    BY <2>3
  <2>5. /\ D \o T \in Seq(S) /\ OnceIn(D \o T)
        /\ Elems(D \o T) = Elems(D) \cup Elems(T)
    BY <2>3, <2>4, Concat
  <2>6. QED
    BY <2>2, <2>4, <2>5
<1>3. QED
  BY <1>1, <1>2

\* The requeued count is the number of waiters moved.
LEMMA LenIsCardinality ==
  ASSUME NEW S, NEW q \in Seq(S), OnceIn(q)
  PROVE  IsFiniteSet(Elems(q)) /\ Cardinality(Elems(q)) = Len(q)
<1>0. Len(q) \in Nat
  OBVIOUS
<1>1. IsFiniteSet(1 .. Len(q)) /\ Cardinality(1 .. Len(q)) = Len(q)
  BY <1>0, FS_Interval
<1>2. q \in [1 .. Len(q) -> Elems(q)]
  BY DEF Elems
<1>3. q \in Surjection(1 .. Len(q), Elems(q))
  <2>1. \A x \in Elems(q) : \E i \in 1 .. Len(q) : q[i] = x
    BY DEF Elems
  <2>2. QED
    BY <1>2, <2>1 DEF Surjection
<1>4. q \in Injection(1 .. Len(q), Elems(q))
  <2>1. \A i, j \in 1 .. Len(q) : q[i] = q[j] => i = j
    BY DEF OnceIn
  <2>2. QED
    BY <1>2, <2>1 DEF Injection, IsInjective
<1>5. QED
  BY <1>1, <1>3, <1>4, FS_Surjection

------------------------------------------------------------------------------
(* The queues of all addresses together.                                   *)

Sound(qs) ==
    \A a \in Addr :
        /\ OnceIn(qs[a])
        /\ \A t \in Elems(qs[a]) : t \in Waiting /\ futex[t] = a
OnSome(qs, t) == \E a \in Addr : t \in Elems(qs[a])

\* futex_wake_queue keeps the queues sound and takes off exactly the waiters
\* whose pipes it writes.
LEMMA WakeQueue ==
  ASSUME NEW qs \in [Addr -> Seq(Thread)], Sound(qs),
         NEW a \in Addr, NEW max \in Nat
  PROVE  LET Q == futex_wake_queue(qs, a, max)
             W == WokenBy(qs[a], max)
         IN  /\ Q \in [Addr -> Seq(Thread)] /\ Sound(Q)
             /\ \A t \in W : t \in Thread /\ OnSome(qs, t)
             /\ \A t \in Thread : OnSome(Q, t) <=> OnSome(qs, t) /\ t \notin W
<1> DEFINE Q == futex_wake_queue(qs, a, max)
           W == WokenBy(qs[a], max)
           q == qs[a]
<1>1. q \in Seq(Thread) /\ OnceIn(q)
  BY DEF Sound
<1>2. /\ Drop(q, max) \in Seq(Thread) /\ OnceIn(Drop(q, max))
      /\ W \cup Elems(Drop(q, max)) = Elems(q)
      /\ W \cap Elems(Drop(q, max)) = {}
  BY Zenon, <1>1, TakeDrop DEF WokenBy
<1>3. /\ Q \in [Addr -> Seq(Thread)] /\ Q[a] = Drop(q, max)
      /\ \A b \in Addr : b # a => Q[b] = qs[b]
  BY <1>2 DEF futex_wake_queue
<1>4. Elems(q) \subseteq Thread
  BY <1>1 DEF Elems
<1> HIDE DEF Q, W, q
<1>5. Sound(Q)
  BY Zenon, <1>2, <1>3 DEF Sound, q
<1>6. \A t \in W : t \in Thread /\ OnSome(qs, t)
  BY <1>2, <1>4 DEF OnSome, q
<1>7. ASSUME NEW t \in Thread
      PROVE  OnSome(Q, t) <=> OnSome(qs, t) /\ t \notin W
  <2>1. ASSUME NEW b \in Addr, t \in Elems(Q[b])
        PROVE  t \in Elems(qs[b]) /\ t \notin W
    <3>1. CASE b = a
      BY <3>1, <2>1, <1>2, <1>3 DEF q
    <3>2. CASE b # a
      <4>1. t \in Elems(qs[b]) /\ futex[t] = b
        BY <3>2, <2>1, <1>3 DEF Sound
      <4>2. t \in W => futex[t] = a
        BY <1>2 DEF Sound, q
      <4>3. QED
        BY <4>1, <4>2, <3>2
    <3>3. QED
      BY <3>1, <3>2
  <2>2. ASSUME NEW b \in Addr, t \in Elems(qs[b]), t \notin W
        PROVE  t \in Elems(Q[b])
    BY Zenon, <2>2, <1>2, <1>3 DEF q
  <2>3. QED
    BY <2>1, <2>2 DEF OnSome
<1>8. QED
  BY <1>3, <1>5, <1>6, <1>7 DEF Q, W

\* Writing the pipes of waiters that were on a queue puts one byte in each.
LEMMA PipeWritten ==
  ASSUME TypeOK, QueuedPipeEmpty, NEW W, \A t \in W : t \in Thread /\ Queued(t)
  PROVE  /\ PipeWrite(W) \in [Thread -> {-1, 0, 1}]
         /\ \A t \in Thread :
              PipeWrite(W)[t] = IF t \in W THEN 1 ELSE pipe[t]
<1>1. \A t \in W : t \in Thread /\ pipe[t] = 0
  BY DEF QueuedPipeEmpty
<1>2. pipe \in [Thread -> {-1, 0, 1}]
  BY DEF TypeOK, QueueTypes
<1>3. ASSUME NEW t \in Thread
      PROVE  PipeWrite(W)[t] = IF t \in W THEN 1 ELSE pipe[t]
  BY <1>1, <1>2 DEF PipeWrite
<1>4. PipeWrite(W) \in [Thread -> {-1, 0, 1}]
  BY <1>1, <1>2 DEF PipeWrite
<1>5. QED
  BY <1>3, <1>4

\* What every wake shares: if the waiters in W leave the queues and get a
\* byte, and no waiter changes state, the invariant's queue part survives.
LEMMA WakePreserves ==
  ASSUME FutexInv, NEW Q \in [Addr -> Seq(Thread)], Sound(Q), NEW W,
         \A t \in W : t \in Thread /\ Queued(t),
         \A t \in Thread : OnSome(Q, t) <=> Queued(t) /\ t \notin W,
         queue' = Q, pipe' = PipeWrite(W), refcount' = refcount,
         futex' = futex, Waiting' = Waiting,
         \A t \in Thread : pc'[t] \in {"polling", "checking"} => pc'[t] = pc[t]
  PROVE  /\ QueueTypes' /\ RefcountExact' /\ QueueSound' /\ WakeIffDequeued'
         /\ QueuedPipeEmpty'
<1>1. /\ pipe' \in [Thread -> {-1, 0, 1}]
      /\ \A t \in Thread : pipe'[t] = IF t \in W THEN 1 ELSE pipe[t]
  BY PipeWritten DEF FutexInv
<1>2. \A t \in Thread : Queued(t)' <=> Queued(t) /\ t \notin W
  BY DEF Queued, OnSome
<1>3. QueueTypes'
  BY <1>1 DEF FutexInv, TypeOK, QueueTypes
<1>4. RefcountExact'
  BY DEF FutexInv, RefcountExact, HoldersOf
<1>5. QueueSound'
  BY DEF QueueSound, Sound
<1>6. WakeIffDequeued'
  <2> SUFFICES ASSUME NEW t \in Thread, pc'[t] \in {"polling", "checking"}
               PROVE  Queued(t)' <=> pipe'[t] = 0
    BY DEF WakeIffDequeued
  <2>1. Queued(t) <=> pipe[t] = 0
    BY DEF FutexInv, WakeIffDequeued
  <2>2. QED
    BY <2>1, <1>1, <1>2
<1>7. QueuedPipeEmpty'
  BY <1>1, <1>2 DEF FutexInv, QueuedPipeEmpty
<1>8. QED
  BY <1>3, <1>4, <1>5, <1>6, <1>7

------------------------------------------------------------------------------
(* The inductive invariant.                                                *)

LEMMA NoArgs == NoAddr \in Addr /\ NoVal \in Val
BY FutexConstants DEF NoAddr, NoVal

LEMMA FutexInit == Init => FutexInv
<1> SUFFICES ASSUME Init PROVE FutexInv
  OBVIOUS
<1>1. TypeOK
  BY NoArgs DEF Init, TypeOK, WordTypes, WaitTypes, QueueTypes
<1>2. Waiting = {} /\ \A a \in Addr : Elems(queue[a]) = {}
  BY DEF Init, Waiting, Elems
<1>3. RefcountExact
  <2>1. \A a \in Addr : HoldersOf(a) = {}
    BY <1>2 DEF HoldersOf
  <2>2. QED
    BY Zenon, <2>1, FS_EmptySet DEF Init, RefcountExact
<1>4. QueueSound
  BY <1>2 DEF Init, QueueSound, OnceIn
<1>5. WakeIffDequeued /\ QueuedPipeEmpty
  BY <1>2 DEF Init, WakeIffDequeued, QueuedPipeEmpty, Queued
<1>6. QED
  BY <1>1, <1>3, <1>4, <1>5 DEF FutexInv

\* Wakes by FUTEX_WAKE.
LEMMA WakeInv ==
  ASSUME FutexInv, NEW t \in Thread, NEW a \in Addr, NEW max \in Counts,
         futex_wake(t, a, max)
  PROVE  FutexInv'
<1>1. max \in Nat
  BY FutexConstants DEF Counts
<1>2. queue \in [Addr -> Seq(Thread)] /\ Sound(queue)
  BY DEF FutexInv, TypeOK, QueueTypes, QueueSound, Sound
<1> DEFINE Q == futex_wake_queue(queue, a, max)
           W == WokenBy(queue[a], max)
<1>3. /\ Q \in [Addr -> Seq(Thread)] /\ Sound(Q)
      /\ \A u \in W : u \in Thread /\ OnSome(queue, u)
      /\ \A u \in Thread : OnSome(Q, u) <=> OnSome(queue, u) /\ u \notin W
  BY Zenon, <1>1, <1>2, WakeQueue
<1>4. queue' = Q /\ pipe' = PipeWrite(W)
  BY DEF futex_wake
<1> HIDE DEF Q, W
<1>5. Waiting' = Waiting
  BY DEF futex_wake, Waiting
<1>6. /\ QueueTypes' /\ RefcountExact' /\ QueueSound' /\ WakeIffDequeued'
      /\ QueuedPipeEmpty'
  BY <1>3, <1>4, <1>5, WakePreserves DEF OnSome, Queued, futex_wake
<1>7. WordTypes' /\ WaitTypes'
  BY DEF futex_wake, FutexInv, TypeOK, WordTypes, WaitTypes
<1>8. QED
  BY <1>6, <1>7 DEF FutexInv, TypeOK

\* Wakes by FUTEX_WAKE_OP, on both addresses under one hold of futex_lock.
LEMMA WakeOpInv ==
  ASSUME FutexInv, NEW t \in Thread, NEW a \in Addr, NEW max1 \in Counts,
         NEW max2 \in Counts, NEW cmp_true \in BOOLEAN,
         futex_wake_op_wake(t, a, max1, max2, cmp_true)
  PROVE  FutexInv'
<1> DEFINE b == uaddr[t]
           n == IF cmp_true THEN max2 ELSE 0
           P == futex_wake_queue(queue, a, max1)
           V == WokenBy(queue[a], max1)
           Q == futex_wake_queue(P, b, n)
           U == WokenBy(P[b], n)
           W == V \cup U
<1>1. max1 \in Nat /\ n \in Nat /\ b \in Addr
  BY FutexConstants DEF Counts, FutexInv, TypeOK, WaitTypes
<1>2. queue \in [Addr -> Seq(Thread)] /\ Sound(queue)
  BY DEF FutexInv, TypeOK, QueueTypes, QueueSound, Sound
<1>3. queue' = Q /\ pipe' = PipeWrite(W)
  BY DEF futex_wake_op_wake
<1> HIDE DEF b, n
<1>4. /\ P \in [Addr -> Seq(Thread)] /\ Sound(P)
      /\ \A u \in V : u \in Thread /\ OnSome(queue, u)
      /\ \A u \in Thread : OnSome(P, u) <=> OnSome(queue, u) /\ u \notin V
  BY Zenon, <1>1, <1>2, WakeQueue
<1> HIDE DEF P, V
<1>5. /\ Q \in [Addr -> Seq(Thread)] /\ Sound(Q)
      /\ \A u \in U : u \in Thread /\ OnSome(P, u)
      /\ \A u \in Thread : OnSome(Q, u) <=> OnSome(P, u) /\ u \notin U
  BY Zenon, <1>1, <1>4, WakeQueue
<1> HIDE DEF Q, U
<1>6. /\ \A u \in W : u \in Thread /\ Queued(u)
      /\ \A u \in Thread : OnSome(Q, u) <=> Queued(u) /\ u \notin W
  BY Zenon, <1>4, <1>5 DEF OnSome, Queued
<1> HIDE DEF W
<1>7. /\ Waiting' = Waiting
      /\ \A u \in Thread : pc'[u] \in {"polling", "checking"} => pc'[u] = pc[u]
  BY DEF futex_wake_op_wake, Waiting, FutexInv, TypeOK, WaitTypes
<1>8. /\ QueueTypes' /\ RefcountExact' /\ QueueSound' /\ WakeIffDequeued'
      /\ QueuedPipeEmpty'
  BY Zenon, <1>3, <1>5, <1>6, <1>7, WakePreserves DEF futex_wake_op_wake
<1>9. WordTypes' /\ WaitTypes'
  BY NoArgs DEF futex_wake_op_wake, FutexInv, TypeOK, WordTypes, WaitTypes
<1>10. QED
  BY <1>8, <1>9 DEF FutexInv, TypeOK

\* FUTEX_REQUEUE onto the same address: a wake followed by a rotation.
LEMMA RequeueSameInv ==
  ASSUME FutexInv, NEW t \in Thread, NEW a \in Addr, NEW max \in Counts,
         NEW rmax \in Counts, futex_requeue(t, a, max, rmax, a)
  PROVE  FutexInv'
<1> DEFINE P == futex_wake_queue(queue, a, max)
           W == WokenBy(queue[a], max)
           Q == [P EXCEPT ![a] = Rotate(P[a], rmax)]
<1>1. max \in Nat /\ rmax \in Nat
  BY FutexConstants DEF Counts
<1>2. queue \in [Addr -> Seq(Thread)] /\ Sound(queue)
  BY DEF FutexInv, TypeOK, QueueTypes, QueueSound, Sound
<1>3. /\ queue' = Q /\ pipe' = PipeWrite(W)
      /\ refcount' = refcount /\ futex' = futex
  BY DEF futex_requeue, Requeue
<1>4. /\ P \in [Addr -> Seq(Thread)] /\ Sound(P)
      /\ \A u \in W : u \in Thread /\ OnSome(queue, u)
      /\ \A u \in Thread : OnSome(P, u) <=> OnSome(queue, u) /\ u \notin W
  BY <1>1, <1>2, WakeQueue
<1> HIDE DEF P, W
<1>5. P[a] \in Seq(Thread) /\ OnceIn(P[a])
  BY <1>4 DEF Sound
<1>6. /\ Rotate(P[a], rmax) \in Seq(Thread) /\ OnceIn(Rotate(P[a], rmax))
      /\ Elems(Rotate(P[a], rmax)) = Elems(P[a])
  BY <1>1, <1>5, RotateOnce
<1>7. /\ Q \in [Addr -> Seq(Thread)]
      /\ \A c \in Addr : Elems(Q[c]) = Elems(P[c]) /\ OnceIn(Q[c])
  BY <1>4, <1>6 DEF Sound
<1> HIDE DEF Q
<1>8. /\ Sound(Q) /\ \A u \in W : u \in Thread /\ Queued(u)
      /\ \A u \in Thread : OnSome(Q, u) <=> Queued(u) /\ u \notin W
  BY <1>4, <1>7 DEF Sound, OnSome, Queued
<1>9. pc' = pc /\ Waiting' = Waiting
  BY DEF futex_requeue, Waiting
<1>10. /\ QueueTypes' /\ RefcountExact' /\ QueueSound' /\ WakeIffDequeued'
       /\ QueuedPipeEmpty'
  BY <1>3, <1>7, <1>8, <1>9, WakePreserves
<1>11. WordTypes' /\ WaitTypes'
  BY <1>3 DEF futex_requeue, FutexInv, TypeOK, WordTypes, WaitTypes
<1>12. QED
  BY <1>10, <1>11 DEF FutexInv, TypeOK

\* FUTEX_REQUEUE onto another address: the moved waiters keep waiting, and
\* their references move with them.
LEMMA RequeueOtherInv ==
  ASSUME FutexInv, NEW t \in Thread, NEW a \in Addr, NEW b \in Addr, a # b,
         NEW max \in Counts, NEW rmax \in Counts,
         futex_requeue(t, a, max, rmax, b)
  PROVE  FutexInv'
<1> DEFINE P == futex_wake_queue(queue, a, max)
           W == WokenBy(queue[a], max)
           M == Take(P[a], rmax)
           D == Drop(P[a], rmax)
           N == P[b] \o M
<1>1. max \in Nat /\ rmax \in Nat
  BY FutexConstants DEF Counts
<1>2. queue \in [Addr -> Seq(Thread)] /\ Sound(queue)
  BY DEF FutexInv, TypeOK, QueueTypes, QueueSound, Sound
<1>3. /\ queue' = [P EXCEPT ![a] = D, ![b] = N] /\ pipe' = PipeWrite(W)
      /\ refcount' = [refcount EXCEPT ![a] = @ - Len(M), ![b] = @ + Len(M)]
      /\ futex' = [u \in Thread |-> IF u \in Elems(M) THEN b ELSE futex[u]]
  BY Zenon DEF futex_requeue, Requeue
<1>4. /\ P \in [Addr -> Seq(Thread)] /\ Sound(P)
      /\ \A u \in W : u \in Thread /\ OnSome(queue, u)
      /\ \A u \in Thread : OnSome(P, u) <=> OnSome(queue, u) /\ u \notin W
  BY Zenon, <1>1, <1>2, WakeQueue
<1> HIDE DEF P, W
<1>5. /\ P[a] \in Seq(Thread) /\ OnceIn(P[a]) /\ P[b] \in Seq(Thread)
      /\ OnceIn(P[b])
      /\ \A c \in Addr : \A u \in Elems(P[c]) : u \in Waiting /\ futex[u] = c
  BY <1>4 DEF Sound
<1>6. /\ M \in Seq(Thread) /\ OnceIn(M) /\ D \in Seq(Thread) /\ OnceIn(D)
      /\ Elems(M) \cup Elems(D) = Elems(P[a]) /\ Elems(M) \cap Elems(D) = {}
  BY Zenon, <1>1, <1>5, TakeDrop
<1>7. IsFiniteSet(Elems(M)) /\ Cardinality(Elems(M)) = Len(M) /\ Len(M) \in Nat
  BY <1>6, LenIsCardinality
<1> HIDE DEF M, D
<1>8. Elems(P[b]) \cap Elems(M) = {}
  <2>1. \A u \in Elems(M) : futex[u] = a
    BY <1>5, <1>6
  <2>2. \A u \in Elems(P[b]) : futex[u] = b
    BY <1>5
  <2>3. QED
    BY <2>1, <2>2
<1>9. /\ N \in Seq(Thread) /\ OnceIn(N)
      /\ Elems(N) = Elems(P[b]) \cup Elems(M)
  BY <1>5, <1>6, <1>8, Concat
<1> HIDE DEF N
<1>10. /\ queue' \in [Addr -> Seq(Thread)] /\ queue'[a] = D /\ queue'[b] = N
       /\ \A c \in Addr : c # a /\ c # b => queue'[c] = P[c]
  BY Zenon, <1>3, <1>4, <1>6, <1>9
<1>11. /\ pc' = pc /\ Waiting' = Waiting /\ Waiting \subseteq Thread
  BY DEF futex_requeue, Waiting
<1>12. Elems(M) \subseteq HoldersOf(a)
  BY <1>5, <1>6 DEF HoldersOf
<1>13. /\ HoldersOf(a)' = HoldersOf(a) \ Elems(M)
       /\ HoldersOf(b)' = HoldersOf(b) \cup Elems(M)
       /\ \A c \in Addr : c # a /\ c # b => HoldersOf(c)' = HoldersOf(c)
  BY <1>3, <1>11, <1>12 DEF HoldersOf
<1>14. /\ IsFiniteSet(HoldersOf(a)) /\ IsFiniteSet(HoldersOf(b))
       /\ HoldersOf(b) \cap Elems(M) = {}
  <2>1. HoldersOf(a) \subseteq Thread /\ HoldersOf(b) \subseteq Thread
    BY DEF HoldersOf, Waiting
  <2>2. QED
    BY <2>1, <1>12, FS_Subset, FutexConstants DEF HoldersOf
<1>15. /\ Cardinality(HoldersOf(a) \ Elems(M)) = Cardinality(HoldersOf(a)) - Len(M)
       /\ Cardinality(HoldersOf(a) \ Elems(M)) \in Nat
  <2>1. HoldersOf(a) \cap Elems(M) = Elems(M)
    BY <1>12
  <2>2. IsFiniteSet(HoldersOf(a) \ Elems(M))
    BY Zenon, <1>14, FS_Difference
  <2>3. Cardinality(HoldersOf(a) \ Elems(M)) =
          Cardinality(HoldersOf(a)) - Cardinality(HoldersOf(a) \cap Elems(M))
    BY <1>14, FS_Difference
  <2>4. QED
    BY Zenon, <2>1, <2>2, <2>3, <1>7, FS_CardinalityType
<1>16. /\ Cardinality(HoldersOf(b) \cup Elems(M)) = Cardinality(HoldersOf(b)) + Len(M)
       /\ Cardinality(HoldersOf(b) \cup Elems(M)) \in Nat
  <2>1. /\ IsFiniteSet(HoldersOf(b) \cup Elems(M))
        /\ Cardinality(HoldersOf(b) \cup Elems(M)) =
             Cardinality(HoldersOf(b)) + Cardinality(Elems(M))
               - Cardinality(HoldersOf(b) \cap Elems(M))
    BY <1>14, <1>7, FS_Union
  <2>2. Cardinality(HoldersOf(b) \cap Elems(M)) = 0
    BY <1>14, FS_EmptySet
  <2>3. Cardinality(HoldersOf(b)) \in Nat
    BY <1>14, FS_CardinalityType
  <2>4. QED
    BY <2>1, <2>2, <2>3, <1>7, FS_CardinalityType
<1>17. refcount \in [Addr -> Nat]
  BY DEF FutexInv, TypeOK, QueueTypes
<1>18. \A c \in Addr : refcount'[c] = Cardinality(HoldersOf(c)') /\ refcount'[c] \in Nat
  <2> USE DEF FutexInv, RefcountExact
  <2>1. refcount'[a] = refcount[a] - Len(M) /\ refcount'[b] = refcount[b] + Len(M)
    BY <1>3, <1>17
  <2>2. \A c \in Addr : c # a /\ c # b => refcount'[c] = refcount[c]
    BY <1>3, <1>17
  <2>3. refcount[a] = Cardinality(HoldersOf(a)) /\ refcount[b] = Cardinality(HoldersOf(b))
    OBVIOUS
  <2>4. refcount'[a] = Cardinality(HoldersOf(a)') /\ refcount'[a] \in Nat
    BY <2>1, <2>3, <1>13, <1>15
  <2>5. refcount'[b] = Cardinality(HoldersOf(b)') /\ refcount'[b] \in Nat
    BY <2>1, <2>3, <1>13, <1>16
  <2>6. ASSUME NEW c \in Addr, c # a, c # b
        PROVE  refcount'[c] = Cardinality(HoldersOf(c)') /\ refcount'[c] \in Nat
    BY <2>2, <2>6, <1>13, <1>17
  <2>7. QED
    BY <2>4, <2>5, <2>6
<1>19. /\ pipe' \in [Thread -> {-1, 0, 1}]
       /\ \A u \in Thread : pipe'[u] = IF u \in W THEN 1 ELSE pipe[u]
  <2>1. \A u \in W : u \in Thread /\ Queued(u)
    BY <1>4 DEF OnSome, Queued
  <2>2. QED
    BY <2>1, <1>3, PipeWritten DEF FutexInv
<1>20. QueueTypes'
  <2>1. refcount' = [c \in Addr |-> refcount'[c]]
    BY Zenon, <1>3, <1>17
  <2>2. QED
    BY <2>1, <1>10, <1>18, <1>19 DEF QueueTypes
<1>21. QueueSound'
  <2> SUFFICES ASSUME NEW c \in Addr
               PROVE  /\ OnceIn(queue'[c])
                      /\ \A u \in Elems(queue'[c]) : u \in Waiting' /\ futex'[u] = c
    BY DEF QueueSound
  <2>1. CASE c = a
    BY <2>1, <1>3, <1>5, <1>6, <1>10, <1>11
  <2>2. CASE c = b
    BY <2>2, <1>3, <1>5, <1>6, <1>9, <1>10, <1>11
  <2>3. CASE c # a /\ c # b
    BY <2>3, <1>3, <1>4, <1>5, <1>6, <1>10, <1>11 DEF Sound
  <2>4. QED
    BY <2>1, <2>2, <2>3
<1>22. ASSUME NEW u \in Thread PROVE Queued(u)' <=> Queued(u) /\ u \notin W
  <2>1. Queued(u)' <=> OnSome(P, u)
    <3>1. Queued(u)' => OnSome(P, u)
      BY Zenon, <1>6, <1>9, <1>10 DEF Queued, OnSome
    <3>2. OnSome(P, u) => Queued(u)'
      BY <1>6, <1>9, <1>10 DEF Queued, OnSome
    <3>3. QED
      BY <3>1, <3>2
  <2>2. QED
    BY <2>1, <1>4 DEF OnSome, Queued
<1>23. WakeIffDequeued' /\ QueuedPipeEmpty'
  <2>1. ASSUME NEW u \in Thread, pc'[u] \in {"polling", "checking"}
        PROVE  Queued(u)' <=> pipe'[u] = 0
    <3>1. Queued(u) <=> pipe[u] = 0
      BY <2>1, <1>11 DEF FutexInv, WakeIffDequeued
    <3>2. QED
      BY <3>1, <1>19, <1>22
  <2>2. QueuedPipeEmpty'
    BY <1>19, <1>22 DEF FutexInv, QueuedPipeEmpty
  <2>3. QED
    BY <2>1, <2>2 DEF WakeIffDequeued
<1>24. WordTypes' /\ WaitTypes'
  BY <1>3 DEF futex_requeue, FutexInv, TypeOK, WordTypes, WaitTypes
<1>25. QED
  BY <1>18, <1>20, <1>21, <1>23, <1>24 DEF FutexInv, TypeOK, RefcountExact

\* futex_wait joins a queue with an empty pipe and one reference.
LEMMA WaitInv ==
  ASSUME FutexInv, NEW t \in Thread, NEW a \in Addr, NEW v \in Val,
         futex_wait(t, a, v)
  PROVE  FutexInv'
<1> USE DEF FutexInv
<1>1. t \notin Waiting /\ Waiting' = Waiting \cup {t}
  BY DEF futex_wait, Waiting, TypeOK, WaitTypes
<1>2. ~Queued(t)
  BY <1>1 DEF QueueSound, Queued
<1>3. \A c \in Addr : queue[c] \in Seq(Thread) /\ OnceIn(queue[c])
  BY DEF TypeOK, QueueTypes, QueueSound
<1>4. /\ Append(queue[a], t) \in Seq(Thread) /\ OnceIn(Append(queue[a], t))
      /\ Elems(Append(queue[a], t)) = Elems(queue[a]) \cup {t}
  BY <1>2, <1>3, AppendOnce DEF Queued
<1>5. /\ queue' \in [Addr -> Seq(Thread)] /\ queue'[a] = Append(queue[a], t)
      /\ \A c \in Addr : c # a => queue'[c] = queue[c]
  BY <1>4 DEF futex_wait, TypeOK, QueueTypes
<1>6. /\ futex'[t] = a /\ pipe'[t] = 0
      /\ \A u \in Thread : u # t => futex'[u] = futex[u] /\ pipe'[u] = pipe[u]
                                 /\ pc'[u] = pc[u]
  BY DEF futex_wait, TypeOK, WaitTypes, QueueTypes
<1>7. \A u \in Thread : Queued(u)' <=> Queued(u) \/ u = t
  BY Zenon, <1>4, <1>5 DEF Queued
<1>8. WordTypes' /\ WaitTypes'
  BY DEF futex_wait, TypeOK, WordTypes, WaitTypes
<1>9. QueueTypes'
  BY <1>5 DEF futex_wait, TypeOK, QueueTypes
<1>10. RefcountExact'
  <2>1. /\ HoldersOf(a)' = HoldersOf(a) \cup {t} /\ t \notin HoldersOf(a)
        /\ \A c \in Addr : c # a => HoldersOf(c)' = HoldersOf(c)
    BY <1>1, <1>6 DEF HoldersOf, Waiting
  <2>2. IsFiniteSet(HoldersOf(a))
    BY FS_Subset, FutexConstants DEF HoldersOf, Waiting
  <2>3. Cardinality(HoldersOf(a) \cup {t}) = Cardinality(HoldersOf(a)) + 1
    BY Zenon, <2>1, <2>2, FS_AddElement
  <2>4. /\ refcount'[a] = refcount[a] + 1
        /\ \A c \in Addr : c # a => refcount'[c] = refcount[c]
    BY DEF futex_wait, TypeOK, QueueTypes
  <2>5. QED
    BY <2>1, <2>3, <2>4 DEF RefcountExact
<1>11. QueueSound'
  <2> SUFFICES ASSUME NEW c \in Addr
               PROVE  /\ OnceIn(queue'[c])
                      /\ \A u \in Elems(queue'[c]) : u \in Waiting' /\ futex'[u] = c
    BY DEF QueueSound
  <2>1. \A u \in Elems(queue[c]) : /\ u \in Waiting /\ u \in Thread /\ u # t
                                   /\ futex'[u] = c
    BY <1>1, <1>6 DEF QueueSound, Waiting
  <2>2. CASE c = a
    BY <2>1, <2>2, <1>1, <1>4, <1>5, <1>6
  <2>3. CASE c # a
    BY <2>1, <2>3, <1>1, <1>3, <1>5
  <2>4. QED
    BY <2>2, <2>3
<1>12. WakeIffDequeued' /\ QueuedPipeEmpty'
  BY <1>6, <1>7 DEF WakeIffDequeued, QueuedPipeEmpty
<1>13. QED
  BY <1>8, <1>9, <1>10, <1>11, <1>12 DEF TypeOK

\* The end of futex_wait, whether or not a waker got there first.
LEMMA DoneInv ==
  ASSUME FutexInv, NEW t \in Thread, futex_wait_done(t)
  PROVE  FutexInv'
<1> USE DEF FutexInv
<1>0. PICK a \in Addr : a = futex[t]
  BY DEF TypeOK, WaitTypes
<1>1. /\ t \in Waiting /\ Waiting' = Waiting \ {t}
      /\ \A u \in Thread : u # t => futex'[u] = futex[u] /\ pc'[u] = pc[u]
      /\ pc'[t] = "idle" /\ pipe' = pipe
  BY DEF futex_wait_done, Waiting, TypeOK, WaitTypes
<1>2. \A c \in Addr : queue[c] \in Seq(Thread) /\ OnceIn(queue[c])
  BY DEF TypeOK, QueueTypes, QueueSound
<1>3. \A c \in Addr : /\ Without(queue[c], t) \in Seq(Thread)
                      /\ OnceIn(Without(queue[c], t))
                      /\ Elems(Without(queue[c], t)) = Elems(queue[c]) \ {t}
  BY <1>2, WithoutOnce
<1>4. queue' = [c \in Addr |-> Without(queue[c], t)]
  BY DEF futex_wait_done
<1>5. \A u \in Thread : Queued(u)' <=> Queued(u) /\ u # t
  BY Zenon, <1>3, <1>4 DEF Queued
<1>6. WordTypes' /\ WaitTypes'
  BY NoArgs DEF futex_wait_done, TypeOK, WordTypes, WaitTypes
<1>7. /\ HoldersOf(a)' = HoldersOf(a) \ {t} /\ t \in HoldersOf(a)
      /\ \A c \in Addr : c # a => HoldersOf(c)' = HoldersOf(c)
  BY <1>0, <1>1 DEF HoldersOf, Waiting
<1>8. IsFiniteSet(HoldersOf(a))
  BY FS_Subset, FutexConstants DEF HoldersOf, Waiting
<1>9. /\ Cardinality(HoldersOf(a) \ {t}) = Cardinality(HoldersOf(a)) - 1
      /\ Cardinality(HoldersOf(a) \ {t}) \in Nat
  BY <1>7, <1>8, FS_RemoveElement, FS_CardinalityType
<1>10. /\ refcount' \in [Addr -> Int] /\ refcount'[a] = refcount[a] - 1
       /\ \A c \in Addr : c # a => refcount'[c] = refcount[c]
  BY <1>0 DEF futex_wait_done, TypeOK, QueueTypes
<1>11. RefcountExact'
  BY <1>7, <1>9, <1>10 DEF RefcountExact
<1>12. QueueTypes'
  <2>1. refcount'[a] \in Nat
    BY <1>1, <1>9, <1>10 DEF RefcountExact
  <2>2. \A c \in Addr : refcount'[c] \in Nat
    BY Zenon, <2>1, <1>10 DEF TypeOK, QueueTypes
  <2>3. refcount' \in [Addr -> Nat]
    BY <2>2, <1>10
  <2>4. QED
    BY <2>3, <1>1, <1>3, <1>4 DEF TypeOK, QueueTypes
<1>13. QueueSound'
  <2> SUFFICES ASSUME NEW c \in Addr
               PROVE  /\ OnceIn(queue'[c])
                      /\ \A u \in Elems(queue'[c]) : u \in Waiting' /\ futex'[u] = c
    BY DEF QueueSound
  <2>1. OnceIn(queue'[c]) /\ Elems(queue'[c]) = Elems(queue[c]) \ {t}
    BY Zenon, <1>3, <1>4
  <2>2. \A u \in Elems(queue[c]) : u \in Waiting /\ u \in Thread /\ futex[u] = c
    BY DEF QueueSound, Waiting
  <2>3. QED
    BY <2>1, <2>2, <1>1
<1>14. WakeIffDequeued' /\ QueuedPipeEmpty'
  BY <1>1, <1>5 DEF WakeIffDequeued, QueuedPipeEmpty
<1>15. QED
  BY <1>6, <1>11, <1>12, <1>13, <1>14 DEF TypeOK

\* The steps inside the poll loop, and those that only touch guest memory,
\* move no waiter and no reference.
LEMMA LoopInv ==
  ASSUME FutexInv, NEW t \in Thread,
         \/ futex_wait_deadline(t) \/ futex_wait_woken(t) \/ futex_wait_slice(t)
         \/ \E i, r \in BOOLEAN : futex_wait_check(t, i, r)
  PROVE  FutexInv'
<1> USE DEF FutexInv
<1>1. /\ queue' = queue /\ refcount' = refcount /\ futex' = futex
      /\ Waiting' = Waiting /\ WordTypes' /\ WaitTypes'
  <2> USE DEF Waiting, TypeOK, WordTypes, WaitTypes, Break
  <2>1. CASE futex_wait_deadline(t)
    BY <2>1 DEF futex_wait_deadline
  <2>2. CASE futex_wait_woken(t)
    BY <2>2 DEF futex_wait_woken
  <2>3. CASE futex_wait_slice(t)
    BY <2>3 DEF futex_wait_slice
  <2>4. ASSUME NEW i \in BOOLEAN, NEW r \in BOOLEAN, futex_wait_check(t, i, r)
        PROVE  /\ queue' = queue /\ refcount' = refcount /\ futex' = futex
               /\ Waiting' = Waiting /\ WordTypes' /\ WaitTypes'
    BY <2>4 DEF futex_wait_check
  <2>5. QED
    BY <2>1, <2>2, <2>3, <2>4
<1>2. RefcountExact' /\ QueueSound'
  BY <1>1 DEF RefcountExact, HoldersOf, QueueSound
<1>3. \A u \in Thread : Queued(u)' <=> Queued(u)
  BY <1>1 DEF Queued
<1>4. CASE futex_wait_woken(t)
  <2>1. pipe[t] = 1 /\ ~Queued(t)
    BY <1>4 DEF futex_wait_woken, WakeIffDequeued, TypeOK, QueueTypes
  <2>2. /\ pipe' \in [Thread -> {-1, 0, 1}]
        /\ \A u \in Thread : u # t => pipe'[u] = pipe[u] /\ pc'[u] = pc[u]
        /\ pc'[t] = "leaving"
    BY <1>4 DEF futex_wait_woken, Break, TypeOK, QueueTypes, WaitTypes
  <2>3. WakeIffDequeued' /\ QueuedPipeEmpty'
    BY <2>1, <2>2, <1>3 DEF WakeIffDequeued, QueuedPipeEmpty
  <2>4. QED
    BY <2>2, <2>3, <1>1, <1>2 DEF TypeOK, QueueTypes
<1>5. CASE ~futex_wait_woken(t)
  <2>1. /\ pipe' = pipe /\ pc[t] \in {"polling", "checking"}
        /\ \A u \in Thread : u # t => pc'[u] = pc[u]
    BY <1>5 DEF futex_wait_deadline, futex_wait_slice, futex_wait_check, Break,
                TypeOK, WaitTypes
  <2>2. WakeIffDequeued' /\ QueuedPipeEmpty'
    BY <2>1, <1>3 DEF WakeIffDequeued, QueuedPipeEmpty
  <2>3. QED
    BY <2>1, <2>2, <1>1, <1>2 DEF TypeOK, QueueTypes
<1>6. QED
  BY <1>4, <1>5

LEMMA MemoryInv ==
  ASSUME FutexInv,
         \/ \E a \in Addr, v \in Val : Store(a, v)
         \/ \E t \in Thread, a \in Addr, v \in Val : futex_wake_op_rmw(t, a, v)
         \/ UNCHANGED vars
  PROVE  FutexInv'
<1> USE DEF FutexInv
<1>1. /\ queue' = queue /\ refcount' = refcount /\ futex' = futex /\ pipe' = pipe
      /\ Waiting' = Waiting /\ WordTypes' /\ WaitTypes'
      /\ \A u \in Thread : pc'[u] \in {"polling", "checking"} => pc'[u] = pc[u]
  <2> USE DEF Waiting, TypeOK, WordTypes, WaitTypes
  <2>1. CASE \E a \in Addr, v \in Val : Store(a, v)
    BY <2>1 DEF Store
  <2>2. CASE \E t \in Thread, a \in Addr, v \in Val : futex_wake_op_rmw(t, a, v)
    BY <2>2 DEF futex_wake_op_rmw
  <2>3. CASE UNCHANGED vars
    BY <2>3 DEF vars
  <2>4. QED
    BY <2>1, <2>2, <2>3
<1>2. RefcountExact' /\ QueueSound'
  BY <1>1 DEF RefcountExact, HoldersOf, QueueSound
<1>3. WakeIffDequeued' /\ QueuedPipeEmpty'
  BY <1>1 DEF WakeIffDequeued, QueuedPipeEmpty, Queued
<1>4. QED
  BY <1>1, <1>2, <1>3 DEF TypeOK, QueueTypes

LEMMA FutexStep == FutexInv /\ [Next]_vars => FutexInv'
<1> SUFFICES ASSUME FutexInv, [Next]_vars PROVE FutexInv'
  OBVIOUS
<1>1. ASSUME NEW t \in Thread, Call(t) PROVE FutexInv'
  <2>1. ASSUME NEW a \in Addr, NEW b \in Addr, NEW max \in Counts,
               NEW rmax \in Counts, futex_requeue(t, a, max, rmax, b)
        PROVE  FutexInv'
    BY <2>1, RequeueSameInv, RequeueOtherInv
  <2>2. QED
    BY <1>1, <2>1, WaitInv, WakeInv, WakeOpInv, MemoryInv DEF Call, futex_cmp_requeue
<1>2. ASSUME NEW t \in Thread, WaitSteps(t) \/ futex_wait_deadline(t)
      PROVE  FutexInv'
  BY <1>2, LoopInv, DoneInv DEF WaitSteps
<1>3. QED
  BY <1>1, <1>2, MemoryInv DEF Next

\* Every reachable state of futex.c satisfies the inductive invariant.
THEOREM FutexInvariant == Spec => []FutexInv
BY FutexInit, FutexStep, PTL DEF Spec

\* The types, and with them the bound of one byte in a waiter's pipe.
THEOREM FutexTypeOK == Spec => []TypeOK
BY FutexInvariant, PTL DEF FutexInv

\* A struct futex lives exactly as long as some futex_wait refers to it.
THEOREM FutexRefcountExact == Spec => []RefcountExact
BY FutexInvariant, PTL DEF FutexInv

\* Queues hold every waiter at most once, on the futex it refers to.
THEOREM FutexQueueSound == Spec => []QueueSound
BY FutexInvariant, PTL DEF FutexInv

\* Between two polls, a waiter has been dequeued exactly if its pipe is ready.
THEOREM FutexWakeIffDequeued == Spec => []WakeIffDequeued
BY FutexInvariant, PTL DEF FutexInv

\* What the runs check of every state of futex.c, for any number of threads, words
\* and values.
THEOREM FutexCorrect == Spec => []FutexSound
BY FutexInvariant, PTL DEF FutexInv, FutexSound
==============================================================================
