-------------------------------- MODULE Futex --------------------------------
(***************************************************************************)
(* kernel/futex.c for the threads of one address space.  futex_lock is     *)
(* held from futex_get to futex_put or unlock, so each such region is one  *)
(* step; a waiter is outside the lock while it polls its per-thread pipe.  *)
(* A struct futex exists for an address exactly while its refcount is not  *)
(* zero, so refcount also stands for the hash table, and the reference     *)
(* that a waker takes and drops within one region cancels out.             *)
(***************************************************************************)
EXTENDS Integers, Sequences, FiniteSets

CONSTANTS Thread,      \* guest threads sharing one struct mem
          Addr,        \* futex words
          Val,         \* values of a word
          MaxCount,    \* largest wake or requeue count passed by a caller
          Calls        \* [Thread -> the futex operations it uses]

ASSUME FutexConstants ==
    /\ IsFiniteSet(Thread) /\ Addr # {} /\ Val # {} /\ MaxCount \in Nat
    /\ Calls \in [Thread -> SUBSET {"WAIT", "WAKE", "REQUEUE", "CMP_REQUEUE", "WAKE_OP"}]

VARIABLES word,        \* [Addr -> Val] guest memory
          refcount,    \* [Addr -> Nat] futex->refcount, 0: no struct futex
          queue,       \* [Addr -> Seq(Thread)] futex->queue
          pc,          \* where each thread is in sys_futex
          futex,       \* wait.futex of a waiting thread
          uaddr, val,  \* arguments of its futex_wait (uaddr2 of a wake_op)
          pipe         \* bytes in current->futex_pipe, -1: not created

vars == <<word, refcount, queue, pc, futex, uaddr, val, pipe>>

Counts == 0 .. MaxCount
NoAddr == CHOOSE a \in Addr : TRUE
NoVal == CHOOSE v \in Val : TRUE

\* Threads between list_add_tail and futex_put_unlocked(wait.futex).
Waiting == {t \in Thread : pc[t] \in {"polling", "checking", "leaving"}}
Elems(q) == {q[i] : i \in DOMAIN q}
Queued(t) == \E a \in Addr : t \in Elems(queue[a])

Init ==
    /\ word \in [Addr -> Val]
    /\ refcount = [a \in Addr |-> 0]
    /\ queue = [a \in Addr |-> << >>]
    /\ pc = [t \in Thread |-> "idle"]
    /\ futex = [t \in Thread |-> NoAddr]
    /\ uaddr = [t \in Thread |-> NoAddr]
    /\ val = [t \in Thread |-> NoVal]
    /\ pipe = [t \in Thread |-> -1]

------------------------------------------------------------------------------

\* futex_wait up to its first poll: load and compare under futex_lock, then
\* drain the pipe and join the tail of the queue.  EFAULT, EAGAIN and ENOMEM
\* (pipe() failed) return at once and leave no trace.
futex_wait(t, a, v) ==
    /\ pc[t] = "idle" /\ word[a] = v
    /\ pipe' = [pipe EXCEPT ![t] = 0]
    /\ queue' = [queue EXCEPT ![a] = Append(@, t)]
    /\ refcount' = [refcount EXCEPT ![a] = @ + 1]
    /\ futex' = [futex EXCEPT ![t] = a]
    /\ uaddr' = [uaddr EXCEPT ![t] = a]
    /\ val' = [val EXCEPT ![t] = v]
    /\ pc' = [pc EXCEPT ![t] = "polling"]
    /\ UNCHANGED word

\* Leave the poll loop; the result that is returned is left out.
Break(t) == pc' = [pc EXCEPT ![t] = "leaving"]

\* The deadline has passed; the pipe is not looked at.  A waiter without a
\* timeout is one that never takes this step.
futex_wait_deadline(t) ==
    /\ pc[t] = "polling" /\ Break(t)
    /\ UNCHANGED <<word, refcount, queue, futex, uaddr, val, pipe>>

\* poll() > 0: drain the pipe and succeed.
futex_wait_woken(t) ==
    /\ pc[t] = "polling" /\ pipe[t] > 0
    /\ pipe' = [pipe EXCEPT ![t] = 0]
    /\ Break(t)
    /\ UNCHANGED <<word, refcount, queue, futex, uaddr, val>>

\* poll() <= 0: the 100 ms slice ended, or SIGUSR1 interrupted it.
futex_wait_slice(t) ==
    /\ pc[t] = "polling" /\ pipe[t] = 0
    /\ pc' = [pc EXCEPT ![t] = "checking"]
    /\ UNCHANGED <<word, refcount, queue, futex, uaddr, val, pipe>>

\* Mutant: the word is not looked at again after a slice.
futex_wait_check_no_reload(t, interrupted, readable) ==
    /\ pc[t] = "checking"
    /\ IF interrupted \/ ~readable
       THEN Break(t) ELSE pc' = [pc EXCEPT ![t] = "polling"]
    /\ UNCHANGED <<word, refcount, queue, futex, uaddr, val, pipe>>

\* The conditions looked at after a slice, in the order of the code: the group
\* is exiting or a signal is pending; the page is gone; the word has changed.
\* The first two depend on the rest of the kernel and may hold at any time.
futex_wait_check(t, interrupted, readable) ==
    /\ pc[t] = "checking"
    /\ IF interrupted \/ ~readable \/ word[uaddr[t]] # val[t]
       THEN Break(t) ELSE pc' = [pc EXCEPT ![t] = "polling"]
    /\ UNCHANGED <<word, refcount, queue, futex, uaddr, val, pipe>>

\* list_remove_safe: unlink t's node from the list it is on, if any.
Without(q, t) ==
    IF t \notin Elems(q) THEN q
    ELSE LET i == CHOOSE i \in DOMAIN q : q[i] = t
         IN  SubSeq(q, 1, i - 1) \o SubSeq(q, i + 1, Len(q))

\* list_remove_safe(&wait.queue); futex_put_unlocked(wait.futex).
futex_wait_done(t) ==
    /\ pc[t] = "leaving"
    /\ queue' = [a \in Addr |-> Without(queue[a], t)]
    /\ refcount' = [refcount EXCEPT ![futex[t]] = @ - 1]
    /\ pc' = [pc EXCEPT ![t] = "idle"]
    /\ futex' = [futex EXCEPT ![t] = NoAddr]
    /\ uaddr' = [uaddr EXCEPT ![t] = NoAddr]
    /\ val' = [val EXCEPT ![t] = NoVal]
    /\ UNCHANGED <<word, pipe>>
------------------------------------------------------------------------------
Take(q, n) == SubSeq(q, 1, IF n < Len(q) THEN n ELSE Len(q))
Drop(q, n) == SubSeq(q, n + 1, Len(q))

\* futex_wake_queue: the first max waiters leave the queue and each gets a
\* byte in its pipe.
WokenBy(q, max) == Elems(Take(q, max))
futex_wake_queue(qs, a, max) == [qs EXCEPT ![a] = Drop(@, max)]
\* Mutant: the waiter is taken off the queue but its pipe is not written.
PipeWrite_forgotten(ts) == pipe
PipeWrite(ts) ==
    [t \in Thread |-> IF t \in ts /\ pipe[t] # -1 THEN pipe[t] + 1 ELSE pipe[t]]

futex_wake(t, a, max) ==
    /\ pc[t] = "idle"
    /\ queue' = futex_wake_queue(queue, a, max)
    /\ pipe' = PipeWrite(WokenBy(queue[a], max))
    /\ UNCHANGED <<word, refcount, pc, futex, uaddr, val>>

\* The requeue loop when both addresses are the same: every visited waiter
\* goes to the tail of the list that is being walked, which rotates it.
Rotate(q, n) ==
    IF Len(q) < 2 THEN q ELSE Drop(q, n % Len(q)) \o Take(q, n % Len(q))

\* Mutant: a moved waiter leaves its reference with the old futex.
Requeue_keeps_refs(qs, a, max, b) ==
    LET moved == Take(qs[a], max) IN
    IF a = b
      THEN /\ queue' = [qs EXCEPT ![a] = Rotate(@, max)]
           /\ UNCHANGED <<refcount, futex>>
      ELSE /\ queue' = [qs EXCEPT ![a] = Drop(@, max), ![b] = @ \o moved]
           /\ futex' = [t \in Thread |->
                          IF t \in Elems(moved) THEN b ELSE futex[t]]
           /\ UNCHANGED refcount

\* The loop of futex_wakelike and futex_cmp_requeue from queues qs: move up
\* to max waiters of a to the tail of b, with their references.
Requeue(qs, a, max, b) ==
    LET moved == Take(qs[a], max) IN
    IF a = b
      THEN /\ queue' = [qs EXCEPT ![a] = Rotate(@, max)]
           /\ UNCHANGED <<refcount, futex>>
      ELSE /\ queue' = [qs EXCEPT ![a] = Drop(@, max), ![b] = @ \o moved]
           /\ refcount' = [refcount EXCEPT ![a] = @ - Len(moved),
                                           ![b] = @ + Len(moved)]
           /\ futex' = [t \in Thread |->
                          IF t \in Elems(moved) THEN b ELSE futex[t]]

futex_requeue(t, a, max, rmax, b) ==
    /\ pc[t] = "idle"
    /\ pipe' = PipeWrite(WokenBy(queue[a], max))
    /\ Requeue(futex_wake_queue(queue, a, max), a, rmax, b)
    /\ UNCHANGED <<word, pc, uaddr, val>>

\* FUTEX_CMP_REQUEUE; on EFAULT or EAGAIN nothing changes.
futex_cmp_requeue(t, a, max, rmax, b, expected) ==
    /\ word[a] = expected
    /\ futex_requeue(t, a, max, rmax, b)

\* FUTEX_WAKE_OP: the RMW on uaddr2 happens before futex_lock is taken.
futex_wake_op_rmw(t, a2, v) ==
    /\ pc[t] = "idle"
    /\ word' = [word EXCEPT ![a2] = v]
    /\ uaddr' = [uaddr EXCEPT ![t] = a2]
    /\ pc' = [pc EXCEPT ![t] = "wake_op"]
    /\ UNCHANGED <<refcount, queue, futex, val, pipe>>

\* ... then up to max1 waiters of uaddr and, if the old value satisfied the
\* comparison, up to max2 of uaddr2 are woken.  The ENOSYS return for a bad
\* comparison, after the RMW, changes what both counts zero change.
futex_wake_op_wake(t, a1, max1, max2, cmp_true) ==
    LET a2 == uaddr[t]
        q1 == futex_wake_queue(queue, a1, max1)
        n2 == IF cmp_true THEN max2 ELSE 0
    IN  /\ pc[t] = "wake_op"
        /\ queue' = futex_wake_queue(q1, a2, n2)
        /\ pipe' = PipeWrite(WokenBy(queue[a1], max1) \cup WokenBy(q1[a2], n2))
        /\ pc' = [pc EXCEPT ![t] = "idle"]
        /\ uaddr' = [uaddr EXCEPT ![t] = NoAddr]
        /\ UNCHANGED <<word, refcount, futex, val>>
------------------------------------------------------------------------------
\* The other guest code: it may store to a word at any time.
Store(a, v) ==
    /\ word[a] # v
    /\ word' = [word EXCEPT ![a] = v]
    /\ UNCHANGED <<refcount, queue, pc, futex, uaddr, val, pipe>>

Call(t) ==
    \/ "WAIT" \in Calls[t] /\ \E a \in Addr, v \in Val : futex_wait(t, a, v)
    \/ "WAKE" \in Calls[t] /\ \E a \in Addr, max \in Counts : futex_wake(t, a, max)
    \/ "REQUEUE" \in Calls[t] /\
         \E a, b \in Addr, max, rmax \in Counts : futex_requeue(t, a, max, rmax, b)
    \/ "CMP_REQUEUE" \in Calls[t] /\
         \E a, b \in Addr, max, rmax \in Counts, v \in Val :
           futex_cmp_requeue(t, a, max, rmax, b, v)
    \/ "WAKE_OP" \in Calls[t] /\ \E a \in Addr, v \in Val : futex_wake_op_rmw(t, a, v)
    \/ \E a \in Addr, max1, max2 \in Counts, cmp_true \in BOOLEAN :
           futex_wake_op_wake(t, a, max1, max2, cmp_true)
WaitSteps(t) ==
    \/ futex_wait_woken(t) \/ futex_wait_slice(t)
    \/ \E interrupted, readable \in BOOLEAN :
           futex_wait_check(t, interrupted, readable)
    \/ futex_wait_done(t)
Next ==
    \/ \E t \in Thread : Call(t) \/ WaitSteps(t) \/ futex_wait_deadline(t)
    \/ \E a \in Addr, v \in Val : Store(a, v)
Spec == Init /\ [][Next]_vars

\* A waiter's host thread keeps running and poll() returns within 100 ms.
FairSpec == Spec /\ \A t \in Thread : WF_vars(WaitSteps(t))
------------------------------------------------------------------------------
WordTypes ==
    word \in [Addr -> Val]
WaitTypes ==
    /\ pc \in [Thread -> {"idle", "polling", "checking", "leaving", "wake_op"}]
    /\ futex \in [Thread -> Addr] /\ uaddr \in [Thread -> Addr]
    /\ val \in [Thread -> Val]
QueueTypes ==
    /\ refcount \in [Addr -> Nat] /\ queue \in [Addr -> Seq(Thread)]
    /\ pipe \in [Thread -> {-1, 0, 1}]
\* Every variable keeps its type.  A waiter's pipe holds at most one byte: it
\* is drained when the wait begins and a wake takes the waiter off the queue.
TypeOK == WordTypes /\ WaitTypes /\ QueueTypes

\* A struct futex is kept alive by exactly the waits that will put it: its
\* refcount is the number of waiters whose wait.futex it is, through wakes,
\* requeues and timeouts.  So futex_put never frees a futex in use, never
\* leaks one, and no hash entry outlives its last waiter.
HoldersOf(a) == {t \in Waiting : futex[t] = a}
RefcountExact == \A a \in Addr : refcount[a] = Cardinality(HoldersOf(a))

\* A thread is on a queue only inside its own futex_wait, once, and only on
\* the queue of the futex it holds a reference to: the list node is on the
\* waiter's stack, so a queue never points at a frame that has returned.
\* With RefcountExact this is the assert of futex_put_unlocked (an unused
\* futex has an empty queue) and the refcount assert of the requeue loops.
OnceIn(q) == \A i, j \in DOMAIN q : q[i] = q[j] => i = j
QueueSound ==
    \A a \in Addr :
        /\ OnceIn(queue[a])
        /\ \A t \in Elems(queue[a]) : t \in Waiting /\ futex[t] = a

\* A wake is neither lost nor invented: a waiter that is polling or between
\* slices has a byte in its pipe exactly when some waker has dequeued it.
WakeIffDequeued ==
    \A t \in Thread : pc[t] \in {"polling", "checking"} =>
        (Queued(t) <=> pipe[t] = 0)

\* Futexes are sound: the three together, with the types.
FutexSound == TypeOK /\ RefcountExact /\ QueueSound /\ WakeIffDequeued

\* A waiter that has not been woken has an empty pipe, whatever it is about
\* to return: the part of the inductive invariant that bounds the pipe.
QueuedPipeEmpty == \A t \in Thread : Queued(t) => pipe[t] = 0

FutexInv ==
    TypeOK /\ RefcountExact /\ QueueSound /\ WakeIffDequeued /\ QueuedPipeEmpty

\* A waiter taken off the queue by a wake returns from futex_wait.
WokenReturns ==
    \A t \in Thread :
        (t \in Waiting /\ ~Queued(t)) ~> pc[t] = "idle"

\* The periodic reload: a thread that waits forever keeps finding the value
\* it waits for.  No waiter is stranded on a word that changed for good,
\* even when no wake was sent or it was requeued away.
NoStrandedWaiter ==
    \A t \in Thread :
        <>[](pc[t] \in {"polling", "checking"}) =>
            []<>(word[uaddr[t]] = val[t])
==============================================================================
