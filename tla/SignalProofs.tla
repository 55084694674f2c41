---------------------------- MODULE SignalProofs -----------------------------
(***************************************************************************)
(* The queue, the pending set and the masks of Signal agree for every set  *)
(* of signals and programs: SignalInv is inductive.                        *)
(***************************************************************************)
EXTENDS Signal, TLAPS

\* A queue without its i-th element.
LEMMA Removed ==
  ASSUME NEW S, NEW q \in Seq(S), NEW i \in 1 .. Len(q)
  PROVE  /\ RemoveAt(q, i) \in Seq(S) /\ Len(RemoveAt(q, i)) = Len(q) - 1
         /\ \A j \in 1 .. Len(q) - 1 : RemoveAt(q, i)[j] = IF j < i THEN q[j] ELSE q[j + 1]
<1> DEFINE a == SubSeq(q, 1, i - 1)
           b == SubSeq(q, i + 1, Len(q))
<1>1. Len(q) \in Nat /\ i \in Nat
  OBVIOUS
<1>2. a \in Seq(S) /\ Len(a) = i - 1 /\ \A j \in 1 .. i - 1 : a[j] = q[j]
  BY <1>1
<1>3. b \in Seq(S) /\ Len(b) = Len(q) - i /\ \A j \in 1 .. Len(q) - i : b[j] = q[i + j]
  BY <1>1
<1> HIDE DEF a, b
<1>4. /\ a \o b \in Seq(S) /\ Len(a \o b) = Len(q) - 1
      /\ \A j \in 1 .. Len(q) - 1 : (a \o b)[j] = IF j < i THEN q[j] ELSE q[j + 1]
  <2>1. a \o b \in Seq(S) /\ Len(a \o b) = Len(q) - 1
    BY <1>1, <1>2, <1>3
  <2>2. ASSUME NEW j \in 1 .. Len(q) - 1, j < i PROVE (a \o b)[j] = q[j]
    BY <1>1, <1>2, <1>3, <2>2
  <2>3. ASSUME NEW j \in 1 .. Len(q) - 1, ~(j < i) PROVE (a \o b)[j] = q[j + 1]
    <3>1. (a \o b)[j] = b[j - (i - 1)]
      BY <1>1, <1>2, <1>3, <2>3
    <3>2. j - (i - 1) \in 1 .. Len(q) - i /\ i + (j - (i - 1)) = j + 1
      BY <1>1, <2>3
    <3>3. QED
      BY <1>3, <3>1, <3>2
  <2>4. QED
    BY <2>1, <2>2, <2>3
<1>5. QED
  BY <1>4, Zenon DEF RemoveAt, a, b

\* A queue that has everything once loses exactly the element that is removed.
LEMMA RemovedOnce ==
  ASSUME NEW S, NEW q \in Seq(S), NEW i \in 1 .. Len(q), IsInjective(q)
  PROVE  IsInjective(RemoveAt(q, i)) /\ ToSet(RemoveAt(q, i)) = ToSet(q) \ {q[i]}
<1> DEFINE r == RemoveAt(q, i)
<1>1. /\ r \in Seq(S) /\ Len(r) = Len(q) - 1
      /\ \A j \in 1 .. Len(q) - 1 : r[j] = IF j < i THEN q[j] ELSE q[j + 1]
  BY Removed
<1>2. DOMAIN r = 1 .. Len(q) - 1 /\ DOMAIN q = 1 .. Len(q) /\ Len(q) \in Nat
  BY <1>1
<1> HIDE DEF r
<1>3. \A j, k \in 1 .. Len(q) : q[j] = q[k] => j = k
  BY <1>2 DEF IsInjective
<1>4. IsInjective(r)
  BY <1>1, <1>2, <1>3 DEF IsInjective
<1>5. ASSUME NEW j \in DOMAIN r PROVE r[j] \in ToSet(q) \ {q[i]}
  BY <1>1, <1>2, <1>3 DEF ToSet
<1>6. ASSUME NEW j \in DOMAIN q, j # i PROVE q[j] \in ToSet(r)
  <2>1. CASE j < i
    BY <1>1, <1>2, <2>1 DEF ToSet
  <2>2. CASE j > i
    <3>1. j - 1 \in DOMAIN r /\ r[j - 1] = q[j]
      BY <1>1, <1>2, <2>2
    <3>2. QED
      BY <3>1 DEF ToSet
  <2>3. QED
    BY <1>2, <1>6, <2>1, <2>2
<1>7. ToSet(r) = ToSet(q) \ {q[i]}
  BY <1>5, <1>6 DEF ToSet
<1>8. QED
  BY <1>4, <1>7 DEF r

LEMMA AppendedOnce ==
  ASSUME NEW S, NEW q \in Seq(S), NEW s \in S, IsInjective(q), s \notin ToSet(q)
  PROVE  IsInjective(Append(q, s)) /\ ToSet(Append(q, s)) = ToSet(q) \cup {s}
<1>1. /\ DOMAIN q = 1 .. Len(q) /\ Len(q) \in Nat
      /\ DOMAIN Append(q, s) = 1 .. Len(q) + 1
      /\ \A j \in 1 .. Len(q) : Append(q, s)[j] = q[j]
      /\ Append(q, s)[Len(q) + 1] = s
  OBVIOUS
<1>2. \A j \in 1 .. Len(q) : q[j] # s
  BY <1>1 DEF ToSet
<1>3. IsInjective(Append(q, s))
  BY <1>1, <1>2 DEF IsInjective
<1>4. ToSet(Append(q, s)) \subseteq ToSet(q) \cup {s}
  BY <1>1 DEF ToSet
<1>5. ToSet(q) \subseteq ToSet(Append(q, s)) /\ s \in ToSet(Append(q, s))
  <2>1. Len(q) + 1 \in DOMAIN Append(q, s)
    BY <1>1
  <2>2. \A j \in DOMAIN q : j \in DOMAIN Append(q, s)
    BY <1>1
  <2>3. QED
    BY <1>1, <2>1, <2>2 DEF ToSet
<1>6. QED
  BY <1>3, <1>4, <1>5

LEMMA FrontLast ==
  ASSUME NEW S, NEW q \in Seq(S), q # <<>>
  PROVE  /\ Front(q) \in Seq(S) /\ Last(q) \in S
         /\ Front(q) = <<>> <=> Len(q) = 1
         /\ Front(q) # <<>> => Front(q)[1] = q[1]
<1> DEFINE m == Len(q) - 1
           r == SubSeq(q, 1, m)
<1>1. Len(q) \in Nat \ {0} /\ q[Len(q)] \in S /\ m \in Nat /\ m <= Len(q)
  OBVIOUS
<1> HIDE DEF m
<1>2. r \in Seq(S) /\ Len(r) = m /\ \A j \in 1 .. m : r[j] = q[j]
  BY <1>1
<1> HIDE DEF r
<1>3. r = <<>> <=> Len(q) = 1
  BY <1>1, <1>2 DEF m
<1>4. r # <<>> => r[1] = q[1]
  BY <1>1, <1>2, <1>3
<1>5. QED
  BY <1>1, <1>2, <1>3, <1>4 DEF m, r, Front, Last

LEMMA AppendFirst ==
  ASSUME NEW S, NEW q \in Seq(S), NEW s \in S
  PROVE  /\ Append(q, s) \in Seq(S) /\ Append(q, s) # <<>>
         /\ Append(q, s)[1] = IF q = <<>> THEN s ELSE q[1]
<1>1. Len(q) \in Nat /\ Append(q, s) \in Seq(S) /\ Len(Append(q, s)) = Len(q) + 1
  OBVIOUS
<1>2. Append(q, s) # <<>>
  BY <1>1
<1>3. CASE q = <<>>
  BY <1>1, <1>2, <1>3
<1>4. CASE q # <<>>
  <2>1. 1 \in 1 .. Len(q)
    BY <1>1, <1>4
  <2>2. QED
    BY <1>1, <1>2, <1>4, <2>1
<1>5. QED
  BY <1>3, <1>4
------------------------------------------------------------------------------
LEMMA SignalStarts == Init => SignalInv
<1> SUFFICES ASSUME Init PROVE SignalInv
  OBVIOUS
<1>1. action \in [Sig -> Action]
  BY DEF Init, SIG_DFL, Action
<1>2. TypeOK
  <2>1. <<>> \in Seq(Sig) /\ <<>> \in Seq([sig : Sig, mask : SUBSET Sig]) /\ 0 \in 0 .. Len(<<>>)
    OBVIOUS
  <2>2. QED
    BY <1>1, <2>1, Zenon DEF Init, TypeOK
<1>3. PendingIsQueued
  BY DEF Init, PendingIsQueued, ToSet, IsInjective
<1>4. MaskKept /\ Walked /\ InCall
  BY DEF Init, MaskKept, Walked, InCall
<1>5. QED
  BY <1>2, <1>3, <1>4 DEF SignalInv

\* What a program passes is made of signals there are.
LEMMA ProgramSound ==
  ASSUME TypeOK
  PROVE  prog.sig \subseteq Sig /\ prog.actions \subseteq Action
         /\ ("fault" \in prog.calls => "SIGSEGV" \in prog.sig)
BY SignalConstants DEF TypeOK, Program

\* Calls and turns of their loops that change neither the queue nor a mask.
LEMMA QuietKeeps ==
  ASSUME SignalInv,
         \/ sys_pause \/ Interrupt \/ ppoll \/ pause_loop \/ signalfd_nonblock
         \/ sigtimedwait_timeout
         \/ \E m \in SUBSET prog.sig : sys_rt_sigtimedwait(m) \/ signalfd_read(m)
  PROVE  SignalInv'
<1>1. /\ UNCHANGED <<prog, keep, seen, blocked, saved_mask, frames, base, pending, queue, action>>
      /\ pc' \in {"user", "leave", "pause", "sigtimedwait", "signalfd"}
      /\ pc \notin {"receive", "dead", "self_lock", "spin"}
      /\ pc' = "user" => pc = "user"
      /\ saved_mask # {} => pc' \in {"leave", "pause"}
      /\ pc' = "sigtimedwait" => "sigtimedwait" \in prog.calls
  BY DEF sys_pause, Interrupt, ppoll, pause_loop, signalfd_nonblock, sigtimedwait_timeout,
         sys_rt_sigtimedwait, signalfd_read, Call, cvars, pvars, mvars, SignalInv, MaskKept
<1>2. /\ set' \subseteq Sig /\ waiting' \subseteq Sig /\ asleep' \in BOOLEAN
      /\ asleep' => pc' \in {"pause", "sigtimedwait", "signalfd"}
      /\ pc' # "sigtimedwait" => waiting' = {}
  <2>1. CASE \/ sys_pause \/ Interrupt \/ ppoll \/ pause_loop \/ signalfd_nonblock
             \/ sigtimedwait_timeout
    <3>1. set' \subseteq Sig /\ waiting' \subseteq Sig /\ (pc' # "sigtimedwait" => waiting' = {})
      BY <2>1 DEF sys_pause, Interrupt, ppoll, pause_loop, signalfd_nonblock,
           sigtimedwait_timeout, Call, pvars, SignalInv, TypeOK
    <3>2. asleep' \in BOOLEAN
      BY <2>1, Zenon DEF sys_pause, Interrupt, ppoll, pause_loop, signalfd_nonblock,
           sigtimedwait_timeout, Call, pvars, SignalInv, TypeOK
    <3>3. asleep' = TRUE => pc' \in {"pause", "sigtimedwait", "signalfd"}
      BY <2>1, Zenon DEF sys_pause, Interrupt, ppoll, pause_loop, signalfd_nonblock,
           sigtimedwait_timeout, Call, pvars, SignalInv, TypeOK
    <3>4. QED
      BY <3>1, <3>2, <3>3
  <2>2. ASSUME NEW m \in SUBSET prog.sig, sys_rt_sigtimedwait(m) \/ signalfd_read(m)
        PROVE  /\ set' \subseteq Sig /\ waiting' \subseteq Sig /\ asleep' \in BOOLEAN
               /\ asleep' => pc' \in {"pause", "sigtimedwait", "signalfd"}
               /\ pc' # "sigtimedwait" => waiting' = {}
    <3>1. m \subseteq Sig
      BY ProgramSound DEF SignalInv
    <3>2. QED
      BY <2>2, <3>1 DEF sys_rt_sigtimedwait, signalfd_read, Call, pvars, SignalInv, TypeOK
  <2>3. QED
    BY <2>1, <2>2
<1>3. TypeOK'
  BY <1>1, <1>2 DEF SignalInv, TypeOK
<1>4. PendingIsQueued'
  BY <1>1 DEF SignalInv, PendingIsQueued
<1>5. MaskKept' /\ Walked' /\ InCall'
  BY <1>1 DEF SignalInv, MaskKept, Walked, InCall
<1>6. QED
  BY <1>3, <1>4, <1>5 DEF SignalInv

LEMMA ActionKeeps ==
  ASSUME SignalInv, NEW s \in prog.sig, NEW a \in prog.actions, do_sigaction(s, a)
  PROVE  SignalInv'
<1>1. /\ UNCHANGED <<prog, keep, seen, blocked, saved_mask, frames, base, pending, queue,
                     set, waiting, asleep>>
      /\ pc = "user" /\ pc' = "leave" /\ action' = [action EXCEPT ![s] = a]
  BY DEF do_sigaction, Call, pvars, mvars
<1>2. TypeOK'
  BY <1>1, ProgramSound DEF SignalInv, TypeOK
<1>3. PendingIsQueued'
  BY <1>1 DEF SignalInv, PendingIsQueued
<1>4. MaskKept' /\ Walked' /\ InCall'
  BY <1>1 DEF SignalInv, MaskKept, Walked, InCall
<1>5. QED
  BY <1>2, <1>3, <1>4 DEF SignalInv

LEMMA MaskKeeps ==
  ASSUME SignalInv, NEW m \in SUBSET prog.sig,
         NEW how \in {"SIG_BLOCK", "SIG_UNBLOCK", "SIG_SETMASK"}, do_sigprocmask(how, m)
  PROVE  SignalInv'
<1>1. /\ UNCHANGED <<prog, keep, seen, saved_mask, frames, pending, queue, set, waiting,
                     asleep, action>>
      /\ pc = "user" /\ pc' = "leave"
      /\ base' = IF frames = <<>> THEN blocked' ELSE base
      /\ blocked' \subseteq Sig /\ blocked' \cap UNBLOCKABLE_MASK = {}
  BY ProgramSound, Zenon DEF do_sigprocmask, Call, pvars, sigmask_set, SignalInv, TypeOK
<1>2. TypeOK'
  BY <1>1 DEF SignalInv, TypeOK
<1>3. PendingIsQueued'
  BY <1>1 DEF SignalInv, PendingIsQueued
<1>4. MaskKept' /\ Walked' /\ InCall'
  BY <1>1 DEF SignalInv, MaskKept, Walked, InCall
<1>5. QED
  BY <1>2, <1>3, <1>4 DEF SignalInv

LEMMA TemporaryKeeps ==
  ASSUME SignalInv, NEW m \in SUBSET prog.sig, sys_rt_sigsuspend(m) \/ sigmask_set_temp(m)
  PROVE  SignalInv'
<1>1. /\ UNCHANGED <<prog, keep, seen, base, frames, pending, queue, set, waiting, asleep, action>>
      /\ pc = "user" /\ pc' \in {"pause", "ppoll"}
      /\ saved_mask' = {blocked} /\ blocked' \subseteq Sig
  BY ProgramSound
  DEF sys_rt_sigsuspend, sigmask_set_temp, sigmask_set_temp_unlocked, Call, pvars, sigmask_set,
      SignalInv, TypeOK
<1>2. TypeOK'
  BY <1>1 DEF SignalInv, TypeOK
<1>3. PendingIsQueued'
  BY <1>1 DEF SignalInv, PendingIsQueued
<1>4. MaskKept' /\ Walked' /\ InCall'
  BY <1>1 DEF SignalInv, MaskKept, Walked, InCall
<1>5. QED
  BY <1>2, <1>3, <1>4 DEF SignalInv

LEMMA ReturnKeeps ==
  ASSUME SignalInv, sys_rt_sigreturn
  PROVE  SignalInv'
<1> DEFINE n == Len(frames)
<1>1. /\ UNCHANGED <<prog, keep, seen, base, saved_mask, pending, queue, set, waiting, asleep, action>>
      /\ pc = "user" /\ pc' = "leave" /\ frames # <<>>
      /\ blocked' = frames[n].mask \ UNBLOCKABLE_MASK /\ frames' = SubSeq(frames, 1, n - 1)
  BY DEF sys_rt_sigreturn, sigmask_set, Last, Front, pvars
<1>2. frames \in Seq([sig : Sig, mask : SUBSET Sig]) /\ n \in Nat \ {0}
  BY <1>1 DEF SignalInv, TypeOK
<1>3. /\ frames' \in Seq([sig : Sig, mask : SUBSET Sig]) /\ frames[n].mask \subseteq Sig
      /\ frames' = <<>> <=> n = 1
      /\ frames' # <<>> => frames'[1] = frames[1]
  <2> DEFINE F == [sig : Sig, mask : SUBSET Sig]
  <2>1. \A f \in F : f.mask \subseteq Sig
    OBVIOUS
  <2>2. frames \in Seq(F) /\ frames # <<>> /\ frames' = Front(frames) /\ frames[n] = Last(frames)
    BY <1>1, <1>2 DEF Front, Last
  <2> HIDE DEF F
  <2>3. /\ frames' \in Seq(F) /\ frames[n] \in F
        /\ frames' = <<>> <=> n = 1
        /\ frames' # <<>> => frames'[1] = frames[1]
    BY <2>2, FrontLast
  <2>4. QED
    BY <2>1, <2>3 DEF F
<1>4. saved_mask = {}
  BY <1>1 DEF SignalInv, MaskKept
<1>5. TypeOK'
  BY <1>1, <1>3 DEF SignalInv, TypeOK
<1>6. PendingIsQueued'
  BY <1>1 DEF SignalInv, PendingIsQueued
<1>7. MaskKept' /\ Walked' /\ InCall'
  BY <1>1, <1>3, <1>4 DEF SignalInv, MaskKept, Walked, InCall
<1>8. QED
  BY <1>5, <1>6, <1>7 DEF SignalInv
------------------------------------------------------------------------------
LEMMA DeliverKeeps ==
  ASSUME SignalInv, NEW s \in Sig, deliver_signal_unlocked(s),
         UNCHANGED <<prog, set, keep, seen, blocked, saved_mask, frames, base, waiting, action>>,
         pc' = pc \/ (pc = "user" /\ pc' = "leave"),
         pc # "receive"
  PROVE  SignalInv'
<1>1. CASE s \in pending
  <2>1. UNCHANGED <<pending, queue, asleep>>
    BY <1>1 DEF deliver_signal_unlocked
  <2>2. TypeOK'
    BY <2>1 DEF SignalInv, TypeOK
  <2>3. PendingIsQueued'
    BY <2>1 DEF SignalInv, PendingIsQueued
  <2>4. MaskKept' /\ Walked' /\ InCall'
    BY <2>1 DEF SignalInv, MaskKept, Walked, InCall
  <2>5. QED
    BY <2>2, <2>3, <2>4 DEF SignalInv
<1>2. CASE s \notin pending
  <2>1. pending' = pending \cup {s} /\ queue' = Append(queue, s) /\ asleep' = FALSE
    BY <1>2 DEF deliver_signal_unlocked
  <2>2. queue \in Seq(Sig) /\ seen \in 0 .. Len(queue) /\ Len(queue) \in Nat
    BY DEF SignalInv, TypeOK
  <2>3. /\ Append(queue, s) \in Seq(Sig) /\ Len(Append(queue, s)) = Len(queue) + 1
        /\ \A i \in 1 .. Len(queue) : Append(queue, s)[i] = queue[i]
    BY <2>2
  <2>4. queue' \in Seq(Sig) /\ seen' \in 0 .. Len(queue')
    BY <2>1, <2>2, <2>3
  <2>5. TypeOK'
    BY <2>1, <2>4, Zenon DEF SignalInv, TypeOK
  <2>6. PendingIsQueued'
    <3> SUFFICES ASSUME "sigtimedwait" \notin prog.calls
                 PROVE  pending' = ToSet(queue') /\ IsInjective(queue')
      BY DEF PendingIsQueued
    <3>1. pending = ToSet(queue) /\ IsInjective(queue)
      BY DEF SignalInv, PendingIsQueued
    <3>2. QED
      BY <1>2, <2>1, <2>2, <3>1, AppendedOnce
  <2>7. MaskKept'
    BY <2>1 DEF SignalInv, MaskKept
  <2>8. Walked' /\ InCall'
    <3>1. \A i \in 1 .. seen : queue'[i] = queue[i]
      BY <2>1, <2>2, <2>3
    <3>2. QED
      BY <2>1, <3>1, Zenon DEF SignalInv, Walked, InCall
  <2>9. QED
    BY <2>5, <2>6, <2>7, <2>8 DEF SignalInv
<1>3. QED
  BY <1>1, <1>2

LEMMA SendKeeps ==
  ASSUME SignalInv, NEW s \in prog.sig, send_signal(s)
  PROVE  SignalInv'
<1>1. s \in Sig
  BY ProgramSound DEF SignalInv
<1>2. /\ deliver_signal_unlocked(s) /\ pc' = pc /\ pc # "receive"
      /\ UNCHANGED <<prog, set, keep, seen, blocked, saved_mask, frames, base, waiting, action>>
  BY DEF send_signal, LockFree, mvars
<1>3. QED
  BY <1>1, <1>2, DeliverKeeps

LEMMA FaultKeeps ==
  ASSUME SignalInv, deliver_signal
  PROVE  SignalInv'
<1>1. "SIGSEGV" \in Sig
  BY ProgramSound DEF SignalInv, deliver_signal
<1>2. /\ deliver_signal_unlocked("SIGSEGV") /\ pc = "user" /\ pc' = "leave"
      /\ UNCHANGED <<prog, set, keep, seen, blocked, saved_mask, frames, base, waiting, action>>
  BY DEF deliver_signal, mvars
<1>3. QED
  BY <1>1, <1>2, DeliverKeeps

LEMMA TimedWaitKeeps ==
  ASSUME SignalInv, sigtimedwait_loop
  PROVE  SignalInv'
<1>1. /\ UNCHANGED <<prog, keep, seen, blocked, saved_mask, frames, base, pending, action>>
      /\ pc = "sigtimedwait" /\ pc' \in {"leave", "sigtimedwait"}
      /\ set' \subseteq Sig /\ waiting' \subseteq Sig
      /\ asleep' \in BOOLEAN
      /\ asleep' => pc' = "sigtimedwait"
      /\ pc' # "sigtimedwait" => waiting' = {}
  BY Zenon DEF sigtimedwait_loop, mvars, SignalInv, TypeOK
<1>2. queue' = queue \/ \E i \in 1 .. Len(queue) : queue' = RemoveAt(queue, i)
  BY DEF sigtimedwait_loop, SignalInv, TypeOK
<1>3. queue' \in Seq(Sig) /\ seen = 0 /\ seen \in 0 .. Len(queue')
  BY <1>1, <1>2, Removed DEF SignalInv, TypeOK, Walked
<1>4. TypeOK'
  BY <1>1, <1>3 DEF SignalInv, TypeOK
<1>5. PendingIsQueued'
  BY <1>1 DEF SignalInv, InCall, PendingIsQueued
<1>6. MaskKept'
  BY <1>1 DEF SignalInv, MaskKept
<1>7. Walked' /\ InCall'
  BY <1>1, <1>3 DEF SignalInv, Walked, InCall
<1>8. QED
  BY <1>4, <1>5, <1>6, <1>7 DEF SignalInv

LEMMA SignalfdKeeps ==
  ASSUME SignalInv, signalfd_loop
  PROVE  SignalInv'
<1>1. /\ UNCHANGED <<prog, keep, seen, blocked, saved_mask, frames, base, waiting, action>>
      /\ pc = "signalfd" /\ pc' \in {"leave", "spin", "signalfd"}
      /\ seen = 0
  BY DEF signalfd_loop, mvars, SignalInv, Walked
<1>2. /\ set' \subseteq Sig /\ asleep' \in BOOLEAN
      /\ asleep' => pc' = "signalfd"
      /\ waiting = {}
  <2>1. set' \subseteq Sig /\ waiting = {}
    BY DEF signalfd_loop, SignalInv, TypeOK
  <2>2. asleep' \in BOOLEAN
    BY Zenon DEF signalfd_loop, SignalInv, TypeOK
  <2>3. asleep' = TRUE => pc' = "signalfd"
    BY Zenon DEF signalfd_loop, SignalInv, TypeOK
  <2>4. QED
    BY <2>1, <2>2, <2>3
<1>3. \/ UNCHANGED <<queue, pending>>
      \/ \E i \in 1 .. Len(queue) : queue' = RemoveAt(queue, i) /\ pending' = pending \ {queue[i]}
  BY DEF signalfd_loop, SignalInv, TypeOK
<1>4. queue \in Seq(Sig) /\ queue' \in Seq(Sig) /\ pending' \subseteq Sig
  BY <1>3, Removed DEF SignalInv, TypeOK
<1>5. seen' \in 0 .. Len(queue')
  BY <1>1, <1>4
<1>6. TypeOK'
  BY <1>1, <1>2, <1>4, <1>5 DEF SignalInv, TypeOK
<1>7. PendingIsQueued'
  BY <1>1, <1>3, <1>4, RemovedOnce, Zenon DEF SignalInv, PendingIsQueued
<1>8. MaskKept' /\ Walked' /\ InCall'
  BY <1>1 DEF SignalInv, MaskKept, Walked, InCall
<1>9. QED
  BY <1>6, <1>7, <1>8 DEF SignalInv
------------------------------------------------------------------------------
LEMMA ReceiveStarts ==
  ASSUME SignalInv, receive_signals
  PROVE  SignalInv'
<1>1. /\ UNCHANGED <<prog, set, asleep, seen, frames, base, pending, queue, waiting, action>>
      /\ pc = "leave" /\ pc' = "receive" /\ saved_mask' = {} /\ seen = 0
      /\ saved_mask = {} => blocked' = blocked /\ keep' = blocked
      /\ saved_mask # {} => blocked' = UNION saved_mask /\ keep' = blocked \cap UNION saved_mask
  BY DEF receive_signals, SignalInv, Walked
<1>2. blocked' \subseteq Sig /\ keep' \subseteq Sig
  BY <1>1 DEF SignalInv, TypeOK
<1>3. saved_mask = {base} => UNION saved_mask = base
  OBVIOUS
<1>4. TypeOK'
  BY <1>1, <1>2 DEF SignalInv, TypeOK
<1>5. PendingIsQueued'
  BY <1>1 DEF SignalInv, PendingIsQueued
<1>6. MaskKept'
  BY <1>1, <1>3, Zenon DEF SignalInv, MaskKept
<1>7. Walked' /\ InCall'
  BY <1>1 DEF SignalInv, Walked, InCall
<1>8. QED
  BY <1>4, <1>5, <1>6, <1>7 DEF SignalInv

LEMMA ReceiveEnds ==
  ASSUME SignalInv, receive_end
  PROVE  SignalInv'
<1>1. /\ UNCHANGED <<prog, set, asleep, mvars, blocked, saved_mask, frames, base, pending, queue,
                     waiting, action>>
      /\ pc = "receive" /\ pc' = "user" /\ keep' = {} /\ seen' = 0
  BY DEF receive_end, mvars
<1>2. seen' \in 0 .. Len(queue')
  BY <1>1 DEF SignalInv, TypeOK
<1>3. TypeOK'
  BY <1>1, <1>2 DEF SignalInv, TypeOK
<1>4. PendingIsQueued'
  BY <1>1 DEF SignalInv, PendingIsQueued
<1>5. MaskKept' /\ Walked' /\ InCall'
  BY <1>1 DEF SignalInv, MaskKept, Walked, InCall
<1>6. QED
  BY <1>3, <1>4, <1>5 DEF SignalInv

LEMMA ReceiveOneKeeps ==
  ASSUME SignalInv, NEW bad, receive_one(bad)
  PROVE  SignalInv'
<1> DEFINE s == queue[seen + 1]
<1>1. /\ pc = "receive" /\ seen \in Nat /\ seen + 1 \in 1 .. Len(queue) /\ queue \in Seq(Sig)
      /\ UNCHANGED <<prog, set, asleep, keep, saved_mask, base, waiting>>
  BY DEF receive_one, SignalInv, TypeOK
<1>2. saved_mask = {} /\ s \in Sig
  BY <1>1 DEF SignalInv, MaskKept
<1> HIDE DEF s
<1>3. CASE s \in keep
  <2>1. seen' = seen + 1 /\ UNCHANGED <<pc, pending, queue, blocked, frames, action>>
    BY <1>3 DEF receive_one, s
  <2>2. seen' \in 0 .. Len(queue')
    BY <1>1, <2>1
  <2>3. TypeOK'
    BY <1>1, <2>1, <2>2 DEF SignalInv, TypeOK
  <2>4. PendingIsQueued'
    BY <1>1, <2>1 DEF SignalInv, PendingIsQueued
  <2>5. MaskKept' /\ InCall'
    BY <1>1, <2>1 DEF SignalInv, MaskKept, InCall
  <2>6. Walked'
    <3>1. \A i \in 1 .. seen + 1 : queue[i] \in keep
      BY <1>1, <1>3 DEF SignalInv, Walked, s
    <3>2. QED
      BY <1>1, <2>1, <3>1 DEF Walked
  <2>7. QED
    BY <2>3, <2>4, <2>5, <2>6 DEF SignalInv
<1>4. CASE s \notin keep
  <2>1. /\ seen' = seen /\ queue' = RemoveAt(queue, seen + 1) /\ pending' = pending \ {s}
        /\ receive_signal(s, bad)
    BY <1>4 DEF receive_one, s
  <2>2. /\ queue' \in Seq(Sig) /\ Len(queue') = Len(queue) - 1
        /\ \A i \in 1 .. seen : queue'[i] = queue[i]
    BY <1>1, <2>1, Removed
  <2>3. seen' \in 0 .. Len(queue')
    BY <1>1, <2>1, <2>2
  <2>4. /\ pc' \in {"receive", "dead", "self_lock"}
        /\ \/ UNCHANGED <<blocked, frames, action>>
           \/ /\ frames' = Append(frames, [sig |-> s, mask |-> blocked])
              /\ blocked' = blocked \cup action[s].mask \cup (IF action[s].nodefer THEN {} ELSE {s})
              /\ action' = action \/ action' = [action EXCEPT ![s] = SIG_DFL]
    BY <1>1, <2>1 DEF receive_signal
  <2>5. action' \in [Sig -> Action]
    <3>1. SIG_DFL \in Action
      BY DEF SIG_DFL, Action
    <3>2. QED
      BY <1>2, <2>4, <3>1 DEF SignalInv, TypeOK
  <2>6. blocked' \subseteq Sig
    <3>1. action[s].mask \subseteq Sig
      BY <1>2 DEF SignalInv, TypeOK, Action
    <3>2. QED
      BY <1>2, <2>4, <3>1 DEF SignalInv, TypeOK
  <2>7. /\ frames' \in Seq([sig : Sig, mask : SUBSET Sig])
        /\ frames' = <<>> => frames = <<>> /\ blocked' = blocked
        /\ frames' # <<>> => frames'[1].mask = IF frames = <<>> THEN blocked ELSE frames[1].mask
    <3> DEFINE F == [sig : Sig, mask : SUBSET Sig]
               f == [sig |-> s, mask |-> blocked]
    <3>1. f \in F /\ frames \in Seq(F) /\ f.mask = blocked
      BY <1>2 DEF SignalInv, TypeOK
    <3> HIDE DEF F, f
    <3>2. /\ Append(frames, f) \in Seq(F) /\ Append(frames, f) # <<>>
          /\ Append(frames, f)[1] = IF frames = <<>> THEN f ELSE frames[1]
      BY <3>1, AppendFirst
    <3>3. (frames' = frames /\ blocked' = blocked) \/ frames' = Append(frames, f)
      BY <2>4 DEF f
    <3>4. QED
      BY <3>1, <3>2, <3>3, Zenon DEF F
  <2>8. TypeOK'
    BY <1>1, <2>1, <2>2, <2>3, <2>4, <2>5, <2>6, <2>7, Zenon DEF SignalInv, TypeOK
  <2>9. PendingIsQueued'
    BY <1>1, <2>1, RemovedOnce DEF SignalInv, PendingIsQueued, s
  <2>10. MaskKept'
    BY <1>1, <1>2, <2>7 DEF SignalInv, MaskKept
  <2>11. Walked' /\ InCall'
    BY <1>1, <2>1, <2>2, <2>4 DEF SignalInv, Walked, InCall
  <2>12. QED
    BY <2>8, <2>9, <2>10, <2>11 DEF SignalInv
<1>5. QED
  BY <1>3, <1>4
------------------------------------------------------------------------------
LEMMA SignalStep == SignalInv /\ [Next]_vars => SignalInv'
<1> SUFFICES ASSUME SignalInv, [Next]_vars PROVE SignalInv'
  OBVIOUS
<1>1. CASE UNCHANGED vars
  <2>1. UNCHANGED <<prog, pc, set, asleep, keep, seen, blocked, saved_mask, frames, base,
                    pending, queue, waiting, action>>
    BY <1>1 DEF vars, cvars, mvars
  <2>2. QED
    BY <2>1, Zenon DEF SignalInv, TypeOK, PendingIsQueued, MaskKept, Walked, InCall
<1>2. CASE \E s \in prog.sig : send_signal(s)
  BY <1>2, SendKeeps
<1>3. CASE Syscall
  BY <1>3, ReturnKeeps, QuietKeeps, FaultKeeps, ActionKeeps, MaskKeeps, TemporaryKeeps DEF Syscall
<1>4. CASE InKernel
  BY <1>1, <1>4, QuietKeeps, TimedWaitKeeps, SignalfdKeeps, ReceiveStarts, ReceiveEnds,
     ReceiveOneKeeps, Zenon DEF InKernel, spin
<1>5. CASE Interrupt \/ sigtimedwait_timeout \/ Dead
  BY <1>1, <1>5, QuietKeeps DEF Dead
<1>6. QED
  BY <1>1, <1>2, <1>3, <1>4, <1>5 DEF Next

\* For every set of signals and every program: the queue has exactly the pending
\* signals, each once, unless the program calls sigtimedwait; and the mask that
\* the program chose comes back after handlers, sigsuspend and ppoll, however they
\* are nested and interrupted (kernel/signal.c).
THEOREM SignalsAreSound == Spec => []SignalSound
<1>1. SignalInv => SignalSound
  BY DEF SignalInv, SignalSound, MaskRestored, MaskKept
<1>2. QED
  BY SignalStarts, SignalStep, <1>1, PTL DEF Spec

\* In a program that does not call sigtimedwait receive_signals leaves nothing
\* behind that it may deliver: when it returns, everything pending was blocked
\* during the call and still is.
THEOREM SignalsReceived ==
  Spec => [][pc = "receive" /\ pc' = "user" /\ "sigtimedwait" \notin prog.calls
                => pending' \subseteq keep]_vars
<1>1. ASSUME SignalInv, [Next]_vars
      PROVE  [pc = "receive" /\ pc' = "user" /\ "sigtimedwait" \notin prog.calls
                => pending' \subseteq keep]_vars
  <2> SUFFICES ASSUME Next, pc = "receive", pc' = "user", "sigtimedwait" \notin prog.calls
               PROVE  pending' \subseteq keep
    BY <1>1
  <2>1. receive_end
    BY Zenon DEF Next, send_signal, LockFree, Syscall, InKernel, sys_rt_sigreturn, sys_pause,
       deliver_signal, do_sigaction, do_sigprocmask, sys_rt_sigsuspend, sys_rt_sigtimedwait,
       signalfd_read, sigmask_set_temp, Call, ppoll, pause_loop, sigtimedwait_loop,
       signalfd_loop, spin, signalfd_nonblock, receive_signals, receive_one, receive_signal,
       Interrupt, sigtimedwait_timeout, Dead
  <2>2. pending = ToSet(queue) /\ queue \in Seq(Sig) /\ seen = Len(queue) /\ pending' = pending
    BY <1>1, <2>1 DEF SignalInv, PendingIsQueued, TypeOK, receive_end
  <2>3. \A i \in DOMAIN queue : queue[i] \in keep
    BY <1>1, <2>2 DEF SignalInv, Walked
  <2>4. QED
    BY <2>2, <2>3 DEF ToSet
<1>2. QED
  BY SignalStarts, SignalStep, <1>1, PTL DEF Spec
=============================================================================
