------------------------------- MODULE Signal -------------------------------
(***************************************************************************)
(* kernel/signal.c: the signals of one task.  Everything here runs under   *)
(* sighand->lock, so each handler is one step; receive_signals is one step *)
(* per queued signal with the lock held, and a blocking call sleeps on     *)
(* task->pause and is one step per turn of its loop.  That a delivered     *)
(* signal does wake such a sleep is the subject of WaitFor, stops and      *)
(* tracing that of Jobs.                                                   *)
(***************************************************************************)
EXTENDS Integers, SequencesExt

CONSTANTS Sig,        \* names of signals
          Programs,   \* what the task may be running, see Program
          MaxFrames   \* bound on queued signals and frames

Action == [handler : {"SIG_DFL", "SIG_IGN", "handler"}, nodefer : BOOLEAN,
           resethand : BOOLEAN, mask : SUBSET Sig]
SIG_DFL == [handler |-> "SIG_DFL", nodefer |-> FALSE, resethand |-> FALSE, mask |-> {}]

\* The signals a program meets, the system calls it makes, what it passes to
\* sigaction, and whether writing a signal frame may fault.
Program == [sig : SUBSET Sig,
            calls : SUBSET {"sigaction", "sigprocmask", "pause", "sigsuspend",
                            "sigtimedwait", "signalfd", "ppoll", "fault"},
            actions : SUBSET Action, bad_stack : BOOLEAN]

ASSUME SignalConstants ==
    /\ Programs \subseteq Program /\ MaxFrames \in Nat
    /\ \A p \in Programs : "fault" \in p.calls => "SIGSEGV" \in p.sig

VARIABLES prog,         \* the program the task runs
          pc,           \* where the task is
          set,          \* the argument of the blocking call it is in
          asleep,       \* waiting on task->pause
          pending, queue, blocked, waiting,
          saved_mask,   \* {} or the one saved mask
          keep, seen,   \* receive_signals: its mask, and how far it is in the queue
          action,       \* sighand->action
          frames,       \* signal frames on the guest stack
          base          \* history: the mask the program chose outside handlers

cvars == <<prog, pc, set, asleep, keep, seen>>
pvars == <<prog, asleep, keep, seen>>
mvars == <<blocked, saved_mask, frames, base>>
vars == <<cvars, mvars, pending, queue, waiting, action>>

UNBLOCKABLE_MASK == {"SIGKILL", "SIGSTOP"}
signal_is_blockable(s) == s \notin UNBLOCKABLE_MASK

Init ==
    /\ prog \in Programs
    /\ pc = "user" /\ set = {} /\ asleep = FALSE
    /\ pending = {} /\ queue = <<>> /\ blocked = {} /\ waiting = {}
    /\ saved_mask = {} /\ frames = <<>> /\ base = {} /\ keep = {} /\ seen = 0
    /\ action = [s \in Sig |-> SIG_DFL]

\* In the last two states the task keeps sighand->lock for ever.
LockFree == pc \notin {"receive", "spin", "self_lock"}
------------------------------------------------------------------------------
(* Sending.                                                                *)

signal_action(s) ==
    CASE signal_is_blockable(s) /\ action[s].handler = "SIG_IGN" -> "SIGNAL_IGNORE"
      [] signal_is_blockable(s) /\ action[s].handler = "handler" -> "SIGNAL_CALL_HANDLER"
      [] OTHER -> CASE s \in {"SIGURG", "SIGCONT", "SIGCHLD", "SIGIO", "SIGWINCH"} -> "SIGNAL_IGNORE"
                    [] s \in {"SIGSTOP", "SIGTSTP", "SIGTTIN", "SIGTTOU"} -> "SIGNAL_STOP"
                    [] OTHER -> "SIGNAL_KILL"

\* A pending signal is not queued twice.  Blocked or not, the task is woken:
\* through task->pause or through task->waiting_cond.
deliver_signal_unlocked(s) ==
    IF s \in pending
    THEN UNCHANGED <<pending, queue, asleep>>
    ELSE /\ pending' = pending \cup {s} /\ queue' = Append(queue, s)
         /\ asleep' = FALSE

\* The bound: only SIGKILL, which needs no frame, is sent beyond it.
Room(s) == s = "SIGKILL" \/ Len(queue) + Len(frames) < MaxFrames

send_signal(s) ==
    /\ LockFree /\ pc # "dead" /\ Room(s)
    /\ signal_action(s) # "SIGNAL_IGNORE"
    /\ deliver_signal_unlocked(s)
    /\ UNCHANGED <<prog, pc, set, keep, seen, mvars, waiting, action>>

\* deliver_signal, for a fault of the task itself: even if it is ignored.
deliver_signal ==
    /\ "fault" \in prog.calls /\ pc = "user" /\ Room("SIGSEGV")
    /\ deliver_signal_unlocked("SIGSEGV") /\ pc' = "leave"
    /\ UNCHANGED <<prog, set, keep, seen, mvars, waiting, action>>
------------------------------------------------------------------------------
(* System calls that do not block.                                         *)

Call(c) == pc = "user" /\ c \in prog.calls

do_sigaction(s, a) ==
    /\ Call("sigaction") /\ signal_is_blockable(s) /\ pc' = "leave"
    /\ action' = [action EXCEPT ![s] = a]
    /\ UNCHANGED <<pvars, set, mvars, pending, queue, waiting>>

\* Mutant: SIGKILL can be blocked.
sigmask_set_any(m) == blocked' = m
sigmask_set(m) == blocked' = m \ UNBLOCKABLE_MASK

do_sigprocmask(how, m) ==
    /\ Call("sigprocmask") /\ pc' = "leave"
    /\ CASE how = "SIG_BLOCK" -> sigmask_set(blocked \cup m)
         [] how = "SIG_UNBLOCK" -> sigmask_set(blocked \ m)
         [] how = "SIG_SETMASK" -> sigmask_set(m)
    /\ base' = IF frames = <<>> THEN blocked' ELSE base
    /\ UNCHANGED <<pvars, set, saved_mask, frames, pending, queue, waiting, action>>

sys_rt_sigreturn ==
    /\ pc = "user" /\ frames # <<>> /\ pc' = "leave"
    /\ sigmask_set(Last(frames).mask) /\ frames' = Front(frames)
    /\ UNCHANGED <<pvars, set, saved_mask, base, pending, queue, waiting, action>>

\* A timer interrupt, or a call that has nothing to do with signals.
Interrupt ==
    /\ pc = "user" /\ pc' = "leave"
    /\ UNCHANGED <<pvars, set, mvars, pending, queue, waiting, action>>
------------------------------------------------------------------------------
(* Blocking calls.                                                         *)

sigmask_set_temp_unlocked(m) ==
    /\ saved_mask' = {blocked} /\ sigmask_set(m)

\* ppoll, pselect, epoll_pwait: the wait itself is in fs/poll.c; whatever its
\* result the task leaves the kernel.
sigmask_set_temp(m) ==
    /\ Call("ppoll") /\ sigmask_set_temp_unlocked(m)
    /\ pc' = "ppoll"
    /\ UNCHANGED <<pvars, set, frames, base, pending, queue, waiting, action>>
ppoll ==
    /\ pc = "ppoll" /\ pc' = "leave"
    /\ UNCHANGED <<pvars, set, mvars, pending, queue, waiting, action>>

\* What wait_for sees.
is_signal_pending == pending \ blocked # {}

sys_pause ==
    /\ Call("pause") /\ pc' = "pause"
    /\ UNCHANGED <<pvars, set, mvars, pending, queue, waiting, action>>
sys_rt_sigsuspend(m) ==
    /\ Call("sigsuspend") /\ sigmask_set_temp_unlocked(m) /\ pc' = "pause"
    /\ UNCHANGED <<pvars, set, frames, base, pending, queue, waiting, action>>
\* while (wait_for(...) != _EINTR) continue
pause_loop ==
    /\ pc = "pause" /\ ~asleep
    /\ IF is_signal_pending THEN pc' = "leave" /\ UNCHANGED asleep
                            ELSE asleep' = TRUE /\ UNCHANGED pc
    /\ UNCHANGED <<prog, set, keep, seen, mvars, pending, queue, waiting, action>>

\* The first queued signal that is in m is the i-th.
Wanted(m, i) == queue[i] \in m /\ \A j \in 1 .. i - 1 : queue[j] \notin m
NoneWanted(m) == \A i \in DOMAIN queue : queue[i] \notin m

sys_rt_sigtimedwait(m) ==
    /\ Call("sigtimedwait") /\ waiting' = m /\ set' = m /\ pc' = "sigtimedwait"
    /\ UNCHANGED <<pvars, mvars, pending, queue, action>>
\* do wait_for while it returns 0; then take a signal of the set off the queue.
\* The bit in pending stays.
sigtimedwait_loop ==
    /\ pc = "sigtimedwait" /\ ~asleep
    /\ IF is_signal_pending
       THEN /\ waiting' = {} /\ pc' = "leave" /\ set' = {}
            /\ \/ NoneWanted(set) /\ UNCHANGED queue
               \/ \E i \in DOMAIN queue : Wanted(set, i) /\ queue' = RemoveAt(queue, i)
            /\ UNCHANGED asleep
       ELSE asleep' = TRUE /\ UNCHANGED <<waiting, set, pc, queue>>
    /\ UNCHANGED <<prog, keep, seen, mvars, pending, action>>
sigtimedwait_timeout ==
    /\ pc = "sigtimedwait" /\ asleep /\ asleep' = FALSE
    /\ waiting' = {} /\ set' = {} /\ pc' = "leave"
    /\ UNCHANGED <<prog, keep, seen, mvars, pending, queue, action>>

signalfd_read(m) ==
    /\ Call("signalfd") /\ set' = m \ UNBLOCKABLE_MASK /\ pc' = "signalfd"
    /\ UNCHANGED <<pvars, mvars, pending, queue, waiting, action>>
\* One siginfo is read.  With none in the queue wait_for is called; _EINTR
\* sends the loop round again and, as the lock was never released, for ever.
signalfd_loop ==
    /\ pc = "signalfd" /\ ~asleep
    /\ \/ \E i \in DOMAIN queue :
            /\ Wanted(set, i) /\ queue' = RemoveAt(queue, i) /\ pending' = pending \ {queue[i]}
            /\ pc' = "leave" /\ set' = {} /\ UNCHANGED asleep
       \/ /\ NoneWanted(set) /\ is_signal_pending
          /\ pc' = "spin" /\ UNCHANGED <<asleep, set, pending, queue>>
       \/ /\ NoneWanted(set) /\ ~is_signal_pending
          /\ asleep' = TRUE /\ UNCHANGED <<pc, set, pending, queue>>
    /\ UNCHANGED <<prog, keep, seen, mvars, waiting, action>>
\* The same turn with O_NONBLOCK: _EAGAIN.
signalfd_nonblock ==
    /\ pc = "signalfd" /\ ~asleep /\ NoneWanted(set) /\ pc' = "leave" /\ set' = {}
    /\ UNCHANGED <<pvars, mvars, pending, queue, waiting, action>>
spin == pc \in {"spin", "self_lock"} /\ UNCHANGED vars
------------------------------------------------------------------------------
(* receive_signals, on the way back to user mode.                          *)

\* Mutant: the temporary mask stays in force until the next call.
receive_signals_keep_mask ==
    /\ pc = "leave" /\ pc' = "receive" /\ keep' = blocked
    /\ saved_mask' = {}
    /\ UNCHANGED <<prog, set, asleep, seen, blocked, frames, base, pending, queue, waiting, action>>

\* The mask of a sigsuspend or ppoll is dropped first; a signal is left in the
\* queue only if it was blocked during the call and still is.
receive_signals ==
    /\ pc = "leave" /\ pc' = "receive"
    /\ IF saved_mask = {} THEN keep' = blocked /\ UNCHANGED blocked
       ELSE keep' = blocked \cap UNION saved_mask /\ blocked' = UNION saved_mask
    /\ saved_mask' = {}
    /\ UNCHANGED <<prog, set, asleep, seen, frames, base, pending, queue, waiting, action>>

\* A stop concerns the group, see Jobs.  When the frame cannot be written (bad)
\* deliver_signal takes sighand->lock again.
receive_signal(s, bad) ==
    \/ /\ signal_action(s) \in {"SIGNAL_IGNORE", "SIGNAL_STOP"}
       /\ UNCHANGED <<pc, blocked, frames, action>>
    \/ /\ signal_action(s) = "SIGNAL_KILL" /\ pc' = "dead"
       /\ UNCHANGED <<blocked, frames, action>>
    \/ /\ signal_action(s) = "SIGNAL_CALL_HANDLER"
       /\ frames' = Append(frames, [sig |-> s, mask |-> blocked])
       /\ blocked' = blocked \cup action[s].mask \cup (IF action[s].nodefer THEN {} ELSE {s})
       /\ IF bad THEN pc' = "self_lock" /\ UNCHANGED action
          ELSE /\ action' = IF action[s].resethand THEN [action EXCEPT ![s] = SIG_DFL] ELSE action
               /\ UNCHANGED pc

\* One turn of the loop: the signal stays in the queue or is received.
receive_one(bad) ==
    /\ pc = "receive" /\ seen < Len(queue)
    /\ LET s == queue[seen + 1] IN
       \/ /\ s \in keep /\ seen' = seen + 1
          /\ UNCHANGED <<pc, pending, queue, blocked, frames, action>>
       \/ /\ s \notin keep /\ UNCHANGED seen
          /\ queue' = RemoveAt(queue, seen + 1) /\ pending' = pending \ {s}
          /\ receive_signal(s, bad)
    /\ UNCHANGED <<prog, set, asleep, keep, saved_mask, base, waiting>>
receive_end ==
    /\ pc = "receive" /\ seen = Len(queue) /\ pc' = "user" /\ keep' = {} /\ seen' = 0
    /\ UNCHANGED <<prog, set, asleep, mvars, pending, queue, waiting, action>>

Syscall ==
    \/ sys_rt_sigreturn \/ sys_pause \/ deliver_signal
    \/ \E s \in prog.sig, a \in prog.actions : do_sigaction(s, a)
    \/ \E m \in SUBSET prog.sig :
         \/ \E how \in {"SIG_BLOCK", "SIG_UNBLOCK", "SIG_SETMASK"} : do_sigprocmask(how, m)
         \/ sys_rt_sigsuspend(m) \/ sys_rt_sigtimedwait(m) \/ signalfd_read(m)
         \/ sigmask_set_temp(m)
InKernel ==
    \/ ppoll \/ pause_loop \/ sigtimedwait_loop \/ signalfd_loop \/ spin
    \/ signalfd_nonblock
    \/ receive_signals \/ receive_end
    \/ \E bad \in IF prog.bad_stack THEN BOOLEAN ELSE {FALSE} : receive_one(bad)
Dead == pc = "dead" /\ UNCHANGED vars
Next ==
    \/ \E s \in prog.sig : send_signal(s)
    \/ Syscall \/ Interrupt \/ InKernel \/ sigtimedwait_timeout \/ Dead

Spec == Init /\ [][Next]_vars
\* The task runs: it is interrupted again and again (INT_TIMER), and it does
\* not stop inside the kernel except asleep.
FairSpec == Spec /\ WF_vars(InKernel) /\ WF_vars(Interrupt)
------------------------------------------------------------------------------
\* Every variable keeps its type, and a task sleeps only in a blocking call.
\* The last conjunct is sigtimedwait's own assertion, assert(current->waiting
\* == 0), for the next call.
TypeOK ==
    /\ pc \in {"user", "leave", "receive", "ppoll", "pause", "sigtimedwait", "signalfd",
               "spin", "self_lock", "dead"}
    /\ prog \in Programs /\ set \subseteq Sig /\ asleep \in BOOLEAN
    /\ pending \subseteq Sig /\ queue \in Seq(Sig)
    /\ blocked \subseteq Sig /\ waiting \subseteq Sig
    /\ saved_mask \subseteq SUBSET Sig /\ base \subseteq Sig
    /\ keep \subseteq Sig /\ seen \in 0 .. Len(queue)
    /\ action \in [Sig -> Action]
    /\ frames \in Seq([sig : Sig, mask : SUBSET Sig])
    /\ asleep => pc \in {"pause", "sigtimedwait", "signalfd"}
    /\ pc # "sigtimedwait" => waiting = {}

\* The queue holds exactly the pending signals, each once, whatever mix of
\* sending, receiving and signalfd reads came before: a signal that is sent is
\* neither lost nor delivered twice.  sigtimedwait is excepted: see ReceivedAll.
PendingIsQueued ==
    "sigtimedwait" \notin prog.calls => pending = ToSet(queue) /\ IsInjective(queue)

\* The mask the program chose comes back once the handlers have returned,
\* also after calls that set a mask of their own.
MaskRestored ==
    /\ frames # <<>> => frames[1].mask = base
    /\ frames = <<>> /\ pc = "user" => blocked = base

\* The two together, with the types.
SignalSound == TypeOK /\ PendingIsQueued /\ MaskRestored

\* SIGKILL ends the task, whatever it is waiting for and whatever it blocks;
\* signalfd_read may spin with sighand->lock held, sigtimedwait may take the
\* SIGKILL off the queue, and a frame that faults stops the thread.
KillIsFatal ==
    prog.calls \cap {"signalfd", "sigtimedwait"} = {} /\ ~prog.bad_stack =>
        ("SIGKILL" \in pending ~> pc = "dead")

\* receive_signals delivers the pending signals: none that it may deliver is
\* pending when it returns.
ReceivedAll ==
    [][pc = "receive" /\ pc' = "user" => pending \subseteq keep]_vars
------------------------------------------------------------------------------
(* The inductive invariant behind SignalSound.                             *)

\* Outside handlers the mask in force, or the one to come back to, is the one the
\* program chose.
MaskKept ==
    /\ base \cap UNBLOCKABLE_MASK = {}
    /\ saved_mask # {} => pc \in {"ppoll", "pause", "leave"}
    /\ \A m1, m2 \in saved_mask : m1 = m2
    /\ frames = <<>> => IF saved_mask = {} THEN blocked = base ELSE saved_mask = {base}
    /\ frames # <<>> => frames[1].mask = base
\* What receive_signals has passed in the queue is to stay there.
Walked ==
    /\ seen # 0 => pc \in {"receive", "dead", "self_lock"}
    /\ \A i \in 1 .. seen : queue[i] \in keep
InCall == pc = "sigtimedwait" => "sigtimedwait" \in prog.calls
SignalInv == TypeOK /\ PendingIsQueued /\ MaskKept /\ Walked /\ InCall
=============================================================================
