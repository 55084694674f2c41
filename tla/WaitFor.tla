------------------------------- MODULE WaitFor -------------------------------
(***************************************************************************)
(* util/sync.c wait_for against deliver_signal_unlocked (kernel/signal.c)  *)
(* and notify.  One task waits, in a loop, for a predicate that a mutex    *)
(* protects; signal senders break the wait through task->waiting_cond.     *)
(* The mutex may be sighand->lock itself (pause, sigsuspend, signalfd) or  *)
(* any other lock (pipes, wait4, fcntl...).                                *)
(***************************************************************************)
EXTENDS FiniteSets

CONSTANT Sender   \* threads that may send the task a signal

VARIABLES wpc,            \* of the waiting task
          rc,             \* result of the last wait_for or cond wait
          on_sighand,     \* the mutex of the present call is sighand->lock
          mutex,          \* TRUE: the task holds the mutex
          waiting_cond,   \* task->waiting_cond # NULL
          cond_lock,      \* {} or the sender that holds task->waiting_cond_lock
          wpending,       \* an unblocked signal is pending
          ready,          \* the predicate
          spc, target     \* where each sender is; the cond it has read

tvars == <<wpc, rc, on_sighand, mutex, waiting_cond>>
svars == <<spc, target>>
wait_vars == <<tvars, cond_lock, wpending, ready, svars>>

\* sighand->lock is free for a sender: nobody holds it across one of its own
\* steps except a task that passes it to wait_for.
SighandFree == ~(on_sighand /\ mutex)

WaitInit ==
    /\ wpc = "user" /\ rc = "0" /\ on_sighand = FALSE /\ mutex = FALSE
    /\ waiting_cond = FALSE
    /\ cond_lock = {} /\ wpending = FALSE /\ ready = FALSE
    /\ spc = [s \in Sender |-> "idle"] /\ target = [s \in Sender |-> FALSE]
------------------------------------------------------------------------------
(* The waiting task.                                                       *)

Goto(l) == wpc' = l
\* A system call: lock, then while (!ready) wait_for.
Enter ==
    /\ wpc = "user" /\ mutex' = TRUE /\ on_sighand' \in BOOLEAN
    /\ Goto("loop")
    /\ UNCHANGED <<rc, waiting_cond, cond_lock, wpending, ready, svars>>
Loop ==
    /\ wpc = "loop"
    /\ IF ready THEN Goto("user") /\ mutex' = FALSE /\ ready' = FALSE
                ELSE Goto("check") /\ UNCHANGED <<mutex, ready>>
    /\ UNCHANGED <<rc, waiting_cond, cond_lock, wpending, on_sighand, svars>>

\* wait_for returns an error and its caller gives up.
Fail(e) == rc' = e /\ Goto("fail")

\* Mutant: a signal that is already pending is only noticed after the wait.
wait_for_no_check ==
    /\ wpc = "check" /\ Goto("register")
    /\ UNCHANGED <<rc, mutex, waiting_cond, cond_lock, wpending, ready, on_sighand, svars>>

\* The first is_signal_pending.
wait_for ==
    /\ wpc = "check"
    /\ IF wpending THEN Fail("EINTR") ELSE Goto("register") /\ UNCHANGED rc
    /\ UNCHANGED <<mutex, waiting_cond, cond_lock, wpending, ready, on_sighand, svars>>

Register ==
    /\ wpc = "register" /\ cond_lock = {}
    /\ waiting_cond' = TRUE /\ Goto("sleep")
    /\ UNCHANGED <<rc, mutex, cond_lock, wpending, ready, on_sighand, svars>>

\* Mutant: the mutex is released before the sleep, in a step of its own.
CondWait_not_atomic ==
    /\ wpc = "sleep"
    /\ IF mutex THEN mutex' = FALSE /\ Goto("sleep")
                ELSE Goto("asleep") /\ UNCHANGED mutex
    /\ rc' = "0"
    /\ UNCHANGED <<waiting_cond, cond_lock, wpending, ready, on_sighand, svars>>

\* pthread_cond_wait releases the mutex and sleeps in one step.
CondWait ==
    /\ wpc = "sleep" /\ mutex' = FALSE /\ Goto("asleep") /\ rc' = "0"
    /\ UNCHANGED <<waiting_cond, cond_lock, wpending, ready, on_sighand, svars>>
Timeout ==
    /\ wpc = "asleep" /\ rc' = "ETIMEDOUT" /\ Goto("woken")
    /\ UNCHANGED <<mutex, waiting_cond, cond_lock, wpending, ready, on_sighand, svars>>
CondReturn ==
    /\ wpc = "woken" /\ mutex' = TRUE /\ Goto("unregister")
    /\ UNCHANGED <<rc, waiting_cond, cond_lock, wpending, ready, on_sighand, svars>>

Unregister ==
    /\ wpc = "unregister" /\ cond_lock = {}
    /\ waiting_cond' = FALSE /\ Goto("recheck")
    /\ UNCHANGED <<rc, mutex, cond_lock, wpending, ready, on_sighand, svars>>

\* ETIMEDOUT, or the second is_signal_pending.
Recheck ==
    /\ wpc = "recheck"
    /\ IF rc = "ETIMEDOUT" THEN Fail("ETIMEDOUT")
       ELSE IF wpending THEN Fail("EINTR")
       ELSE Goto("loop") /\ UNCHANGED rc
    /\ UNCHANGED <<mutex, waiting_cond, cond_lock, wpending, ready, on_sighand, svars>>

\* The caller drops the mutex; signals are received on the way to user mode.
Return ==
    /\ wpc = "fail" /\ mutex' = FALSE /\ Goto("user")
    /\ UNCHANGED <<rc, waiting_cond, cond_lock, wpending, ready, on_sighand, svars>>
receive_pending ==
    /\ wpc = "user" /\ wpending /\ wpending' = FALSE
    /\ UNCHANGED <<tvars, cond_lock, ready, svars>>
------------------------------------------------------------------------------
(* The others.                                                             *)

\* pthread_cond_broadcast wakes the task only if it is asleep.
notify == wpc' = IF wpc = "asleep" THEN "woken" ELSE wpc

\* Whoever makes the predicate true holds the mutex and calls notify.
MakeReady ==
    /\ ~mutex /\ ~ready /\ ready' = TRUE /\ notify
    /\ UNCHANGED <<rc, mutex, waiting_cond, cond_lock, wpending, on_sighand, svars>>

\* deliver_signal_unlocked, in three parts: mark the signal pending under
\* sighand->lock and drop that lock; take waiting_cond_lock and read
\* waiting_cond; notify it and unlock.  Other signals may be pending already;
\* one that is itself pending is dropped and changes nothing.
Deliver(s) ==
    /\ spc[s] = "idle" /\ SighandFree
    /\ wpending' = TRUE /\ spc' = [spc EXCEPT ![s] = "pended"]
    /\ UNCHANGED <<tvars, cond_lock, ready, target>>
ReadCond(s) ==
    /\ spc[s] = "pended" /\ cond_lock = {}
    /\ cond_lock' = {s}
    /\ target' = [target EXCEPT ![s] = waiting_cond]
    /\ spc' = [spc EXCEPT ![s] = "notifying"]
    /\ UNCHANGED <<tvars, wpending, ready>>
NotifyCond(s) ==
    /\ spc[s] = "notifying"
    /\ IF target[s] THEN notify ELSE UNCHANGED wpc
    /\ cond_lock' = {}
    /\ target' = [target EXCEPT ![s] = FALSE]
    /\ spc' = [spc EXCEPT ![s] = "idle"]
    /\ UNCHANGED <<rc, on_sighand, mutex, waiting_cond, wpending, ready>>

TaskStep ==
    \/ Loop \/ wait_for \/ Register \/ CondWait \/ CondReturn
    \/ Unregister \/ Recheck \/ Return \/ receive_pending
SenderStep(s) == ReadCond(s) \/ NotifyCond(s)
WaitNext ==
    \/ Enter \/ TaskStep \/ Timeout \/ MakeReady
    \/ \E s \in Sender : Deliver(s) \/ SenderStep(s)
WaitSpec == WaitInit /\ [][WaitNext]_wait_vars

\* The host threads keep running; nobody is obliged to call, signal, notify
\* or time out.  Senders cannot keep the task from waiting_cond_lock for ever:
\* while it does not receive signals each of the 64 is delivered at most once.
FairWaitSpec ==
    /\ WaitSpec /\ WF_wait_vars(TaskStep) /\ SF_wait_vars(Register \/ Unregister)
    /\ \A s \in Sender : WF_wait_vars(SenderStep(s))
------------------------------------------------------------------------------
\* Every variable keeps its type; in particular wait_for only ever returns 0,
\* _EINTR or _ETIMEDOUT.
WaitTypes ==
    /\ wpc \in {"user", "loop", "check", "register", "sleep", "asleep", "woken",
               "unregister", "recheck", "fail"}
    /\ rc \in {"0", "EINTR", "ETIMEDOUT"}
    /\ on_sighand \in BOOLEAN /\ mutex \in BOOLEAN /\ waiting_cond \in BOOLEAN
    /\ wpending \in BOOLEAN /\ ready \in BOOLEAN
    /\ cond_lock \subseteq Sender
    /\ spc \in [Sender -> {"idle", "pended", "notifying"}]
    /\ target \in [Sender -> BOOLEAN]

\* A signal breaks the wait: once every sender is done, the task is not asleep
\* with a signal pending.
NoLostSignal ==
    (\A s \in Sender : spc[s] = "idle") => ~(wpc = "asleep" /\ wpending)

\* The same for the calls that wait with sighand->lock as their mutex: pause,
\* sigsuspend, sigtimedwait and signalfd.
NoLostSignalOnSighand == on_sighand => NoLostSignal

\* The cond a sender broadcasts is alive: it may be a local variable of the
\* waiting task, so the task must still be inside wait_for.
CondAlive ==
    \A s \in Sender : spc[s] = "notifying" /\ target[s] =>
        wpc \in {"sleep", "asleep", "woken", "unregister"}

\* The two together, with the types.
WaitForSound == WaitTypes /\ NoLostSignalOnSighand /\ CondAlive

\* The inductive invariant behind both: who holds the mutex and
\* waiting_cond_lock, when waiting_cond is set and, if the mutex is
\* sighand->lock, that a signal cannot become pending between the check and
\* the sleep, and that one that becomes pending later has a sender behind it
\* which will find the cond.
Registered == waiting_cond <=> wpc \in {"sleep", "asleep", "woken", "unregister"}
Holds == mutex <=> wpc \notin {"user", "asleep", "woken"}
CondLocked == \A s \in Sender : spc[s] = "notifying" <=> cond_lock = {s}
WillNotify(s) == spc[s] = "pended" \/ (spc[s] = "notifying" /\ target[s])
SignalSafe ==
    on_sighand =>
        /\ wpc \in {"register", "sleep"} => ~wpending
        /\ wpc = "asleep" /\ wpending => \E s \in Sender : WillNotify(s)
WaitForInv ==
    WaitTypes /\ Registered /\ Holds /\ CondLocked /\ CondAlive /\ SignalSafe

\* A notify by someone who holds the mutex is never missed: a task in its wait
\* loop comes out of it if the predicate stays true.
ReadyNotMissed == []<>(wpc = "user" \/ ~ready)
==============================================================================
