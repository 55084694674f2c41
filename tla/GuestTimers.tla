----------------------------- MODULE GuestTimers -----------------------------
(***************************************************************************)
(* The timers a program makes (kernel/time.c): the interval timer of its   *)
(* group, a POSIX timer and a timerfd, each with a struct timer whose      *)
(* pthread runs the callback with timer->lock held (module Timer has that  *)
(* part in detail; here an armed timer may expire at any time).  What is   *)
(* kept is which locks a call and a callback hold and take, and what the   *)
(* callback's data points to when the program exits and is reaped.         *)
(***************************************************************************)
EXTENDS Naturals, Sequences, FiniteSets

CONSTANTS Callers,    \* the threads of one group
          Leader,     \* the one whose task is the group's leader
          Reaper,     \* a thread of the parent
          NULL,
          MaxFires,   \* how often a periodic timer fires
          TimerLoads  \* scripts of the threads, which timers are periodic, known holes

Kinds == {"itimer", "posix", "timerfd"}
Actors == Callers \cup {Reaper} \cup Kinds
Locks == {"group", "pids", "fd"} \cup Kinds

VARIABLES cload,      \* never changes
          cthr,       \* ip, pc and the lock an actor is about to take
          cowner,     \* who holds a lock
          tm,         \* the timers
          tasks,      \* tasks that have not been freed
          threads,    \* group->threads
          tgroup,     \* "live", "zombie" or "freed"
          expirations, taken,          \* of the timerfd
          fired,      \* history: callbacks that have run
          choles      \* history: what went wrong

vars == <<cload, cthr, cowner, tm, tasks, threads, tgroup, expirations, fired, taken, choles>>

Script(a) == IF a \in DOMAIN cload.script THEN cload.script[a] ELSE <<>>
Op(a) == Script(a)[cthr[a].ip]
Init ==
    /\ cload \in TimerLoads
    /\ cthr = [a \in Actors |-> [ip |-> 1, pc |-> IF a \in Kinds THEN "none" ELSE "call", want |-> NULL]]
    /\ cowner = [l \in Locks |-> NULL]
    /\ tm = [k \in Kinds |-> [mem |-> IF k = "timerfd" THEN "live" ELSE "none", active |-> FALSE,
                              running |-> FALSE, dead |-> FALSE, data |-> NULL]]
    /\ tasks = Callers /\ threads = Callers /\ tgroup = "live"
    /\ expirations = 0 /\ fired = [k \in Kinds |-> 0] /\ taken = 0 /\ choles = {}

\* a is at pc and gets the lock it wants; then it goes on to pc with the locks
\* kept, and wants another.
At(a, pc) == cthr[a].pc = pc /\ (cthr[a].want # NULL => cowner[cthr[a].want] = NULL)
Goes(a, pc, want, kept) ==
    /\ cthr' = [cthr EXCEPT ![a].pc = pc, ![a].want = want]
    /\ cowner' = [l \in Locks |-> IF l \in kept THEN a ELSE IF cowner[l] = a THEN NULL ELSE cowner[l]]
Returns(a) ==
    /\ cthr' = [cthr EXCEPT ![a] = [ip |-> @.ip + 1, pc |-> "call", want |-> NULL]]
    /\ cowner' = [l \in Locks |-> IF cowner[l] = a THEN NULL ELSE cowner[l]]
Issues(a, op) == cthr[a].pc = "call" /\ cthr[a].ip <= Len(Script(a)) /\ Op(a)[1] = op
Rest == <<cload, tasks, threads, tgroup, expirations, fired, taken, choles>>
------------------------------------------------------------------------------
(* Interval timers.                                                        *)

sys_setitimer(a) ==
    /\ Issues(a, "setitimer") /\ Goes(a, "itimer_set", "group", {})
    /\ UNCHANGED <<Rest, tm>>
New(k, data) == [tm EXCEPT ![k] = [mem |-> "live", active |-> FALSE, running |-> FALSE,
                                   dead |-> FALSE, data |-> data]]
\* The timer's data is the task that asked first.
itimer_set(a) ==
    /\ At(a, "itimer_set")
    /\ tm' = IF tm["itimer"].mem = "none" THEN New("itimer", a) ELSE tm
    /\ Goes(a, "timer_set", "itimer", {"group"})
    /\ UNCHANGED Rest
\* timer_set for the timer whose lock a wants: armed or not, and its pthread.
timer_set(a) ==
    /\ At(a, "timer_set")
    /\ LET k == cthr[a].want
           on == Op(a)[2]
       IN  /\ tm' = [tm EXCEPT ![k].active = on, ![k].running = @ \/ on]
           /\ cthr' = [cthr EXCEPT ![a] = [ip |-> @.ip + 1, pc |-> "call", want |-> NULL],
                         ![k].pc = IF on /\ ~tm[k].running THEN "sleep" ELSE @]
    /\ cowner' = [l \in Locks |-> IF cowner[l] = a THEN NULL ELSE cowner[l]]
    /\ UNCHANGED Rest
\* timer_free under its lock: the pthread, if there is one, frees the struct.
timer_free(k) ==
    [tm EXCEPT ![k].active = FALSE, ![k].dead = tm[k].running,
               ![k].mem = IF tm[k].running THEN @ ELSE "freed"]
------------------------------------------------------------------------------
(* POSIX timers.                                                           *)

\* SIGEV_THREAD_ID names a task; for one that is not there the call returns
\* with pids_lock held.
sys_timer_create(a) ==
    /\ Issues(a, "timer_create")
    /\ IF Op(a)[2] \in {"thread", "nothread"} THEN Goes(a, "thread_id", "pids", {})
                                              ELSE Goes(a, "timer_create", "group", {})
    /\ UNCHANGED <<Rest, tm>>
thread_id(a) ==
    /\ At(a, "thread_id")
    /\ IF Op(a)[2] = "thread"
       THEN Goes(a, "timer_create", "group", {}) /\ UNCHANGED <<Rest, tm>>
       ELSE /\ cthr' = [cthr EXCEPT ![a] = [ip |-> @.ip + 1, pc |-> "call", want |-> NULL]]
            /\ cowner' = [cowner EXCEPT !["pids"] = a]
            /\ choles' = choles \cup {"pids_kept"}
            /\ UNCHANGED <<cload, tasks, threads, tgroup, expirations, fired, taken, tm>>
\* The slot of the group's array; a signal for the group has thread_pid 0, one
\* for a thread goes to the leader.
timer_create(a) ==
    /\ At(a, "timer_create")
    /\ tm' = IF tm["posix"].mem = "none" THEN New("posix", IF Op(a)[2] = "thread" THEN Leader ELSE NULL)
                                         ELSE tm
    /\ Returns(a) /\ UNCHANGED Rest
sys_timer_settime(a) ==
    /\ Issues(a, "timer_settime") /\ Goes(a, "settime", "group", {})
    /\ UNCHANGED <<Rest, tm>>
\* The timer is used without a look whether there is one.
settime(a) ==
    /\ At(a, "settime")
    /\ IF tm["posix"].mem = "live"
       THEN Goes(a, "timer_set", "posix", {"group"}) /\ UNCHANGED Rest
       ELSE /\ Goes(a, "crashed", NULL, {"group"}) /\ choles' = choles \cup {"no_timer"}
            /\ UNCHANGED <<cload, tasks, threads, tgroup, expirations, fired, taken>>
    /\ UNCHANGED tm
sys_timer_delete(a) ==
    /\ Issues(a, "timer_delete") /\ Goes(a, "delete", "group", {})
    /\ UNCHANGED <<Rest, tm>>
delete(a) ==
    /\ At(a, "delete")
    /\ IF tm["posix"].mem = "live" THEN Goes(a, "free", "posix", {"group"}) ELSE Returns(a)
    /\ UNCHANGED <<Rest, tm>>
\* The end of timer_delete: the slot is empty again once the struct has gone.
free(a) == At(a, "free") /\ tm' = timer_free(cthr[a].want) /\ Returns(a) /\ UNCHANGED Rest
------------------------------------------------------------------------------
(* timerfd.                                                                *)

sys_timerfd_settime(a) ==
    /\ Issues(a, "timerfd_settime") /\ Goes(a, "fd_settime", "fd", {})
    /\ UNCHANGED <<Rest, tm>>
fd_settime(a) ==
    /\ At(a, "fd_settime") /\ Goes(a, "timer_set", "timerfd", {"fd"})
    /\ UNCHANGED <<Rest, tm>>
\* timerfd.expirations after a read of n.
Remaining(n) == 0
\* The read waits for an expiration and takes all there are.
timerfd_read(a) ==
    /\ Issues(a, "timerfd_read") /\ cowner["fd"] = NULL /\ expirations > 0
    /\ taken' = taken + expirations /\ expirations' = Remaining(expirations)
    /\ Returns(a)
    /\ UNCHANGED <<cload, tasks, threads, tgroup, fired, choles, tm>>
timerfd_close(a) ==
    /\ Issues(a, "close") /\ Goes(a, "free", "timerfd", {})
    /\ UNCHANGED <<Rest, tm>>
------------------------------------------------------------------------------
(* The pthread of timer k.                                                 *)

\* It has slept; with the lock it runs the callback if the timer is still armed.
timer_thread(k) ==
    /\ cthr[k].pc = "sleep" /\ cowner[k] = NULL
    /\ tm[k].active => fired[k] < MaxFires
    /\ IF tm[k].active
       THEN /\ Goes(k, "callback", CASE k = "timerfd" -> "fd" [] k = "posix" -> NULL
                                     [] k = "itimer" -> NULL, {k})
            /\ UNCHANGED tm
       ELSE /\ Goes(k, "none", NULL, {})
            /\ tm' = [tm EXCEPT ![k].running = FALSE, ![k].mem = IF tm[k].dead THEN "freed" ELSE @]
    /\ UNCHANGED Rest
\* After the callback: periodic timers sleep again.
Rearm(k) ==
    /\ fired' = [fired EXCEPT ![k] = @ + 1]
    /\ IF k \in cload.periodic
       THEN Goes(k, "sleep", NULL, {}) /\ UNCHANGED tm
       ELSE Goes(k, "none", NULL, {}) /\ tm' = [tm EXCEPT ![k].running = FALSE]
\* SIGALRM to the task that set the timer first.
itimer_notify(k) ==
    /\ k = "itimer" /\ At(k, "callback") /\ Rearm(k)
    /\ choles' = IF tm[k].data \in tasks THEN choles ELSE choles \cup {"task_gone"}
    /\ UNCHANGED <<cload, tasks, threads, tgroup, expirations, taken>>
\* The struct posix_timer is part of the group.
posix_timer_callback(k) ==
    /\ k = "posix" /\ At(k, "callback") /\ Goes(k, "posix_send", "pids", {k})
    /\ choles' = IF tgroup = "freed" THEN choles \cup {"group_gone"} ELSE choles
    /\ UNCHANGED <<cload, tasks, threads, tgroup, expirations, fired, taken, tm>>
\* pid_get_task looks the thread up again.
posix_send(k) ==
    /\ At(k, "posix_send") /\ Rearm(k)
    /\ UNCHANGED <<cload, tasks, threads, tgroup, expirations, taken, choles>>
\* Mutant: the count is set and not added to.
Expired_set(n) == 1
\* timerfd.expirations++
Expired(n) == n + 1
timerfd_callback(k) ==
    /\ k = "timerfd" /\ At(k, "callback") /\ Rearm(k)
    /\ expirations' = Expired(expirations)
    /\ UNCHANGED <<cload, tasks, threads, tgroup, taken, choles>>
------------------------------------------------------------------------------
(* Exit.                                                                   *)

do_exit(a) == Issues(a, "exit") /\ Goes(a, "exit_rusage", "group", {}) /\ UNCHANGED <<Rest, tm>>
\* The group's lock is only held for the usage.
exit_rusage(a) ==
    At(a, "exit_rusage") /\ Goes(a, "exit_tgroup", "pids", {}) /\ UNCHANGED <<Rest, tm>>
\* The last thread frees the interval timer, with pids_lock held.  Only the
\* leader's task outlives its exit.
exit_tgroup(a) ==
    /\ At(a, "exit_tgroup")
    /\ threads' = threads \ {a}
    /\ tasks' = IF a = Leader THEN tasks ELSE tasks \ {a}
    /\ IF threads' = {} /\ tm["itimer"].mem = "live"
       THEN Goes(a, "exit_timer", "itimer", {"pids"}) /\ UNCHANGED tgroup
       ELSE /\ Goes(a, "gone", NULL, {}) /\ tgroup' = IF threads' = {} THEN "zombie" ELSE tgroup
    /\ UNCHANGED <<cload, expirations, fired, taken, choles, tm>>
exit_timer(a) ==
    /\ At(a, "exit_timer") /\ tm' = timer_free("itimer")
    /\ Goes(a, "gone", NULL, {}) /\ tgroup' = "zombie"
    /\ UNCHANGED <<cload, tasks, threads, expirations, fired, taken, choles>>
\* reap_if_zombie: pids_lock, then the group's lock; then both are freed.
do_wait(a) ==
    /\ a = Reaper /\ Issues(a, "wait") /\ Goes(a, "wait", "pids", {})
    /\ UNCHANGED <<Rest, tm>>
wait(a) ==
    /\ At(a, "wait") /\ tgroup = "zombie" /\ Goes(a, "reap", "group", {"pids"})
    /\ UNCHANGED <<Rest, tm>>
reap_if_zombie(a) ==
    /\ At(a, "reap") /\ Returns(a)
    /\ tgroup' = "freed" /\ tasks' = tasks \ {Leader}
    /\ UNCHANGED <<cload, threads, expirations, fired, taken, choles, tm>>
\* copy_task takes the two in the same order to put a thread on the list.
copy_task(a) == a \in Callers /\ Issues(a, "clone") /\ Goes(a, "clone", "pids", {}) /\ UNCHANGED <<Rest, tm>>
clone(a) == At(a, "clone") /\ Goes(a, "clone_group", "group", {"pids"}) /\ UNCHANGED <<Rest, tm>>
clone_group(a) == At(a, "clone_group") /\ Returns(a) /\ UNCHANGED <<Rest, tm>>

Call(a) ==
    \/ sys_setitimer(a) \/ itimer_set(a) \/ timer_set(a)
    \/ sys_timer_create(a) \/ thread_id(a) \/ timer_create(a) \/ sys_timer_settime(a) \/ settime(a)
    \/ sys_timer_delete(a) \/ delete(a) \/ free(a)
    \/ sys_timerfd_settime(a) \/ fd_settime(a) \/ timerfd_read(a) \/ timerfd_close(a)
    \/ do_exit(a) \/ exit_rusage(a) \/ exit_tgroup(a) \/ exit_timer(a)
    \/ do_wait(a) \/ wait(a) \/ reap_if_zombie(a)
    \/ copy_task(a) \/ clone(a) \/ clone_group(a)
Expiry(k) ==
    timer_thread(k) \/ itimer_notify(k) \/ posix_timer_callback(k) \/ posix_send(k) \/ timerfd_callback(k)
Next == (\E a \in Callers \cup {Reaper} : Call(a)) \/ (\E k \in Kinds : Expiry(k))
Spec == Init /\ [][Next]_vars
------------------------------------------------------------------------------
\* No expiration of a timerfd is lost or read twice, however settime, reads and
\* the callback interleave.
TicksCounted == fired["timerfd"] = taken + expirations

\* Actors each of which wants a lock that another of them holds.
Deadlocked ==
    UNION {S \in SUBSET Actors : \A a \in S : cthr[a].want # NULL /\ cowner[cthr[a].want] \in S}
\* Calls, exits and waits by themselves take their locks in one order; whenever
\* threads wait for each other in a circle, a callback that runs under its
\* timer's lock is part of it (timerfd_callback and timerfd_settime, or
\* posix_timer_callback, timer_delete and a wait).
OnlyCallbacksDeadlock == Deadlocked # {} => Deadlocked \cap Kinds # {}

\* The pthread of a timer never runs with the struct freed, and the only dead
\* memory a callback meets is the task that armed an interval timer and left,
\* or the group of a POSIX timer that outlives it; neither is met, and no lock
\* kept, in programs that do none of this.
CallbackData ==
    /\ \A k \in Kinds : cthr[k].pc # "none" => tm[k].mem = "live"
    /\ choles \subseteq cload.known

\* The three together.
TimersSound == TicksCounted /\ OnlyCallbacksDeadlock /\ CallbackData
=============================================================================
