--------------------------------- MODULE Jobs ---------------------------------
(***************************************************************************)
(* Stopping, tracing and killing a thread group (receive_signals and       *)
(* send_signal of kernel/signal.c, the end of handle_interrupt in          *)
(* kernel/calls.c, do_exit_group with its safety valve in kernel/exit.c,   *)
(* kernel/ptrace.c), step by step with the locks they take: pids_lock, the *)
(* group's lock, the sighand's lock that the threads share, and the ptrace *)
(* lock of the first thread.  Modules Signal and Process have masks,       *)
(* handlers, parents and statuses; here threads wait for locks and for     *)
(* stopped_cond and ptrace.cond.                                           *)
(***************************************************************************)
EXTENDS Naturals, Sequences, FiniteSets

CONSTANTS Threads, Tracee,  \* the threads of the job, and the one that may be traced
          Shell,            \* its parent
          NULL,
          JobLoads          \* the script of the parent, who calls exit_group, known holes

Actors == Threads \cup {Shell}
Locks == {"pids", "group", "sighand", "ptrace"}

VARIABLES jload,      \* never changes
          jthr,       \* pc, the lock wanted, was_stopped and the parent's place
          jowner,     \* who holds a lock
          queue,      \* signals queued on each thread
          stopped, stop_code, doing_group_exit, listed,   \* of the group
          group_mem,  \* "live", "zombie" or "freed"
          asleep,     \* threads in pthread_cond_wait
          ptrace,     \* of the tracee: stopped, signal
          continued,  \* history: a SIGCONT came after every SIGSTOP sent
          jholes      \* history: what went wrong

vars == <<jload, jthr, jowner, queue, stopped, stop_code, doing_group_exit, listed, group_mem,
          asleep, ptrace, continued, jholes>>
gvars == <<stopped, stop_code, doing_group_exit, listed, group_mem>>

Init ==
    /\ jload \in JobLoads
    /\ jthr = [a \in Actors |-> [pc |-> IF a \in jload.exits THEN "exits" ELSE "user", want |-> NULL,
                                 was |-> FALSE, ip |-> 1]]
    /\ jowner = [l \in Locks |-> NULL] /\ queue = [t \in Threads |-> <<>>]
    /\ stopped = FALSE /\ stop_code = FALSE /\ doing_group_exit = FALSE
    /\ listed = Threads /\ group_mem = "live" /\ asleep = {}
    /\ ptrace = [stopped |-> FALSE, signal |-> FALSE]
    /\ continued = FALSE /\ jholes = {}

At(a, pc) == jthr[a].pc = pc /\ a \notin asleep
             /\ (jthr[a].want # NULL => jowner[jthr[a].want] = NULL)
Locked(a, kept) == [l \in Locks |-> IF l \in kept THEN a ELSE IF jowner[l] = a THEN NULL ELSE jowner[l]]
\* a goes on at pc, holding the locks kept, and wants another.
Goes(a, pc, want, kept) ==
    jthr' = [jthr EXCEPT ![a].pc = pc, ![a].want = want] /\ jowner' = Locked(a, kept)
Rest == <<jload, queue, gvars, ptrace, continued, jholes>>
Has(t, s) == \E i \in 1 .. Len(queue[t]) : queue[t][i] = s
Put(q, s) == IF \E i \in 1 .. Len(q) : q[i] = s THEN q ELSE Append(q, s)
Traced(t) == t = Tracee /\ jload.traced
------------------------------------------------------------------------------
(* A thread between two runs of user code.                                 *)

\* The start of receive_signals.  A thread that was given up on and comes back
\* finds its group freed, or no sighand.
receive_signals(t) ==
    /\ jthr[t].pc = "user" /\ t \in Threads /\ queue[t] # <<>>
    /\ Goes(t, "was_stopped", "group", {})
    /\ jholes' = IF t \notin listed THEN jholes \cup {"leaked_runs"} ELSE jholes
    /\ UNCHANGED <<jload, queue, gvars, ptrace, asleep, continued>>
was_stopped(t) ==
    /\ At(t, "was_stopped")
    /\ jthr' = [jthr EXCEPT ![t] = [@ EXCEPT !.pc = "take", !.want = "sighand", !.was = stopped]]
    /\ jowner' = Locked(t, {}) /\ UNCHANGED <<Rest, asleep>>
\* The loop over the queue, with the sighand locked.
take(t) ==
    /\ At(t, "take")
    /\ IF queue[t] = <<>>
       THEN (IF jthr[t].was THEN Goes(t, "park", "group", {}) ELSE Goes(t, "now_stopped", "group", {}))
            /\ UNCHANGED queue
       ELSE /\ queue' = [queue EXCEPT ![t] = Tail(@)]
            /\ LET s == Head(queue[t]) IN
               IF Traced(t) /\ s # "KILL" THEN Goes(t, "trace_stop", "ptrace", {"sighand"})
               ELSE IF s = "STOP" THEN Goes(t, "stop", "group", {"sighand"})
               ELSE Goes(t, "exit_group", "pids", {})
    /\ UNCHANGED <<jload, gvars, ptrace, asleep, continued, jholes>>
\* receive_signal for a stop: the group's lock inside the sighand's.
receive_stop(t) ==
    /\ At(t, "stop") /\ stopped' = TRUE /\ stop_code' = TRUE
    /\ Goes(t, "take", NULL, {"sighand"})
    /\ jholes' = jholes \cup (IF continued THEN {"stop_after_cont"} ELSE {})
                        \cup (IF doing_group_exit THEN {"stop_in_exit"} ELSE {})
    /\ UNCHANGED <<jload, queue, doing_group_exit, listed, group_mem, ptrace, asleep, continued>>
\* The parent is told if the group has stopped meanwhile.
now_stopped(t) ==
    /\ At(t, "now_stopped")
    /\ IF stopped THEN Goes(t, "tell", "pids", {}) ELSE Goes(t, "park", "group", {})
    /\ UNCHANGED <<Rest, asleep>>
tell(t) ==
    /\ At(t, "tell") /\ Goes(t, "park", "group", {})
    /\ asleep' = asleep \ {Shell} /\ UNCHANGED Rest
\* The end of handle_interrupt: signals do not end this wait.
park(t) ==
    /\ At(t, "park")
    /\ IF stopped THEN Goes(t, "park", "group", {}) /\ asleep' = asleep \cup {t}
                  ELSE Goes(t, "user", NULL, {}) /\ UNCHANGED asleep
    /\ UNCHANGED Rest
------------------------------------------------------------------------------
(* Tracing.                                                                *)

\* signal_delivery_stop up to the unlock of the sighand; the parent wakes up.
trace_stop(t) ==
    /\ At(t, "trace_stop")
    /\ ptrace' = [stopped |-> TRUE, signal |-> TRUE]
    /\ Goes(t, "trace_wait", "ptrace", {}) /\ asleep' = asleep \ {Shell}
    /\ UNCHANGED <<jload, queue, gvars, continued, jholes>>
\* Its loop: a pending SIGKILL is looked for after the wait, not before.
trace_wait(t) ==
    /\ At(t, "trace_wait")
    /\ IF ptrace.stopped
       THEN /\ Goes(t, "trace_woken", "ptrace", {}) /\ asleep' = asleep \cup {t}
            /\ jholes' = IF Has(t, "KILL") THEN jholes \cup {"kill_missed"} ELSE jholes
       ELSE Goes(t, "take", "sighand", {}) /\ UNCHANGED <<asleep, jholes>>
    /\ UNCHANGED <<jload, queue, gvars, ptrace, continued>>
\* Awake with the ptrace lock; the sighand is locked for the look.
trace_woken(t) ==
    /\ At(t, "trace_woken") /\ Goes(t, "trace_look", "sighand", {"ptrace"})
    /\ UNCHANGED <<Rest, asleep>>
trace_look(t) ==
    /\ At(t, "trace_look")
    /\ IF Has(t, "KILL") THEN Goes(t, "exit_group", "pids", {})
                         ELSE Goes(t, "trace_wait", "ptrace", {})
    /\ UNCHANGED <<Rest, asleep>>
------------------------------------------------------------------------------
(* Exit of the group.                                                      *)

sys_exit_group(t) ==
    /\ jthr[t].pc = "exits" /\ Goes(t, "exit_group", "pids", {}) /\ UNCHANGED <<Rest, asleep>>
\* do_exit_group: pids_lock, the group's lock, and the sighand's for the kills.
do_exit_group(t) ==
    /\ At(t, "exit_group")
    /\ IF t \in listed THEN Goes(t, "exit_group_locked", "group", {"pids"}) ELSE Goes(t, "gone", NULL, {})
    /\ UNCHANGED <<Rest, asleep>>
exit_group_locked(t) ==
    /\ At(t, "exit_group_locked")
    /\ jthr' = [jthr EXCEPT ![t] = [@ EXCEPT !.pc = "kill_others", !.want = "sighand",
                                            !.was = ~doing_group_exit]]
    /\ jowner' = Locked(t, {"pids", "group"})
    /\ doing_group_exit' = TRUE
    /\ UNCHANGED <<jload, queue, stopped, stop_code, listed, group_mem, ptrace, asleep, continued, jholes>>
\* Mutant: parked threads are not woken.
kill_others_asleep(t) ==
    /\ At(t, "kill_others")
    /\ queue' = [u \in Threads |-> IF u \in listed THEN Put(queue[u], "KILL") ELSE queue[u]]
    /\ Goes(t, IF jthr[t].was /\ listed # {t} THEN "exit_wait" ELSE "exit", NULL, {})
    /\ UNCHANGED <<jload, gvars, asleep, ptrace, continued, jholes>>
\* Every thread gets SIGKILL and the group is continued; the broadcasts wake
\* whoever sleeps.  Only the first caller waits for the others.
kill_others(t) ==
    /\ At(t, "kill_others")
    /\ queue' = [u \in Threads |-> IF u \in listed THEN Put(queue[u], "KILL") ELSE queue[u]]
    /\ stopped' = FALSE /\ asleep' = asleep \ listed
    /\ Goes(t, IF jthr[t].was /\ listed # {t} THEN "exit_wait" ELSE "exit", NULL, {})
    /\ UNCHANGED <<jload, stop_code, doing_group_exit, listed, group_mem, ptrace, continued, jholes>>
exit_wait(t) ==
    /\ jthr[t].pc = "exit_wait" /\ listed = {t} /\ Goes(t, "exit", NULL, {})
    /\ UNCHANGED <<Rest, asleep>>
\* The safety valve: threads that do not leave are given up on.
exit_gives_up(t) ==
    /\ "valve" \in jload.uses /\ jthr[t].pc = "exit_wait" /\ listed # {t}
    /\ jowner["pids"] = NULL /\ jowner["group"] = NULL
    /\ listed' = {t} /\ Goes(t, "exit", NULL, {})
    /\ UNCHANGED <<jload, queue, stopped, stop_code, doing_group_exit, group_mem, ptrace, asleep,
                   continued, jholes>>
\* After a system call.
check_group_exit(t) ==
    /\ jthr[t].pc = "user" /\ doing_group_exit /\ t \in listed /\ Goes(t, "exit", NULL, {})
    /\ UNCHANGED <<Rest, asleep>>
\* do_exit: the usage under the group's lock, then pids_lock; the last one
\* makes the zombie and tells the parent.
do_exit(t) ==
    jthr[t].pc = "exit" /\ Goes(t, "exit_usage", "group", {}) /\ UNCHANGED <<Rest, asleep>>
exit_usage(t) ==
    At(t, "exit_usage") /\ Goes(t, "exit_tgroup", "pids", {}) /\ UNCHANGED <<Rest, asleep>>
exit_tgroup(t) ==
    /\ At(t, "exit_tgroup") /\ Goes(t, "gone", NULL, {})
    /\ listed' = listed \ {t}
    /\ group_mem' = IF listed' = {} THEN "zombie" ELSE group_mem
    /\ asleep' = IF listed' = {} THEN asleep \ {Shell} ELSE asleep
    /\ UNCHANGED <<jload, queue, stopped, stop_code, doing_group_exit, ptrace, continued, jholes>>
------------------------------------------------------------------------------
(* The parent.                                                             *)

Op == jload.script[jthr[Shell].ip]
Calls(op) == jthr[Shell].pc = "user" /\ jthr[Shell].ip <= Len(jload.script) /\ Op[1] = op
Returns ==
    /\ jthr' = [jthr EXCEPT ![Shell] = [@ EXCEPT !.pc = "user", !.want = NULL, !.ip = @ + 1]]
    /\ jowner' = Locked(Shell, {})

do_kill == Calls("kill") /\ Goes(Shell, "kill", "pids", {}) /\ UNCHANGED <<Rest, asleep>>
\* pid_get_task, and send_signal with pids_lock held.
kill_task ==
    /\ At(Shell, "kill")
    /\ IF group_mem = "live" /\ Tracee \in listed
       THEN Goes(Shell, "send", "sighand", {"pids"}) ELSE Returns
    /\ UNCHANGED <<Rest, asleep>>
\* deliver_signal_unlocked for the job's first thread: queued once, and the
\* condition it sleeps on is broadcast.  SIGCONT is ignored and not queued.
deliver_signal(s) ==
    IF s = "CONT" THEN UNCHANGED <<queue, asleep>>
    ELSE queue' = [queue EXCEPT ![Tracee] = Put(@, s)] /\ asleep' = asleep \ {Tracee}
send_signal ==
    /\ At(Shell, "send") /\ deliver_signal(Op[2])
    /\ continued' = IF Op[2] = "STOP" THEN FALSE ELSE continued
    /\ IF Op[2] \in {"CONT", "KILL"} THEN Goes(Shell, "continue", "group", {"pids"}) ELSE Returns
    /\ UNCHANGED <<jload, gvars, ptrace, jholes>>
\* The end of send_signal: the group goes on, whatever stops are still queued.
continue ==
    /\ At(Shell, "continue") /\ Returns
    /\ stopped' = FALSE /\ continued' = (continued \/ Op[2] = "CONT")
    /\ asleep' = asleep \ {t \in Threads : jthr[t].pc = "park"}
    /\ UNCHANGED <<jload, queue, stop_code, doing_group_exit, listed, group_mem, ptrace, jholes>>
\* kill_group for a group that does not exist unlocks pids_lock, and so does its
\* caller, whoever has it by then.
kill_group == Calls("kill_group") /\ Goes(Shell, "no_group", "pids", {}) /\ UNCHANGED <<Rest, asleep>>
no_group == At(Shell, "no_group") /\ Goes(Shell, "unlock_again", NULL, {}) /\ UNCHANGED <<Rest, asleep>>
unlock_again ==
    /\ At(Shell, "unlock_again")
    /\ jthr' = [jthr EXCEPT ![Shell] = [@ EXCEPT !.pc = "user", !.ip = @ + 1]]
    /\ jowner' = [jowner EXCEPT !["pids"] = NULL]
    /\ jholes' = IF jowner["pids"] # NULL THEN jholes \cup {"unlocked_twice"} ELSE jholes
    /\ UNCHANGED <<jload, queue, gvars, ptrace, asleep, continued>>

do_wait == Calls("wait") /\ Goes(Shell, "wait", "pids", {}) /\ UNCHANGED <<Rest, asleep>>
Nothing == ~(stopped /\ stop_code) /\ group_mem # "zombie" /\ ~(ptrace.stopped /\ ptrace.signal)
\* reap_if_needed: a stop that was not reported, the zombie, or a traced stop;
\* otherwise the parent sleeps (and looks again once a second).
wait ==
    /\ At(Shell, "wait") /\ jowner["group"] = NULL /\ jowner["ptrace"] = NULL
    /\ IF Nothing /\ group_mem = "live"
       THEN Goes(Shell, "wait", "pids", {}) /\ asleep' = asleep \cup {Shell}
            /\ UNCHANGED <<stop_code, group_mem, ptrace>>
       ELSE /\ Returns /\ UNCHANGED asleep
            /\ IF stopped /\ stop_code THEN stop_code' = FALSE /\ UNCHANGED <<group_mem, ptrace>>
               ELSE IF group_mem = "zombie" THEN group_mem' = "freed" /\ UNCHANGED <<stop_code, ptrace>>
               ELSE ptrace' = [ptrace EXCEPT !.signal = FALSE] /\ UNCHANGED <<stop_code, group_mem>>
    /\ UNCHANGED <<jload, queue, stopped, doing_group_exit, listed, continued, jholes>>

sys_ptrace ==
    /\ Calls("ptrace") /\ Goes(Shell, "find_child", "ptrace", {}) /\ UNCHANGED <<Rest, asleep>>
\* The child is found if it is in a traced stop, and its ptrace lock stays held.
find_child ==
    /\ At(Shell, "find_child")
    /\ IF ptrace.stopped THEN Goes(Shell, "request", NULL, {"ptrace"}) ELSE Returns
    /\ UNCHANGED <<Rest, asleep>>
\* The requests that return with the lock held: a copy from or to the caller
\* fails (SETREGS, SETFPREGS, GETSIGINFO), or a bad offset (PEEKUSER).
KeepsLock(request) == request = "fault"
\* CONT and SINGLESTEP, KILL, and the requests that read or write the child.
ptrace_request ==
    /\ At(Shell, "request")
    /\ CASE Op[2] = "cont" -> Returns /\ asleep' = asleep \ {Tracee}
         [] Op[2] = "kill" -> Goes(Shell, "ptrace_kill", "sighand", {"ptrace"}) /\ UNCHANGED asleep
         [] Op[2] = "regs" -> Returns /\ UNCHANGED asleep
         [] KeepsLock(Op[2]) ->
              /\ jthr' = [jthr EXCEPT ![Shell] = [@ EXCEPT !.pc = "user", !.want = NULL, !.ip = @ + 1]]
              /\ UNCHANGED <<jowner, asleep>>
    /\ ptrace' = IF Op[2] \in {"cont", "kill"} THEN [ptrace EXCEPT !.stopped = FALSE] ELSE ptrace
    /\ jholes' = IF KeepsLock(Op[2]) THEN jholes \cup {"ptrace_kept"} ELSE jholes
    /\ UNCHANGED <<jload, queue, gvars, continued>>
\* PTRACE_KILL: send_signal(SIGKILL), then the group goes on; the ptrace lock
\* is held all the time.
ptrace_kill ==
    /\ At(Shell, "ptrace_kill") /\ deliver_signal("KILL")
    /\ Goes(Shell, "continue", "group", {"ptrace"})
    /\ UNCHANGED <<jload, gvars, ptrace, continued, jholes>>

Thread(t) ==
    \/ receive_signals(t) \/ was_stopped(t) \/ take(t) \/ receive_stop(t) \/ now_stopped(t) \/ tell(t)
    \/ park(t) \/ trace_stop(t) \/ trace_wait(t) \/ trace_woken(t) \/ trace_look(t)
    \/ sys_exit_group(t) \/ do_exit_group(t) \/ exit_group_locked(t) \/ kill_others(t) \/ exit_wait(t)
    \/ exit_gives_up(t) \/ check_group_exit(t) \/ do_exit(t) \/ exit_usage(t) \/ exit_tgroup(t)
Parent ==
    \/ do_kill \/ kill_task \/ send_signal \/ continue \/ kill_group \/ no_group \/ unlock_again
    \/ do_wait \/ wait \/ sys_ptrace \/ find_child \/ ptrace_request \/ ptrace_kill
Next == (\E t \in Threads : Thread(t)) \/ Parent
Spec == Init /\ [][Next]_vars
------------------------------------------------------------------------------
\* Actors each of which wants a lock that another of them holds.
Deadlocked ==
    UNION {S \in SUBSET Actors : \A a \in S : jthr[a].want # NULL /\ jowner[jthr[a].want] \in S}
\* do_exit_group takes care not to deadlock (kernel/exit.c:226 "Other threads
\* exit immediately to avoid deadlock"): no circle of threads that wait for
\* each other's locks.
NoExitDeadlock == Deadlocked = {}
\* The only circle has a thread that receives a stop, the sighand locked, and
\* one that kills the group, the group locked.
OnlyStopDeadlocks ==
    Deadlocked # {} => {"stop", "kill_others"} \subseteq {jthr[a].pc : a \in Deadlocked}

\* A thread sleeps on stopped_cond only while its group is stopped, and in a
\* traced stop only until it is continued or killed, unless the kill came
\* between the stop and the wait.
SleepsJustified ==
    \A t \in asleep \ {Shell} :
        IF jthr[t].pc = "park" THEN stopped
        ELSE "kill_missed" \in jholes \/ jthr[Shell].pc = "ptrace_kill" \/ (ptrace.stopped /\ ~Has(t, "KILL"))

\* A stop is not forgotten: a parent asleep in wait has heard of every stop of a
\* group that is not about to exit, or is about to be told.
StopsReported ==
    Shell \in asleep => Nothing \/ doing_group_exit \/
        \E t \in Threads : /\ jthr[t].pc \in {"take", "now_stopped", "tell", "exit_group", "exit_group_locked"}
                         /\ jthr[t].pc = "take" => ~jthr[t].was

\* What else can go wrong in each program, and no more.
KnownJobHoles == jholes \subseteq jload.known

\* The four together.
JobsSound == OnlyStopDeadlocks /\ SleepsJustified /\ StopsReported /\ KnownJobHoles
=============================================================================
