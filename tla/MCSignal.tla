------------------------------ MODULE MCSignal -------------------------------
(***************************************************************************)
(* For TLC: what signals do to a task: the signals of one task, the wait   *)
(* that a signal breaks, and stops, tracing and kills of a job.            *)
(***************************************************************************)
EXTENDS Signal, WaitFor

CONSTANTS NULL, Parts

\* Programs for Signal, each small enough for its calls to be mixed freely: one that
\* waits with the mask it has, one with calls that have a mask of their own, one that
\* reads signals through a signalfd and may overrun its stack, and one that calls
\* sigtimedwait.
\* SIG_DFL, and two kinds of handler with a given sa_mask.
Handled(m) ==
    {SIG_DFL} \cup {[handler |-> "handler", nodefer |-> d, resethand |-> ~d, mask |-> m] : d \in BOOLEAN}
Installed(m) == Handled(m) \cup {[SIG_DFL EXCEPT !.handler = "SIG_IGN"]}
Pauser ==
    [sig |-> {"SIGKILL", "SIGCHLD", "SIGSEGV"}, calls |-> {"sigaction", "sigprocmask", "pause", "fault"},
     actions |-> Installed({"SIGSEGV"}), bad_stack |-> FALSE]
Masker ==
    [sig |-> {"SIGKILL", "SIGCHLD", "SIGSEGV"},
     calls |-> {"sigaction", "sigprocmask", "sigsuspend", "ppoll", "fault"},
     actions |-> Handled({"SIGSEGV"}), bad_stack |-> FALSE]
Reader ==
    [sig |-> {"SIGKILL", "SIGCHLD", "SIGUSR1"}, calls |-> {"sigaction", "sigprocmask", "pause", "signalfd"},
     actions |-> Installed({"SIGCHLD"}), bad_stack |-> TRUE]
Waiter ==
    [sig |-> {"SIGKILL", "SIGUSR1", "SIGCHLD"}, calls |-> {"sigaction", "sigsuspend", "sigtimedwait"},
     actions |-> Installed({"SIGUSR1"}), bad_stack |-> FALSE]
Idler == [sig |-> {"SIGUSR1"}, calls |-> {"sigtimedwait"}, actions |-> {}, bad_stack |-> FALSE]
AllPrograms == {Pauser, Masker, Reader, Waiter}
OnlyIdler == {Idler}

\* What a shell does to a job of two threads: it is stopped and continued while a
\* thread leaves or not; traced and killed; given up on; and sent a signal as a group.
JobPrograms ==
  LET Kill(s) == <<"kill", s>>
      Wait == <<"wait", NULL>>
      Trace(r) == <<"ptrace", r>>
      L(script, exits, traced, uses, known) ==
          [script |-> script, exits |-> exits, traced |-> traced, uses |-> uses, known |-> known]
  IN  { L(<<Kill("STOP"), Wait, Kill("CONT"), Kill("STOP"), Kill("KILL"), Wait>>, {}, FALSE, {}, {"stop_in_exit"}),
        L(<<Kill("STOP"), Kill("CONT"), Kill("STOP"), Wait, Kill("CONT")>>, {}, FALSE, {}, {"stop_after_cont"}),
        L(<<Kill("STOP"), Wait, Wait>>, {"j2"}, FALSE, {}, {"stop_in_exit"}),
        L(<<Kill("STOP"), Wait, Kill("KILL"), Wait>>, {"j2"}, FALSE, {"valve"}, {"stop_in_exit", "leaked_runs"}),
        L(<<Kill("TERM"), Wait, Trace("regs"), Trace("cont"), Kill("STOP"), Wait, Trace("kill"), Wait>>, {},
          TRUE, {}, {"kill_missed"}),
        L(<<Kill("TERM"), Wait, Kill("KILL"), Wait>>, {}, TRUE, {}, {"kill_missed"}),
        L(<<Kill("TERM"), Wait, Trace("fault"), Trace("cont")>>, {"j2"}, TRUE, {}, {"kill_missed", "ptrace_kept"}),
        L(<<<<"kill_group", NULL>>, Wait>>, {"j2"}, FALSE, {}, {"unlocked_twice"}) }
------------------------------------------------------------------------------
VARIABLES part,   \* the component that runs; never changes
          jload, jthr, jowner, jqueue, stopped, stop_code, doing_group_exit, listed, group_mem,
          jasleep, ptrace, continued, jholes   \* Jobs

J == INSTANCE Jobs WITH Threads <- {"j1", "j2"}, Tracee <- "j1", Shell <- "shell",
        JobLoads <- JobPrograms, queue <- jqueue, asleep <- jasleep

jobs_vars == <<jload, jthr, jowner, jqueue, stopped, stop_code, doing_group_exit, listed,
        group_mem, jasleep, ptrace, continued, jholes>>

SignalsInit ==
    /\ part \in Parts
    /\ Init /\ (part # "signal" => prog = CHOOSE p \in Programs : TRUE)
    /\ WaitInit
    /\ IF part = "jobs" THEN J!Init
       ELSE jload = NULL /\ jthr = NULL /\ jowner = NULL /\ jqueue = NULL /\ stopped = NULL /\
            stop_code = NULL /\ doing_group_exit = NULL /\ listed = NULL /\ group_mem = NULL /\
            jasleep = NULL /\ ptrace = NULL /\ continued = NULL /\ jholes = NULL
SignalsNext ==
    \/ part = "signal" /\ Next /\ UNCHANGED <<part, wait_vars, jobs_vars>>
    \/ part = "wait" /\ WaitNext /\ UNCHANGED <<part, vars, jobs_vars>>
    \/ part = "jobs" /\ J!Next /\ UNCHANGED <<part, vars, wait_vars>>
SignalsSpec == SignalsInit /\ [][SignalsNext]_<<part, vars, wait_vars, jobs_vars>>
\* The fairness of Signal and of WaitFor.
FairSignalsSpec ==
    /\ SignalsSpec
    /\ WF_vars(part = "signal" /\ InKernel) /\ WF_vars(part = "signal" /\ Interrupt)
    /\ WF_wait_vars(part = "wait" /\ TaskStep)
    /\ SF_wait_vars(part = "wait" /\ (Register \/ Unregister))
    /\ \A s \in Sender : WF_wait_vars(part = "wait" /\ SenderStep(s))
------------------------------------------------------------------------------
\* Stops, continues, tracing and kills (kernel/signal.c, kernel/exit.c,
\* kernel/ptrace.c): threads wait for each other in the known circle only, nobody
\* sleeps without a reason, and the parent hears of every stop.
JobsSound == part = "jobs" => J!JobsSound
==============================================================================
