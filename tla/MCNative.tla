------------------------------ MODULE MCNative -------------------------------
(***************************************************************************)
(* For TLC: what threads and processes of the host do for the guest, one   *)
(* component at a time: futexes, timers, atomic instructions and offloaded *)
(* programs.  The host timer has values and intervals of 0 (disarm,        *)
(* one-shot) to 3 ticks, so that a timer can be made shorter, longer,      *)
(* periodic and late.                                                      *)
(***************************************************************************)
EXTENDS Futex, Timer, TLC

CONSTANTS NULL, Parts

\* Two threads that wait, one of which may also requeue and wake after changing a
\* word, and one that wakes and requeues, so that queues of two are taken apart and
\* rotated; two words, so that a requeue has somewhere to go.
Roles == [t1 |-> {"WAIT"}, t2 |-> {"WAIT", "REQUEUE", "WAKE_OP"}, t3 |-> {"WAKE", "CMP_REQUEUE"}]

\* Three cpus, words of two bits.  Additions by exclusive pairs of instructions, on
\* one word and on two; stores after CLREX or to another address; compare and swap;
\* and every read-modify-write instruction on every pair of values.
AtomicPrograms ==
  LET E(name, b23, b22, b21, sz, rt2) ==
          [op |-> name, lse |-> FALSE, o2 |-> b23, L |-> b22, o1 |-> b21, size |-> sz, low2 |-> rt2 % 4, retry |-> TRUE]
      Rmw(n, wd, v) == [op |-> "RMW", lse |-> TRUE, opc |-> n, w |-> wd, val |-> v]
      Cas(wd, e, n) == E("CAS", 1, 0, 1, 2, 31) @@ [w |-> wd, exp |-> e, new |-> n]
      Casp(e, n) == E("CASP", 0, 0, 1, 0, 31) @@ [exp |-> e, new |-> n]
      Ldxr(wd) == E("LDXR", 0, 1, 0, 2, 31) @@ [w |-> wd]
      Stxr(wd) == E("STXR", 0, 0, 0, 2, 31) @@ [w |-> wd]
      Ldxp == E("LDXP", 0, 1, 1, 2, 3)
      Stxp == E("STXP", 0, 0, 1, 2, 7)
      Once(i) == [i EXCEPT !.retry = FALSE]
      Clrex == [op |-> "CLREX", lse |-> TRUE, opc |-> 15]
      Str(wd, v) == E("STLR", 1, 0, 0, 2, 31) @@ [w |-> wd, val |-> v]
      K(p1, p2, p3, m, add, ext, kn) ==
          [prog |-> [c1 |-> p1, c2 |-> p2, c3 |-> p3], mem |-> [w \in 0 .. 1 |-> m[w + 1]],
           adds |-> add, extreme |-> ext, known |-> kn]
      Inc(w) == <<Ldxr(w), Stxr(w)>>
      IncPair == <<Ldxp, Stxp>>
  IN  { K(Inc(0), Inc(0), <<Rmw(0, 0, 3), Rmw(0, 0, 1)>>, <<2, 0>>, TRUE, FALSE, {"aba"}),
        K(IncPair, IncPair, IncPair, <<3, 1>>, TRUE, FALSE, {"torn"}),
        K(IncPair, IncPair, Inc(1), <<3, 1>>, TRUE, FALSE, {"torn", "lost", "aba"}),
        K(<<Ldxr(0), Clrex, Once(Stxr(0)), Ldxp, Clrex, Once(Stxp)>>, <<Ldxp, Ldxr(0), Once(Stxp)>>,
          <<Ldxr(0), Once(Stxr(1)), Ldxr(0), Ldxp, Once(Stxr(0))>>, <<0, 0>>, FALSE, FALSE, {"torn"}),
        K(<<Cas(0, 0, 1), Cas(0, 1, 0)>>, Inc(0), <<Str(0, 2), Casp(<<2, 0>>, <<0, 3>>), Cas(1, 0, 1)>>,
          <<0, 0>>, FALSE, FALSE, {"aba", "lost"}) }
      \cup {K(<<Rmw(f, 0, v)>>, <<Rmw(f, 0, 2), Rmw(f, 0, 1)>>, <<Rmw(f, 0, 3)>>, <<m, 0>>, FALSE, TRUE, {}) :
              f \in 4 .. 7, v \in 0 .. 3, m \in 0 .. 3}
      \cup {K(<<Rmw(f, 0, v)>>, <<>>, <<>>, <<m, 0>>, FALSE, f \in {1, 3, 8}, {}) :
              f \in 0 .. 8, v \in 0 .. 3, m \in 0 .. 3}

\* Programs with timers: threads share an interval timer and leave; a timerfd is
\* reprogrammed while it is read, and closed; POSIX timers outlive their group,
\* are deleted by another thread, or fail.
TimerPrograms ==
  LET Arm(op) == <<op, TRUE>>
      Off(op) == <<op, FALSE>>
      Do(op) == <<op, NULL>>
      Wait == <<Do("wait")>>
      L(one, two, reap, periodic, known) ==
          [script |-> [c1 |-> one, c2 |-> two, pa |-> reap], periodic |-> periodic, known |-> known]
  IN  { L(<<Arm("setitimer"), Off("setitimer"), Do("exit")>>, <<Do("clone"), Arm("setitimer"), Do("exit")>>,
          Wait, {"itimer"}, {"task_gone"}),
        L(<<Arm("setitimer"), Arm("setitimer"), Do("exit")>>, <<Do("clone"), Do("exit")>>, Wait, {}, {}),
        L(<<Arm("timerfd_settime"), Do("timerfd_read"), Do("timerfd_read")>>,
          <<Arm("timerfd_settime"), Off("timerfd_settime"), Arm("timerfd_settime")>>, <<>>, {"timerfd"}, {}),
        L(<<Arm("timerfd_settime"), Do("timerfd_read"), Do("close")>>, <<>>, <<>>, {}, {}),
        L(<<<<"timer_create", "thread">>, Arm("timer_settime"), Do("timer_delete"), Do("exit")>>,
          <<Do("clone"), Do("exit")>>, Wait, {"posix"}, {}),
        L(<<<<"timer_create", "signal">>, Arm("timer_settime"), Do("exit")>>,
          <<Do("timer_delete"), Do("exit")>>, Wait, {"posix"}, {"group_gone", "no_timer"}),
        L(<<<<"timer_create", "nothread">>>>, <<Do("clone"), Arm("timer_settime")>>, <<>>,
          {}, {"pids_kept", "no_timer"}) }

\* Programs given to the host: two at once that write, that get signals and
\* that may fail to start, handlers registered over a program and too late, and
\* tasks in two directories.
OffloadPrograms ==
  LET E(name, how, there) == [name |-> name, how |-> how, there |-> there]
      specs == << E("ffmpeg", "spawn", TRUE), E("gone", "spawn", FALSE), E("open", "handler", TRUE),
                  E("ffmpeg", "handler", TRUE), E("late", "handler", TRUE) >>
      Two(x, y) == [g1 |-> x, g2 |-> y]
      L(runs, out, fails, signals, dir, args) ==
          [runs |-> runs, out |-> out, fails |-> fails, signals |-> signals, specs |-> specs,
           dir |-> dir, args |-> args]
  IN  { L(Two("ffmpeg", "ffmpeg"), 1, TRUE, 0, Two("d", "d"), Two({}, {})),
        L(Two("ffmpeg", "ffmpeg"), 0, FALSE, 1, Two("d", "d"), Two({}, {})),
        L(Two("open", "ffmpeg"), 2, FALSE, 0, Two("d", "d"), Two({}, {})),
        L(Two("ffmpeg", "late"), 1, FALSE, 1, Two("d", "d"), Two({"e", "d"}, {})),
        L(Two("open", "open"), 0, FALSE, 0, Two("d", "e"), Two({"e", "x"}, {"e"})) }
------------------------------------------------------------------------------
VARIABLES part,   \* the component that runs; never changes
          oload, guest, host, ends, opipe, copied, cwd, astray, entries, guest_cwd, known,
          muddled,   \* Offload
          aload, mem, written, added, cpu, pair_atomic_lock, aholes,   \* Atomics
          cload, cthr, cowner, tm, tasks, threads, tgroup, expirations, taken, fired, choles   \* GuestTimers

O == INSTANCE Offload WITH Guests <- {"g1", "g2"}, HostPids <- {"h1", "h2"}, PipeSize <- 1, MaxEntries <- 3,
                           OffloadLoads <- OffloadPrograms, pipe <- opipe
A == INSTANCE Atomics WITH Cpus <- {"c1", "c2", "c3"}, Width <- 2,
        AtomicLoads <- AtomicPrograms
G == INSTANCE GuestTimers WITH Callers <- {"c1", "c2"}, Leader <- "c1", Reaper <- "pa",
        MaxFires <- 3, TimerLoads <- TimerPrograms

offload_vars == <<oload, guest, host, ends, opipe, copied, cwd, astray, entries, guest_cwd,
        known, muddled>>
atomics_vars == <<aload, mem, written, added, cpu, pair_atomic_lock, aholes>>
guest_vars == <<cload, cthr, cowner, tm, tasks, threads, tgroup, expirations, taken, fired,
        choles>>

NativeInit ==
    /\ part \in Parts
    /\ Init /\ (part # "futex" => word = [a \in Addr |-> 0])
    /\ TimerInit /\ (part # "timer" => left = 0 /\ interval = 0)
    /\ O!Init /\ (part # "offload" => oload = CHOOSE l \in OffloadPrograms : TRUE)
    /\ IF part = "atomics" THEN A!Init
       ELSE aload = NULL /\ mem = NULL /\ written = NULL /\ added = NULL /\ cpu = NULL /\
            pair_atomic_lock = NULL /\ aholes = NULL
    /\ IF part = "guest" THEN G!Init
       ELSE cload = NULL /\ cthr = NULL /\ cowner = NULL /\ tm = NULL /\ tasks = NULL /\
            threads = NULL /\ tgroup = NULL /\ expirations = NULL /\ taken = NULL /\
            fired = NULL /\ choles = NULL
NativeNext ==
    \/ part = "futex" /\ Next /\ UNCHANGED <<part, timer_vars, offload_vars, atomics_vars, guest_vars>>
    \/ part = "timer" /\ TimerNext /\ UNCHANGED <<part, vars, offload_vars, atomics_vars, guest_vars>>
    \/ part = "offload" /\ O!Next /\ UNCHANGED <<part, vars, timer_vars, atomics_vars, guest_vars>>
    \/ part = "atomics" /\ A!Next /\ UNCHANGED <<part, vars, timer_vars, offload_vars,
               guest_vars>>
    \/ part = "guest" /\ G!Next /\ UNCHANGED <<part, vars, timer_vars, offload_vars,
               atomics_vars>>
\* The fairness of Futex, Timer and Offload.
NativeSpec ==
    /\ NativeInit /\ [][NativeNext]_<<part, vars, timer_vars, offload_vars, atomics_vars, guest_vars>>
    /\ \A t \in Thread : WF_vars(part = "futex" /\ WaitSteps(t))
    /\ WF_timer_vars(part = "timer" /\ timer_thread) /\ WF_timer_vars(part = "timer" /\ Tick)
    /\ \A g \in {"g1", "g2"} : WF_offload_vars(part = "offload" /\ O!Guest(g))
    /\ \A p \in {"h1", "h2"} : WF_offload_vars(part = "offload" /\ O!host_exit(p))
------------------------------------------------------------------------------
\* What guest programs do with timers (kernel/time.c): no expiration is lost or
\* read twice, and callbacks alone close a circle of waiting threads or meet dead
\* memory, in the known cases.
GuestTimersSound == part = "guest" => G!TimersSound
\* Atomic instructions (emu/tlb.c, asbestos/guest-arm64/gen.c): additions and
\* extremes from several threads are not lost, an exclusive store needs its load,
\* and the ways in which pairs and exclusives are not atomic are the known ones.
AtomicsSound == part = "atomics" => A!AtomicsSound
\* Programs offloaded to the host (kernel/native_offload.c): a task exits after all
\* the output and with the status of its own process, signals reach that process
\* as long as it is not waited for, and a single handler runs in its task's directory.
OffloadSound == O!OffloadSound
\* A task that has handed its program to the host exits or falls back to emulation.
OffloadEnds == O!OffloadEnds
==============================================================================
