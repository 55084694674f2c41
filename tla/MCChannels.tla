------------------------------ MODULE MCChannels ------------------------------
(***************************************************************************)
(* For TLC: descriptors and what processes read, talk and wait through,    *)
(* one component at a time (the components share no state but the          *)
(* descriptors).  A component's programs say who calls what, and which of  *)
(* the known holes of its code the program can reach.                      *)
(***************************************************************************)
EXTENDS Integers, Sequences, FiniteSets, TLC

CONSTANTS NULL, FREED, Parts

\* Three tasks that open, duplicate, close and inherit descriptors, with tables
\* and directories that are shared or not, and mounts on a path in use.
TablePrograms ==
  LET Root == <<>>
      L(n, ops, share, points, paths) ==
          [calls |-> n, ops |-> ops, share |-> share, points |-> points, paths |-> paths,
           mounts |-> [i \in 1 .. Len(points) |-> Len(points) + 1 - i], rlimit |-> 2]
  IN  { L(4, {"open", "close", "dup", "dup3", "exec", "clone", "exit"}, {FALSE}, <<Root>>, {Root}),
        L(4, {"setfd", "dupfd", "close_range", "clone", "exec", "dup3"}, {FALSE}, <<Root>>, {Root}),
        L(3, {"chdir", "fchdir", "chroot", "clone", "exit"}, {FALSE, TRUE}, <<Root>>, {Root}),
        L(4, {"chdir", "clone"}, {FALSE, TRUE}, <<Root>>, {Root}),
        L(4, {"procfd", "clone", "close", "exit", "dup"}, {FALSE}, <<Root>>, {Root}),
        L(4, {"open", "close", "dup", "dupfd", "setfd", "clone"}, {TRUE}, <<Root>>, {Root}),
        L(4, {"open", "close", "mount", "umount"}, {FALSE}, <<Root, <<"a">>>>, {<<"a">>, <<"b">>}),
        L(4, {"open", "close", "mount", "umount", "clone"}, {FALSE}, <<Root, <<"a">>>>, {<<"a">>}) }

\* Two processes that share a file of tmpfs, realfs or procfs, copy from it, or
\* list a directory while entries are made.
IoPrograms ==
  LET L(kind, n, ops, size, far, short, entries) ==
          [kind |-> kind, calls |-> n, ops |-> ops, size |-> size, far |-> far, short |-> short,
           entries |-> entries]
  IN  { L("tmp", 4, {"pread", "pwritev", "lseek"}, 2, 2, FALSE, 0),
        L("tmp", 3, {"preadv", "pwrite", "lseek"}, 2, 2, FALSE, 0),
        L("real", 4, {"pwrite", "lseek", "readv", "write"}, 2, 2, FALSE, 0),
        L("proc", 3, {"pread", "pwrite", "lseek", "read", "writev"}, 2, 2, FALSE, 0),
        L("real", 2, {"sendfile", "read", "pread"}, 3, 2, TRUE, 0),
        L("proc", 3, {"copy_file_range", "read", "lseek"}, 3, 2, FALSE, 0),
        L("tmp", 6, {"getdents", "creat"}, 0, 0, FALSE, 3) }

\* Three processes, or two of which the first has two threads.  A message queue
\* of two and of one, opened, unlinked and closed; messages by type;
\* semaphores; segments, mapped twice and inherited.
IpcPrograms ==
  LET Each == [u1 |-> 1, u2 |-> 2, u3 |-> 3]
      Shared == [u1 |-> 1, u2 |-> 1, u3 |-> 2]
      L(proc, a, b, c, calls, addrs) ==
          [proc |-> proc, left |-> [u1 |-> a, u2 |-> b, u3 |-> c], calls |-> calls, addrs |-> addrs, twice |-> FALSE]
      Open(c, x, attr, max, nb) == [do |-> "mq_open", name |-> 1, create |-> c, excl |-> x,
                                    attr |-> attr, max |-> max, nonblock |-> nb]
      Unlink == [do |-> "mq_unlink", name |-> 1]
      Send(p) == [do |-> "mq_send", prio |-> p]
      Read(short) == [do |-> "mq_read", short |-> short]
      D(do) == [do |-> do]
      Id(do, id) == [do |-> do, id |-> id]
      Get(do, key, create, n) == [do |-> do, key |-> key, create |-> create, n |-> n]
      Snd(ty) == [do |-> "msgsnd", id |-> 1, type |-> ty]
      Rcv(ty, ex, nw) == [do |-> "msgrcv", id |-> 1, type |-> ty, except |-> ex, nowait |-> nw]
      Op(n, v) == [num |-> n, op |-> v]
      SemOp(ops, nw) == [do |-> "semop", id |-> 1, ops |-> ops, nowait |-> nw]
      At(do, addr) == [do |-> do, addr |-> addr]
  IN  { L(Each, 3, 3, 2, {Open(TRUE, FALSE, FALSE, 2, FALSE), Send(0), Send(1), D("mq_receive"),
                          D("mq_write"), Read(FALSE), Read(TRUE)}, {}),
        L(Each, 3, 2, 1, {Open(TRUE, TRUE, TRUE, 1, FALSE), Open(FALSE, FALSE, FALSE, 1, TRUE), Unlink,
                          Send(0), D("mq_receive"), D("mq_close"), [do |-> "mq_setflags", nonblock |-> TRUE]}, {}),
        L(Shared, 3, 3, 2, {Open(TRUE, FALSE, FALSE, 1, FALSE), Unlink, D("mq_receive"), D("mq_close"),
                            [do |-> "mq_setattr", nonblock |-> TRUE]}, {}),
        L(Each, 3, 2, 2, {Get("msgget", 1, TRUE, 0), Id("msgrm", 1), Snd(1), Snd(2), Rcv(0, FALSE, FALSE),
                          Rcv(1, TRUE, FALSE), Rcv(2, FALSE, TRUE), Rcv(-2, FALSE, FALSE)}, {}),
        L(Each, 3, 2, 2, {Get("semget", 1, TRUE, 2), Get("semget", 2, FALSE, 1), Id("semrm", 1),
                          [do |-> "setval", id |-> 1, num |-> 1, val |-> 1], [do |-> "setall", id |-> 1, val |-> 2],
                          SemOp(<<Op(1, -1), Op(2, 1)>>, FALSE), SemOp(<<Op(2, -1)>>, FALSE),
                          SemOp(<<Op(1, 0), Op(2, 0)>>, FALSE), SemOp(<<Op(1, -2)>>, TRUE)}, {}),
        L(Each, 4, 3, 0, {Get("shmget", 0, TRUE, 0), Get("shmget", 1, TRUE, 0), Id("shmrm", 1),
                          [do |-> "shmat", id |-> 1, addr |-> 1, remap |-> FALSE],
                          [do |-> "shmat", id |-> 2, addr |-> 1, remap |-> TRUE],
                          At("shmdt", 1), At("mmap", 1), At("munmap", 1), [do |-> "fork", to |-> 2]}, {1, 2}) }

\* Two processes, or two threads of one: connections to a name and to a path,
\* pairs with descriptors in flight, a full table, and a device that sleeps.
SockPrograms ==
  LET Two == [k1 |-> 1, k2 |-> 2]
      One == [k1 |-> 1, k2 |-> 1]
      K(proc, a, b, calls, flags, known) ==
          [proc |-> proc, left |-> [k1 |-> a, k2 |-> b], calls |-> calls, full |-> "full" \in flags,
           sleeps |-> "sleeps" \in flags, signals |-> "signals" \in flags, nonblock |-> "nonblock" \in flags,
           timeout |-> "timeout" \in flags, paths |-> IF "paths" \in flags THEN {2} ELSE {}, known |-> known]
  IN  { K(Two, 5, 2, {"socket", "bind", "listen", "connect", "accept", "close"}, {"signals"}, {"listen_twice"}),
        K(Two, 4, 3, {"socket", "bind", "listen", "connect", "accept", "close"}, {}, {"listen_twice"}),
        K(Two, 5, 2, {"socket", "bind", "listen", "connect", "unlink", "close"}, {"paths"},
          {"listen_twice", "bind_closed"}),
        K(One, 4, 1, {"socketpair", "sendmsg", "recvmsg", "close"}, {"nonblock"},
          {"scm_twice", "mixed", "send_closed", "recv_closed"}),
        K(Two, 5, 0, {"socketpair", "sendmsg", "sendto", "shutdown", "recvmsg", "recvfrom", "close"}, {"full"},
          {"mixed", "dropped"}),
        K(One, 3, 2, {"socketpair", "sendto", "recvfrom", "shutdown", "close"}, {"timeout"}, {"recv_closed"}),
        K(One, 3, 3, {"socket", "bind"}, {"full", "paths"}, {"closed_other"}),
        K(One, 4, 2, {"socket", "bind", "listen", "accept", "close"}, {"sleeps"},
          {"listen_twice", "resume_locked", "saved_freed"}) }

\* Typing with editing and the end of file, while two processes read; a full
\* buffer and a flush by a signal character; raw input after canonical input and
\* the other way round; opening, closing and sessions; the master closed under a
\* write and a read of the slave; typing and reading at the master; a window
\* size while the shell reads.
TtyPrograms ==
  LET W(x, ch) == [op |-> "write", x |-> x, ch |-> ch, nonblock |-> FALSE]
      WN(x, ch) == [op |-> "write", x |-> x, ch |-> ch, nonblock |-> TRUE]
      R(x, n) == [op |-> "read", x |-> x, n |-> n, nonblock |-> FALSE]
      RN(x, n) == [op |-> "read", x |-> x, n |-> n, nonblock |-> TRUE]
      Look(x) == [op |-> "poll", x |-> x]
      Open(no) == [op |-> "open", x |-> "s", noctty |-> no]
      Close(x) == [op |-> "close", x |-> x]
      Leave == [op |-> "leave", x |-> "s"]
      Ioctl(x, cmd) == [op |-> "ioctl", x |-> x, cmd |-> cmd]
      Mode(x, cmd, c) == [op |-> "ioctl", x |-> x, cmd |-> cmd, canon |-> c]
      Ctty == [op |-> "ioctl", x |-> "s", cmd |-> "TIOCSCTTY", force |-> TRUE]
      Pgrp(p) == [op |-> "ioctl", x |-> "s", cmd |-> "TIOCSPGRP", pgid |-> p]
      Own == [y1 |-> "y1", y2 |-> "y2", y3 |-> "y3"]
      Tl(a, b, c, m, s, ctls, canon, known) ==
          [script |-> [y1 |-> a, y2 |-> b, y3 |-> c], m |-> m, s |-> s, ctl |-> ctls, canon |-> canon,
           sid |-> [y1 |-> "y1", y2 |-> "y1", y3 |-> "y3"], pgid |-> Own, signals |-> FALSE, known |-> known]
      Keys(l) == [l EXCEPT !.signals = TRUE]
  IN  { Tl(<<W("m", "erase"), W("m", "a"), W("m", "erase"), W("m", "nl"), W("m", "eof")>>,
           <<R("s", 1), RN("s", 3)>>, <<R("s", 3)>>, {"y1"}, {"y2", "y3"}, {}, TRUE, {}),
        Keys(Tl(<<W("m", "a"), W("m", "intr"), WN("m", "nl")>>, <<R("s", 3)>>,
                <<W("s", "a"), RN("m", 3), R("m", 3)>>, {"y1", "y3"}, {"y2", "y3"}, {"y2"}, TRUE, {})),
        Keys(Tl(<<W("m", "a"), W("m", "a"), W("m", "a"), W("m", "nl")>>, <<WN("m", "a"), WN("m", "intr")>>,
                <<R("s", 3)>>, {"y1", "y2"}, {"y3"}, {"y3"}, TRUE, {"flush"})),
        Tl(<<W("m", "a"), W("m", "nl"), W("m", "nul"), W("m", "nul")>>,
           <<R("s", 3), Mode("s", "TCSETS", FALSE), R("s", 1), R("s", 1)>>, <<>>, {"y1"}, {"y2"}, {}, TRUE,
           {"stale_flag", "stale_mode"}),
        Tl(<<Mode("m", "TCSETSF", TRUE), W("m", "a"), W("m", "nl")>>,
           <<R("s", 3), Mode("s", "TCSETS", TRUE), RN("s", 3)>>,
           <<W("m", "intr"), Ioctl("m", "TIOCGPGRP"), Ioctl("m", "TIOCSWINSZ")>>, {"y1", "y3"}, {"y2"}, {}, FALSE,
           {"stale_flag"}),
        Tl(<<Open(FALSE), R("s", 1), Leave, Close("s")>>, <<Open(TRUE), Ctty, Close("s"), Leave>>,
           <<R("m", 1), Close("m"), Open(FALSE)>>, {"y3"}, {}, {}, TRUE, {}),
        [Tl(<<Open(FALSE), Pgrp("y1"), Close("s"), Leave>>,
            <<Open(FALSE), Ctty, Pgrp("y2"), RN("s", 1), Leave, Close("s")>>,
            <<Look("m"), Close("m")>>, {"y3"}, {}, {}, TRUE, {}) EXCEPT !.sid = Own],
        Tl(<<Close("s"), Leave>>, <<Pgrp("y2"), Leave>>, <<R("m", 1)>>, {"y3"}, {"y1"}, {"y1", "y2"}, TRUE, {}),
        Tl(<<W("s", "a"), W("s", "a")>>, <<W("s", "a"), Look("s")>>, <<RN("m", 1), Close("m")>>, {"y3"},
           {"y1", "y2"}, {}, TRUE, {"master_gone"}),
        Tl(<<R("s", 1)>>, <<>>, <<Close("m")>>, {"y3"}, {"y1"}, {}, TRUE, {}),
        Tl(<<W("m", "a")>>, <<R("m", 1)>>, <<>>, {"y1", "y2"}, {"y3"}, {}, TRUE, {}),
        Tl(<<Ioctl("m", "TIOCSWINSZ")>>, <<R("s", 1)>>, <<>>, {"y1"}, {"y2"}, {"y2"}, TRUE, {}) }

\* Level and edge triggered waits by two threads; descriptors closed, added twice
\* and a poll destroyed; one-shot entries of an event descriptor and a real one.
PollPrograms ==
  LET Ctl(c, f, et, one) == [op |-> "ctl", ctl |-> c, fd |-> f, et |-> et, oneshot |-> one]
      Add(f) == Ctl("add", f, FALSE, FALSE)
      AddEt(f) == Ctl("add", f, TRUE, FALSE)
      AddOne(f) == Ctl("add", f, FALSE, TRUE)
      Del(f) == Ctl("del", f, FALSE, FALSE)
      Mod(f) == Ctl("mod", f, TRUE, FALSE)
      Wait(n) == [op |-> "wait", max |-> n, timeout |-> FALSE, fd |-> NULL]
      Do(op, f) == [op |-> op, fd |-> f, nonblock |-> FALSE]
      Now(op, f) == [op |-> op, fd |-> f, nonblock |-> TRUE]
      Close(f) == [op |-> "close", fd |-> f]
      Pl(files, a, b, c, timeouts, signals, known) ==
          [files |-> files, script |-> [q1 |-> a, q2 |-> b, q3 |-> c],
           timeouts |-> timeouts, signals |-> signals, known |-> known]
      Ev == [e |-> "event"]
      Both == [e |-> "event", g |-> "event"]
  IN  { Pl(Both, <<Add("e"), AddEt("g"), Wait(2), Do("read", "e"), Wait(1), Wait(2)>>,
           <<Do("write", "e"), Do("write", "g"), Do("write", "g")>>, <<Do("write", "e"), Now("read", "g")>>,
           TRUE, FALSE, {"refused"}),
        Pl(Ev, <<AddEt("e"), Wait(1), Wait(1)>>, <<Wait(1), Do("write", "e")>>,
           <<Do("write", "e"), Now("write", "e"), Now("read", "e")>>, FALSE, TRUE, {}),
        Pl([e |-> "event", r |-> "real"], <<AddEt("r"), Add("e"), Wait(2), Mod("e"), Wait(1)>>,
           <<Do("write", "r"), Do("write", "e"), Do("write", "r")>>,
           <<[Wait(2) EXCEPT !.timeout = TRUE], Del("r"), Wait(1)>>, TRUE, FALSE, {"refused"}),
        Pl(Ev, <<Do("write", "e"), Do("write", "e"), Do("write", "e"), Do("read", "e")>>,
           <<Do("read", "e"), Do("write", "e")>>, <<Do("read", "e"), Add("e"), Wait(1)>>, FALSE, FALSE, {}),
        Pl(Both, <<Add("e"), Wait(1)>>, <<Add("g"), Close("e"), Do("write", "g")>>,
           <<Do("write", "e"), Mod("e"), Del("g")>>, FALSE, FALSE, {"late_add", "refused"}),
        Pl(Both, <<Add("e"), Add("g"), [op |-> "destroy", fd |-> NULL]>>, <<Close("e"), Close("g")>>,
           <<Do("write", "g"), Do("write", "e")>>, FALSE, FALSE, {"destroyed", "late_add"}),
        Pl(Ev, <<Add("e"), Wait(1)>>, <<Add("e"), Close("e")>>, <<Do("write", "e")>>, FALSE, FALSE,
           {"added_twice", "late_add"}),
        Pl(Ev, <<AddOne("e"), Wait(1), Mod("e")>>, <<Wait(1)>>, <<Do("write", "e"), Do("write", "e")>>,
           TRUE, FALSE, {"oneshot_freed"}),
        Pl([r |-> "real"], <<AddOne("r"), Wait(1)>>, <<Wait(1)>>, <<Do("write", "r")>>, TRUE, FALSE,
           {"oneshot_freed"}) }

\* One call each: poll and select over files that two descriptors may share, with
\* bad descriptors, limits, signals and a file closed meanwhile; sleeps, relative
\* and absolute; arguments that cannot be read or written; an idle program.
WaitPrograms ==
  LET Empty == [x \in {} |-> NULL]
      Args == [polls |-> <<>>, fds |-> <<>>, read |-> {}, write |-> {}, except |-> {}, timeout |-> NULL,
               fault |-> NULL, mask |-> NULL, absolute |-> FALSE, blocked |-> FALSE,
               table |-> Empty, level |-> Empty, levels |-> {}, budget |-> 0, spurious |-> FALSE,
               signals |-> FALSE, call |-> "poll", known |-> {}, init |-> FALSE, tty |-> FALSE,
               children |-> FALSE, busy |-> FALSE, idle |-> FALSE, exiting |-> FALSE]
      E(fd, events) == [fd |-> fd, events |-> events]
      Two == [Args EXCEPT !.table = 0 :> "a" @@ 1 :> "b" @@ 2 :> "a", !.level = [a |-> {}, b |-> {}],
                          !.budget = 2, !.levels = {{}, {"IN"}, {"OUT", "HUP"}, {"ERR", "PRI"}}]
      Asking == {<<E(0, {"IN"}), E(1, {"OUT"}), E(2, {"OUT"})>>,
                 <<E(0, {"PRI"}), E(-1, {"IN"}), E(2, {"PRI", "IN"})>>, <<E(7, {"IN"}), E(1, {"IN"})>>}
      Limits == {<<"poll", NULL, TRUE, NULL>>, <<"poll", 4, FALSE, NULL>>, <<"ppoll", 1, FALSE, TRUE>>,
                 <<"ppoll", 11, TRUE, TRUE>>}
      Sets == {<<{0, 1}, {0}, {}>>, <<{1}, {2}, {0}>>, <<{0, 3}, {}, {}>>}
  IN  { [Two EXCEPT !.polls = p, !.call = c[1], !.timeout = c[2], !.spurious = c[3], !.signals = ~c[3],
                    !.mask = c[4], !.known = {"count", "nval", "gone"}] : p \in Asking, c \in Limits }
      \cup
      { [Two EXCEPT !.fds = <<0, 1, 2, 3>>, !.read = s[1], !.write = s[2], !.except = s[3], !.timeout = 9,
                    !.call = c, !.signals = TRUE, !.mask = FALSE, !.blocked = TRUE, !.spurious = TRUE,
                    !.known = {"gone"}] : s \in Sets, c \in {"select", "pselect"} }
      \cup
      { [Args EXCEPT !.call = "nanosleep", !.timeout = t, !.signals = TRUE, !.blocked = b, !.fault = f,
                     !.known = {"yield", "rem"}] :
          t \in {0, 1, 2, 3, 9}, b \in BOOLEAN, f \in {NULL, "read", "write"} }
      \cup
      { [Args EXCEPT !.call = "clock_nanosleep", !.timeout = t, !.absolute = a, !.fault = f, !.signals = TRUE,
                     !.known = {"rem"}] :
          t \in {0, 1, 3, 9}, a \in BOOLEAN, f \in {NULL, "read", "write", "clock"} }
      \cup
      { [Two EXCEPT !.polls = <<E(0, {"IN"})>>, !.fds = <<0>>, !.read = {0}, !.call = c, !.fault = f,
                    !.exiting = e, !.idle = ~e, !.tty = y, !.timeout = 8, !.budget = 1,
                    !.known = {"gone", "nval"}] :
          c \in {"poll", "select"}, f \in {NULL, "read", "write"}, e \in BOOLEAN, y \in BOOLEAN }
------------------------------------------------------------------------------
VARIABLES part,   \* the component that runs; never changes
          load, mounts, mnt, cache, version, call, fd, tab, fsi, task, calls, lost, died,   \* FdTable
          ioload, data, pos, fdlock, io, out, ref, dir, dirpos, seen, iocalls,   \* FileIo
          iload, user, mq, fds, msgq, sem, net, shm, attaches, maps, sent, iraced, idied,   \* Ipc
          kload, kthr, sk, hfd, peer_lock, sockrestart_lock, names, leaked, file, inode,
          next_id, scm, listen_fds, saved, awake, kholes,   \* Sock
          tload, thr, owner, tty, files, ctl, took, holes,   \* Tty
          pload, pthr, powner, pfd, order, poll, evfd, host, told, pholes,   \* Poll
          wload, table, level, refs, clock, sig, budget, w, wholes   \* Waits

D == INSTANCE FdTable WITH Tasks <- {"t1", "t2", "t3"}, First <- "t1", MaxMounts <- 3,
        MaxFiles <- 5, MaxFd <- 2, Loads <- TablePrograms
F == INSTANCE FileIo WITH Procs <- {"p1", "p2"}, MaxSize <- 4, Chunk <- 2, Loads <- IoPrograms,
        load <- ioload, calls <- iocalls
I == INSTANCE Ipc WITH Users <- {"u1", "u2", "u3"}, SemMod <- 65536, IpcLoads <- IpcPrograms,
        raced <- iraced, died <- idied
S == INSTANCE Sock WITH Sockers <- {"k1", "k2"}, MaxSocks <- 4, Names <- {1, 2},
        SockLoads <- SockPrograms, thr <- kthr, holes <- kholes
T == INSTANCE Tty WITH Ttyers <- {"y1", "y2", "y3"}, BufSize <- 2, TtyLoads <- TtyPrograms
P == INSTANCE Poll WITH Pollers <- {"q1", "q2", "q3"}, PollFds <- {1, 2, 3}, EventMax <- 3,
        PollLoads <- PollPrograms
W == INSTANCE Waits WITH SECOND <- 4, MILLI <- 2, MaxClock <- 24, WaitLoads <- WaitPrograms

tables_vars == <<load, mounts, mnt, cache, version, call, fd, tab, fsi, task, calls, lost, died>>
io_vars == <<ioload, data, pos, fdlock, io, out, ref, dir, dirpos, seen, iocalls>>
ipc_vars == <<iload, user, mq, fds, msgq, sem, net, shm, attaches, maps, sent, iraced, idied>>
sock_vars == <<kload, kthr, sk, hfd, peer_lock, sockrestart_lock, names, leaked, file, inode,
        next_id, scm, listen_fds, saved, awake, kholes>>
tty_vars == <<tload, thr, owner, tty, files, ctl, took, holes>>
poll_vars == <<pload, pthr, powner, pfd, order, poll, evfd, host, told, pholes>>
waits_vars == <<wload, table, level, refs, clock, sig, budget, w, wholes>>

Init ==
    /\ part \in Parts
    /\ IF part = "tables" THEN D!Init
       ELSE load = NULL /\ mounts = NULL /\ mnt = NULL /\ cache = NULL /\ version = NULL /\
            call = NULL /\ fd = NULL /\ tab = NULL /\ fsi = NULL /\ task = NULL /\
            calls = NULL /\ lost = NULL /\ died = NULL
    /\ IF part = "io" THEN F!Init
       ELSE ioload = NULL /\ data = NULL /\ pos = NULL /\ fdlock = NULL /\ io = NULL /\
            out = NULL /\ ref = NULL /\ dir = NULL /\ dirpos = NULL /\ seen = NULL /\
            iocalls = NULL
    /\ IF part = "ipc" THEN I!Init
       ELSE iload = NULL /\ user = NULL /\ mq = NULL /\ fds = NULL /\ msgq = NULL /\
            sem = NULL /\ net = NULL /\ shm = NULL /\ attaches = NULL /\ maps = NULL /\
            sent = NULL /\ iraced = NULL /\ idied = NULL
    /\ IF part = "sock" THEN S!Init
       ELSE kload = NULL /\ kthr = NULL /\ sk = NULL /\ hfd = NULL /\ peer_lock = NULL /\
            sockrestart_lock = NULL /\ names = NULL /\ leaked = NULL /\ file = NULL /\
            inode = NULL /\ next_id = NULL /\ scm = NULL /\ listen_fds = NULL /\
            saved = NULL /\ awake = NULL /\ kholes = NULL
    /\ IF part = "tty" THEN T!Init
       ELSE tload = NULL /\ thr = NULL /\ owner = NULL /\ tty = NULL /\ files = NULL /\
            ctl = NULL /\ took = NULL /\ holes = NULL
    /\ IF part = "poll" THEN P!Init
       ELSE pload = NULL /\ pthr = NULL /\ powner = NULL /\ pfd = NULL /\ order = NULL /\
            poll = NULL /\ evfd = NULL /\ host = NULL /\ told = NULL /\ pholes = NULL
    /\ IF part = "waits" THEN W!Init
       ELSE wload = NULL /\ table = NULL /\ level = NULL /\ refs = NULL /\ clock = NULL /\
            sig = NULL /\ budget = NULL /\ w = NULL /\ wholes = NULL
Next ==
    \/ part = "tables" /\ D!Next /\ UNCHANGED <<part, io_vars, ipc_vars, sock_vars, tty_vars,
               poll_vars, waits_vars>>
    \/ part = "io" /\ F!Next /\ UNCHANGED <<part, tables_vars, ipc_vars, sock_vars, tty_vars,
               poll_vars, waits_vars>>
    \/ part = "ipc" /\ I!Next /\ UNCHANGED <<part, tables_vars, io_vars, sock_vars, tty_vars,
               poll_vars, waits_vars>>
    \/ part = "sock" /\ S!Next /\ UNCHANGED <<part, tables_vars, io_vars, ipc_vars, tty_vars,
               poll_vars, waits_vars>>
    \/ part = "tty" /\ T!Next /\ UNCHANGED <<part, tables_vars, io_vars, ipc_vars, sock_vars,
               poll_vars, waits_vars>>
    \/ part = "poll" /\ P!Next /\ UNCHANGED <<part, tables_vars, io_vars, ipc_vars, sock_vars,
               tty_vars, waits_vars>>
    \/ part = "waits" /\ W!Next /\ UNCHANGED <<part, tables_vars, io_vars, ipc_vars, sock_vars,
               tty_vars, poll_vars>>
Spec == Init /\ [][Next]_<<part, tables_vars, io_vars, ipc_vars, sock_vars, tty_vars, poll_vars, waits_vars>>
------------------------------------------------------------------------------
\* Open files (fs/fd.c, kernel/fs_info.c, fs/mount.c): files and mounts are counted
\* as often as they are referred to, a call uses no freed file of a table of its
\* own, and a path is looked up in the mount it belongs to.
TablesSound == part = "tables" => D!TablesSound
\* Reads and writes (kernel/fs.c): positioned calls keep the shared position, copies
\* deliver the bytes they report, and a listing returns every entry once.
IoSound == part = "io" => F!IoSound
\* POSIX and System V IPC (kernel/ipc.c): message queues keep their order, limits
\* and references, every change that lets a sleeper go on wakes it, semaphores
\* add up and attached segments can be detached.
IpcSound == part = "ipc" => I!IpcSound
\* Local sockets (fs/sock.c): peers point at each other, descriptors in flight
\* are received or freed once, names lead to the socket bound to them, also
\* across a suspension of the device.
SockSound == part = "sock" => S!SockSound
\* Terminals (fs/tty.c, fs/pty.c): references and sessions, no input lost or out
\* of order, nobody asleep without reason, and only the echo and a new window
\* size take locks against the order.
TtySound == part = "tty" => T!TtySound
\* epoll and eventfd (fs/poll.c): an event that was not reported wakes a waiter;
\* entries, pipe and waiter count agree.
PollSound == part = "poll" => P!PollSound
\* poll, select and sleeps (kernel/poll.c, kernel/time.c): limits are kept,
\* answers are what was ready, and every file is released.
WaitsSound == part = "waits" => W!WaitsSound
==============================================================================
