--------------------------------- MODULE Tty ---------------------------------
(***************************************************************************)
(* Terminals (fs/tty.c, fs/pty.c): a pseudoterminal pair, master "m" and   *)
(* slave "s", its line discipline, the locks its calls take and the order  *)
(* they take them in, hanging up, and the references of files, of sessions *)
(* and of the master to the slave.                                         *)
(***************************************************************************)
EXTENDS Naturals, Sequences, FiniteSets

CONSTANTS Ttyers,     \* threads, each one a process and, if it leads, a session
          NULL,
          BufSize,    \* TTY_BUF_SIZE
          TtyLoads    \* see Init

VARIABLES tload,      \* who does what; never changes
          thr,        \* thread -> where it is in its script and its call
          owner,      \* lock -> thread: "ttys", "pids", and those of the two ttys
          tty,        \* "m", "s" -> struct tty
          files,      \* "m", "s" -> threads with it open; one file for all of "m"
          ctl,        \* processes whose group->tty is the slave
          took,       \* "m", "s" -> what was accepted and what was read, for the properties
          holes       \* what went wrong, see KnownTtyHoles
vars == <<tload, thr, owner, tty, files, ctl, took, holes>>

Ends == {"m", "s"}
Other(x) == IF x = "m" THEN "s" ELSE "m"
Nul == {"nul", "eof"}      \* both are '\0'

Op(t) == tload.script[t][thr[t].ip]
Fetch(i) == [ip |-> i, pc |-> "idle", want |-> NULL, todo |-> <<>>, canon |-> FALSE]

Member == CHOOSE t \in tload.ctl : TRUE
Init ==
    /\ tload \in TtyLoads
    /\ thr = [t \in Ttyers |-> Fetch(1)]
    /\ owner = [l \in {"ttys", "pids", "m", "s"} |-> NULL]
    /\ files = [x \in Ends |-> IF x = "m" THEN tload.m ELSE tload.s]
    /\ ctl = tload.ctl
    /\ tty = [x \in Ends |->
                [refcount |-> IF x = "m" THEN 1
                              ELSE 1 + Cardinality(tload.s) + Cardinality(tload.ctl),
                 hung_up |-> FALSE, ever_opened |-> x = "m" \/ tload.s # {}, freed |-> FALSE,
                 other |-> Other(x), buf |-> <<>>, flag |-> [i \in 1 .. BufSize |-> FALSE],
                 canon |-> x = "s" /\ tload.canon,
                 session |-> IF x = "s" /\ tload.ctl # {} THEN tload.sid[Member] ELSE NULL,
                 fg_group |-> IF x = "s" /\ tload.ctl # {} THEN tload.pgid[Member] ELSE NULL]]
    /\ took = [x \in Ends |-> [acc |-> <<>>, got |-> <<>>]]
    /\ holes = {}

\* Thread t is at pc and gets the lock it wants there.
At(t, pc) ==
    /\ thr[t].pc = pc
    /\ thr[t].want # NULL => owner[thr[t].want] = NULL
\* ... and leaves for pc, where it wants another lock, giving up those in drop.
Goes(t, drop, pc, want) ==
    /\ owner' = [l \in DOMAIN owner |-> IF l \in drop THEN NULL
                                        ELSE IF l = thr[t].want THEN t ELSE owner[l]]
    /\ thr' = [thr EXCEPT ![t].pc = pc, ![t].want = want]
Returns(t, drop) ==
    /\ owner' = [l \in DOMAIN owner |-> IF l \in drop THEN NULL ELSE owner[l]]
    /\ thr' = [thr EXCEPT ![t] = Fetch(@.ip + 1)]
\* wait_for: asleep at pc without the lock of x until notify(cond).
Sleeps(t, x, pc) ==
    /\ owner' = [owner EXCEPT ![x] = NULL]
    /\ thr' = [thr EXCEPT ![t].pc = pc, ![t].want = NULL]
Waiters(x, pc) ==
    {t \in Ttyers : \/ (pc = "read" /\ thr[t].pc = "read_wait" /\ Op(t).x = x)
                     \/ (pc = "push" /\ thr[t].pc = "push_wait" /\ Other(Op(t).x) = x)}
Woken(f, x, pc) ==
    [t \in Ttyers |-> IF t \in Waiters(x, pc) THEN [f[t] EXCEPT !.pc = pc, !.want = x] ELSE f[t]]
Starts(t, op) == thr[t].pc = "idle" /\ thr[t].ip <= Len(tload.script[t]) /\ Op(t).op = op
Rest == UNCHANGED tload

\* A master whose slave was open and no longer is: the slave's lock is taken for
\* it, the master's being held, at a step of its own.
HalfClosed == tty["s"].ever_opened /\ (tty["s"].refcount = 1 \/ tty["s"].hung_up)
pty_is_half_closed_master(t, pc) == Goes(t, {}, pc, "s")
------------------------------------------------------------------------------
(***************************************************************************)
(* Input: tty_write looks at its own tty, then hands the character to the  *)
(* other one's tty_input.  What is left to do for it is a list.            *)
(***************************************************************************)
tty_write(t) ==
    /\ Starts(t, "write") /\ t \in files[Op(t).x]
    /\ Goes(t, {}, "write", Op(t).x)
    /\ UNCHANGED <<tty, files, ctl, took, holes>> /\ Rest
write_check(t) ==
    LET x == Op(t).x IN
    /\ At(t, "write")
    /\ IF tty[x].hung_up THEN Returns(t, {x})
       ELSE IF x = "m" THEN pty_is_half_closed_master(t, "write_half")
       ELSE Goes(t, {x}, "pty_write", NULL)
    /\ UNCHANGED <<tty, files, ctl, took, holes>> /\ Rest
write_half(t) ==
    /\ At(t, "write_half")
    /\ IF HalfClosed THEN Returns(t, Ends) ELSE Goes(t, Ends, "pty_write", NULL)
    /\ UNCHANGED <<tty, files, ctl, took, holes>> /\ Rest
\* The other end is taken from tty->pty.other without a lock.
pty_write(t) ==
    LET x == Op(t).x IN
    /\ At(t, "pty_write")
    /\ IF tty[x].other = NULL
         THEN Returns(t, {}) /\ holes' = holes \cup {"master_gone"}
         ELSE Goes(t, {}, "input", tty[x].other) /\ UNCHANGED holes
    /\ UNCHANGED <<tty, files, ctl, took>> /\ Rest

\* What tty_input has to do for a character: canonical input echoes a newline
\* before it is readable and anything else after; a signal character is queued.
Special(ch) == ch = "intr"
Todo(y, ch) ==
    IF y = "m" THEN <<"push">>
    ELSE CASE Special(ch) -> IF tty["s"].canon THEN <<"flush", "echo", "sig">> ELSE <<"flush", "sig">>
           [] ~Special(ch) /\ ~tty["s"].canon -> <<"push">>
           [] ~Special(ch) /\ tty["s"].canon ->
                CASE ch = "erase" -> <<"erase">>
                  [] ch = "nl" -> <<"echo", "push">>
                  [] ch = "eof" -> <<"push">>
                  [] OTHER -> <<"push", "echo">>
\* tty_input goes on with the list: the locks dropped on the way, and where to.
Proceeds(t, y, canon, todo, wake) ==
    LET step == Head(todo)
        f == IF wake THEN Woken(thr, y, "read") ELSE thr
        \* tty_input_wakeup unlocks the tty for the pollers and takes it again.
        pc == IF wake THEN "relock" ELSE IF todo = <<>> THEN "out"
              ELSE IF step = "echo" THEN "echo" ELSE IF step = "sig" THEN "sig" ELSE "step"
        want == CASE pc = "relock" -> y [] pc = "echo" -> "m" [] pc = "sig" -> "pids" [] OTHER -> NULL
        drop == IF pc \in {"relock", "out", "sig"} THEN {y} ELSE {}
    IN /\ owner' = [l \in DOMAIN owner |-> IF l \in drop THEN NULL
                                           ELSE IF l = thr[t].want THEN t ELSE owner[l]]
       /\ thr' = [f EXCEPT ![t] = IF pc = "out" THEN Fetch(@.ip + 1)
                                  ELSE [@ EXCEPT !.pc = pc, !.want = want, !.todo = todo,
                                                 !.canon = canon]]
Gone(y) == tty[y].freed
tty_input(t) ==
    LET y == Other(Op(t).x) IN
    /\ At(t, "input")
    /\ IF Gone(y) THEN Returns(t, {}) /\ holes' = holes \cup {"master_gone"}
       ELSE Proceeds(t, y, tty[y].canon, Todo(y, Op(t).ch), FALSE) /\ UNCHANGED holes
    /\ UNCHANGED <<tty, files, ctl, took>> /\ Rest
relock(t) ==
    LET y == Other(Op(t).x) IN
    /\ At(t, "relock")
    /\ IF Gone(y) THEN Returns(t, {}) /\ holes' = holes \cup {"master_gone"}
       ELSE Proceeds(t, y, thr[t].canon, thr[t].todo, FALSE) /\ UNCHANGED holes
    /\ UNCHANGED <<tty, files, ctl, took>> /\ Rest

\* Only canonical input sets the flag of the place it writes.
Pushed(r, ch, canon) ==
    [r EXCEPT !.buf = Append(@, ch),
              !.flag[Len(r.buf) + 1] = IF canon THEN ch \in {"nl", "eof"} ELSE @]
Accept(y, ch) == took' = [took EXCEPT ![y].acc = Append(@, ch)]
\* The characters that were accepted, without those of the buffer from the k-th on.
Cut(y, k) == took' = [took EXCEPT ![y].acc = SubSeq(@, 1, Len(@) - (Len(tty[y].buf) - k + 1))]
tty_push_char(t) ==
    LET y == Other(Op(t).x)
        ch == Op(t).ch
        line == thr[t].canon /\ ch \in {"nl", "eof"}
    IN
    /\ thr[t].pc = "step" /\ Head(thr[t].todo) = "push"
    /\ IF Len(tty[y].buf) < BufSize
         THEN /\ Proceeds(t, y, thr[t].canon, Tail(thr[t].todo), line \/ ~thr[t].canon)
              /\ tty' = [tty EXCEPT ![y] = Pushed(@, ch, thr[t].canon)] /\ Accept(y, ch)
              /\ holes' = IF thr[t].canon # tty[y].canon THEN holes \cup {"stale_mode"} ELSE holes
       ELSE IF Op(t).nonblock
         THEN Returns(t, {y}) /\ UNCHANGED <<tty, took, holes>>
       ELSE Sleeps(t, y, "push_wait") /\ UNCHANGED <<tty, took, holes>>
    /\ UNCHANGED <<files, ctl>> /\ Rest
push_again(t) ==
    LET y == Other(Op(t).x) IN
    /\ At(t, "push")
    /\ IF Gone(y) THEN Returns(t, {}) /\ holes' = holes \cup {"master_gone"}
       ELSE Goes(t, {}, "step", NULL) /\ UNCHANGED holes
    /\ UNCHANGED <<tty, files, ctl, took>> /\ Rest
\* VERASE takes one character back, but not past a flag.
erase(t) ==
    LET b == tty["s"].buf
        some == b # <<>> /\ ~tty["s"].flag[Len(b)]
    IN
    /\ thr[t].pc = "step" /\ Head(thr[t].todo) = "erase"
    /\ Proceeds(t, "s", thr[t].canon, IF some THEN <<"echo">> ELSE <<>>, FALSE)
    /\ IF some THEN tty' = [tty EXCEPT !["s"].buf = SubSeq(b, 1, Len(b) - 1)] /\ Cut("s", Len(b))
       ELSE UNCHANGED <<tty, took>>
    /\ UNCHANGED <<files, ctl, holes>> /\ Rest
\* The writers waiting for room are not told.
tty_send_input_signal(t) ==
    /\ thr[t].pc = "step" /\ Head(thr[t].todo) = "flush"
    /\ IF tty["s"].fg_group # NULL
         THEN /\ Proceeds(t, "s", thr[t].canon, Tail(thr[t].todo), FALSE)
              /\ tty' = [tty EXCEPT !["s"].buf = <<>>] /\ Cut("s", 1)
              /\ holes' = IF Waiters("s", "push") # {} THEN holes \cup {"flush"} ELSE holes
         ELSE /\ Proceeds(t, "s", thr[t].canon, SelectSeq(Tail(thr[t].todo), LAMBDA a : a # "sig"), FALSE)
              /\ UNCHANGED <<tty, took, holes>>
    /\ UNCHANGED <<files, ctl>> /\ Rest
\* The slave's own write function, with the slave's lock held: the master's
\* tty_input, not blocking.
tty_echo(t) ==
    LET full == Len(tty["m"].buf) = BufSize IN
    /\ At(t, "echo")
    /\ IF full THEN UNCHANGED <<tty, took>>
       ELSE tty' = [tty EXCEPT !["m"] = Pushed(@, "echo", FALSE)] /\ Accept("m", "echo")
    /\ owner' = [owner EXCEPT !["m"] = NULL]
    /\ thr' = [Woken(thr, "m", "read") EXCEPT ![t].pc = "echoed", ![t].want = "m"]
    /\ UNCHANGED <<files, ctl, holes>> /\ Rest
echoed(t) ==
    LET rest == Tail(thr[t].todo)
        pc == IF rest = <<>> THEN "out" ELSE IF Head(rest) = "sig" THEN "sig" ELSE "step"
    IN
    /\ At(t, "echoed")
    /\ owner' = IF pc = "step" THEN owner ELSE [owner EXCEPT !["s"] = NULL]
    /\ thr' = [thr EXCEPT ![t] = IF pc = "out" THEN Fetch(@.ip + 1)
                                 ELSE [@ EXCEPT !.pc = pc, !.todo = rest,
                                                !.want = IF pc = "sig" THEN "pids" ELSE NULL]]
    /\ UNCHANGED <<tty, files, ctl, took, holes>> /\ Rest
send_group_signal(t) ==
    /\ At(t, "sig") /\ Returns(t, {l \in DOMAIN owner : owner[l] = t})
    /\ UNCHANGED <<tty, files, ctl, took, holes>> /\ Rest
------------------------------------------------------------------------------
\* Reading: the process group is looked up under pids_lock, which is held while
\* the tty's lock is waited for.
tty_read(t) ==
    /\ Starts(t, "read") /\ t \in files[Op(t).x]
    /\ Goes(t, {}, "read_pids", "pids")
    /\ UNCHANGED <<tty, files, ctl, took, holes>> /\ Rest
read_pids(t) ==
    /\ At(t, "read_pids") /\ Goes(t, {}, "read_tty", Op(t).x)
    /\ UNCHANGED <<tty, files, ctl, took, holes>> /\ Rest
\* A background process gets SIGTTIN and the call ends (tty_signal_if_background).
Background(t) == /\ Op(t).x = "s" /\ t \in ctl
                 /\ tty["s"].fg_group \notin {NULL, tload.pgid[t]}
read_tty(t) ==
    LET x == Op(t).x IN
    /\ At(t, "read_tty")
    /\ IF tty[x].hung_up \/ Background(t) THEN Returns(t, {"pids", x})
       ELSE IF x = "m" THEN pty_is_half_closed_master(t, "read_half")
       ELSE /\ owner' = [owner EXCEPT !["pids"] = NULL, ![x] = t]
            /\ thr' = [thr EXCEPT ![t].pc = "loop", ![t].want = NULL, ![t].canon = tty[x].canon]
    /\ UNCHANGED <<tty, files, ctl, took, holes>> /\ Rest
read_half(t) ==
    /\ At(t, "read_half")
    /\ IF HalfClosed THEN Returns(t, {"pids", "m", "s"}) ELSE Goes(t, {"pids", "s"}, "loop", NULL)
    /\ UNCHANGED <<tty, files, ctl, took, holes>> /\ Rest

Flags(x) == {i \in 1 .. Len(tty[x].buf) : tty[x].flag[i]}
canon_size(x) == CHOOSE i \in Flags(x) : \A j \in Flags(x) : i <= j
Readable(x, canon) == IF canon THEN Flags(x) # {} ELSE tty[x].buf # <<>>
\* tty_read_into_buf moves as many flags as characters are left.
Moved(r, n) ==
    LET left == Len(r.buf) - n IN
    [r EXCEPT !.buf = SubSeq(@, n + 1, Len(@)),
              !.flag = [i \in 1 .. BufSize |-> IF i <= left THEN r.flag[i + n] ELSE r.flag[i]]]
Least(a, b) == IF a < b THEN a ELSE b
\* The loop looks at the buffer and, for a master, at the slave; it does not
\* look at hung_up again.
read_loop(t) ==
    LET x == Op(t).x
        size == canon_size(x)
        eof == tty[x].buf[size] \in Nul
        n == IF thr[t].canon THEN Least(Op(t).n, IF eof THEN size - 1 ELSE size)
             ELSE Least(Op(t).n, Len(tty[x].buf))
        once == Moved(tty[x], n)
        mark == once.buf # <<>> /\ once.buf[1] \in Nul /\ once.flag[1]
    IN
    /\ At(t, "loop") \/ At(t, "read")
    /\ IF Readable(x, thr[t].canon)
         THEN /\ tty' = [tty EXCEPT ![x] = IF mark THEN Moved(once, 1) ELSE once]
              /\ took' = [took EXCEPT ![x].got = @ \o SubSeq(tty[x].buf, 1, IF mark THEN n + 1 ELSE n)]
              \* A flag that canonical input did not set: a line that is none, and
              \* a character taken for the end of file.
              /\ holes' = IF (thr[t].canon /\ tty[x].buf[size] \notin {"nl", "eof"})
                               \/ (mark /\ once.buf[1] = "nul")
                          THEN holes \cup {"stale_flag"} ELSE holes
              /\ owner' = [owner EXCEPT ![x] = NULL]
              /\ thr' = [Woken(thr, x, "push") EXCEPT ![t] = Fetch(@.ip + 1)]
         ELSE /\ IF x = "m" THEN pty_is_half_closed_master(t, "loop_half")
                 ELSE IF Op(t).nonblock THEN Returns(t, {x}) ELSE Sleeps(t, x, "read_wait")
              /\ UNCHANGED <<tty, took, holes>>
    /\ UNCHANGED <<files, ctl>> /\ Rest
loop_half(t) ==
    /\ At(t, "loop_half")
    /\ IF HalfClosed \/ Op(t).nonblock THEN Returns(t, Ends)
       ELSE Goes(t, Ends, "read_wait", NULL)
    /\ UNCHANGED <<tty, files, ctl, took, holes>> /\ Rest
\* A signal ends the wait for input and the wait for room.
interrupted(t) ==
    /\ tload.signals /\ thr[t].pc \in {"read_wait", "push_wait"}
    /\ Returns(t, {})
    /\ UNCHANGED <<tty, files, ctl, took, holes>> /\ Rest
------------------------------------------------------------------------------
(***************************************************************************)
(* ioctls.  The modes and the window size are the slave's, also when it is *)
(* the master that is asked.                                               *)
(***************************************************************************)
tty_ioctl(t) ==
    /\ Starts(t, "ioctl") /\ t \in files[Op(t).x]
    /\ Goes(t, {}, "ioctl", Op(t).x)
    /\ UNCHANGED <<tty, files, ctl, took, holes>> /\ Rest
ioctl_check(t) ==
    LET x == Op(t).x
        job == Op(t).cmd \in {"TIOCSCTTY", "TIOCSPGRP"}
    IN
    /\ At(t, "ioctl")
    /\ IF tty[x].hung_up THEN Returns(t, {x})
       ELSE IF job THEN Goes(t, {x}, "job_pids", "pids")
       ELSE Goes(t, {}, "mode", IF x = "m" THEN "s" ELSE NULL)
    /\ UNCHANGED <<tty, files, ctl, took, holes>> /\ Rest
tty_mode_ioctl(t) ==
    LET all == {"s", Op(t).x} IN
    /\ At(t, "mode")
    /\ \/ /\ Op(t).cmd \in {"TCSETS", "TCSETSF"}
          /\ IF Op(t).cmd = "TCSETSF"
               THEN /\ tty' = [tty EXCEPT !["s"].canon = Op(t).canon, !["s"].buf = <<>>]
                    /\ Cut("s", 1)
                    /\ thr' = [Woken(thr, "s", "push") EXCEPT ![t] = Fetch(@.ip + 1)]
               ELSE /\ tty' = [tty EXCEPT !["s"].canon = Op(t).canon] /\ UNCHANGED took
                    /\ thr' = [thr EXCEPT ![t] = Fetch(@.ip + 1)]
          /\ owner' = [l \in DOMAIN owner |-> IF l \in all THEN NULL ELSE owner[l]]
       \* tty_set_winsize: a signal to the foreground group, under the lock.
       \/ /\ Op(t).cmd = "TIOCSWINSZ"
          /\ IF tty["s"].fg_group # NULL THEN Goes(t, {}, "sig", "pids") ELSE Returns(t, all)
          /\ UNCHANGED <<tty, took>>
       \/ /\ Op(t).cmd = "TIOCGPGRP"
          /\ Returns(t, all) /\ UNCHANGED <<tty, took>>
    /\ UNCHANGED <<files, ctl, holes>> /\ Rest
job_pids(t) ==
    /\ At(t, "job_pids") /\ Goes(t, {}, "job", Op(t).x)
    /\ UNCHANGED <<tty, files, ctl, took, holes>> /\ Rest
Leads(t) == tload.sid[t] = t
\* Mutant: the processes the terminal is stolen from keep their references.
Controls_stolen(r, t, gone) ==
    [r EXCEPT !.refcount = @ + 1, !.session = tload.sid[t], !.fg_group = tload.pgid[t]]
\* tty_set_controlling, of a group that has no terminal.
Controls(r, t, gone) ==
    [r EXCEPT !.refcount = @ + 1 - gone, !.session = tload.sid[t], !.fg_group = tload.pgid[t]]
\* tiocsctty; a session's terminal can be stolen from all of its processes.
tiocsctty(t) ==
    LET old == {u \in ctl : tload.sid[u] = tty["s"].session}
        mine == Leads(t) /\ tload.sid[t] = tty["s"].session
    IN
    /\ At(t, "job") /\ Op(t).cmd = "TIOCSCTTY"
    /\ IF mine \/ t \in ctl \/ (tty["s"].session # NULL /\ ~Op(t).force)
         THEN UNCHANGED <<tty, ctl>>
         ELSE /\ ctl' = (IF tty["s"].session # NULL THEN ctl \ old ELSE ctl) \cup {t}
              /\ tty' = [tty EXCEPT !["s"] =
                           Controls(@, t, IF tty["s"].session # NULL THEN Cardinality(old) ELSE 0)]
    /\ Returns(t, {"pids", "s"})
    /\ UNCHANGED <<files, took, holes>> /\ Rest
tiocspgrp(t) ==
    /\ At(t, "job") /\ Op(t).cmd = "TIOCSPGRP"
    /\ tty' = IF t \in ctl /\ tload.sid[t] = tty["s"].session
              THEN [tty EXCEPT !["s"].fg_group = Op(t).pgid] ELSE tty
    /\ Returns(t, {"pids", "s"})
    /\ UNCHANGED <<files, ctl, took, holes>> /\ Rest
\* tty_poll looks as tty_read does and does not wait.
tty_poll(t) ==
    /\ Starts(t, "poll") /\ t \in files[Op(t).x]
    /\ Goes(t, {}, "poll", Op(t).x)
    /\ UNCHANGED <<tty, files, ctl, took, holes>> /\ Rest
poll_look(t) ==
    /\ At(t, "poll")
    /\ IF Op(t).x = "m" /\ ~tty["m"].hung_up THEN pty_is_half_closed_master(t, "poll_half")
       ELSE Returns(t, {Op(t).x})
    /\ UNCHANGED <<tty, files, ctl, took, holes>> /\ Rest
poll_half(t) ==
    /\ At(t, "poll_half") /\ Returns(t, Ends)
    /\ UNCHANGED <<tty, files, ctl, took, holes>> /\ Rest
------------------------------------------------------------------------------
(***************************************************************************)
(* Opening the slave, closing either end, leaving the session.             *)
(***************************************************************************)
tty_device_open(t) ==
    /\ Starts(t, "open") /\ t \notin files["s"]
    /\ Goes(t, {}, "get", "ttys")
    /\ UNCHANGED <<tty, files, ctl, took, holes>> /\ Rest
tty_get(t) ==
    /\ At(t, "get")
    /\ IF tty["s"].freed THEN Returns(t, {"ttys"}) ELSE Goes(t, {}, "got", "s")
    /\ UNCHANGED <<tty, files, ctl, took, holes>> /\ Rest
tty_got(t) ==
    /\ At(t, "got")
    /\ tty' = [tty EXCEPT !["s"].refcount = @ + 1, !["s"].ever_opened = TRUE]
    /\ Goes(t, {"ttys", "s"}, "open", NULL)
    /\ UNCHANGED <<files, ctl, took, holes>> /\ Rest
pty_slave_open(t) ==
    /\ At(t, "open")
    /\ IF tty["s"].other = NULL
         THEN Goes(t, {}, "close", "ttys") /\ UNCHANGED files
         ELSE /\ files' = [files EXCEPT !["s"] = @ \cup {t}]
              /\ IF Op(t).noctty THEN Returns(t, {}) ELSE Goes(t, {}, "open_pids", "pids")
    /\ UNCHANGED <<tty, ctl, took, holes>> /\ Rest
open_pids(t) ==
    /\ At(t, "open_pids") /\ Goes(t, {}, "open_ctl", "s")
    /\ UNCHANGED <<tty, files, ctl, took, holes>> /\ Rest
tty_open(t) ==
    /\ At(t, "open_ctl")
    /\ IF tty["s"].session = NULL /\ Leads(t) /\ t \notin ctl
         THEN ctl' = ctl \cup {t} /\ tty' = [tty EXCEPT !["s"] = Controls(@, t, 0)]
         ELSE UNCHANGED <<ctl, tty>>
    /\ Returns(t, {"pids", "s"})
    /\ UNCHANGED <<files, took, holes>> /\ Rest

\* The last of those who share the master's file closes it.
tty_close(t) ==
    LET x == Op(t).x
        left == files[x] \ {t}
    IN
    /\ Starts(t, "close") /\ t \in files[x]
    /\ files' = [files EXCEPT ![x] = left]
    /\ IF x = "m" /\ left # {} THEN Returns(t, {})
       ELSE Goes(t, {}, IF x = "s" THEN "slave_close" ELSE "release_m", "ttys")
    /\ UNCHANGED <<tty, ctl, took, holes>> /\ Rest
\* The master is hung up when userland's last reference but the session
\* leader's goes; the count is read without the slave's lock.
pty_slave_close(t) ==
    LET last == tty["s"].refcount - 1 = (IF tty["s"].session # NULL THEN 2 ELSE 1) IN
    /\ At(t, "slave_close")
    /\ IF last /\ tty["s"].other # NULL THEN Goes(t, {}, "hang_m", "m")
       ELSE Goes(t, {}, "release_s", "s")
    /\ UNCHANGED <<tty, files, ctl, took, holes>> /\ Rest
\* tty_hangup, of the master by the slave and of the slave by the master: it
\* wakes the readers.
Hung(x) == tty' = [tty EXCEPT ![x].hung_up = TRUE]
Hangs(t, x, pc, want) ==
    /\ Hung(x)
    /\ owner' = [l \in DOMAIN owner |-> IF l = x THEN NULL ELSE owner[l]]
    /\ thr' = [Woken(thr, x, "read") EXCEPT ![t].pc = pc, ![t].want = want]
hangup_master(t) ==
    /\ At(t, "hang_m") /\ Hangs(t, "m", "release_s", "s")
    /\ UNCHANGED <<files, ctl, took, holes>> /\ Rest
close_again(t) ==
    /\ At(t, "close") /\ Goes(t, {}, "release_s", "s")
    /\ UNCHANGED <<tty, files, ctl, took, holes>> /\ Rest
Held(t) == {l \in DOMAIN owner : owner[l] = t}
\* The slave's cleanup has nobody to hang up: it is always the second to go.
tty_release(t) ==
    /\ At(t, "release_s")
    /\ tty' = [tty EXCEPT !["s"].refcount = @ - 1, !["s"].freed = tty["s"].refcount = 1]
    /\ Returns(t, Held(t) \cup {"s"})
    /\ UNCHANGED <<files, ctl, took, holes>> /\ Rest
\* tty_release of the master, with ttys_lock: the cleanup runs under its lock.
release_master(t) ==
    /\ At(t, "release_m") /\ Goes(t, {}, "cleanup", "m")
    /\ UNCHANGED <<tty, files, ctl, took, holes>> /\ Rest
pty_master_cleanup(t) ==
    /\ At(t, "cleanup") /\ tty' = [tty EXCEPT !["m"].refcount = 0]
    /\ Goes(t, {}, "hang_s", "s")
    /\ UNCHANGED <<files, ctl, took, holes>> /\ Rest
hangup_slave(t) ==
    /\ At(t, "hang_s") /\ Hangs(t, "s", "forget", NULL)
    /\ UNCHANGED <<files, ctl, took, holes>> /\ Rest
forget(t) ==
    /\ At(t, "forget") /\ tty' = [tty EXCEPT !["s"].other = NULL]
    /\ Goes(t, {}, "free_m", "s")
    /\ UNCHANGED <<files, ctl, took, holes>> /\ Rest
free_master(t) ==
    /\ At(t, "free_m")
    /\ tty' = [tty EXCEPT !["s"].refcount = @ - 1, !["s"].freed = tty["s"].refcount = 1,
                          !["m"].freed = TRUE]
    /\ Returns(t, {"ttys", "m", "s"})
    /\ UNCHANGED <<files, ctl, took, holes>> /\ Rest

\* task_leave_session, on exit or setsid, under pids_lock.
leave_session(t) ==
    /\ Starts(t, "leave") /\ Goes(t, {}, "leave", "pids")
    /\ UNCHANGED <<tty, files, ctl, took, holes>> /\ Rest
leave_pids(t) ==
    /\ At(t, "leave")
    /\ IF t \in ctl THEN Goes(t, {}, "leave_ttys", "ttys") ELSE Returns(t, {"pids"})
    /\ UNCHANGED <<tty, files, ctl, took, holes>> /\ Rest
leave_ttys(t) ==
    /\ At(t, "leave_ttys") /\ Goes(t, {}, "leave_tty", "s")
    /\ UNCHANGED <<tty, files, ctl, took, holes>> /\ Rest
\* The session ends with its last process; then the reference is given back.
task_leave_session(t) ==
    LET last == {u \in ctl : tload.sid[u] = tload.sid[t]} = {t} IN
    /\ At(t, "leave_tty")
    /\ tty' = IF last THEN [tty EXCEPT !["s"].session = NULL] ELSE tty
    /\ ctl' = ctl \ {t}
    /\ Goes(t, {"s"}, "release_s", "s")
    /\ UNCHANGED <<files, took, holes>> /\ Rest
------------------------------------------------------------------------------
Thread(t) ==
    \/ tty_write(t) \/ write_check(t) \/ write_half(t) \/ pty_write(t) \/ tty_input(t) \/ relock(t)
    \/ tty_push_char(t) \/ push_again(t) \/ erase(t) \/ tty_send_input_signal(t)
    \/ tty_echo(t) \/ echoed(t) \/ send_group_signal(t)
    \/ tty_read(t) \/ read_pids(t) \/ read_tty(t) \/ read_half(t) \/ read_loop(t)
    \/ loop_half(t) \/ interrupted(t)
    \/ tty_ioctl(t) \/ ioctl_check(t) \/ tty_mode_ioctl(t) \/ job_pids(t)
    \/ tiocsctty(t) \/ tiocspgrp(t) \/ tty_poll(t) \/ poll_look(t) \/ poll_half(t)
    \/ tty_device_open(t) \/ tty_get(t) \/ tty_got(t) \/ pty_slave_open(t)
    \/ open_pids(t) \/ tty_open(t) \/ tty_close(t) \/ pty_slave_close(t)
    \/ hangup_master(t) \/ close_again(t) \/ tty_release(t) \/ release_master(t)
    \/ pty_master_cleanup(t) \/ hangup_slave(t) \/ forget(t) \/ free_master(t)
    \/ leave_session(t) \/ leave_pids(t) \/ leave_ttys(t) \/ task_leave_session(t)
Next == \E t \in Ttyers : Thread(t)
Spec == Init /\ [][Next]_vars
------------------------------------------------------------------------------
Holds(t, pcs) == thr[t].pc \in pcs
Opening == {t \in Ttyers : Holds(t, {"open", "close"})}
Closing == {t \in Ttyers : /\ Holds(t, {"slave_close", "hang_m", "release_s"})
                           /\ Op(t).op \in {"close", "leave"}}
Undone == {t \in Ttyers : Holds(t, {"release_s"}) /\ Op(t).op = "open"}
Master == IF tty["m"].freed THEN 0 ELSE 1
\* The slave is referenced once by the master, by each file, by each process
\* whose controlling terminal it is, and by the calls about to take or give a
\* reference; it is freed with the last one, which is never before the master's.
TtyRefs ==
    /\ ~tty["s"].freed =>
         tty["s"].refcount = Master + Cardinality(files["s"]) + Cardinality(ctl)
                               + Cardinality(Opening) + Cardinality(Closing) + Cardinality(Undone)
    /\ tty["s"].freed => tty["s"].refcount = 0 /\ tty["m"].freed /\ files["s"] = {} /\ ctl = {}
    /\ tty["m"].freed => files["m"] = {} /\ tty["s"].hung_up

\* A terminal that belongs to a session is the controlling terminal of a process
\* of it, and of processes of no other session (tty_set_controlling, tiocsctty,
\* task_leave_session).
SessionSound ==
    ~tty["s"].freed =>
      /\ \A u \in ctl : tload.sid[u] = tty["s"].session
      /\ tty["s"].session # NULL => ctl # {}

\* What was read and what is buffered is what was typed, in order, less what was
\* erased or flushed: also across the places where tty_input and tty_read give up
\* the lock.
InputKept == \A x \in Ends : took[x].got \o tty[x].buf = took[x].acc

\* A reader that sleeps has nothing to read, by the mode it began in or by the
\* one there is now, and a writer that sleeps has no room, but for input that goes
\* on in the mode from before its wait and a buffer that a signal flushed.
SleepersJustified ==
    \A t \in Ttyers :
      /\ thr[t].pc = "read_wait" /\ "stale_mode" \notin holes
           => \/ ~Readable(Op(t).x, thr[t].canon)
              \/ ~Readable(Op(t).x, tty[Op(t).x].canon)
      /\ thr[t].pc = "push_wait" /\ "flush" \notin holes
           => Len(tty[Other(Op(t).x)].buf) = BufSize

\* Threads that wait for locks of one another.
Deadlocked(T) == /\ T # {}
                 /\ \A t \in T : thr[t].want # NULL /\ owner[thr[t].want] \in T
\* The calls on a terminal do not wait for locks of one another.  (Two of them do
\* take a lock against the order: the echo, the master's with the slave's held, and
\* a new window size, pids_lock with the tty's held.)
NoDeadlock == \A T \in SUBSET Ttyers : ~Deadlocked(T)
Backwards(t) == \/ thr[t].pc \in {"echo", "echoed"}
                \/ thr[t].pc = "sig" /\ Op(t).op = "ioctl"
OrderedUnlessBackwards ==
    \A T \in SUBSET Ttyers : Deadlocked(T) => \E t \in T : Backwards(t)

\* A reader is not left asleep on a terminal that was hung up.
HangupWakesReaders ==
    \A t \in Ttyers : thr[t].pc = "read_wait" => ~tty[Op(t).x].hung_up

\* What can go wrong is what the load says can: the master freed under a write
\* from the slave, writers not told of a flush, flags left over from earlier input
\* and input in a mode that has changed.
KnownTtyHoles == holes \subseteq tload.known

\* References, sessions, input, sleepers and lock order of a terminal, however
\* its calls interleave.
TtySound ==
    /\ TtyRefs /\ SessionSound /\ InputKept /\ SleepersJustified
    /\ OrderedUnlessBackwards /\ KnownTtyHoles
==============================================================================
