-------------------------------- MODULE Poll ---------------------------------
(***************************************************************************)
(* Waiting for descriptors: struct poll and its poll_fds (fs/poll.c), the  *)
(* epoll calls over it (kernel/epoll.c) and event descriptors              *)
(* (kernel/eventfd.c), which tell the poll that they changed.  A "real"    *)
(* descriptor is one the host polls.                                       *)
(***************************************************************************)
EXTENDS Naturals, Sequences, FiniteSets

CONSTANTS Pollers,     \* threads
          NULL,
          PollFds,     \* struct poll_fd objects
          EventMax,    \* UINT64_MAX
          PollLoads    \* see Init

VARIABLES pload,       \* who does what; never changes
          pthr,        \* thread -> where it is in its script and its call
          powner,      \* lock -> thread: "poll", and fd->poll_lock of each descriptor
          pfd,         \* struct poll_fd: state, fd, flags, triggered
          order,       \* poll->poll_fds
          poll,        \* waiters, whether there is a pipe, bytes in it, freed
          evfd,        \* descriptor -> val, closed
          host,        \* real descriptor -> poll_fd the host's poll knows for it, an edge not yet told
          told,        \* descriptor -> changes since the last report, for the properties
          pholes
vars == <<pload, pthr, powner, pfd, order, poll, evfd, host, told, pholes>>

Files == DOMAIN pload.files
Real(f) == pload.files[f] = "real"
At0(i) == [ip |-> i, pc |-> "idle", want |-> NULL, cur |-> NULL, got |-> {}]
Op(t) == pload.script[t][pthr[t].ip]

Init ==
    /\ pload \in PollLoads
    /\ pthr = [t \in Pollers |-> At0(1)]
    /\ powner = [l \in {"poll"} \cup Files |-> NULL]
    /\ pfd = [p \in PollFds |-> [st |-> "none", fd |-> NULL, et |-> FALSE, oneshot |-> FALSE,
                                 trig |-> FALSE]]
    /\ order = <<>>
    /\ poll = [waiters |-> 0, pipe |-> FALSE, bytes |-> 0, freed |-> FALSE]
    /\ evfd = [f \in Files |-> [val |-> 0, closed |-> FALSE]]
    /\ host = [f \in Files |-> [reg |-> NULL, edge |-> FALSE]]
    /\ told = [f \in Files |-> "no"]
    /\ pholes = {}

Begins(t, op) == pthr[t].pc = "idle" /\ pthr[t].ip <= Len(pload.script[t]) /\ Op(t).op = op
Here(t, pc) == /\ pthr[t].pc = pc
               /\ pthr[t].want # NULL => powner[pthr[t].want] = NULL
\* The lock wanted is taken, those in drop given up, and t goes on at pc.
Locks(t, drop) ==
    powner' = [l \in DOMAIN powner |-> IF l \in drop THEN NULL
                                       ELSE IF l = pthr[t].want THEN t ELSE powner[l]]
Goes(t, drop, pc, want) ==
    Locks(t, drop) /\ pthr' = [pthr EXCEPT ![t].pc = pc, ![t].want = want]
Returns(t, drop) ==
    /\ powner' = [l \in DOMAIN powner |-> IF l \in drop THEN NULL ELSE powner[l]]
    /\ pthr' = [pthr EXCEPT ![t] = At0(@.ip + 1)]
Keep == UNCHANGED pload

Without(s, p) == SelectSeq(s, LAMBDA q : q # p)
Of(f) == {p \in PollFds : pfd[p].st = "list" /\ pfd[p].fd = f}
Ready(f) == evfd[f].val > 0
------------------------------------------------------------------------------
(***************************************************************************)
(* epoll_ctl: the lock of the descriptor, then that of the poll.           *)
(***************************************************************************)
\* EEXIST is looked for with no lock held.
sys_epoll_ctl(t) ==
    /\ Begins(t, "ctl")
    /\ IF evfd[Op(t).fd].closed \/ (Op(t).ctl = "add" /\ Of(Op(t).fd) # {})
         THEN Returns(t, {}) ELSE Goes(t, {}, "ctl_fd", Op(t).fd)
    /\ UNCHANGED <<pfd, order, poll, evfd, host, told, pholes>> /\ Keep
ctl_fd(t) ==
    /\ Here(t, "ctl_fd") /\ Goes(t, {}, "ctl", "poll")
    /\ UNCHANGED <<pfd, order, poll, evfd, host, told, pholes>> /\ Keep
\* A poll_fd from the freelist or a new one.  Nobody who waits is told.
Spare == IF \E p \in PollFds : pfd[p].st = "free" THEN {p \in PollFds : pfd[p].st = "free"}
         ELSE {p \in PollFds : pfd[p].st = "none"}
Registered(f, p) == IF Real(f) THEN [host EXCEPT ![f] = [reg |-> p, edge |-> Ready(f)]] ELSE host
poll_add_fd(t) ==
    LET f == Op(t).fd IN
    /\ Here(t, "ctl") /\ Op(t).ctl = "add"
    /\ LET p == CHOOSE q \in Spare : TRUE IN
       /\ pfd' = [pfd EXCEPT ![p] = [st |-> "list", fd |-> f, et |-> Op(t).et,
                                     oneshot |-> Op(t).oneshot, trig |-> FALSE]]
       /\ order' = Append(order, p)
       /\ host' = Registered(f, p)
    /\ told' = [told EXCEPT ![f] = IF Ready(f) THEN "added" ELSE "no"]
    /\ pholes' = pholes \cup (IF Of(f) # {} THEN {"added_twice"} ELSE {})
                         \cup (IF evfd[f].closed THEN {"late_add"} ELSE {})
    /\ Returns(t, {"poll", f})
    /\ UNCHANGED <<poll, evfd>> /\ Keep
\* poll_fd_free: to the freelist; memory stays.
Freed(p) == [pfd EXCEPT ![p] = [@ EXCEPT !.st = "free"]]
First(f) == CHOOSE p \in Of(f) : \A q \in Of(f) :
              (CHOOSE i \in 1 .. Len(order) : order[i] = p) <= (CHOOSE i \in 1 .. Len(order) : order[i] = q)
poll_del_fd(t) ==
    LET f == Op(t).fd IN
    /\ Here(t, "ctl") /\ Op(t).ctl = "del"
    /\ IF Of(f) = {} THEN UNCHANGED <<pfd, order, host, told>>
       ELSE /\ pfd' = Freed(First(f)) /\ order' = Without(order, First(f))
            /\ host' = [host EXCEPT ![f] = [reg |-> NULL, edge |-> FALSE]]
            /\ told' = [told EXCEPT ![f] = "no"]
    /\ Returns(t, {"poll", f})
    /\ UNCHANGED <<poll, evfd, pholes>> /\ Keep
poll_mod_fd(t) ==
    LET f == Op(t).fd IN
    /\ Here(t, "ctl") /\ Op(t).ctl = "mod"
    /\ IF Of(f) = {} THEN UNCHANGED <<pfd, host, told>>
       ELSE /\ pfd' = [pfd EXCEPT ![First(f)].et = Op(t).et, ![First(f)].oneshot = Op(t).oneshot]
            /\ host' = Registered(f, First(f))
            /\ told' = [told EXCEPT ![f] = IF Ready(f) /\ @ = "no" THEN "added" ELSE @]
    /\ Returns(t, {"poll", f})
    /\ UNCHANGED <<order, poll, evfd, pholes>> /\ Keep
------------------------------------------------------------------------------
(***************************************************************************)
(* poll_wait.                                                              *)
(***************************************************************************)
sys_epoll_wait(t) ==
    /\ Begins(t, "wait") /\ ~poll.freed /\ Goes(t, {}, "wait", "poll")
    /\ UNCHANGED <<pfd, order, poll, evfd, host, told, pholes>> /\ Keep
\* The first waiter makes the pipe.
poll_wait(t) ==
    /\ Here(t, "wait")
    /\ poll' = [poll EXCEPT !.waiters = @ + 1, !.pipe = TRUE]
    /\ Goes(t, {}, "scan", NULL)
    /\ UNCHANGED <<pfd, order, evfd, host, told, pholes>> /\ Keep
\* What a scan finds, in the order of the list; the callback takes only max of
\* them, but each counts as told.
Found == SelectSeq(order, LAMBDA p : Ready(pfd[p].fd) /\ ~(pfd[p].et /\ pfd[p].trig))
Ran(s) == {s[i] : i \in 1 .. Len(s)}
Least(a, b) == IF a < b THEN a ELSE b
Scanned ==
    [p \in PollFds |->
       IF p \notin Ran(Found) THEN pfd[p]
       ELSE IF pfd[p].oneshot THEN [pfd[p] EXCEPT !.st = "freed"]
       ELSE [pfd[p] EXCEPT !.trig = pfd[p].et]]
OneShots == {p \in Ran(Found) : pfd[p].oneshot}
Leave == [poll EXCEPT !.waiters = @ - 1, !.pipe = poll.waiters > 1,
                      !.bytes = IF poll.waiters > 1 THEN @ ELSE 0]
\* The list of a descriptor is changed for a one-shot entry without its lock.
Iterating(p) == \E u \in Pollers : pthr[u].cur = p
scan(t) ==
    LET n == Least(Len(Found), Op(t).max)
        given == {pfd[Found[i]].fd : i \in 1 .. n}
        refused == {Found[i] : i \in n + 1 .. Len(Found)}
    IN
    /\ Here(t, "scan")
    /\ pfd' = Scanned
    /\ order' = SelectSeq(order, LAMBDA p : p \notin OneShots)
    /\ host' = [f \in Files |-> IF \E p \in OneShots : pfd[p].fd = f /\ Real(f)
                                THEN [reg |-> NULL, edge |-> FALSE] ELSE host[f]]
    /\ told' = [f \in Files |-> IF f \in given THEN "no" ELSE told[f]]
    /\ pholes' = pholes
         \cup (IF \E p \in refused : pfd[p].et \/ pfd[p].oneshot \/ poll.waiters > 1
               THEN {"refused"} ELSE {})
         \cup (IF \E p \in OneShots : Iterating(p) THEN {"oneshot_freed"} ELSE {})
    /\ IF n > 0
         THEN Returns(t, {"poll"}) /\ poll' = Leave
         ELSE Goes(t, {"poll"}, "host", NULL) /\ UNCHANGED poll
    /\ UNCHANGED evfd /\ Keep
\* A signal that is pending ends the wait before it begins.
poll_interrupted(t) ==
    /\ pload.signals /\ pthr[t].pc = "scan" /\ Found = <<>>
    /\ Returns(t, {"poll"}) /\ poll' = Leave
    /\ UNCHANGED <<pfd, order, evfd, host, told, pholes>> /\ Keep

\* The host's poll returns: the pipe has a byte, or a real descriptor has news.
News == {f \in Files : Real(f) /\ host[f].reg # NULL
                       /\ (IF pfd[host[f].reg].et THEN host[f].edge ELSE Ready(f))}
real_poll_wait(t) ==
    /\ pthr[t].pc = "host" /\ (poll.bytes > 0 \/ News # {})
    /\ pthr' = [pthr EXCEPT ![t].pc = "woken", ![t].want = "poll",
                            ![t].got = {host[f].reg : f \in News}]
    /\ host' = [f \in Files |-> IF f \in News THEN [host[f] EXCEPT !.edge = FALSE] ELSE host[f]]
    /\ UNCHANGED <<powner, pfd, order, poll, evfd, told, pholes>> /\ Keep
\* One second at most, then everything is looked at again.
bounded_timeout(t) ==
    /\ pload.timeouts /\ pthr[t].pc = "host"
    /\ Goes(t, {}, "again", "poll")
    /\ UNCHANGED <<pfd, order, poll, evfd, host, told, pholes>> /\ Keep
again(t) ==
    /\ Here(t, "again")
    /\ \/ Goes(t, {}, "scan", NULL) /\ UNCHANGED poll
       \/ Op(t).timeout /\ Returns(t, {"poll"}) /\ poll' = Leave
    /\ UNCHANGED <<pfd, order, evfd, host, told, pholes>> /\ Keep
\* The events point to poll_fds, which is why those are not freed.
woken(t) ==
    /\ Here(t, "woken")
    /\ pfd' = [p \in PollFds |-> IF p \in pthr[t].got /\ pfd[p].st = "list" /\ pfd[p].et
                                 THEN [pfd[p] EXCEPT !.trig = FALSE] ELSE pfd[p]]
    /\ pholes' = IF \E p \in pthr[t].got : pfd[p].st = "freed"
                 THEN pholes \cup {"oneshot_freed"} ELSE pholes
    /\ poll' = [poll EXCEPT !.bytes = IF @ > 0 THEN @ - 1 ELSE 0]
    /\ Goes(t, {}, "scan", NULL)
    /\ UNCHANGED <<order, evfd, host, told>> /\ Keep
------------------------------------------------------------------------------
(***************************************************************************)
(* Event descriptors, and poll_wakeup, which they call with no lock held.  *)
(***************************************************************************)
Told(f) == told' = [told EXCEPT ![f] = IF Of(f) # {} THEN "pending" ELSE @]
Blocked(f, pc) == {t \in Pollers : pthr[t].pc = pc /\ Op(t).fd = f}
\* Mutant: writers are not woken.
Notified_readers(f, g) ==
    [t \in Pollers |-> IF t \in Blocked(f, "read_wait") THEN [g[t] EXCEPT !.pc = "read"] ELSE g[t]]
\* notify(&fd->cond): readers and writers look again.
Notified(f, g) ==
    [t \in Pollers |-> IF t \in Blocked(f, "read_wait") THEN [g[t] EXCEPT !.pc = "read"]
                       ELSE IF t \in Blocked(f, "write_wait") THEN [g[t] EXCEPT !.pc = "write"] ELSE g[t]]
Used(t, op) == (Begins(t, op) /\ ~evfd[Op(t).fd].closed) \/ Here(t, op)
eventfd_write(t) ==
    LET f == Op(t).fd IN
    /\ Used(t, "write")
    /\ IF evfd[f].val < EventMax - 1
         THEN /\ evfd' = [evfd EXCEPT ![f].val = @ + 1]
              /\ pthr' = [Notified(f, pthr) EXCEPT ![t].pc = "wakeup", ![t].want = f]
              /\ Told(f)
              /\ host' = IF Real(f) THEN [host EXCEPT ![f].edge = @ \/ host[f].reg # NULL] ELSE host
         ELSE /\ pthr' = [pthr EXCEPT ![t] = IF Op(t).nonblock THEN At0(@.ip + 1)
                                             ELSE [@ EXCEPT !.pc = "write_wait"]]
              /\ UNCHANGED <<evfd, told, host>>
    /\ UNCHANGED <<powner, pfd, order, poll, pholes>> /\ Keep
eventfd_read(t) ==
    LET f == Op(t).fd IN
    /\ Used(t, "read")
    /\ IF evfd[f].val > 0
         THEN /\ evfd' = [evfd EXCEPT ![f].val = 0]
              /\ told' = [told EXCEPT ![f] = "no"]
              /\ pthr' = [Notified(f, pthr) EXCEPT ![t].pc = "wakeup", ![t].want = f]
         ELSE /\ pthr' = [pthr EXCEPT ![t] = IF Op(t).nonblock THEN At0(@.ip + 1)
                                             ELSE [@ EXCEPT !.pc = "read_wait"]]
              /\ UNCHANGED <<evfd, told>>
    /\ UNCHANGED <<powner, pfd, order, poll, host, pholes>> /\ Keep
\* A real descriptor changes and nobody is called: only the host knows.
Entries(f) == SelectSeq(order, LAMBDA p : pfd[p].fd = f)
poll_wakeup(t) ==
    LET f == Op(t).fd IN
    /\ Here(t, "wakeup")
    /\ IF Entries(f) = <<>> \/ Real(f) THEN Returns(t, {})
       ELSE /\ Locks(t, {})
            /\ pthr' = [pthr EXCEPT ![t].pc = "notify", ![t].want = "poll", ![t].cur = Entries(f)[1]]
    /\ UNCHANGED <<pfd, order, poll, evfd, host, told, pholes>> /\ Keep
Following(p) == LET s == Entries(pfd[p].fd)
                IN IF \E i \in 1 .. Len(s) - 1 : s[i] = p
                   THEN s[(CHOOSE i \in 1 .. Len(s) - 1 : s[i] = p) + 1] ELSE NULL
notify_poll(t) ==
    LET p == pthr[t].cur
        f == Op(t).fd
    IN
    /\ Here(t, "notify")
    /\ IF pfd[p].st # "list"
         THEN Returns(t, {f}) /\ UNCHANGED <<pfd, poll>>
         ELSE /\ pfd' = [pfd EXCEPT ![p].trig = IF pfd[p].et /\ Op(t).op = "write" THEN FALSE ELSE @]
              /\ poll' = IF poll.pipe THEN [poll EXCEPT !.bytes = @ + 1] ELSE poll
              /\ IF Following(p) = NULL THEN Returns(t, {f})
                 ELSE powner' = powner /\ pthr' = [pthr EXCEPT ![t].cur = Following(p)]
    /\ UNCHANGED <<order, evfd, host, told, pholes>> /\ Keep
------------------------------------------------------------------------------
(***************************************************************************)
(* Closing a descriptor, and closing the epoll descriptor.                 *)
(***************************************************************************)
fd_close(t) ==
    /\ Begins(t, "close") /\ ~evfd[Op(t).fd].closed
    /\ evfd' = [evfd EXCEPT ![Op(t).fd].closed = TRUE]
    /\ Goes(t, {}, "cleanup", Op(t).fd)
    /\ UNCHANGED <<pfd, order, poll, host, told, pholes>> /\ Keep
poll_cleanup_fd(t) ==
    LET f == Op(t).fd IN
    /\ Here(t, "cleanup")
    /\ IF Of(f) = {} THEN Returns(t, {f})
       ELSE /\ Locks(t, {})
            /\ pthr' = [pthr EXCEPT ![t].pc = "unlink", ![t].want = "poll", ![t].cur = First(f)]
    /\ UNCHANGED <<pfd, order, poll, evfd, host, told, pholes>> /\ Keep
unlink(t) ==
    LET f == Op(t).fd
        p == pthr[t].cur
    IN
    /\ Here(t, "unlink")
    /\ IF pfd[p].st # "list" THEN UNCHANGED <<pfd, order, host, told>>
       ELSE /\ pfd' = [pfd EXCEPT ![p].st = "out"] /\ order' = Without(order, p)
            /\ host' = [host EXCEPT ![f] = [reg |-> NULL, edge |-> FALSE]]
            /\ told' = [told EXCEPT ![f] = "no"]
    /\ pthr' = [pthr EXCEPT ![t].pc = "unlinked", ![t].want = NULL] /\ UNCHANGED powner
    /\ UNCHANGED <<poll, evfd, pholes>> /\ Keep
\* poll_fd_free, now without the poll's lock.
unlinked(t) ==
    LET p == pthr[t].cur IN
    /\ Here(t, "unlinked")
    /\ pfd' = IF pfd[p].st = "out" THEN Freed(p) ELSE pfd
    /\ pholes' = IF poll.freed THEN pholes \cup {"destroyed"} ELSE pholes
    /\ powner' = powner
    /\ pthr' = [pthr EXCEPT ![t].pc = "cleanup", ![t].want = NULL, ![t].cur = NULL]
    /\ UNCHANGED <<order, poll, evfd, host, told>> /\ Keep

\* poll_destroy: entry by entry, each under its descriptor's lock, the poll's own
\* not being taken.
epoll_close(t) ==
    /\ Begins(t, "destroy") /\ ~poll.freed /\ poll.waiters = 0
    /\ poll' = [poll EXCEPT !.freed = TRUE]
    /\ pthr' = [pthr EXCEPT ![t].pc = "destroy"]
    /\ UNCHANGED <<powner, pfd, order, evfd, host, told, pholes>> /\ Keep
poll_destroy(t) ==
    /\ Here(t, "destroy") /\ pthr[t].want = NULL
    /\ IF order = <<>>
         THEN /\ pfd' = [p \in PollFds |-> IF pfd[p].st = "free" THEN [pfd[p] EXCEPT !.st = "freed"]
                                           ELSE pfd[p]]
              /\ Returns(t, {})
         ELSE /\ pthr' = [pthr EXCEPT ![t].pc = "destroy_fd", ![t].cur = order[1],
                                      ![t].want = pfd[order[1]].fd]
              /\ UNCHANGED <<powner, pfd>>
    /\ UNCHANGED <<order, poll, evfd, host, told, pholes>> /\ Keep
destroy_fd(t) ==
    LET p == pthr[t].cur IN
    /\ Here(t, "destroy_fd")
    /\ pholes' = IF pfd[p].st # "list" THEN pholes \cup {"destroyed"} ELSE pholes
    /\ pfd' = [pfd EXCEPT ![p].st = "freed"] /\ order' = Without(order, p)
    /\ host' = [host EXCEPT ![pfd[p].fd] = [reg |-> NULL, edge |-> FALSE]]
    /\ told' = [told EXCEPT ![pfd[p].fd] = "no"]
    /\ powner' = powner
    /\ pthr' = [pthr EXCEPT ![t].pc = "destroy", ![t].want = NULL, ![t].cur = NULL]
    /\ UNCHANGED <<poll, evfd>> /\ Keep
------------------------------------------------------------------------------
Thread(t) ==
    \/ sys_epoll_ctl(t) \/ ctl_fd(t) \/ poll_add_fd(t) \/ poll_del_fd(t) \/ poll_mod_fd(t)
    \/ sys_epoll_wait(t) \/ poll_wait(t) \/ scan(t) \/ poll_interrupted(t)
    \/ real_poll_wait(t) \/ bounded_timeout(t) \/ again(t) \/ woken(t)
    \/ eventfd_write(t) \/ eventfd_read(t) \/ poll_wakeup(t) \/ notify_poll(t)
    \/ fd_close(t) \/ poll_cleanup_fd(t) \/ unlink(t) \/ unlinked(t)
    \/ epoll_close(t) \/ poll_destroy(t) \/ destroy_fd(t)
Next == \E t \in Pollers : Thread(t)
Spec == Init /\ [][Next]_vars
------------------------------------------------------------------------------
\* poll_wakeup is on its way to the poll for f.
Waking(f) == \E t \in Pollers : /\ pthr[t].pc \in {"wakeup", "notify"} /\ Op(t).fd = f
\* Nobody sleeps in the host's poll on a descriptor whose change no report has
\* told of: there is a byte in the pipe, the host knows, or poll_wakeup or a
\* woken waiter is on its way.  (What was ready when it was added is only found
\* after the one second at most that each wait takes, and so is an edge that a
\* report refused for lack of room.)
EventsReach ==
    \A t \in Pollers : \A f \in Files :
      pthr[t].pc = "host" /\ told[f] = "pending" /\ Ready(f) /\ Of(f) # {}
      => \/ poll.bytes > 0 \/ f \in News \/ Waking(f) \/ pholes # {}
         \/ \E u \in Pollers : pthr[u].pc \in {"woken", "scan"}

\* An entry is in the poll's list exactly if it is live there, once, and the
\* host's poll knows only such entries (poll_add_fd, poll_del_fd, poll_cleanup_fd).
EntriesSound ==
    "added_twice" \notin pholes /\ "destroyed" \notin pholes =>
      /\ Ran(order) = {p \in PollFds : pfd[p].st = "list"} /\ Len(order) = Cardinality(Ran(order))
      /\ \A f \in Files : Cardinality(Of(f)) <= 1
      /\ \A f \in Files : host[f].reg # NULL => host[f].reg \in Of(f)
      /\ \A f \in Files : evfd[f].closed =>
           \/ Of(f) = {} \/ "late_add" \in pholes
           \/ \E t \in Pollers : pthr[t].pc \in {"cleanup", "unlink"} /\ Op(t).fd = f

\* A reader of an event descriptor that sleeps has nothing to read, and a writer
\* that sleeps has no room; the notify pipe is there as long as someone waits.
EventSleepers ==
    /\ \A t \in Pollers : /\ pthr[t].pc = "read_wait" => evfd[Op(t).fd].val = 0
                          /\ pthr[t].pc = "write_wait" => evfd[Op(t).fd].val >= EventMax - 1
    /\ poll.pipe <=> poll.waiters > 0
    /\ poll.waiters = Cardinality({t \in Pollers : pthr[t].pc \in {"scan", "host", "again", "woken"}})

\* poll.h: poll_fds are not freed, but kept on a list, because an event the host
\* returned may point to one.
PollFdsKept == "oneshot_freed" \notin pholes
\* What goes wrong is what the load allows: a one-shot entry freed under another
\* thread, an edge refused, an entry added twice, a poll destroyed under a close.
KnownPollHoles == pholes \subseteq pload.known

\* Events, entries and sleepers of epoll and event descriptors, however their
\* calls interleave.
PollSound == EventsReach /\ EntriesSound /\ EventSleepers /\ KnownPollHoles
==============================================================================
