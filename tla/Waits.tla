-------------------------------- MODULE Waits ---------------------------------
(***************************************************************************)
(* The calls that wait: poll, ppoll, select and pselect (kernel/poll.c) as *)
(* one call sees poll_wait of fs/poll.c, and nanosleep and clock_nanosleep *)
(* (kernel/time.c).  One thread makes one call while other threads make    *)
(* files ready, close descriptors and send it a signal, and time passes.   *)
(* Poll models the struct poll that several threads share.                 *)
(***************************************************************************)
EXTENDS Integers, Sequences, FiniteSets

CONSTANTS NULL,
          SECOND,       \* ticks in a second
          MILLI,        \* ticks in a millisecond
          MaxClock,     \* bounds the time a behaviour takes
          WaitLoads     \* the call and its arguments, the files, what others do

VARIABLES wload,        \* never changes
          table,        \* descriptor -> file
          level,        \* file -> the events ops->poll returns
          refs,         \* file -> references
          clock,        \* ticks
          sig,          \* the thread's pending signal, and whether it is blocked
          budget,       \* changes that others still make
          w,            \* the call: where it is and its local variables
          wholes        \* history: what went wrong

vars == <<wload, table, level, refs, clock, sig, budget, w, wholes>>
Outside == <<wload, table, level, refs, clock, sig, budget>>

Always == {"ERR", "HUP", "NVAL"}
SELECT_READ == {"IN", "HUP", "ERR"}
SELECT_WRITE == {"OUT", "ERR"}
SELECT_EX == {"PRI"}

Start == [pc |-> "call", i |-> 1, files |-> <<>>, entries |-> <<>>, revents |-> <<>>,
          read |-> {}, write |-> {}, except |-> {}, timeout |-> NULL, begun |-> 0,
          seen |-> NULL, woken |-> FALSE, rem |-> "unset", res |-> 0, err |-> "none"]
Count(f) == Cardinality({n \in DOMAIN wload.table : wload.table[n] = f})
Init ==
    /\ wload \in WaitLoads
    /\ table = wload.table /\ level = wload.level
    /\ refs = [f \in DOMAIN wload.level |-> Count(f)]
    /\ clock = 0 /\ budget = wload.budget
    /\ sig = [pending |-> FALSE, blocked |-> wload.blocked]
    /\ w = Start /\ wholes = {}

At(pc) == w.pc = pc
Fails(err) == w' = [w EXCEPT !.pc = "done", !.err = err]
polls == wload.polls
nfds == Len(polls)
Polls == wload.call \in {"poll", "ppoll"}
Selects == wload.call \in {"select", "pselect"}
f_get(n) == IF n \in DOMAIN table THEN table[n] ELSE NULL
------------------------------------------------------------------------------
(***************************************************************************)
(* Time limits.  A timespec is its number of ticks.                        *)
(***************************************************************************)
\* sys_ppoll: what is less than a millisecond is dropped.
ppoll_timeout(t) == IF t = NULL THEN -1 ELSE (t \div SECOND) * (SECOND \div MILLI) + (t % SECOND) \div MILLI
\* sys_poll: milliseconds to a timespec, none if negative.
poll_timeout(ms) == IF ms < 0 THEN NULL ELSE ms * MILLI
Timeout ==
    IF wload.call = "ppoll" THEN poll_timeout(ppoll_timeout(wload.timeout))
    ELSE IF wload.call = "poll" THEN poll_timeout(IF wload.timeout = NULL THEN -1 ELSE wload.timeout \div MILLI)
    ELSE wload.timeout
\* A mask is installed before the descriptors are looked at, also when the call
\* then fails.
sigmask_set_temp ==
    sig' = IF wload.call \in {"ppoll", "pselect"} /\ wload.mask # NULL
           THEN [sig EXCEPT !.blocked = wload.mask] ELSE sig
------------------------------------------------------------------------------
(***************************************************************************)
(* poll                                                                    *)
(***************************************************************************)
sys_poll ==
    /\ At("call") /\ Polls /\ sigmask_set_temp
    /\ IF wload.fault = "read" THEN Fails("EFAULT")
       ELSE w' = [w EXCEPT !.pc = IF nfds = 0 THEN "wait" ELSE "get", !.timeout = Timeout,
                           !.begun = clock]
    /\ UNCHANGED <<wload, table, level, refs, clock, budget, wholes>>
\* The table is unlocked between looking a file up and retaining it.
get ==
    /\ At("get")
    /\ w' = [w EXCEPT !.pc = IF f_get(polls[w.i].fd) = NULL THEN "next" ELSE "retain",
                      !.files = Append(@, f_get(polls[w.i].fd))]
    /\ UNCHANGED <<Outside, wholes>>
fd_retain ==
    /\ At("retain")
    /\ LET f == w.files[w.i] IN
       /\ refs' = [refs EXCEPT ![f] = @ + 1]
       /\ wholes' = IF refs[f] = 0 THEN wholes \cup {"gone"} ELSE wholes
    /\ w' = [w EXCEPT !.pc = "next"]
    /\ UNCHANGED <<wload, table, level, clock, sig, budget>>
next_fd ==
    /\ At("next")
    /\ w' = IF w.i < nfds THEN [w EXCEPT !.pc = "get", !.i = @ + 1] ELSE [w EXCEPT !.pc = "add"]
    /\ UNCHANGED <<Outside, wholes>>
\* A file listed more than once gets one entry, with the events of all.
Firsts == SelectSeq([i \in 1 .. nfds |-> i],
                    LAMBDA i : w.files[i] # NULL /\ \A j \in 1 .. i - 1 : w.files[j] # w.files[i])
Merged(f) == UNION {polls[j].events : j \in {j \in 1 .. nfds : w.files[j] = f}} \cup Always
poll_add_fds ==
    /\ At("add") /\ Polls
    /\ w' = [w EXCEPT
         !.pc = "wait",
         !.entries = [k \in DOMAIN Firsts |->
             LET f == w.files[Firsts[k]] IN [file |-> f, types |-> Merged(f), info |-> f]],
         !.revents = [i \in 1 .. nfds |->
             IF polls[i].fd >= 0 /\ w.files[i] = NULL THEN {"NVAL"} ELSE {}]]
    /\ UNCHANGED <<Outside, wholes>>

\* Mutant: only the first of several entries for one file is answered.
poll_event_callback_first(found) ==
    [w EXCEPT !.revents = [i \in DOMAIN w.revents |->
        IF w.files[i] # NULL /\ w.files[i] \in DOMAIN found /\ \A j \in 1 .. i - 1 : w.files[j] # w.files[i]
        THEN found[w.files[i]] \cap (polls[i].events \cup Always) ELSE w.revents[i]]]
\* poll_event_callback for everything a scan has found, by file.
poll_event_callback(found) ==
    [w EXCEPT !.revents = [i \in DOMAIN w.revents |->
        IF w.files[i] # NULL /\ w.files[i] \in DOMAIN found
        THEN found[w.files[i]] \cap (polls[i].events \cup Always) ELSE w.revents[i]]]
------------------------------------------------------------------------------
(***************************************************************************)
(* select                                                                  *)
(***************************************************************************)
Types(n) == UNION { IF n \in wload.read THEN SELECT_READ ELSE {},
                    IF n \in wload.write THEN SELECT_WRITE ELSE {},
                    IF n \in wload.except THEN SELECT_EX ELSE {} }
Wanted == SelectSeq(wload.fds, LAMBDA n : Types(n) # {})
select_common ==
    /\ At("call") /\ Selects /\ sigmask_set_temp
    /\ IF wload.fault = "read" THEN Fails("EFAULT")
       ELSE w' = [w EXCEPT !.pc = "set", !.timeout = Timeout, !.begun = clock]
    /\ UNCHANGED <<wload, table, level, refs, clock, budget, wholes>>
\* The file is not retained: it is added if it is still there, and freed memory
\* if it is not.
select_get ==
    /\ At("set") /\ w.i <= Len(Wanted)
    /\ IF f_get(Wanted[w.i]) = NULL
         THEN w' = [w EXCEPT !.pc = "done", !.err = "EBADF", !.entries = <<>>]
         ELSE w' = [w EXCEPT !.pc = "select_add", !.files = <<f_get(Wanted[w.i])>>]
    /\ UNCHANGED <<Outside, wholes>>
select_add ==
    /\ At("select_add")
    /\ LET n == Wanted[w.i]
           f == w.files[1]
       IN  /\ w' = [w EXCEPT !.pc = "set", !.i = @ + 1,
                             !.entries = IF refs[f] = 0 THEN @
                                         ELSE Append(@, [file |-> f, types |-> Types(n), info |-> n])]
           /\ wholes' = IF refs[f] = 0 THEN wholes \cup {"gone"} ELSE wholes
    /\ UNCHANGED Outside
select_added ==
    /\ At("set") /\ w.i > Len(Wanted)
    /\ w' = [w EXCEPT !.pc = "wait"]
    /\ UNCHANGED <<Outside, wholes>>
\* select_event_callback for everything a scan has found, by descriptor.
\* An event sets the bit in each set it belongs to, asked for or not.
select_event_callback(found) ==
    LET In(types) == {n \in DOMAIN found : found[n] \cap types # {}}
    IN  [w EXCEPT !.read = In(SELECT_READ), !.write = In(SELECT_WRITE), !.except = In(SELECT_EX)]
------------------------------------------------------------------------------
(***************************************************************************)
(* poll_wait                                                               *)
(***************************************************************************)
FoundOf(e) == level[e.file] \cap (e.types \cup {"HUP", "ERR"})
Hits == {k \in DOMAIN w.entries : FoundOf(w.entries[k]) # {}}
Found == [x \in {w.entries[k].info : k \in Hits} |->
            FoundOf(w.entries[CHOOSE k \in Hits : w.entries[k].info = x])]
Answered(s) == {i \in 1 .. nfds : s.revents[i] # {}}
scan ==
    /\ At("wait") /\ Hits # {}
    /\ LET s == IF Polls THEN poll_event_callback(Found) ELSE select_event_callback(Found) IN
       /\ w' = [s EXCEPT !.pc = "finish", !.res = Cardinality(Hits), !.seen = level]
       /\ wholes' = IF Polls /\ Cardinality(Answered(s)) # Cardinality(Hits)
                    THEN wholes \cup {"count"} ELSE wholes
    /\ UNCHANGED Outside
Interrupted == sig.pending /\ ~sig.blocked
poll_interrupted ==
    /\ At("wait") /\ Hits = {} /\ Interrupted
    /\ w' = [w EXCEPT !.pc = "finish", !.err = "EINTR"]
    /\ UNCHANGED <<Outside, wholes>>
Bounded(t) == t = NULL \/ t >= SECOND
sleep ==
    /\ At("wait") /\ Hits = {} /\ ~Interrupted
    /\ w' = [w EXCEPT !.pc = "host"]
    /\ wholes' = IF Polls /\ Answered(w) # {} THEN wholes \cup {"nval"} ELSE wholes
    /\ UNCHANGED Outside
\* The host's poll reports a file that is ready, or the notify pipe: look again,
\* with the same limit as before.
real_poll_event ==
    /\ At("host")
    /\ Hits # {} \/ (wload.spurious /\ ~w.woken)
    /\ w' = [w EXCEPT !.pc = "wait", !.woken = @ \/ Hits = {}]
    /\ UNCHANGED <<Outside, wholes>>
real_poll_signal ==
    /\ At("host") /\ Interrupted
    /\ w' = [w EXCEPT !.pc = "finish", !.err = "EINTR"]
    /\ UNCHANGED <<Outside, wholes>>
\* What is left of the limit when the bounded wait of a second is over.
TimeLeft(t) == IF t = NULL THEN NULL ELSE t - SECOND
\* The wait ends without an event: a second is over, or the limit is reached.
\* When the group exits the call is interrupted.  A process other than init and
\* without a terminal whose group did nothing for a minute, with all its threads
\* blocked and no child alive, exits.
Idle == wload.idle /\ ~wload.init /\ ~wload.tty /\ ~wload.children /\ ~wload.busy
real_poll_timeout ==
    LET slept == IF Bounded(w.timeout) THEN SECOND ELSE w.timeout IN
    /\ At("host") /\ clock + slept <= MaxClock
    /\ clock' = clock + slept
    /\ w' = IF ~Bounded(w.timeout) THEN [w EXCEPT !.pc = "finish", !.res = 0]
            ELSE IF wload.exiting THEN [w EXCEPT !.pc = "finish", !.err = "EINTR"]
            ELSE IF Idle THEN [w EXCEPT !.pc = "done", !.err = "exit"]
            ELSE [w EXCEPT !.pc = "wait", !.timeout = TimeLeft(@)]
    /\ UNCHANGED <<wload, table, level, refs, sig, budget, wholes>>
\* poll_destroy, and the references of poll given up.
Released == [f \in DOMAIN refs |-> refs[f] - Cardinality({i \in DOMAIN w.files : w.files[i] = f})]
finish ==
    /\ At("finish")
    /\ refs' = IF Polls THEN Released ELSE refs
    /\ w' = [w EXCEPT !.pc = "done", !.entries = <<>>,
                      !.err = IF wload.fault = "write" /\ w.err = "none" THEN "EFAULT" ELSE @]
    /\ UNCHANGED <<wload, table, level, clock, sig, budget, wholes>>
------------------------------------------------------------------------------
(***************************************************************************)
(* nanosleep and clock_nanosleep                                           *)
(***************************************************************************)
\* Up to a millisecond it only yields.
sys_nanosleep ==
    /\ At("call") /\ wload.call = "nanosleep"
    /\ w' = IF wload.fault = "read" THEN [w EXCEPT !.pc = "done", !.err = "EFAULT"]
            ELSE IF wload.timeout <= MILLI
            THEN [w EXCEPT !.pc = "done", !.err = IF wload.fault = "write" THEN "EFAULT" ELSE @, !.rem = "zero", !.begun = clock]
            ELSE [w EXCEPT !.pc = "asleep", !.timeout = wload.timeout, !.begun = clock]
    /\ wholes' = IF wload.timeout <= MILLI /\ wload.timeout > 0 THEN wholes \cup {"yield"} ELSE wholes
    /\ UNCHANGED Outside
\* An absolute time is made relative with the clock read before the sleep.
Relative(t) == t - clock
sys_clock_nanosleep ==
    /\ At("call") /\ wload.call = "clock_nanosleep"
    /\ IF wload.fault = "read" THEN Fails("EFAULT")
       ELSE IF wload.fault = "clock" THEN Fails("EINVAL")
       ELSE IF wload.absolute /\ Relative(wload.timeout) < 0 THEN w' = [w EXCEPT !.pc = "done"]
       ELSE w' = [w EXCEPT !.pc = "asleep", !.begun = clock,
                           !.timeout = IF wload.absolute THEN Relative(wload.timeout) ELSE wload.timeout]
    /\ UNCHANGED <<Outside, wholes>>
\* The host's nanosleep.  It writes what is left only when it is interrupted, and
\* then the call returns without passing that on; what is passed on after a whole
\* sleep was never written.
host_nanosleep ==
    /\ At("asleep")
    /\ \/ /\ clock + w.timeout <= MaxClock
          /\ clock' = clock + w.timeout
          /\ w' = [w EXCEPT !.pc = "done",
                            !.err = IF wload.fault = "write" /\ ~wload.absolute THEN "EFAULT" ELSE @,
                            !.rem = IF wload.absolute THEN @ ELSE "garbage"]
          /\ wholes' = IF wload.absolute THEN wholes ELSE wholes \cup {"rem"}
       \/ /\ Interrupted
          /\ w' = [w EXCEPT !.pc = "done", !.err = "EINTR"]
          /\ UNCHANGED <<clock, wholes>>
    /\ UNCHANGED <<wload, table, level, refs, sig, budget>>
------------------------------------------------------------------------------
(***************************************************************************)
(* What other threads and the world do.                                    *)
(***************************************************************************)
ready(f) ==
    /\ budget > 0 /\ f \in DOMAIN level
    /\ \E s \in wload.levels : s # level[f] /\ level' = [level EXCEPT ![f] = s]
    /\ budget' = budget - 1
    /\ UNCHANGED <<wload, table, refs, clock, sig, w, wholes>>
\* The last close of a file takes it off every poll (poll_cleanup_fd).
f_close(n) ==
    /\ budget > 0 /\ table[n] # NULL
    /\ LET f == table[n] IN
       /\ table' = [table EXCEPT ![n] = NULL] /\ refs' = [refs EXCEPT ![f] = @ - 1]
       /\ w' = IF refs[f] = 1 THEN [w EXCEPT !.entries = SelectSeq(@, LAMBDA e : e.file # f)] ELSE w
    /\ budget' = budget - 1
    /\ UNCHANGED <<wload, level, clock, sig, wholes>>
send_signal ==
    /\ wload.signals /\ ~sig.pending /\ sig' = [sig EXCEPT !.pending = TRUE]
    /\ UNCHANGED <<wload, table, level, refs, clock, budget, w, wholes>>
tick ==
    /\ At("call") /\ clock < 1 /\ clock' = clock + 1
    /\ UNCHANGED <<wload, table, level, refs, sig, budget, w, wholes>>

Next ==
    \/ sys_poll \/ get \/ fd_retain \/ next_fd \/ poll_add_fds
    \/ select_common \/ select_get \/ select_add \/ select_added
    \/ scan \/ poll_interrupted \/ sleep \/ real_poll_event \/ real_poll_signal \/ real_poll_timeout
    \/ finish \/ sys_nanosleep \/ sys_clock_nanosleep \/ host_nanosleep
    \/ (\E f \in DOMAIN level : ready(f)) \/ (\E n \in DOMAIN table : f_close(n)) \/ send_signal \/ tick
Spec == Init /\ [][Next]_vars
------------------------------------------------------------------------------
\* A call that gives up (poll_wait's limit, nanosleep) has waited as long as it
\* was asked to, less the part of a millisecond that ppoll drops, and exactly
\* so if nothing woke it; an absolute sleep ends at its time.
Asked == IF Polls THEN (wload.timeout \div MILLI) * MILLI ELSE wload.timeout
TimeoutKept ==
    At("done") /\ w.err = "none" /\ w.res = 0 /\ "yield" \notin wholes =>
      IF wload.absolute THEN clock >= wload.timeout
      ELSE /\ clock - w.begun >= Asked
           /\ ~w.woken => clock - w.begun = Asked

\* What a poll or select that finds something answers is what was ready when it
\* looked: for each entry of poll its own events, although the events of the
\* entries for one file were merged; for select every descriptor in a set it was
\* asked for in, and another set only by ERR or HUP.
AnswerExact ==
    At("done") /\ w.err = "none" /\ w.res > 0 =>
      IF Polls
        THEN \A i \in 1 .. nfds :
               w.revents[i] = IF w.files[i] = NULL THEN (IF polls[i].fd < 0 THEN {} ELSE {"NVAL"})
                              ELSE w.seen[w.files[i]] \cap (polls[i].events \cup {"ERR", "HUP"})
        ELSE \A n \in DOMAIN wload.table :
               LET f == wload.table[n]
                   Hit(types) == table[n] # NULL /\ w.seen[f] \cap types # {}
               IN  /\ n \in wload.read /\ Hit(SELECT_READ) => n \in w.read
                   /\ n \in wload.write /\ Hit(SELECT_WRITE) => n \in w.write
                   /\ n \in wload.except /\ Hit(SELECT_EX) => n \in w.except
                   /\ n \in (w.read \ wload.read) \cup (w.write \ wload.write) =>
                        w.seen[f] \cap {"ERR", "HUP"} # {}
                   /\ w.except \subseteq wload.except

\* Whatever way the call ends, every file has as many references as descriptors,
\* and no entry of the call's poll is left on it.
FilesReleased ==
    At("done") /\ "gone" \notin wholes /\ w.err # "exit" =>
      /\ \A f \in DOMAIN refs : refs[f] = Cardinality({n \in DOMAIN table : table[n] = f})
      /\ w.entries = <<>>

\* What the calls get wrong, and nothing else: poll counts files and not entries
\* ("count") and waits although a descriptor is bad ("nval"); a file closed
\* between the look-up and its use ("gone"); a short sleep that only yields; and
\* a remaining time that was never set ("rem").
WaitsSound ==
    /\ TimeoutKept /\ AnswerExact /\ FilesReleased
    /\ wholes \subseteq wload.known
==============================================================================
