-------------------------------- MODULE Host --------------------------------
(***************************************************************************)
(* The host side of the embedding (embed/host): the instance with its      *)
(* reader thread, the sessions, and for every session one caller that runs *)
(* run_oneshot and may write, resize and terminate besides.  The channel   *)
(* of the writer thread and the pipe behind it are one queue.              *)
(***************************************************************************)
EXTENDS Naturals, Sequences, FiniteSets

CONSTANTS Reqs, NULL,
          Retain,      \* chunks that fit into retained_capacity
          ReadCap      \* chunks that fit into max_bytes

VARIABLES load,       \* what callers and children do: see Embed
          hs,         \* SessionState
          retained,   \* RetainedBuf: the chunks by their seq, floor and next
          members,    \* the keys of InstanceInner.sessions
          poisoned, reader,
          caller,     \* what the caller of each session is doing
          after, got, \* its next_seq and the chunks it has received
          missed,     \* history: some read said missed_older_bytes
          writes, shutdown,
          kernel_exit,   \* "hook": the exit hook was called, "_exit": the process ended
          to_sup, to_host, host_open, sup_open

hvars == <<hs, retained, members, poisoned, reader, caller, after, got, missed,
           writes, shutdown, kernel_exit>>
pipes == <<to_sup, to_host, host_open, sup_open>>

Frame(op, r, x) == [op |-> op, reqid |-> r, arg |-> x]

Init ==
    /\ hs = [r \in Reqs |-> [opened |-> FALSE, exited |-> FALSE, exit_code |-> NULL,
                             closed |-> FALSE, failure |-> FALSE]]
    /\ retained = [r \in Reqs |-> [chunks |-> <<>>, floor |-> 1, next |-> 1]]
    /\ members = {} /\ poisoned = FALSE /\ reader = "run"
    /\ caller = [r \in Reqs |-> "idle"] /\ after = [r \in Reqs |-> 0]
    /\ got = [r \in Reqs |-> <<>>] /\ missed = [r \in Reqs |-> FALSE]
    /\ writes = 0 /\ shutdown = "no" /\ kernel_exit = "no"

\* The callers that hold the session: the table's weak pointer can be upgraded.
Held == {r \in Reqs : caller[r] \notin {"idle", "error", "done", "timed_out"}}
Known == members \cap Held
\* notify_waiters wakes who waits now and leaves nothing for later.
Notify(S) == [r \in Reqs |-> IF r \in S /\ caller[r] = "asleep" THEN "collect" ELSE caller[r]]
------------------------------------------------------------------------------
(* spawn.                                                                  *)

\* The ids are given out in order, and the session is in the table before the
\* request is sent.
spawn(r) ==
    /\ r \in load.reqs /\ caller[r] = "idle" /\ \A q \in Reqs : q < r => caller[q] # "idle"
    /\ members' = members \cup {r} /\ caller' = [caller EXCEPT ![r] = "sending"]
    /\ UNCHANGED <<hs, retained, poisoned, reader, after, got, missed, writes, shutdown, kernel_exit, pipes>>
\* send_frame tests poisoned, then sends.
spawn_checked(r) ==
    /\ caller[r] = "sending"
    /\ caller' = [caller EXCEPT ![r] = IF poisoned THEN "error" ELSE "send"]
    /\ UNCHANGED <<hs, retained, members, poisoned, reader, after, got, missed, writes, shutdown, kernel_exit, pipes>>
spawn_sent(r, k) ==
    /\ caller[r] = "send" /\ caller' = [caller EXCEPT ![r] = "top"]
    /\ to_sup' = Append(to_sup, Frame("Open", r, k))
    /\ UNCHANGED <<hs, retained, members, poisoned, reader, after, got, missed, writes, shutdown, kernel_exit,
                   to_host, host_open, sup_open>>
------------------------------------------------------------------------------
(* The reader thread.                                                      *)

on_opened(r) == hs' = [hs EXCEPT ![r].opened = TRUE] /\ UNCHANGED retained
\* The oldest chunks make room.
on_output(r, seq) ==
    /\ LET b == retained[r]
           all == Append(b.chunks, seq)
           evict == Len(all) > Retain
       IN  retained' = IF seq < b.next THEN retained
                       ELSE [retained EXCEPT ![r] =
                               [chunks |-> IF evict THEN Tail(all) ELSE all,
                                floor |-> IF evict THEN Head(all) + 1 ELSE b.floor,
                                next |-> seq + 1]]
    /\ UNCHANGED hs
on_exited(r, c) ==
    hs' = [hs EXCEPT ![r].exited = TRUE, ![r].exit_code = c] /\ UNCHANGED retained
on_closed(r) ==
    hs' = [hs EXCEPT ![r].closed = TRUE, ![r].exited = TRUE] /\ UNCHANGED retained
on_failed(S) ==
    /\ hs' = [r \in Reqs |-> IF r \in S THEN [hs[r] EXCEPT !.failure = TRUE, !.exited = TRUE]
                                        ELSE hs[r]]
    /\ UNCHANGED retained

\* Frames of sessions that nobody holds any more are dropped.
dispatch ==
    /\ reader = "run" /\ to_host # <<>> /\ to_host' = Tail(to_host)
    /\ LET f == Head(to_host)
           r == f.reqid
       IN  /\ \/ f.op = "Err" /\ r = NULL /\ on_failed(Known)
              \/ f.op = "Err" /\ r # NULL /\ on_failed(Known \cap {r})
              \/ r \in Reqs \ Known /\ f.op # "Err" /\ UNCHANGED <<hs, retained>>
              \/ r \in Known /\ f.op = "Opened" /\ on_opened(r)
              \/ r \in Known /\ f.op = "Output" /\ on_output(r, f.arg)
              \/ r \in Known /\ f.op = "Exited" /\ on_exited(r, f.arg)
              \/ r \in Known /\ f.op = "Closed" /\ on_closed(r)
           /\ members' = IF f.op = "Closed" THEN members \ {r} ELSE members
           /\ poisoned' = (poisoned \/ (f.op = "Err" /\ r = NULL))
           /\ caller' = Notify(IF r = NULL THEN Known ELSE Known \cap {r})
    /\ UNCHANGED <<reader, after, got, missed, writes, shutdown, kernel_exit, to_sup, host_open, sup_open>>
\* The end of reader_loop: first new requests are refused, then the sessions
\* that are in the table fail.
reader_eof ==
    /\ reader = "run" /\ to_host = <<>> /\ ~sup_open
    /\ reader' = "poisoned" /\ poisoned' = TRUE
    /\ UNCHANGED <<hs, retained, members, caller, after, got, missed, writes, shutdown, kernel_exit, pipes>>
reader_fails_sessions ==
    /\ reader = "poisoned" /\ reader' = "gone"
    /\ on_failed(Known) /\ caller' = Notify(Known)
    /\ UNCHANGED <<members, poisoned, after, got, missed, writes, shutdown, kernel_exit, pipes>>
------------------------------------------------------------------------------
(* The callers: drain_to_completion_streaming, on top of read.             *)

Available(r) == SelectSeq(retained[r].chunks, LAMBDA seq : seq > after[r])
\* Mutant: the gap of a single chunk goes unnoticed.
missed_older_two(r) == after[r] + 2 < retained[r].floor
missed_older(r) == after[r] + 1 < retained[r].floor
\* try_collect takes what fits.
Taken(r) == SubSeq(Available(r), 1, IF Len(Available(r)) < ReadCap THEN Len(Available(r)) ELSE ReadCap)

\* try_collect and what the loops around it make of the result.
collect(r) ==
    /\ caller[r] \in {"top", "collect"}
    /\ missed' = [missed EXCEPT ![r] = @ \/ missed_older(r)]
    /\ got' = [got EXCEPT ![r] = @ \o Taken(r)]
    /\ after' = [after EXCEPT ![r] = IF Taken(r) = <<>> THEN @ ELSE Taken(r)[Len(Taken(r))]]
    /\ caller' = [caller EXCEPT ![r] = IF hs[r].closed THEN "done"
                                      ELSE IF Taken(r) # <<>> THEN "top" ELSE "window"]
    /\ UNCHANGED <<hs, retained, members, poisoned, reader, writes, shutdown, kernel_exit, pipes>>
\* From the call of notified() on a notification is noticed.
wait(r) ==
    /\ caller[r] = "window" /\ caller' = [caller EXCEPT ![r] = "asleep"]
    /\ UNCHANGED <<hs, retained, members, poisoned, reader, after, got, missed, writes, shutdown, kernel_exit, pipes>>
wait_timeout(r) ==
    /\ caller[r] = "asleep" /\ caller' = [caller EXCEPT ![r] = "collect"]
    /\ UNCHANGED <<hs, retained, members, poisoned, reader, after, got, missed, writes, shutdown, kernel_exit, pipes>>

Request(frame) == to_sup' = IF poisoned THEN to_sup ELSE Append(to_sup, frame)
\* The deadline of run_oneshot: terminate and give up.
oneshot_timeout(r) ==
    /\ "timeout" \in load.uses /\ caller[r] \in {"top", "window"}
    /\ Request(Frame("Term", r, NULL)) /\ caller' = [caller EXCEPT ![r] = "timed_out"]
    /\ UNCHANGED <<hs, retained, members, poisoned, reader, after, got, missed, writes, shutdown, kernel_exit,
                   to_host, host_open, sup_open>>
\* write and resize; write refuses before Opened and after the exit.
session_request(r, op) ==
    /\ op \in load.uses /\ writes < load.writes /\ r \in Held /\ caller[r] \notin {"sending", "send"}
    /\ op = "Write" => hs[r].opened /\ ~hs[r].exited /\ ~hs[r].closed
    /\ Request(Frame(op, r, NULL)) /\ writes' = writes + 1
    /\ UNCHANGED <<hs, retained, members, poisoned, reader, caller, after, got, missed, shutdown, kernel_exit,
                   to_host, host_open, sup_open>>

\* shutdown: no more requests after this one, then 5 seconds for the exit hook.
start_shutdown ==
    /\ "shutdown" \in load.uses /\ shutdown = "no" /\ shutdown' = "waiting"
    /\ Request(Frame("Shutdown", NULL, NULL)) /\ poisoned' = TRUE
    /\ UNCHANGED <<hs, retained, members, reader, caller, after, got, missed, writes, kernel_exit,
                   to_host, host_open, sup_open>>
shutdown_returns ==
    /\ shutdown = "waiting"
    /\ shutdown' = IF kernel_exit = "hook" THEN "ok" ELSE "kernel exit timeout"
    /\ UNCHANGED <<hs, retained, members, poisoned, reader, caller, after, got, missed, writes, kernel_exit, pipes>>
\* boot refuses the supervisor's version: the instance and with it the request
\* stream go away.
boot_fails ==
    /\ "hup" \in load.uses /\ host_open /\ \A r \in Reqs : caller[r] = "idle"
    /\ host_open' = FALSE /\ poisoned' = TRUE /\ reader' = "gone"
    /\ UNCHANGED <<hs, retained, members, caller, after, got, missed, writes, shutdown, kernel_exit,
                   to_sup, to_host, sup_open>>

Op(r) ==
    \/ host_open /\ spawn(r)
    \/ oneshot_timeout(r)
    \/ \E op \in {"Write", "Resize"} : session_request(r, op)
Reader == dispatch \/ reader_eof \/ reader_fails_sessions
Caller(r) ==
    \/ spawn_checked(r) \/ (\E k \in load.kinds : spawn_sent(r, k))
    \/ collect(r) \/ wait(r) \/ wait_timeout(r)
Next ==
    \/ Reader \/ start_shutdown \/ shutdown_returns \/ boot_fails
    \/ \E r \in Reqs : Caller(r) \/ Op(r)
=============================================================================
