----------------------------- MODULE Supervisor -----------------------------
(***************************************************************************)
(* The supervisor (embed/supervisor): pid 1 of the guest, one thread that  *)
(* polls, handles requests, reaps, drains and closes.  The child of a      *)
(* session is named by its request id and has a pid besides.  A unit of    *)
(* output is what one read returns.  Between the steps of the supervisor   *)
(* its children run.                                                       *)
(***************************************************************************)
EXTENDS Naturals, Sequences, FiniteSets

CONSTANTS Reqs,      \* request ids
          MaxPid,    \* children have the pids 1 .. MaxPid
          PipeCap,   \* units that fit into a pipe
          NULL

VARIABLES load,                 \* what callers and children do: see Embed
          spc,                  \* where the loop is
          sessions,             \* the table: NULL or a Session
          shutdown_requested,
          request_buf, session_ids, revents,   \* of this turn of the loop
          kid,                  \* the children and their pipes
          cur_pid,              \* the last pid that was given out
          sigchld,              \* the self-pipe is readable
          lost,                 \* history: requests whose input was dropped
          to_sup, to_host,      \* the two pipes of frames
          host_open, sup_open   \* their write ends

turn == <<request_buf, session_ids, revents>>
pipes == <<to_sup, to_host, host_open, sup_open>>
svars == <<spc, sessions, shutdown_requested, turn, kid, cur_pid, sigchld, lost>>
rest == <<spc, sessions, shutdown_requested, turn, lost, pipes>>

Frame(op, r, x) == [op |-> op, reqid |-> r, arg |-> x]
Session(p) == [pid |-> p, next_seq |-> 1, exited_announced |-> FALSE, eof |-> FALSE]
Kid(p, k) == [state |-> "run", pid |-> p, status |-> NULL, kind |-> k, out |-> 0,
              stdin |-> 0, echo |-> FALSE, daemon |-> FALSE, written |-> 0]

Init ==
    /\ spc = "poll" /\ sessions = [r \in Reqs |-> NULL] /\ shutdown_requested = FALSE
    /\ request_buf = <<>> /\ session_ids = {} /\ revents = {}
    /\ kid = [r \in Reqs |-> [Kid(0, "none") EXCEPT !.state = "none"]]
    /\ cur_pid = 0 /\ sigchld = FALSE /\ lost = {}
    /\ to_sup = <<>> /\ to_host = <<>> /\ host_open = TRUE /\ sup_open = TRUE

Ids == {r \in Reqs : sessions[r] # NULL}
Live(r) == kid[r].state \in {"run", "killed"}
Zombies == {r \in Reqs : kid[r].state = "zombie"}
\* Nobody can write to the pipe of r any more.
Eof(r) == ~Live(r) /\ ~kid[r].daemon
Send(frames) == to_host' = to_host \o frames
------------------------------------------------------------------------------
(* The children.                                                           *)

\* A child with a stdin pipe echoes what it reads, the others write at will.
child_write(r) ==
    /\ ~Eof(r) /\ kid[r].written < load.out /\ kid[r].out < PipeCap
    /\ kid[r].kind = "stdin" => kid[r].echo
    /\ kid' = [kid EXCEPT ![r].out = @ + 1, ![r].written = @ + 1, ![r].echo = FALSE]
    /\ UNCHANGED <<rest, cur_pid, sigchld>>
child_read(r) ==
    /\ Live(r) /\ kid[r].stdin > 0 /\ ~kid[r].echo
    /\ kid' = [kid EXCEPT ![r].stdin = @ - 1, ![r].echo = TRUE]
    /\ UNCHANGED <<rest, cur_pid, sigchld>>
\* Its files are closed, it is a zombie, and SIGCHLD writes to the self-pipe.
\* A child that waits for its output pipe exits only when it is killed.
child_exit(r) ==
    /\ Live(r) /\ (kid[r].echo => kid[r].state = "killed")
    /\ kid' = [kid EXCEPT ![r].state = "zombie",
                          ![r].status = IF kid[r].state = "killed" THEN "SIGKILL" ELSE "exit"]
    /\ sigchld' = TRUE
    /\ UNCHANGED <<rest, cur_pid>>
\* A descendant with a process group of its own holds the output pipe.
fork_daemon(r) ==
    /\ "daemon" \in load.uses /\ kid[r].state = "run" /\ ~kid[r].daemon
    /\ kid' = [kid EXCEPT ![r].daemon = TRUE]
    /\ UNCHANGED <<rest, cur_pid, sigchld>>
daemon_exit(r) ==
    /\ kid[r].daemon /\ kid' = [kid EXCEPT ![r].daemon = FALSE]
    /\ UNCHANGED <<rest, cur_pid, sigchld>>

\* kill(-p, SIGKILL) for the pids p in P: whoever has such a pid now.
Kill(P) ==
    [r \in Reqs |-> IF kid[r].state = "run" /\ kid[r].pid \in P
                    THEN [kid[r] EXCEPT !.state = "killed"] ELSE kid[r]]
PidsOf(S) == {sessions[r].pid : r \in S}
\* The kernel gives out the next pid that nobody has.
Taken == {kid[r].pid : r \in {s \in Reqs : kid[s].state \in {"run", "killed", "zombie"}}}
Free == (1 .. MaxPid) \ Taken
NextPid ==
    LET after == {p \in Free : p > cur_pid}
        least(S) == CHOOSE p \in S : \A q \in S : p <= q
    IN  least(IF after # {} THEN after ELSE Free)
------------------------------------------------------------------------------
(* The loop.                                                               *)

\* poll, and for stdin the reading of all that is there.  Without sessions and
\* without a shutdown it waits for an event, otherwise 50 ms or not at all.
poll ==
    LET events == {e \in {"in", "hup", "sig"} :
                     \/ e = "in" /\ to_sup # <<>>
                     \/ e = "hup" /\ ~host_open
                     \/ e = "sig" /\ sigchld}
    IN  /\ spc = "poll" /\ (events # {} \/ Ids # {} \/ shutdown_requested)
        /\ IF events = {} /\ shutdown_requested /\ Ids = {}
           THEN /\ spc' = "exited" /\ sup_open' = FALSE
                /\ UNCHANGED <<turn, to_sup>>
           ELSE /\ spc' = "requests" /\ revents' = events /\ session_ids' = Ids
                /\ request_buf' = to_sup /\ to_sup' = <<>>
                /\ UNCHANGED sup_open
        /\ UNCHANGED <<sessions, shutdown_requested, kid, cur_pid, sigchld, lost, to_host, host_open>>

\* Open: fork and execve; the reply waits for the outcome of execve.
spawn(r, k) ==
    /\ Free # {}
    /\ sessions' = [sessions EXCEPT ![r] = Session(NextPid)]
    /\ kid' = [kid EXCEPT ![r] = Kid(NextPid, k)] /\ cur_pid' = NextPid
    /\ Send(<<Frame("Opened", r, NextPid)>>)
    /\ UNCHANGED <<shutdown_requested, sigchld, lost>>
\* Before the fork, for want of a pid, or in execve: then the child has had a
\* pid and is reaped right here, but its SIGCHLD has come.
spawn_fails(r) ==
    /\ \/ ("spawn_fails" \in load.uses \/ Free = {}) /\ UNCHANGED <<cur_pid, sigchld>>
       \/ "spawn_fails" \in load.uses /\ Free # {} /\ cur_pid' = NextPid /\ sigchld' = TRUE
    /\ Send(<<Frame("Err", r, NULL), Frame("Closed", r, NULL)>>)
    /\ UNCHANGED <<sessions, kid, shutdown_requested, lost>>

\* Write: a pipe blocks the loop while it is full; the master of a pty is
\* non-blocking, and what does not fit is dropped.
write_stdin(r) ==
    LET fits == kid[r].stdin < PipeCap
        target == sessions[r] # NULL /\ kid[r].kind \in {"stdin", "tty"} /\ Live(r)
    IN  /\ target /\ kid[r].kind = "stdin" => fits
        /\ kid' = IF target /\ fits THEN [kid EXCEPT ![r].stdin = @ + 1] ELSE kid
        /\ lost' = IF target /\ ~fits THEN lost \cup {r} ELSE lost
        /\ UNCHANGED <<sessions, cur_pid, shutdown_requested, sigchld, to_host>>
resize_pty(r) ==
    /\ \/ UNCHANGED to_host
       \/ sessions[r] # NULL /\ kid[r].kind = "tty" /\ Send(<<Frame("Err", r, NULL)>>)
    /\ UNCHANGED <<sessions, kid, cur_pid, shutdown_requested, sigchld, lost>>
\* Term, and Signal with a signal that kills.
kill_session(r) ==
    /\ kid' = IF sessions[r] # NULL THEN Kill({sessions[r].pid}) ELSE kid
    /\ UNCHANGED <<sessions, cur_pid, shutdown_requested, sigchld, lost, to_host>>
\* SIGTERM, which a child may ignore; SIGKILL follows at the end of the turn.
request_shutdown ==
    /\ shutdown_requested' = TRUE
    /\ UNCHANGED <<sessions, kid, cur_pid, sigchld, lost, to_host>>

handle_request ==
    /\ spc = "requests" /\ request_buf # <<>> /\ request_buf' = Tail(request_buf)
    /\ LET f == Head(request_buf) IN
       \/ f.op = "Open" /\ (spawn(f.reqid, f.arg) \/ spawn_fails(f.reqid))
       \/ f.op = "Write" /\ write_stdin(f.reqid)
       \/ f.op = "Resize" /\ resize_pty(f.reqid)
       \/ f.op = "Term" /\ kill_session(f.reqid)
       \/ f.op = "Shutdown" /\ request_shutdown
    /\ UNCHANGED <<spc, session_ids, revents, to_sup, host_open, sup_open>>
\* The host has closed its end: a shutdown.  Then the self-pipe is emptied.
requests_done ==
    /\ spc = "requests" /\ request_buf = <<>> /\ spc' = "reap"
    /\ shutdown_requested' = (shutdown_requested \/ "hup" \in revents)
    /\ sigchld' = (sigchld /\ "sig" \notin revents)
    /\ UNCHANGED <<sessions, turn, kid, cur_pid, lost, pipes>>

\* Mutant: one child is reaped for one SIGCHLD.
reap_done_one ==
    /\ spc = "reap" /\ spc' = "drain"
    /\ UNCHANGED <<sessions, shutdown_requested, turn, kid, cur_pid, sigchld, lost, pipes>>
\* One waitpid(-1): r is gone, and some session with its pid hears of it.
reap_child(r) ==
    /\ spc = "reap" /\ "sig" \in revents /\ r \in Zombies
    /\ kid' = [kid EXCEPT ![r].state = "gone"]
    /\ LET found == {s \in Ids : sessions[s].pid = kid[r].pid} IN
       \/ found = {} /\ UNCHANGED <<sessions, to_host>>
       \/ \E s \in found :
            /\ sessions' = [sessions EXCEPT ![s].exited_announced = TRUE]
            /\ Send(IF sessions[s].exited_announced THEN <<>>
                    ELSE <<Frame("Exited", s, kid[r].status)>>)
    /\ UNCHANGED <<spc, shutdown_requested, turn, cur_pid, sigchld, lost, to_sup, host_open, sup_open>>
reap_done ==
    /\ spc = "reap" /\ ("sig" \notin revents \/ Zombies = {}) /\ spc' = "drain"
    /\ UNCHANGED <<sessions, shutdown_requested, turn, kid, cur_pid, sigchld, lost, pipes>>

\* All that is in the pipe, up to EOF or EAGAIN.
drain_session_output(r) ==
    /\ spc = "drain" /\ r \in session_ids /\ session_ids' = session_ids \ {r}
    /\ Send([i \in 1 .. kid[r].out |-> Frame("Output", r, sessions[r].next_seq + i - 1)])
    /\ sessions' = [sessions EXCEPT ![r].next_seq = @ + kid[r].out, ![r].eof = Eof(r)]
    /\ kid' = [kid EXCEPT ![r].out = 0]
    /\ UNCHANGED <<spc, shutdown_requested, request_buf, revents, cur_pid, sigchld, lost,
                   to_sup, host_open, sup_open>>
drain_done ==
    /\ spc = "drain" /\ session_ids = {} /\ spc' = "finalize"
    /\ UNCHANGED <<sessions, shutdown_requested, turn, kid, cur_pid, sigchld, lost, pipes>>

\* Mutant: the end of the output is not waited for.
done_exited(r) == sessions[r].exited_announced
\* Both the status and the end of the output have been passed on.
done(r) == sessions[r].eof /\ sessions[r].exited_announced
finalize_session(r) ==
    /\ spc = "finalize" /\ r \in Ids /\ done(r)
    /\ sessions' = [sessions EXCEPT ![r] = NULL] /\ Send(<<Frame("Closed", r, NULL)>>)
    /\ UNCHANGED <<spc, shutdown_requested, turn, kid, cur_pid, sigchld, lost,
                   to_sup, host_open, sup_open>>
\* During a shutdown the rest is killed, in every turn.
finalize_done ==
    /\ spc = "finalize" /\ ~(\E r \in Ids : done(r)) /\ spc' = "poll"
    /\ kid' = IF shutdown_requested THEN Kill(PidsOf(Ids)) ELSE kid
    /\ revents' = {}
    /\ UNCHANGED <<sessions, shutdown_requested, request_buf, session_ids, cur_pid, sigchld, lost, pipes>>

\* A failing system call: run returns an error, and main tries to report it.
run_fails ==
    /\ "crash" \in load.uses /\ spc = "poll" /\ spc' = "exited" /\ sup_open' = FALSE
    /\ Send(<<Frame("Err", NULL, NULL)>>) \/ Send(<<>>)
    /\ UNCHANGED <<sessions, shutdown_requested, turn, kid, cur_pid, sigchld, lost, to_sup, host_open>>

Loop ==
    \/ poll \/ handle_request \/ requests_done \/ reap_done \/ drain_done \/ finalize_done
    \/ \E r \in Reqs : reap_child(r) \/ drain_session_output(r) \/ finalize_session(r)
Guest ==
    \E r \in Reqs : child_write(r) \/ child_read(r) \/ child_exit(r)
                    \/ fork_daemon(r) \/ daemon_exit(r)
Next == Loop \/ Guest \/ run_fails
=============================================================================
