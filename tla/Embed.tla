-------------------------------- MODULE Embed --------------------------------
(***************************************************************************)
(* The embedding as a whole: host and supervisor joined by their two       *)
(* pipes, and what a session promises (RemoteProcess).                     *)
(***************************************************************************)
EXTENDS Naturals, Sequences, FiniteSets

CONSTANTS Reqs, NULL, MaxPid, PipeCap, Retain, ReadCap,
          Loads    \* what callers and children may do, see Load

\* The sessions that are spawned and their kinds, how much a child writes, how
\* many writes and resizes there are, and what happens besides.
Load == [reqs : SUBSET Reqs, kinds : SUBSET {"none", "stdin", "tty"},
         out : Nat, writes : Nat,
         uses : SUBSET {"daemon", "spawn_fails", "crash", "timeout", "Write", "Resize",
                        "shutdown", "hup"}]

ASSUME EmbedConstants ==
    /\ Reqs \subseteq Nat /\ NULL \notin Reqs /\ MaxPid \in Nat
    /\ PipeCap > 0 /\ Retain > 0 /\ ReadCap > 0 /\ Loads \subseteq Load

VARIABLES load,   \* never changes
          spc, sessions, shutdown_requested, request_buf, session_ids, revents,
          kid, cur_pid, sigchld, lost,
          hs, retained, members, poisoned, reader, caller, after, got, missed,
          writes, shutdown, kernel_exit,
          to_sup, to_host, host_open, sup_open

S == INSTANCE Supervisor
H == INSTANCE Host
svars == <<spc, sessions, shutdown_requested, request_buf, session_ids, revents,
           kid, cur_pid, sigchld, lost>>
hvars == <<hs, retained, members, poisoned, reader, caller, after, got, missed,
           writes, shutdown, kernel_exit>>
pipes == <<to_sup, to_host, host_open, sup_open>>
vars == <<load, svars, hvars, pipes>>

Init == load \in Loads /\ S!Init /\ H!Init

\* Init has exited: halt_system ends the host process, so the exit hook that
\* do_exit would call next is never reached.
halt_system ==
    /\ spc = "exited" /\ kernel_exit' = "_exit"
    /\ UNCHANGED <<svars, pipes, hs, retained, members, poisoned, reader, caller, after,
                   got, missed, writes, shutdown>>
Running(A) == kernel_exit # "_exit" /\ A /\ UNCHANGED load
Next ==
    \/ Running(S!Next /\ UNCHANGED hvars)
    \/ Running(H!Next /\ UNCHANGED svars)
    \/ Running(halt_system)
Spec == Init /\ [][Next]_vars

\* The threads run, and so do the children, at least as far as their input and
\* output go: none of them has to exit by itself.
Child(r) ==
    \/ S!child_read(r) \/ S!child_write(r)
    \/ kid[r].state = "killed" /\ S!child_exit(r)
FairSpec ==
    /\ Spec /\ WF_vars(Running(halt_system))
    /\ WF_vars(Running(UNCHANGED hvars /\ S!Loop)) /\ WF_vars(Running(UNCHANGED svars /\ H!Reader))
    /\ \A r \in Reqs :
         /\ WF_vars(Running(UNCHANGED svars /\ H!Caller(r)))
         /\ WF_vars(Running(UNCHANGED hvars /\ Child(r)))
------------------------------------------------------------------------------
\* Every variable keeps its type, and pipes, retained chunks and the
\* supervisor's loop stay within their bounds.
TypeOK ==
    /\ load \in Loads
    /\ spc \in {"poll", "requests", "reap", "drain", "finalize", "exited"}
    /\ \A r \in Reqs :
         /\ sessions[r] # NULL => sessions[r].pid \in 1 .. MaxPid
         /\ kid[r].out \in 0 .. PipeCap /\ kid[r].written \in 0 .. load.out
         /\ Len(retained[r].chunks) <= Retain
         /\ caller[r] \in {"idle", "sending", "send", "error", "collect", "window",
                           "asleep", "top", "done", "timed_out"}
    /\ members \subseteq Reqs /\ lost \subseteq Reqs
    /\ reader \in {"run", "poisoned", "gone"}

\* A session behaves like the process it stands for.
R == INSTANCE RemoteProcess WITH
       life <- [r \in Reqs |-> IF kid[r].state \in {"run", "killed"} THEN "run"
                               ELSE IF kid[r].state = "none" THEN "none" ELSE "dead"],
       code <- [r \in Reqs |-> kid[r].status],
       written <- [r \in Reqs |-> kid[r].written],
       seen <- [r \in Reqs |-> retained[r].next - 1],
       shown <- [r \in Reqs |-> hs[r].exit_code],
       failed <- [r \in Reqs |-> hs[r].failure],
       closed <- [r \in Reqs |-> hs[r].closed]
RemoteProcessSpec == R!Spec

\* What a caller receives has no gap that no read told it about.
NoSilentGap ==
    \A r \in Reqs : ~missed[r] => \A i \in 1 .. Len(got[r]) : got[r][i] = i

\* drain_to_completion: what it returns when the session has closed is all the
\* output, as far as it was retained.
OneshotComplete ==
    \A r \in Reqs : caller[r] = "done" /\ ~missed[r] => Len(got[r]) = kid[r].written

\* A spawn that succeeded hears of the supervisor's end, also when the two race
\* (send_frame, reader_loop).
AcceptedOrFailed ==
    \A r \in Reqs : reader = "gone" /\ caller[r] \in {"top", "collect", "window", "asleep"}
                     => hs[r].failure \/ hs[r].closed

\* What a session has received and been promised (the invariants above).
StreamSound == TypeOK /\ NoSilentGap /\ AcceptedOrFailed

\* Exits of children that leave nobody behind, of which the session has not heard.
Unreported ==
    {r \in Reqs : /\ kid[r].state \in {"zombie", "gone"} /\ ~kid[r].daemon
                  /\ ~hs[r].closed /\ r \in H!Held /\ kernel_exit # "_exit"}
\* A shutdown was asked for, and the supervisor runs.  Neither is taken back.
ShuttingDown == shutdown # "no" /\ spc # "exited"

\* The exit of every such child gets to its session, and after a shutdown the
\* supervisor exits: in the end none is left over, whatever else is going on.
\* One that has been reported stays reported.
EmbedLive == <>[](Unreported = {} /\ ~ShuttingDown)
=============================================================================
