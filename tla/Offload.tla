------------------------------- MODULE Offload -------------------------------
(***************************************************************************)
(* Programs run natively on the host in place of a guest program           *)
(* (kernel/native_offload.c): as a host process of their own, or as a      *)
(* handler inside the emulator.  Their output comes back through pipes     *)
(* that a thread reads.                                                    *)
(***************************************************************************)
EXTENDS Naturals, FiniteSets, Sequences, SequencesExt

CONSTANTS Guests, NULL, HostPids, PipeSize, MaxEntries, OffloadLoads

VARIABLES oload,    \* which tasks do what, never changes
          guest,    \* tasks that are exec'ing a registered program
          host,     \* host processes, NULL where the pid is free
          ends,     \* pipes, by task, whose write end the emulator has open
          pipe,     \* what is in them
          copied,   \* what has come out of them
          cwd,      \* of the emulator: the task whose directory it is, NULL at first
          astray,   \* tasks a signal of which hit the process of another
          entries,  \* the registered programs
          guest_cwd,\* the buffer of get_guest_cwd, one for all tasks
          known,    \* directories whose new files are in the data base, with where those are
          muddled   \* tasks for which another one changed the buffer

files == <<entries, guest_cwd, known, muddled>>
vars == <<oload, guest, host, ends, pipe, copied, cwd, astray, files>>

At(g, pc) == guest[g].pc = pc
Step(g, pc) == guest' = [guest EXCEPT ![g].pc = pc]
Wrote(g) == guest[g].wrote
\* The reading thread sees the end when nobody has the write end open any more.
Eof(g) == g \notin ends /\ \A p \in HostPids : host[p] # NULL => g \notin host[p].ends

\* A program is registered by its name, with a host program or a handler.
native_offload_add(es, spec) ==
    IF Len(es) >= MaxEntries \/ ~spec.there THEN es ELSE Append(es, spec)
\* The first entry counts.
offload_find(name) == SelectInSeq(entries, LAMBDA e : e.name = name)
does(g) == LET i == offload_find(oload.runs[g]) IN IF i = 0 THEN NULL ELSE entries[i].how

native_offload_exec(g) ==
    /\ At(g, "idle") /\ g \in DOMAIN oload.runs /\ does(g) # NULL
    /\ ends' = ends \cup {g}
    /\ Step(g, IF does(g) = "handler" THEN "chdir" ELSE "spawn")
    /\ UNCHANGED <<oload, host, pipe, copied, cwd, astray, files>>
\* A host process inherits every write end that is open at this moment.
posix_spawn(g) ==
    /\ At(g, "spawn")
    /\ \/ /\ oload.fails /\ ends' = ends \ {g} /\ Step(g, "fallback") /\ UNCHANGED host
       \/ \E p \in HostPids :
            /\ host[p] = NULL
            /\ host' = [host EXCEPT ![p] = [of |-> g, run |-> TRUE, ends |-> ends, status |-> 0]]
            /\ guest' = [guest EXCEPT ![g].pc = "close", ![g].child = p]
            /\ UNCHANGED ends
    /\ UNCHANGED <<oload, pipe, copied, cwd, astray, files>>
\* Mutant: the emulator's write end stays open.
start_pipe_forward_open(g) ==
    /\ At(g, "close") /\ Step(g, "mark")
    /\ UNCHANGED <<oload, host, ends, pipe, copied, cwd, astray, files>>
start_pipe_forward(g) ==
    /\ At(g, "close") /\ ends' = ends \ {g} /\ Step(g, "mark")
    /\ UNCHANGED <<oload, host, pipe, copied, cwd, astray, files>>
exec_posix_spawn(g) ==
    /\ At(g, "mark")
    /\ guest' = [guest EXCEPT ![g].pc = "wait", ![g].native_pid = guest[g].child, ![g].proxy = TRUE]
    /\ UNCHANGED <<oload, host, ends, pipe, copied, cwd, astray, files>>
\* With this the pid is free for another process.
waitpid(g) ==
    LET p == guest[g].child IN
    /\ At(g, "wait") /\ ~host[p].run
    /\ guest' = [guest EXCEPT ![g].pc = "join", ![g].status = host[p].status]
    /\ host' = [host EXCEPT ![p] = NULL]
    /\ UNCHANGED <<oload, ends, pipe, copied, cwd, astray, files>>
pipe_forward_thread(g) ==
    /\ pipe[g] > 0 /\ (does(g) = "handler" => ~At(g, "chdir"))
    /\ guest[g].pc \notin {"spawn", "close"}
    /\ pipe' = [pipe EXCEPT ![g] = @ - 1] /\ copied' = [copied EXCEPT ![g] = @ + 1]
    /\ UNCHANGED <<oload, guest, host, ends, cwd, astray, files>>
\* Mutant: the reading thread is not waited for.
pthread_join_early(g) ==
    /\ At(g, "join") /\ Step(g, "register")
    /\ cwd' = IF does(g) = "handler" THEN guest[g].saved_cwd ELSE cwd
    /\ UNCHANGED <<oload, host, ends, pipe, copied, astray, files>>
\* Both kinds wait for the reading thread, which reads up to the end.
pthread_join(g) ==
    /\ At(g, "join") /\ Eof(g) /\ pipe[g] = 0
    /\ cwd' = IF does(g) = "handler" THEN guest[g].saved_cwd ELSE cwd
    /\ Step(g, "register")
    /\ UNCHANGED <<oload, host, ends, pipe, copied, astray, files>>
\* New files are entered into the data base: those in the task's directory, named
\* by a buffer that all tasks share, and those beside the arguments.
Args(g) == oload.args[g]
register_new_files(g) ==
    /\ At(g, "register") /\ Step(g, "scan") /\ guest_cwd' = oload.dir[g]
    /\ muddled' = muddled \cup {h \in Guests : guest[h].pc \in {"scan", "names", "args"}
                                              /\ guest_cwd # oload.dir[g]}
    /\ UNCHANGED <<oload, host, ends, pipe, copied, cwd, astray, entries, known>>
scan_dir_for_new_files(g) ==
    /\ At(g, "scan") /\ guest' = [guest EXCEPT ![g].pc = "names", ![g].host_dir = guest_cwd]
    /\ UNCHANGED <<oload, host, ends, pipe, copied, cwd, astray, files>>
register_file_if_new(g) ==
    /\ At(g, "names") /\ Step(g, "args")
    /\ known' = known \cup {<<guest_cwd, guest[g].host_dir>>}
    /\ UNCHANGED <<oload, host, ends, pipe, copied, cwd, astray, entries, guest_cwd, muddled>>
register_args(g) ==
    /\ At(g, "args") /\ Step(g, "exit")
    /\ known' = known \cup {<<d, d>> : d \in Args(g) \ {guest_cwd}}
    /\ UNCHANGED <<oload, host, ends, pipe, copied, cwd, astray, entries, guest_cwd, muddled>>
do_exit(g) ==
    /\ At(g, "exit")
    /\ guest' = [guest EXCEPT ![g].pc = "done", ![g].native_pid = NULL, ![g].proxy = FALSE]
    /\ UNCHANGED <<oload, host, ends, pipe, copied, cwd, astray, files>>

exec_handler(g) ==
    /\ At(g, "chdir")
    /\ guest' = [guest EXCEPT ![g].pc = "handler", ![g].saved_cwd = cwd]
    /\ cwd' = g
    /\ UNCHANGED <<oload, host, ends, pipe, copied, astray, files>>
handler(g) ==
    /\ At(g, "handler")
    /\ \/ /\ Wrote(g) < oload.out /\ pipe[g] < PipeSize
          /\ pipe' = [pipe EXCEPT ![g] = @ + 1]
          /\ guest' = [guest EXCEPT ![g].wrote = @ + 1, ![g].ran_in = @ \cup {cwd}]
          /\ UNCHANGED ends
       \/ /\ ends' = ends \ {g} /\ Step(g, "join") /\ UNCHANGED pipe
    /\ UNCHANGED <<oload, host, copied, cwd, astray, files>>

\* The host processes.
host_write(p) ==
    /\ host[p] # NULL /\ host[p].run
    /\ LET g == host[p].of IN
       /\ Wrote(g) < oload.out /\ pipe[g] < PipeSize
       /\ pipe' = [pipe EXCEPT ![g] = @ + 1]
       /\ guest' = [guest EXCEPT ![g].wrote = @ + 1]
    /\ UNCHANGED <<oload, host, ends, copied, cwd, astray, files>>
Dead(p, status) == host' = [host EXCEPT ![p] = [@ EXCEPT !.run = FALSE, !.ends = {}, !.status = status]]
host_exit(p) ==
    /\ host[p] # NULL /\ host[p].run /\ Dead(p, host[p].of)
    /\ UNCHANGED <<oload, guest, ends, pipe, copied, cwd, astray, files>>
\* A signal for the task is sent on to its process.
native_offload_forward_signal(g) ==
    LET p == guest[g].native_pid IN
    /\ oload.signals > guest[g].signals /\ ~At(g, "done") /\ ~At(g, "idle")
    /\ guest' = [guest EXCEPT ![g].signals = @ + 1, ![g].pending = @ \/ ~guest[g].proxy]
    /\ IF guest[g].proxy /\ host[p] # NULL /\ host[p].run
       THEN /\ Dead(p, "signal")
            /\ astray' = IF host[p].of = g THEN astray ELSE astray \cup {<<g, guest[g].pc>>}
       ELSE UNCHANGED <<host, astray>>
    /\ UNCHANGED <<oload, ends, pipe, copied, cwd, files>>

Guest(g) ==
    \/ native_offload_exec(g) \/ posix_spawn(g) \/ start_pipe_forward(g) \/ exec_posix_spawn(g)
    \/ waitpid(g) \/ pipe_forward_thread(g) \/ pthread_join(g) \/ do_exit(g)
    \/ exec_handler(g) \/ handler(g) \/ register_new_files(g) \/ scan_dir_for_new_files(g)
    \/ register_file_if_new(g) \/ register_args(g)
Next == \/ \E g \in Guests : Guest(g) \/ native_offload_forward_signal(g)
        \/ \E p \in HostPids : host_write(p) \/ host_exit(p)
Init ==
    /\ oload \in OffloadLoads
    /\ guest = [g \in Guests |-> [pc |-> "idle", child |-> NULL, native_pid |-> NULL,
                  proxy |-> FALSE, status |-> NULL, wrote |-> 0, saved_cwd |-> NULL,
                  ran_in |-> {}, host_dir |-> NULL, signals |-> 0, pending |-> FALSE]]
    /\ host = [p \in HostPids |-> NULL] /\ ends = {} /\ cwd = NULL /\ astray = {}
    /\ pipe = [g \in Guests |-> 0] /\ copied = [g \in Guests |-> 0]
    /\ entries = FoldLeft(native_offload_add, <<>>, oload.specs)
    /\ guest_cwd = NULL /\ known = {} /\ muddled = {}
Spec == Init /\ [][Next]_vars
\* The emulator's threads run; a host process ends in the end.
FairSpec == Spec /\ (\A g \in Guests : WF_vars(Guest(g))) /\ \A p \in HostPids : WF_vars(host_exit(p))
------------------------------------------------------------------------------
\* A task exits with the status of its own process, after all its output, and
\* when the files that were made are known to the guest, unless another task
\* changed the buffer that names its directory.
OutputThenExit ==
    \A g \in Guests : guest[g].pc \in {"exit", "done"} =>
        /\ copied[g] = Wrote(g)
        /\ g \notin muddled =>
             {<<d, d>> : d \in Args(g) \cup {oload.dir[g]}} \subseteq known
        /\ does(g) = "spawn" => guest[g].status \in {g, "signal"}
\* Signals of a task reach its own process, as long as that has not been waited for.
SignalsOwn == \A x \in astray : x[2] \in {"join", "register", "scan", "names", "args", "exit"}
\* A single handler runs in the directory of its task, and leaves it again.
HandlerCwd ==
    Cardinality({g \in DOMAIN oload.runs : does(g) = "handler"}) <= 1 =>
        \A g \in DOMAIN oload.runs : /\ guest[g].ran_in \subseteq {g}
                                      /\ At(g, "done") /\ does(g) = "handler" => cwd = NULL
\* The three together.
OffloadSound == OutputThenExit /\ SignalsOwn /\ HandlerCwd
\* Every task that has handed its program to the host exits or falls back.
OffloadEnds == \A g \in Guests : ~At(g, "idle") ~> guest[g].pc \in {"done", "fallback"}
==============================================================================
