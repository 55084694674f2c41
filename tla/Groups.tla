-------------------------------- MODULE Groups --------------------------------
(***************************************************************************)
(* Process groups and sessions (kernel/group.c, with the pid table of      *)
(* kernel/task.c, tgroup_copy of kernel/fork.c, reaping and the group form *)
(* of kill).  Every step runs under pids_lock.  A pid is a slot of the     *)
(* table; besides its task it heads the lists of the thread groups in its  *)
(* process group and session, and is free when all three are empty.        *)
(***************************************************************************)
EXTENDS Naturals, FiniteSets

CONSTANTS MAX_PID,    \* pids are 1 .. MAX_PID, 1 is init
          GroupLoads  \* what programs do, see GroupLoad

GroupLoad == [uses : SUBSET {"jobs", "join", "session", "terminal", "tty"}]

ASSUME GroupConstants == MAX_PID \in Nat \ {0} /\ GroupLoads \subseteq GroupLoad

Pids == 1 .. MAX_PID
None == [st |-> "free", parent |-> 0, pgid |-> 0, sid |-> 0, tty |-> FALSE]
\* A process that leads its group and session.
construct_task(p, parent) == [st |-> "task", parent |-> parent, pgid |-> p, sid |-> p, tty |-> FALSE]

VARIABLES gload,          \* never changes
          proc,           \* by pid: the task that leads a thread group
          pgroup, session,   \* by pid: the lists
          cur_pid,
          tty_session,    \* tty->session
          gholes          \* history: what went wrong

group_vars == <<gload, proc, pgroup, session, cur_pid, tty_session, gholes>>

GroupInit ==
    /\ gload \in GroupLoads
    /\ proc = [p \in Pids |-> IF p = 1 THEN construct_task(1, 0) ELSE None]
    /\ pgroup = [p \in Pids |-> IF p = 1 THEN {1} ELSE {}]
    /\ session = [p \in Pids |-> IF p = 1 THEN {1} ELSE {}]
    /\ cur_pid = 1 /\ tty_session = 0 /\ gholes = {}

Alive == {p \in Pids : proc[p].st # "free"}
TaskPids == {p \in Pids : proc[p].st = "task"}
Without(list, p) == [g \in Pids |-> list[g] \ {p}]
pid_empty(p) == proc[p].st = "free" /\ session[p] = {} /\ pgroup[p] = {}
\* The next pid that is not in use, around the table.
Spare == {p \in Pids : pid_empty(p)}
NextPid(p) ==
    LET above == {q \in Spare : q > cur_pid}
        S == IF above # {} THEN above ELSE Spare
    IN  p \in S /\ \A q \in S : p <= q
\* The pid names the group or session of a process that still lives.
InUse(p) == \E q \in Alive : proc[q].pgid = p \/ proc[q].sid = p
Taken(p) == /\ cur_pid' = p
            /\ gholes' = IF InUse(p) THEN gholes \cup {"reused"} ELSE gholes
------------------------------------------------------------------------------
Beside(list, q, p) == [g \in Pids |-> IF q \in list[g] THEN list[g] \cup {p} ELSE list[g]]
\* task_create_ and tgroup_copy: the child is put behind its parent on the
\* lists the parent is on.
fork(q) ==
    /\ q \in TaskPids
    /\ \E p \in Spare :
         /\ NextPid(p) /\ Taken(p)
         /\ proc' = [proc EXCEPT ![p] = [proc[q] EXCEPT !.parent = q]]
         /\ pgroup' = Beside(pgroup, q, p) /\ session' = Beside(session, q, p)
    /\ UNCHANGED <<gload, tty_session>>
\* A child of init with a session of its own, for a new terminal.
become_new_init_child ==
    /\ "terminal" \in gload.uses
    /\ \E p \in Spare :
         /\ NextPid(p) /\ Taken(p)
         /\ proc' = [proc EXCEPT ![p] = construct_task(p, 1)]
         /\ pgroup' = [pgroup EXCEPT ![p] = {p}] /\ session' = [session EXCEPT ![p] = {p}]
    /\ UNCHANGED <<gload, tty_session>>

\* The checks of setpgid(id, pgid) by q.  The session compared is that of the
\* first process on the list of pgid, which may be any of them.
Permitted(q, id, pgid) ==
    /\ id # pgid => \E g \in pgroup[pgid] : proc[g].sid = proc[id].sid
    /\ id = q \/ proc[id].parent = q
    /\ proc[id].sid # id
\* Mutant: the process stays on the list of its old group.
Moved_both(id, pgid) == [pgroup EXCEPT ![id] = @ \cup {id}]
\* The list the process is moved to is that of its own pid, also when it joins
\* a group that another process leads.
Moved(id, pgid) == [Without(pgroup, id) EXCEPT ![id] = @ \cup {id}]
sys_setpgid(q, id, pgid) ==
    /\ q \in TaskPids /\ id \in Alive /\ id # 1
    /\ (id # pgid => "join" \in gload.uses) /\ "jobs" \in gload.uses
    /\ Permitted(q, id, pgid) /\ proc[id].pgid # pgid
    /\ proc' = [proc EXCEPT ![id].pgid = pgid]
    /\ pgroup' = Moved(id, pgid)
    /\ gholes' = IF id # pgid THEN gholes \cup {"misfiled"} ELSE gholes
    /\ UNCHANGED <<gload, session, cur_pid, tty_session>>

\* task_leave_session: the last member takes the session off the terminal, if
\* it has inherited the terminal.  The pid of the session may be free by then,
\* and pid_get returns NULL.
task_leave_session(p) ==
    LET s == proc[p].sid
        last == session[s] = {p}
    IN  /\ tty_session' = IF proc[p].tty /\ last THEN 0 ELSE tty_session
        /\ gholes' = gholes \cup
             (IF proc[p].tty /\ last /\ proc[s].st = "free" /\ pgroup[s] = {} THEN {"no_pid"} ELSE {}) \cup
             (IF ~proc[p].tty /\ last /\ tty_session = s THEN {"tty_kept"} ELSE {})
task_setsid(p) ==
    /\ "session" \in gload.uses /\ p \in TaskPids /\ proc[p].pgid # p /\ proc[p].sid # p
    /\ task_leave_session(p)
    /\ session' = [Without(session, p) EXCEPT ![p] = @ \cup {p}]
    /\ pgroup' = [Without(pgroup, p) EXCEPT ![p] = @ \cup {p}]
    /\ proc' = [proc EXCEPT ![p].sid = p, ![p].pgid = p, ![p].tty = FALSE]
    /\ UNCHANGED <<gload, cur_pid>>
\* A session leader opens the terminal (tty_open), which has no session.
tty_set_controlling(p) ==
    /\ "tty" \in gload.uses /\ p \in TaskPids /\ p # 1 /\ proc[p].sid = p /\ tty_session = 0
    /\ ~proc[p].tty
    /\ proc' = [proc EXCEPT ![p].tty = TRUE] /\ tty_session' = p
    /\ UNCHANGED <<gload, pgroup, session, cur_pid, gholes>>
------------------------------------------------------------------------------
do_exit_leader(p) ==
    /\ p \in TaskPids \ {1}
    /\ proc' = [q \in Pids |-> IF q = p THEN [proc[q] EXCEPT !.st = "zombie"]
                               ELSE IF proc[q].parent = p THEN [proc[q] EXCEPT !.parent = 1]
                               ELSE proc[q]]
    /\ UNCHANGED <<gload, pgroup, session, cur_pid, tty_session, gholes>>
\* reap_if_zombie tears the group down; only then does it leave its lists.
reap_if_zombie(q, p) ==
    /\ q \in TaskPids /\ proc[p].st = "zombie" /\ proc[p].parent = q
    /\ task_leave_session(p)
    /\ session' = Without(session, p) /\ pgroup' = Without(pgroup, p)
    /\ proc' = [proc EXCEPT ![p] = None]
    /\ UNCHANGED <<gload, cur_pid>>

GroupNext ==
    \/ become_new_init_child
    \/ \E p \in Pids :
         \/ fork(p) \/ task_setsid(p) \/ tty_set_controlling(p) \/ do_exit_leader(p)
         \/ \E q \in Pids : reap_if_zombie(q, p) \/ \E g \in Pids : sys_setpgid(q, p, g)
GroupSpec == GroupInit /\ [][GroupNext]_group_vars
------------------------------------------------------------------------------
\* send_group_signal and kill of a negative pid: the processes that a signal
\* for process group g is sent to.
send_group_signal(g) == pgroup[g]
\* A signal for a process group (embed/protocol/src/lib.rs:71 "Send any signal
\* to the session's process group.") is sent to every process whose pgid it is.
SignalReachesGroup == \A p \in Alive : p \in send_group_signal(proc[p].pgid)

\* Forks, moves, new sessions, exits and reaping in any order: every process is
\* on one list of groups and one of sessions, and unless one has joined a group
\* that another process leads, those are the lists of its group and session.
ListsExact ==
    /\ \A p \in Alive :
         /\ Cardinality({g \in Pids : p \in pgroup[g]}) = 1
         /\ {s \in Pids : p \in session[s]} = {proc[p].sid}
    /\ "misfiled" \notin gholes => SignalReachesGroup
    /\ \A g \in Pids : pgroup[g] \cup session[g] \subseteq Alive

\* What programs can bring about: a process on the wrong list, after which pids may
\* be used too early, by joining another group; the end of a session whose pid is
\* free, and a last member that was forked before its session had the terminal.
KnownHoles ==
    (IF "join" \in gload.uses THEN {"misfiled", "reused"} ELSE {}) \cup
    (IF "tty" \in gload.uses THEN {"no_pid", "tty_kept"} ELSE {})

\* The terminal's session has members, a pid is not given out again while it names
\* a group or session unless a process is on the wrong list, and nothing else goes
\* wrong.
IdsKept ==
    /\ tty_session # 0 /\ "tty_kept" \notin gholes => session[tty_session] # {}
    /\ "reused" \in gholes => "misfiled" \in gholes
    /\ gholes \subseteq KnownHoles

\* Process groups and sessions (kernel/group.c): forks, moves, new sessions, exits
\* and reaping in any order leave every process on the lists of its group and
\* session, and no pid that names one is given out again, but for the known holes.
GroupsSound == ListsExact /\ IdsKept
------------------------------------------------------------------------------
(* The inductive invariant behind GroupsSound.                             *)

ProcType == [st : {"free", "task", "zombie"}, parent : 0 .. MAX_PID, pgid : 0 .. MAX_PID,
             sid : 0 .. MAX_PID, tty : BOOLEAN]
GroupTypes ==
    /\ gload \in GroupLoads
    /\ proc \in [Pids -> ProcType]
    /\ pgroup \in [Pids -> SUBSET Pids] /\ session \in [Pids -> SUBSET Pids]
    /\ tty_session \in 0 .. MAX_PID
\* Who lives is on one list of each kind, and nobody else is on any.
OnLists ==
    /\ \A p \in Alive :
         /\ proc[p].sid \in Pids /\ proc[p].pgid \in Pids
         /\ \A s \in Pids : p \in session[s] <=> s = proc[p].sid
         /\ \E g \in Pids : \A h \in Pids : p \in pgroup[h] <=> h = g
    /\ \A g \in Pids : pgroup[g] \cup session[g] \subseteq Alive
\* Who has the terminal, or had it, is a program that opens terminals.
TtyUsed == (tty_session # 0 \/ \E p \in Alive : proc[p].tty) => "tty" \in gload.uses
GroupInv ==
    /\ GroupTypes /\ OnLists /\ TtyUsed /\ IdsKept
    /\ "misfiled" \notin gholes => SignalReachesGroup
=============================================================================
