------------------------------- MODULE Process -------------------------------
(***************************************************************************)
(* Processes and threads: clone (kernel/fork.c), the pid table             *)
(* (kernel/task.c), exit, exit_group and wait (kernel/exit.c).  A section  *)
(* under pids_lock is one step.  A thread group is named by the pid of its *)
(* leader.  do_wait polls once a second besides being notified, so a       *)
(* waiting task is simply one that looks again and again.  Init never      *)
(* exits; process groups, sessions, tracing and the seconds after which    *)
(* do_exit_group gives up waiting for a thread are left out.               *)
(***************************************************************************)
EXTENDS Naturals, Sequences, FiniteSets

CONSTANTS init,     \* pid 1
          Others,   \* the other pids
          NULL,
          Codes,    \* statuses passed to exit
          Loads     \* what may run on the system, see Load

\* The pids and exit statuses in use, and what programs but init do besides exiting.
Load == [pids : SUBSET Others, codes : SUBSET Codes,
         uses : SUBSET {"fork", "thread", "vfork", "exec", "wait", "stop", "kill",
                        "fault"}]

ASSUME ProcessConstants ==
    /\ init \notin Others /\ NULL \notin Others \cup {init}
    /\ Loads \subseteq Load

Pid == Others \cup {init}
Status == Codes \cup {"0", "SIGKILL", "SIGSTOP"}

VARIABLES load,                      \* never changes
          alloc,                     \* "free", "new" (in clone) or "task"
          leader, threads, parent,   \* task->group->leader, group->threads
          exiting, zombie, exit_code,
          doing_group_exit, group_exit_code, stopped,   \* of the group
          queue,                     \* SIGKILL and SIGSTOP on task->queue
          pc, arg,                   \* of the host thread
          vfork, done,               \* child's task->vfork; vfork_info.done
          want                       \* history: the status wait should return

tvars == <<load, alloc, leader, threads, parent, exiting, zombie, exit_code>>
gvars == <<doing_group_exit, group_exit_code, stopped>>
vars == <<tvars, gvars, queue, pc, arg, vfork, done, want>>

All(v) == [p \in Pid |-> v]
Init ==
    /\ load \in Loads
    /\ alloc = [p \in Pid |-> IF p = init THEN "task" ELSE "free"]
    /\ leader = [p \in Pid |-> IF p = init THEN init ELSE NULL]
    /\ threads = [p \in Pid |-> IF p = init THEN {init} ELSE {}]
    /\ parent = All(NULL) /\ exiting = All(FALSE) /\ zombie = All(FALSE)
    /\ exit_code = All("0")
    /\ doing_group_exit = All(FALSE) /\ group_exit_code = All("0") /\ stopped = All(FALSE)
    /\ queue = All(<<>>)
    /\ pc = [p \in Pid |-> IF p = init THEN "run" ELSE "none"]
    /\ arg = All(NULL) /\ vfork = All(NULL) /\ done = All(FALSE)
    /\ want = All("0")

group(t) == leader[t]
children(t) == {c \in Pid : alloc[c] # "free" /\ parent[c] = t}
Goto(t, l, a) == pc' = [pc EXCEPT ![t] = l] /\ arg' = [arg EXCEPT ![t] = a]
\* Between two turns of its loop a thread receives its signals, waits while its
\* group is stopped and leaves if its group exits; this is where it goes on.
Running(t) ==
    /\ pc[t] = "run" /\ queue[t] = <<>>
    /\ ~stopped[group(t)] /\ ~doing_group_exit[group(t)]
------------------------------------------------------------------------------
(* clone.                                                                  *)

\* task_create_: the child is in the pid table and among its parent's
\* children, with its parent's group but not on that group's list.
task_create_(t, p, kind) ==
    /\ Running(t) /\ p \in load.pids /\ alloc[p] = "free"
    /\ IF t = init THEN kind = "fork" ELSE kind \in load.uses
    /\ alloc' = [alloc EXCEPT ![p] = "new"]
    /\ parent' = [parent EXCEPT ![p] = t]
    /\ leader' = [leader EXCEPT ![p] = group(t)]
    /\ pc' = [pc EXCEPT ![t] = kind] /\ arg' = [arg EXCEPT ![t] = p]
    /\ UNCHANGED <<load, threads, exiting, zombie, exit_code, gvars, queue, vfork, done, want>>

\* The child joins its parent's group or starts a copy of it.
Join(t, p) ==
    IF pc[t] = "thread"
    THEN /\ threads' = [threads EXCEPT ![group(t)] = @ \cup {p}]
         /\ UNCHANGED <<leader, gvars, want>>
    ELSE /\ threads' = [threads EXCEPT ![p] = {p}]
         /\ leader' = [leader EXCEPT ![p] = p]
         /\ doing_group_exit' = [doing_group_exit EXCEPT ![p] = FALSE]
         /\ group_exit_code' = [group_exit_code EXCEPT ![p] = group_exit_code[group(t)]]
         /\ stopped' = [stopped EXCEPT ![p] = stopped[group(t)]]
         /\ want' = [want EXCEPT ![p] = "0"]

\* copy_task and the rest of sys_clone: the child starts, and a vfork waits.
copy_task(t) ==
    /\ pc[t] \in {"fork", "thread", "vfork"}
    /\ LET p == arg[t] IN
       /\ Join(t, p)
       /\ alloc' = [alloc EXCEPT ![p] = "task"]
       /\ IF pc[t] = "vfork"
          THEN /\ vfork' = [vfork EXCEPT ![p] = t] /\ done' = [done EXCEPT ![t] = FALSE]
               /\ pc' = [pc EXCEPT ![p] = "run", ![t] = "vfork_wait"] /\ UNCHANGED arg
          ELSE /\ pc' = [pc EXCEPT ![p] = "run", ![t] = "run"]
               /\ arg' = [arg EXCEPT ![t] = NULL] /\ UNCHANGED <<vfork, done>>
    /\ UNCHANGED <<load, parent, exiting, zombie, exit_code, queue>>

\* task_destroy of p by t, which goes on at l: the pid is free again.  Whoever
\* still points at p in a vfork now points at freed memory.
task_destroy(p, t, l) ==
    /\ alloc' = [alloc EXCEPT ![p] = "free"]
    /\ leader' = [leader EXCEPT ![p] = NULL]
    /\ exiting' = [exiting EXCEPT ![p] = FALSE] /\ zombie' = [zombie EXCEPT ![p] = FALSE]
    /\ exit_code' = [exit_code EXCEPT ![p] = "0"]
    /\ queue' = [queue EXCEPT ![p] = <<>>]
    /\ pc' = [pc EXCEPT ![p] = "none", ![t] = l]
    /\ arg' = [u \in Pid |-> IF u \in {t, p} \/ (pc[u] \in {"vfork_wait", "vfork_clear"} /\ arg[u] = p)
                             THEN NULL ELSE arg[u]]
    /\ vfork' = [vfork EXCEPT ![p] = NULL]

\* The tid cannot be written: copy_task fails after the child has joined, and
\* sys_clone destroys it.
clone_fails(t) ==
    /\ "fault" \in load.uses /\ pc[t] \in {"fork", "thread", "vfork"}
    /\ LET p == arg[t] IN
       /\ threads' = IF pc[t] = "thread" THEN [threads EXCEPT ![group(t)] = @ \cup {p}] ELSE threads
       /\ task_destroy(p, t, "run")
       /\ parent' = [parent EXCEPT ![p] = NULL]
    /\ UNCHANGED <<load, gvars, done, want>>

vfork_wakes(t) ==
    /\ pc[t] = "vfork_wait" /\ done[t]
    /\ pc' = [pc EXCEPT ![t] = "vfork_clear"]
    /\ UNCHANGED <<tvars, gvars, queue, arg, vfork, done, want>>
\* task->vfork = NULL under task->general_lock.
vfork_clear(t) ==
    /\ pc[t] = "vfork_clear" /\ Goto(t, "run", NULL)
    /\ vfork' = [p \in Pid |-> IF p = arg[t] THEN NULL ELSE vfork[p]]
    /\ done' = [done EXCEPT ![t] = FALSE]
    /\ UNCHANGED <<tvars, gvars, queue, want>>

vfork_notify(t) ==
    done' = [u \in Pid |-> IF u = vfork[t] THEN TRUE ELSE done[u]]
do_execve(t) ==
    /\ "exec" \in load.uses /\ Running(t) /\ vfork[t] # NULL /\ ~done[vfork[t]]
    /\ vfork_notify(t)
    /\ UNCHANGED <<tvars, gvars, queue, pc, arg, vfork, want>>
------------------------------------------------------------------------------
(* Signals, as far as they matter here.                                    *)

Queued(t, s) == \E i \in 1 .. Len(queue[t]) : queue[t][i] = s
Put(q, s) == IF \E i \in 1 .. Len(q) : q[i] = s THEN q ELSE Append(q, s)

\* SIGKILL or SIGSTOP from another process; SIGKILL and SIGCONT also continue.
send_signal(t, s) ==
    /\ alloc[t] = "task" /\ t # init /\ leader[t] = t /\ ~zombie[t] /\ ~exiting[t]
    /\ s = "SIGKILL" => "kill" \in load.uses
    /\ s \in {"SIGSTOP", "SIGCONT"} => "stop" \in load.uses
    /\ queue' = IF s = "SIGCONT" THEN queue ELSE [queue EXCEPT ![t] = Put(@, s)]
    /\ stopped' = IF s = "SIGSTOP" THEN stopped ELSE [stopped EXCEPT ![t] = FALSE]
    /\ UNCHANGED <<tvars, doing_group_exit, group_exit_code, pc, arg, vfork, done, want>>

receive_signals(t) ==
    /\ pc[t] = "run" /\ queue[t] # <<>>
    /\ queue' = [queue EXCEPT ![t] = Tail(@)]
    /\ IF Head(queue[t]) = "SIGSTOP"
       THEN /\ stopped' = [stopped EXCEPT ![group(t)] = TRUE]
            /\ group_exit_code' = [group_exit_code EXCEPT ![group(t)] = "SIGSTOP"]
            /\ UNCHANGED <<pc, arg>>
       ELSE /\ Goto(t, "exit_group", "SIGKILL")
            /\ UNCHANGED <<stopped, group_exit_code>>
    /\ UNCHANGED <<tvars, doing_group_exit, vfork, done, want>>
------------------------------------------------------------------------------
(* exit_group.                                                             *)

sys_exit_group(t, c) ==
    /\ Running(t) /\ t # init /\ Goto(t, "exit_group", c)
    /\ UNCHANGED <<tvars, gvars, queue, vfork, done, want>>

\* Mutant: everyone who calls exit_group waits for the others.
waits_for_others_all(t, first) == threads[group(t)] # {t}
\* Only the first caller waits.
waits_for_others(t, first) == first /\ threads[group(t)] # {t}

\* The first caller decides the status, kills the others and waits for them.
do_exit_group(t) ==
    /\ pc[t] = "exit_group"
    /\ LET g == group(t)
           first == ~doing_group_exit[g]
       IN  /\ doing_group_exit' = [doing_group_exit EXCEPT ![g] = TRUE]
           /\ group_exit_code' = IF first THEN [group_exit_code EXCEPT ![g] = arg[t]]
                                          ELSE group_exit_code
           /\ want' = IF first THEN [want EXCEPT ![g] = arg[t]] ELSE want
           /\ stopped' = [stopped EXCEPT ![g] = FALSE]
           /\ queue' = [u \in Pid |-> IF u \in threads[g] THEN Put(queue[u], "SIGKILL")
                                                          ELSE queue[u]]
           /\ Goto(t, IF waits_for_others(t, first) THEN "exit_wait" ELSE "exit",
                   IF first THEN arg[t] ELSE group_exit_code[g])
    /\ UNCHANGED <<tvars, vfork, done>>
exit_group_waited(t) ==
    /\ pc[t] = "exit_wait" /\ threads[group(t)] = {t}
    /\ pc' = [pc EXCEPT ![t] = "exit"]
    /\ UNCHANGED <<tvars, gvars, queue, arg, vfork, done, want>>
\* After a system call and before user code runs.
check_group_exit(t) ==
    /\ pc[t] = "run" /\ doing_group_exit[group(t)]
    /\ Goto(t, "exit", group_exit_code[group(t)])
    /\ UNCHANGED <<tvars, gvars, queue, vfork, done, want>>
------------------------------------------------------------------------------
(* exit.                                                                   *)

sys_exit(t, c) ==
    /\ Running(t) /\ t # init /\ Goto(t, "exit", c)
    /\ want' = IF leader[t] = t /\ ~doing_group_exit[t] THEN [want EXCEPT ![t] = c] ELSE want
    /\ UNCHANGED <<tvars, gvars, queue, vfork, done>>

\* Up to lock(&pids_lock).
do_exit(t) ==
    /\ pc[t] = "exit" /\ Goto(t, "exit_locked", NULL)
    /\ exit_code' = [exit_code EXCEPT ![t] = arg[t]]
    /\ UNCHANGED <<load, alloc, leader, threads, parent, exiting, zombie, gvars, queue,
                   vfork, done, want>>

\* Some thread of the group that is not exiting, or init.
find_new_parent(t) ==
    LET others == {u \in threads[group(t)] \ {t} : ~exiting[u]}
    IN  IF others # {} THEN others ELSE {init}

\* exit_tgroup: t was the last thread.
group_dead(t) == threads[group(t)] \ {t} = {}

\* The section under pids_lock: orphans, the list of threads, the zombie, the
\* vfork parent and, for a thread that is not the leader, its own task.
do_exit_locked(t) ==
    /\ pc[t] = "exit_locked"
    /\ \E np \in find_new_parent(t) :
         parent' = [c \in Pid |-> IF alloc[c] # "free" /\ parent[c] = t THEN np
                                  ELSE IF c = t /\ t # group(t) THEN NULL ELSE parent[c]]
    /\ threads' = [threads EXCEPT ![group(t)] = @ \ {t}]
    /\ vfork_notify(t)
    /\ IF t = group(t)
       THEN /\ exiting' = [exiting EXCEPT ![t] = TRUE]
            /\ zombie' = [zombie EXCEPT ![t] = group_dead(t)]
            /\ queue' = [queue EXCEPT ![t] = <<>>]
            /\ pc' = [pc EXCEPT ![t] = "none"]
            /\ UNCHANGED <<alloc, leader, exit_code, arg, vfork>>
       ELSE /\ alloc' = [alloc EXCEPT ![t] = "free"]
            /\ leader' = [leader EXCEPT ![t] = NULL]
            /\ exit_code' = [exit_code EXCEPT ![t] = "0"]
            /\ queue' = [queue EXCEPT ![t] = <<>>]
            /\ pc' = [pc EXCEPT ![t] = "none"]
            /\ arg' = [u \in Pid |-> IF pc[u] \in {"vfork_wait", "vfork_clear"} /\ arg[u] = t
                                     THEN NULL ELSE arg[u]]
            /\ vfork' = [vfork EXCEPT ![t] = NULL]
            /\ exiting' = [exiting EXCEPT ![t] = FALSE]
            /\ zombie' = [zombie EXCEPT ![group(t)] = @ \/ group_dead(t)]
    /\ UNCHANGED <<load, gvars, want>>
------------------------------------------------------------------------------
(* wait.                                                                   *)

\* id = NULL: any child.  The pid of anything but a child of the group is
\* _ECHILD at once, and changes nothing.
sys_wait4(t, id) ==
    /\ Running(t) /\ (t # init => "wait" \in load.uses)
    /\ id # NULL => alloc[id] # "free" /\ id # init /\ group(parent[id]) = group(t)
    /\ Goto(t, "wait", id)
    /\ UNCHANGED <<tvars, gvars, queue, vfork, done, want>>

\* What do_wait considers: the children of this very task or, for a pid, the
\* group of that task if its parent is in the caller's group.
candidates(t) ==
    IF arg[t] = NULL
    THEN {c \in children(t) : leader[c] = c}
    ELSE {leader[c] : c \in {d \in {arg[t]} :
              alloc[d] # "free" /\ parent[d] # NULL /\ group(parent[d]) = group(t)}}

\* Mutant: a leader that has exited is reaped while its threads run.
reapable_exiting(c) == exiting[c]
\* reap_if_zombie's test.
reapable(c) == zombie[c]
\* Mutant: the leader's own status, whatever exit_group said.
wait_status_leader(c) == exit_code[c]
\* The status it reports.
wait_status(c) == IF doing_group_exit[c] THEN group_exit_code[c] ELSE exit_code[c]

\* reap_if_zombie: the group and its leader are freed.
reap(t) ==
    /\ pc[t] = "wait"
    /\ \E c \in candidates(t) :
         /\ reapable(c) /\ task_destroy(c, t, "run")
         /\ parent' = [parent EXCEPT ![c] = NULL]
         /\ threads' = [threads EXCEPT ![c] = {}]
         /\ doing_group_exit' = [doing_group_exit EXCEPT ![c] = FALSE]
         /\ group_exit_code' = [group_exit_code EXCEPT ![c] = "0"]
         /\ stopped' = [stopped EXCEPT ![c] = FALSE]
         /\ want' = [want EXCEPT ![c] = "0"]
    /\ UNCHANGED <<load, done>>
\* notify_if_stopped, for WUNTRACED.
notify_if_stopped(t) ==
    /\ pc[t] = "wait"
    /\ \E c \in candidates(t) :
         /\ stopped[c] /\ group_exit_code[c] # "0"
         /\ group_exit_code' = [group_exit_code EXCEPT ![c] = "0"]
    /\ Goto(t, "run", NULL)
    /\ UNCHANGED <<tvars, doing_group_exit, stopped, queue, vfork, done, want>>
\* Mutant: WNOHANG is tested before the children are.
wait_returns_early(t, nohang) ==
    /\ pc[t] = "wait"
    /\ candidates(t) = {} \/ nohang \/ queue[t] # <<>>
    /\ Goto(t, "run", NULL)
    /\ UNCHANGED <<tvars, gvars, queue, vfork, done, want>>
\* _ECHILD, WNOHANG (nohang) or _EINTR.
wait_returns(t, nohang) ==
    /\ pc[t] = "wait" /\ ~\E c \in candidates(t) : reapable(c)
    /\ candidates(t) = {} \/ nohang \/ queue[t] # <<>>
    /\ Goto(t, "run", NULL)
    /\ UNCHANGED <<tvars, gvars, queue, vfork, done, want>>

Die(t) ==
    \/ receive_signals(t) \/ do_exit_group(t) \/ exit_group_waited(t)
    \/ check_group_exit(t) \/ do_exit(t) \/ do_exit_locked(t)
Step(t) ==
    \/ copy_task(t) \/ vfork_wakes(t) \/ vfork_clear(t)
    \/ reap(t) \/ wait_returns(t, FALSE) \/ Die(t)
Next ==
    \E t \in Pid :
      \/ Step(t) \/ do_execve(t) \/ clone_fails(t) \/ wait_returns(t, TRUE)
      \/ notify_if_stopped(t)
      \/ \E p \in Pid, kind \in {"fork", "thread", "vfork"} : task_create_(t, p, kind)
      \/ \E s \in {"SIGKILL", "SIGSTOP", "SIGCONT"} : send_signal(t, s)
      \/ \E c \in load.codes : sys_exit(t, c) \/ sys_exit_group(t, c)
      \/ \E id \in Pid \cup {NULL} : sys_wait4(t, id)
Spec == Init /\ [][Next]_vars

\* Host threads run on.
FairSpec == Spec /\ \A t \in Pid : WF_vars(Step(t))
------------------------------------------------------------------------------
\* Every variable keeps its type; statuses that reach a parent are always set.
TypeOK ==
    /\ load \in Loads
    /\ alloc \in [Pid -> {"free", "new", "task"}]
    /\ leader \in [Pid -> Pid \cup {NULL}] /\ parent \in [Pid -> Pid \cup {NULL}]
    /\ threads \in [Pid -> SUBSET Pid]
    /\ exiting \in [Pid -> BOOLEAN] /\ zombie \in [Pid -> BOOLEAN]
    /\ exit_code \in [Pid -> Status] /\ group_exit_code \in [Pid -> Status]
    /\ doing_group_exit \in [Pid -> BOOLEAN] /\ stopped \in [Pid -> BOOLEAN]
    /\ pc \in [Pid -> {"none", "run", "fork", "thread", "vfork", "vfork_wait",
                       "vfork_clear", "exit_group", "exit_wait", "exit",
                       "exit_locked", "wait"}]
    /\ vfork \in [Pid -> Pid \cup {NULL}] /\ done \in [Pid -> BOOLEAN]
    /\ want \in [Pid -> Status]

Tasks == {t \in Pid : alloc[t] # "free"}

\* Whoever exits or is destroyed, in any order: a task's parent is a live task
\* that is not exiting, so its exit is always reported to someone who can wait.
ParentAlive ==
    \A t \in Tasks \ {init} :
        parent[t] \in Tasks /\ ~exiting[parent[t]]

\* A group lives as long as any task points at it: reaping the leader leaves
\* no thread behind.
GroupAlive == \A t \in Tasks : leader[t] \in Tasks /\ leader[leader[t]] = leader[t]

\* The list of threads: what is on it is a task of the group that has not
\* exited; a group whose list is empty is a zombie and the other way round.
ThreadList ==
    \A g \in Pid :
        /\ \A t \in threads[g] : alloc[t] = "task" /\ leader[t] = g /\ ~exiting[t]
        /\ alloc[g] = "task" /\ leader[g] = g => (zombie[g] <=> threads[g] = {})

\* What wait returns (kernel/task.h): the status passed to exit_group if any
\* thread called it, the leader's exit status otherwise.
ExitStatus == \A g \in Pid : zombie[g] => wait_status(g) = want[g]

\* The vfork_info a child points to is on the stack of a parent that is still
\* inside clone.
VforkInfoAlive ==
    \A t \in Tasks : vfork[t] # NULL => pc[vfork[t]] \in {"vfork_wait", "vfork_clear"}

\* The tree of tasks, the lists of threads and the records on the stacks of vfork
\* parents: the four together, with the types.
TreeSound == TypeOK /\ ParentAlive /\ GroupAlive /\ ThreadList /\ VforkInfoAlive

\* A group exit completes: every thread leaves, also one that joins late, and
\* the group is reaped or becomes a zombie, unless a thread waits for a vfork
\* child, which SIGKILL does not interrupt.
GroupExitCompletes ==
    \A g \in Others : doing_group_exit[g] ~>
        zombie[g] \/ alloc[g] = "free" \/ \E t \in threads[g] : pc[t] = "vfork_wait"

\* Init reaps the zombies that are its children, also those it inherited
\* without being notified: as long as there is one and init waits for any child
\* again and again, it reaps again and again, or is told of stopped children.
InitReaps ==
    /\ <>[](\E g \in Others : zombie[g] /\ parent[g] = init)
    /\ []<>(pc[init] = "wait" /\ arg[init] = NULL)
    => []<><<reap(init) \/ notify_if_stopped(init)>>_vars
------------------------------------------------------------------------------
(* The inductive invariants behind TreeSound and ExitStatus.               *)

\* A clone that fails after the child has joined its group frees the child and
\* leaves it on the list of threads: programs that can meet this are excepted.
ThreadsNotFreed == ~({"thread", "fault"} \subseteq load.uses)

Cloning == {"fork", "thread", "vfork"}
VforkParent == {"vfork_wait", "vfork_clear"}
DataTypes ==
    /\ TypeOK /\ queue \in [Pid -> Seq({"SIGKILL", "SIGSTOP"})]
    /\ arg \in [Pid -> Pid \cup Status \cup {NULL}]
\* What a task does with its argument: a status to exit with, or a child that is
\* about to be started or destroyed and belongs to nobody else.
ArgsSound ==
    \A t \in Pid :
        /\ pc[t] \in {"exit_group", "exit_wait", "exit"} => arg[t] \in Status
        /\ pc[t] \in Cloning =>
             /\ arg[t] \in Pid /\ alloc[arg[t]] = "new"
             /\ parent[arg[t]] = t /\ leader[arg[t]] = leader[t]
        /\ pc[t] = "thread" => "thread" \in load.uses
        /\ pc[t] = "wait" => arg[t] \in Pid \cup {NULL}
\* A child that is not started yet has a parent inside clone.
NewSound ==
    \A p \in Pid : alloc[p] = "new" =>
        /\ parent[p] \in Pid /\ pc[parent[p]] \in Cloning /\ arg[parent[p]] = p
        /\ ~exiting[p] /\ ~zombie[p]
\* A pid that is not in use has nothing left of its last task.
FreeSound ==
    \A p \in Pid : alloc[p] = "free" => ~exiting[p] /\ ~zombie[p] /\ vfork[p] = NULL
\* Who runs is on the list of its group; who does not has left it, and only
\* a leader stays behind.
Listed ==
    \A t \in Pid :
        /\ pc[t] # "none" <=> alloc[t] = "task" /\ ~exiting[t]
        /\ alloc[t] = "task" => t \in threads[leader[t]] \/ (leader[t] = t /\ exiting[t])
        /\ zombie[t] => alloc[t] = "task" /\ exiting[t]
\* Leaders are tasks that were started.
LeaderSound ==
    \A t \in Tasks :
        leader[t] \in Pid /\ alloc[leader[t]] = "task" /\ leader[leader[t]] = leader[t]
\* A parent runs, and is not itself about to be started.
ParentRuns == \A t \in Tasks \ {init} : parent[t] \in Pid /\ pc[parent[t]] # "none"
\* A vfork child and its parent know each other.
VforkSound ==
    \A p \in Tasks : vfork[p] # NULL =>
        vfork[p] \in Pid /\ pc[vfork[p]] \in VforkParent /\ arg[vfork[p]] = p
\* Init is alone in its group, and nothing kills it.
InitSound ==
    /\ alloc[init] = "task" /\ leader[init] = init /\ threads[init] = {init}
    /\ pc[init] \in {"run", "fork", "wait"} /\ queue[init] = <<>> /\ ~doing_group_exit[init]
TreeInv ==
    /\ DataTypes /\ ArgsSound /\ NewSound /\ FreeSound /\ Listed /\ LeaderSound
    /\ ParentRuns /\ ThreadList /\ VforkSound /\ InitSound

\* A stop that a thread receives while its group exits replaces the status:
\* programs that can meet this are excepted.
StatusNotReplaced == ~({"thread", "stop"} \subseteq load.uses)
Leads(g) == alloc[g] = "task" /\ leader[g] = g
\* From the first exit_group on the group's status is the one to report, and
\* nothing stops the group.
GroupStatus ==
    \A g \in Pid : Leads(g) /\ doing_group_exit[g] =>
        group_exit_code[g] = want[g] /\ ~stopped[g]
\* Until then it is the leader's own.
LeaderStatus ==
    \A g \in Pid : Leads(g) /\ ~doing_group_exit[g] =>
        /\ pc[g] = "exit" => arg[g] = want[g]
        /\ pc[g] \in {"exit_locked", "none"} => exit_code[g] = want[g]
\* Who waits for the others of its group has begun a group exit.
WaitsInExit == \A t \in Pid : pc[t] = "exit_wait" => doing_group_exit[leader[t]]
\* Without threads, who begins a group exit runs no user code and receives no
\* signal any more.
Alone ==
    "thread" \notin load.uses =>
        \A t \in Pid : alloc[t] = "task" =>
            /\ leader[t] = t
            /\ doing_group_exit[t] => pc[t] \in {"exit_wait", "exit", "exit_locked", "none"}
\* Without SIGSTOP nothing is ever stopped.
NoStops ==
    "stop" \notin load.uses =>
        \A t \in Pid : ~stopped[t] /\ queue[t] \in Seq({"SIGKILL"})
StatusInv == GroupStatus /\ LeaderStatus /\ WaitsInExit /\ Alone /\ NoStops
=============================================================================
