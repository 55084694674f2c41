------------------------------- MODULE MCTasks -------------------------------
(***************************************************************************)
(* For TLC: the life of processes and threads, or the process groups and   *)
(* sessions they are in.                                                   *)
(***************************************************************************)
EXTENDS Process, Groups

CONSTANT Parts

\* Threads in two processes at once; every kind of child in a chain of two;
\* single-threaded jobs, two that are stopped and one that is killed as well; and
\* clones that fail.
Use(pids, codes, uses) == [pids |-> pids, codes |-> codes, uses |-> uses]
ThreadPrograms == {Use({"p2", "p3", "p4"}, {"c1"}, {"thread"})}
ChildPrograms == {Use({"p2", "p3"}, {"c1", "c2"}, {"fork", "thread", "vfork", "exec", "wait", "kill"})}
JobPrograms == {Use({"p2", "p3"}, {"c1"}, {"stop"}), Use({"p2"}, {"c1"}, {"stop", "kill"})}
FaultPrograms == {Use({"p2", "p3"}, {"c1"}, {"fork", "vfork", "exec", "wait", "fault"})}
PassingLoads == ThreadPrograms \cup ChildPrograms \cup JobPrograms \cup FaultPrograms
\* Threads whose group is stopped while they exit.
StopLoads == {Use({"p2", "p3"}, {"c1"}, {"thread", "wait", "stop"})}

\* Jobs led by their own process in several sessions, with a terminal whose jobs
\* outlive its session leader; and processes that join the group of another.
GroupPrograms == {[uses |-> {"jobs", "session", "terminal", "tty"}], [uses |-> {"jobs", "join"}],
                  [uses |-> {"jobs", "join", "session", "terminal", "tty"}]}
------------------------------------------------------------------------------
VARIABLE part   \* the component that runs; never changes

TasksInit ==
    /\ part \in Parts
    /\ Init /\ (part # "process" => load = CHOOSE l \in Loads : TRUE)
    /\ GroupInit /\ (part # "groups" => gload = CHOOSE l \in GroupLoads : TRUE)
TasksNext ==
    \/ part = "process" /\ Next /\ UNCHANGED <<part, group_vars>>
    \/ part = "groups" /\ GroupNext /\ UNCHANGED <<part, vars>>
TasksSpec == TasksInit /\ [][TasksNext]_<<part, vars, group_vars>>
\* The fairness of Process.
FairTasksSpec == TasksSpec /\ \A t \in Pid : WF_vars(part = "process" /\ Step(t))
==============================================================================
