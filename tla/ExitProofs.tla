----------------------------- MODULE ExitProofs -----------------------------
(***************************************************************************)
(* For any number of tasks, exit and wait keep the tree of tasks sound,    *)
(* and wait reports the status it should.                                  *)
(***************************************************************************)
EXTENDS ProcessProofs

------------------------------------------------------------------------------
(* exit.                                                                   *)

\* Who inherits the children of a task that exits runs.
LEMMA HeirRuns ==
  ASSUME TreeInv, NEW t \in Pid, pc[t] = "exit_locked", NEW np \in find_new_parent(t)
  PROVE  np \in Pid /\ np # t /\ pc[np] # "none"
<1>1. leader[t] \in Pid /\ t # init
  BY RunsListed, TreeParts, Zenon DEF InitSound
<1>2. CASE np = init
  BY <1>2, TreeParts, Zenon DEF InitSound, Pid
<1>3. CASE np # init
  <2>1. np \in threads[leader[t]] /\ np # t
    BY <1>3, Zenon DEF find_new_parent, group
  <2>2. np \in Pid /\ alloc[np] = "task" /\ ~exiting[np]
    BY <1>1, <2>1, TreeParts DEF DataTypes, TypeOK, ThreadList
  <2>3. QED
    BY <2>1, <2>2, TreeParts DEF Listed
<1>4. QED
  BY <1>2, <1>3

LEMMA TreeExitLocked ==
  ASSUME TreeInv, NEW t \in Pid, do_exit_locked(t)
  PROVE  TreeInv'
<1> DEFINE g == leader[t]
<1>0. pc[t] = "exit_locked" /\ t # init
  BY TreeParts, Zenon DEF do_exit_locked, InitSound
<1>1. /\ alloc[t] = "task" /\ ~exiting[t] /\ ~zombie[t] /\ g \in Pid /\ alloc[g] = "task"
      /\ leader[g] = g /\ ~zombie[g] /\ t \in threads[g] /\ g # init
  BY <1>0, RunsListed, Zenon
<1>2. PICK np \in find_new_parent(t) :
         parent' = [c \in Pid |-> IF alloc[c] # "free" /\ parent[c] = t THEN np
                                  ELSE IF c = t /\ t # g THEN NULL ELSE parent[c]]
  BY Zenon DEF do_exit_locked, group
<1>3. np \in Pid /\ np # t /\ pc[np] # "none"
  BY <1>0, HeirRuns
<1>4. /\ threads' = [threads EXCEPT ![g] = threads[g] \ {t}]
      /\ done' \in [Pid -> BOOLEAN]
      /\ UNCHANGED <<load, gvars, want>>
      /\ queue' = [queue EXCEPT ![t] = <<>>] /\ pc' = [pc EXCEPT ![t] = "none"]
  BY TreeParts, Zenon DEF do_exit_locked, group, vfork_notify, DataTypes, TypeOK
<1>4a. load' = load /\ UNCHANGED gvars
  BY <1>4, Zenon
<1>5. threads'[g] = threads[g] \ {t} /\ \A u \in Pid : u # g => threads'[u] = threads[u]
  BY <1>1, <1>4, TreeParts, Zenon DEF DataTypes, TypeOK
<1>5a. pc'[t] = "none" /\ \A u \in Pid : u # t => pc'[u] = pc[u]
  BY <1>4, TreeParts, Zenon DEF DataTypes, TypeOK
<1>5b. queue'[init] = queue[init]
  BY <1>0, <1>4, TreeParts, Zenon DEF DataTypes, Pid
<1>5c. /\ \A u \in Pid : parent[u] # t /\ u # t => parent'[u] = parent[u]
       /\ \A u \in Pid : alloc[u] # "free" /\ parent[u] = t => parent'[u] = np
       /\ t = g => \A u \in Pid : alloc[u] # "free" => parent'[u] \in {parent[u], np}
  BY <1>1, <1>2, Zenon
<1>6. ASSUME NEW u \in Pid, alloc[u] = "new" PROVE parent[u] # t /\ u # t
  BY <1>0, <1>1, <1>6, TreeParts, Zenon DEF NewSound, Cloning
<1>7. parent' \in [Pid -> Pid \cup {NULL}] /\ threads' \in [Pid -> SUBSET Pid]
  BY <1>2, <1>3, <1>4, TreeParts, Zenon DEF DataTypes, TypeOK
<1>8. /\ queue' \in [Pid -> Seq({"SIGKILL", "SIGSTOP"})]
  BY <1>4, TreeParts DEF DataTypes
<1> HIDE DEF g
<1>9. CASE t = g
  <2>1. /\ exiting' = [exiting EXCEPT ![t] = TRUE]
        /\ zombie' = [zombie EXCEPT ![t] = (threads[g] \ {t} = {})]
    BY <1>9, Zenon DEF do_exit_locked, group, group_dead, g
  <2>0. UNCHANGED <<alloc, leader, exit_code, arg, vfork>>
    BY <1>9, Zenon DEF do_exit_locked, group, group_dead, g
  <2>2. DataTypes'
    BY <1>4, <1>7, <1>8, <2>0, <2>1, TreeParts, Zenon DEF DataTypes, TypeOK, gvars
  <2>3. /\ exiting'[t] /\ (zombie'[t] <=> threads[g] \ {t} = {})
        /\ \A u \in Pid : u # t => exiting'[u] = exiting[u] /\ zombie'[u] = zombie[u]
    BY <2>1, TreeParts, Zenon DEF DataTypes, TypeOK
  <2>4. ArgsSound'
    BY <1>4a, <1>5a, <1>5c, <1>6, <2>0, TreeParts DEF ArgsSound, Cloning
  <2>5. NewSound' /\ FreeSound' /\ Listed'
    <3>1. NewSound'
      BY <1>0, <1>5a, <1>5c, <1>6, <2>0, <2>3, TreeParts DEF NewSound, Cloning
    <3>2. FreeSound'
      BY <1>1, <2>0, <2>3, TreeParts, Zenon DEF FreeSound
    <3>3. Listed'
      BY <1>1, <1>5, <1>5a, <1>9, <2>0, <2>3, TreeParts DEF Listed, LeaderSound, Tasks
    <3>4. QED
      BY <3>1, <3>2, <3>3, Zenon
  <2>6. LeaderSound' /\ ThreadList'
    <3>1. LeaderSound'
      BY <2>0, TreeParts, Zenon DEF LeaderSound, Tasks
    <3>2. ASSUME NEW h \in Pid, NEW u \in threads'[h]
          PROVE  alloc'[u] = "task" /\ leader'[u] = h /\ ~exiting'[u]
      <4>1. u \in threads[h] /\ u \in Pid
        BY <1>1, <1>5, TreeParts, Zenon DEF DataTypes, TypeOK
      <4>2. alloc[u] = "task" /\ leader[u] = h /\ ~exiting[u]
        BY <4>1, TreeParts, Zenon DEF ThreadList
      <4>3. u # t
        BY <1>1, <1>5, <1>9, <4>2, Zenon
      <4>4. QED
        BY <2>0, <2>3, <4>1, <4>2, <4>3, Zenon
    <3>3. ASSUME NEW h \in Pid, alloc'[h] = "task", leader'[h] = h
          PROVE  zombie'[h] <=> threads'[h] = {}
      BY <1>5, <1>9, <2>0, <2>3, <3>3, TreeParts DEF ThreadList
    <3>4. QED
      BY <3>1, <3>2, <3>3, Zenon DEF ThreadList
  <2>7. ParentRuns'
    <3> SUFFICES ASSUME NEW u \in Tasks \ {init}
                 PROVE  parent'[u] \in Pid /\ pc'[parent'[u]] # "none"
      BY <2>0, Zenon DEF ParentRuns, Tasks
    <3>1. u \in Pid /\ alloc[u] # "free" /\ parent[u] \in Pid /\ pc[parent[u]] # "none"
      BY TreeParts, Zenon DEF ParentRuns, Tasks
    <3>2. parent'[u] = np \/ (parent'[u] = parent[u] /\ parent[u] # t)
      BY <1>5c, <1>9, <3>1
    <3>3. QED
      BY <1>3, <1>5a, <3>1, <3>2, Zenon
  <2>8. VforkSound' /\ InitSound'
    <3>1. VforkSound'
      BY <1>0, <1>5a, <2>0, TreeParts DEF VforkSound, VforkParent, Tasks
    <3>2. InitSound'
      BY <1>0, <1>1, <1>4a, <1>5, <1>5a, <1>5b, <1>9, <2>0, TreeParts, Zenon DEF InitSound, Pid, gvars
    <3>3. QED
      BY <3>1, <3>2
  <2>9. QED
    BY <2>2, <2>4, <2>5, <2>6, <2>7, <2>8, Zenon DEF TreeInv
<1>10. CASE t # g
  <2>1. /\ alloc' = [alloc EXCEPT ![t] = "free"] /\ leader' = [leader EXCEPT ![t] = NULL]
        /\ exit_code' = [exit_code EXCEPT ![t] = "0"]
        /\ arg' = [u \in Pid |-> IF pc[u] \in {"vfork_wait", "vfork_clear"} /\ arg[u] = t
                                 THEN NULL ELSE arg[u]]
        /\ vfork' = [vfork EXCEPT ![t] = NULL] /\ exiting' = [exiting EXCEPT ![t] = FALSE]
        /\ zombie' = [zombie EXCEPT ![g] = zombie[g] \/ threads[g] \ {t} = {}]
    BY <1>10, Zenon DEF do_exit_locked, group, group_dead, g
  <2>2. DataTypes'
    <3>1. TypeOK'
      BY <1>4, <1>7, <2>1, TreeParts, Zenon DEF DataTypes, TypeOK, gvars, Status
    <3>2. arg' \in [Pid -> Pid \cup Status \cup {NULL}]
      BY <2>1, TreeParts, Zenon DEF DataTypes
    <3>3. QED
      BY <1>8, <3>1, <3>2 DEF DataTypes
  <2>3. /\ alloc'[t] = "free" /\ vfork'[t] = NULL /\ ~exiting'[t]
        /\ (zombie'[g] <=> threads[g] \ {t} = {})
        /\ \A u \in Pid : u # t => /\ alloc'[u] = alloc[u] /\ vfork'[u] = vfork[u]
                                   /\ exiting'[u] = exiting[u] /\ leader'[u] = leader[u]
        /\ \A u \in Pid : u # g => zombie'[u] = zombie[u]
        /\ \A u \in Pid : (pc[u] \in VforkParent => arg[u] # t) => arg'[u] = arg[u]
    BY <1>1, <2>1, TreeParts, Zenon DEF DataTypes, TypeOK, VforkParent
  <2>4. \A u \in Tasks : leader[u] # t
    BY <1>10, TreeParts, Zenon DEF LeaderSound, g
  <2>5. threads[g] \ {t} = {} => exiting[g]
    BY <1>1, <1>10, TreeParts, Zenon DEF Listed
  <2>6. ArgsSound'
    BY <1>1, <1>4a, <1>5a, <1>5c, <1>6, <2>3, TreeParts DEF ArgsSound, Cloning, VforkParent
  <2>7. NewSound'
    <3> SUFFICES ASSUME NEW u \in Pid, alloc'[u] = "new"
                 PROVE  /\ parent'[u] \in Pid /\ pc'[parent'[u]] \in Cloning
                        /\ arg'[parent'[u]] = u /\ ~exiting'[u] /\ ~zombie'[u]
      BY Zenon DEF NewSound
    <3>1. /\ u # t /\ alloc[u] = "new" /\ parent'[u] = parent[u] /\ u # g
          /\ parent[u] \in Pid /\ pc[parent[u]] \in Cloning /\ arg[parent[u]] = u
          /\ ~exiting[u] /\ ~zombie[u]
      BY <1>1, <1>5c, <1>6, <2>3, TreeParts DEF NewSound
    <3>2. QED
      BY <1>0, <1>5a, <2>3, <3>1 DEF Cloning, VforkParent
  <2>8. FreeSound'
    BY <1>1, <2>3, <2>5, TreeParts DEF FreeSound
  <2>9. Listed'
    BY <1>1, <1>5, <1>5a, <1>10, <2>3, TreeParts DEF Listed, LeaderSound, Tasks
  <2>10. LeaderSound' /\ ThreadList'
    <3>1. LeaderSound'
      BY <2>3, <2>4, TreeParts DEF LeaderSound, Tasks
    <3>2. \A u \in Pid : u # g => t \notin threads[u]
      BY TreeParts DEF ThreadList, g
    <3>3. ASSUME NEW h \in Pid, NEW u \in threads'[h]
          PROVE  alloc'[u] = "task" /\ leader'[u] = h /\ ~exiting'[u]
      <4>1. u \in threads[h] /\ u # t /\ u \in Pid
        BY <1>1, <1>5, <3>2, TreeParts, Zenon DEF DataTypes, TypeOK
      <4>2. QED
        BY <2>3, <4>1, TreeParts DEF ThreadList
    <3>4. ASSUME NEW h \in Pid, alloc'[h] = "task", leader'[h] = h
          PROVE  zombie'[h] <=> threads'[h] = {}
      BY <1>5, <2>3, <3>4, TreeParts DEF ThreadList
    <3>5. QED
      BY <3>1, <3>3, <3>4, Zenon DEF ThreadList
  <2>11. ParentRuns'
    <3> SUFFICES ASSUME NEW u \in Pid, alloc'[u] # "free", u # init
                 PROVE  parent'[u] \in Pid /\ pc'[parent'[u]] # "none"
      BY Zenon DEF ParentRuns, Tasks
    <3>1. u # t /\ alloc[u] # "free" /\ parent[u] \in Pid /\ pc[parent[u]] # "none"
      BY <2>3, TreeParts, Zenon DEF ParentRuns, Tasks
    <3>2. parent'[u] = np \/ (parent'[u] = parent[u] /\ parent[u] # t)
      BY <1>5c, <3>1
    <3>3. QED
      BY <1>3, <1>5a, <3>1, <3>2, Zenon
  <2>12. VforkSound'
    BY <1>0, <1>5a, <2>3, TreeParts DEF VforkSound, VforkParent, Tasks
  <2>13. InitSound'
    BY <1>0, <1>1, <1>4a, <1>5, <1>5a, <1>5b, <2>3, TreeParts DEF InitSound, Pid, gvars
  <2>14. QED
    BY <2>2, <2>6, <2>7, <2>8, <2>9, <2>10, <2>11, <2>12, <2>13, Zenon DEF TreeInv
<1>11. QED
  BY <1>9, <1>10
------------------------------------------------------------------------------
(* wait.                                                                   *)

\* What do_wait considers leads a group.
LEMMA CandidatesLead ==
  ASSUME TreeInv, NEW t \in Pid, pc[t] = "wait", NEW c \in candidates(t)
  PROVE  c \in Pid /\ alloc[c] # "free" /\ leader[c] = c
<1>1. CASE arg[t] = NULL
  BY <1>1 DEF candidates, children
<1>2. CASE arg[t] # NULL
  <2>1. PICK d \in {arg[t]} : alloc[d] # "free" /\ parent[d] # NULL /\ c = leader[d]
    BY <1>2, Zenon DEF candidates
  <2>2. d \in Pid
    BY <1>2, <2>1, TreeParts, Zenon DEF ArgsSound
  <2>3. QED
    BY <2>1, <2>2, TreeParts DEF LeaderSound, Tasks
<1>3. QED
  BY <1>1, <1>2

LEMMA TreeReap ==
  ASSUME TreeInv, NEW t \in Pid, reap(t)
  PROVE  TreeInv'
<1>1. pc[t] = "wait"
  BY DEF reap
<1>2. PICK c \in candidates(t) :
         /\ zombie[c] /\ task_destroy(c, t, "run")
         /\ parent' = [parent EXCEPT ![c] = NULL]
         /\ threads' = [threads EXCEPT ![c] = {}]
         /\ doing_group_exit' = [doing_group_exit EXCEPT ![c] = FALSE]
         /\ group_exit_code' = [group_exit_code EXCEPT ![c] = "0"]
         /\ stopped' = [stopped EXCEPT ![c] = FALSE]
         /\ want' = [want EXCEPT ![c] = "0"]
  BY Zenon DEF reap, reapable
<1>3. c \in Pid
  BY <1>1, CandidatesLead, Zenon
<1>4. /\ alloc[c] = "task" /\ exiting[c] /\ leader[c] = c /\ pc[c] = "none"
      /\ c # init /\ threads[c] = {}
      /\ \A u \in Tasks : u # c => leader[u] # c
  BY <1>2, <1>3, ZombieAlone, Zenon
<1>5. \A u \in Pid : c \notin threads[u]
  BY <1>3, <1>4, TreeParts DEF ThreadList
<1>6. /\ threads' \in [Pid -> SUBSET Pid] /\ want' \in [Pid -> Status]
      /\ group_exit_code' \in [Pid -> Status] /\ doing_group_exit' \in [Pid -> BOOLEAN]
      /\ stopped' \in [Pid -> BOOLEAN] /\ ~doing_group_exit'[init]
      /\ threads'[c] = {} /\ \A u \in Pid : u # c => threads'[u] = threads[u]
  BY <1>2, <1>3, TreeParts, Zenon DEF DataTypes, TypeOK, InitSound, Status, Pid
<1>7. load' = load /\ done' = done
  BY DEF reap
<1>8. QED
  BY <1>1, <1>2, <1>3, <1>4, <1>5, <1>6, <1>7, TreeDestroy, Zenon DEF Cloning

LEMMA TreeWait ==
  ASSUME TreeInv, NEW t \in Pid, NEW id \in Pid \cup {NULL}, NEW nohang \in BOOLEAN,
         sys_wait4(t, id) \/ wait_returns(t, nohang) \/ notify_if_stopped(t)
  PROVE  TreeInv'
<1> USE DEF Cloning, VforkParent
<1>0. /\ exit_code \in [Pid -> Status] /\ group_exit_code \in [Pid -> Status]
      /\ want \in [Pid -> Status]
  BY TreeParts DEF DataTypes, TypeOK
<1>1. CASE sys_wait4(t, id)
  BY <1>0, <1>1, TreeGoto, Zenon DEF sys_wait4, Running, tvars, gvars
<1>2. CASE wait_returns(t, nohang)
  BY <1>0, <1>2, TreeGoto, Zenon DEF wait_returns, tvars, gvars
<1>3. CASE notify_if_stopped(t)
  <2>1. group_exit_code' \in [Pid -> Status]
    BY <1>0, <1>3, Zenon DEF notify_if_stopped, Status
  <2>2. QED
    BY <1>0, <1>3, <2>1, TreeGoto, Zenon DEF notify_if_stopped, tvars
<1>4. QED
  BY <1>1, <1>2, <1>3
------------------------------------------------------------------------------
(* The tree of tasks.                                                      *)

\* What runs on the system is given.
LEMMA LoadKept == [Next]_vars => load' = load
<1> SUFFICES ASSUME [Next]_vars PROVE load' = load
  OBVIOUS
<1>1. CASE UNCHANGED vars
  BY <1>1 DEF vars, tvars
<1>2. ASSUME NEW t \in Pid, Step(t) PROVE load' = load
  <2>1. CASE copy_task(t) \/ vfork_wakes(t) \/ vfork_clear(t) \/ reap(t) \/ wait_returns(t, FALSE)
    BY <2>1, Zenon DEF copy_task, vfork_wakes, vfork_clear, reap, wait_returns, tvars
  <2>2. CASE Die(t)
    BY <2>2, Zenon DEF Die, receive_signals, do_exit_group, exit_group_waited, check_group_exit,
       do_exit, do_exit_locked, tvars
  <2>3. QED
    BY <1>2, <2>1, <2>2, Zenon DEF Step
<1>3. ASSUME NEW t \in Pid, do_execve(t) \/ clone_fails(t) \/ wait_returns(t, TRUE) \/ notify_if_stopped(t)
      PROVE  load' = load
  BY <1>3, Zenon DEF do_execve, clone_fails, wait_returns, notify_if_stopped, tvars
<1>4. ASSUME NEW t \in Pid, NEW p, NEW kind, task_create_(t, p, kind) PROVE load' = load
  BY Zenon, <1>4 DEF task_create_
<1>5. ASSUME NEW t \in Pid, NEW s, send_signal(t, s) PROVE load' = load
  BY Zenon, <1>5 DEF send_signal, tvars
<1>6. ASSUME NEW t \in Pid, NEW c, sys_exit(t, c) \/ sys_exit_group(t, c) \/ sys_wait4(t, c)
      PROVE  load' = load
  BY Zenon, <1>6 DEF sys_exit, sys_exit_group, sys_wait4, tvars
<1>7. QED
  BY <1>1, <1>2, <1>3, <1>4, <1>5, <1>6, Zenon DEF Next

LEMMA TreeStep ==
  ASSUME TreeInv, ThreadsNotFreed, [Next]_vars
  PROVE  TreeInv' /\ ThreadsNotFreed'
<1>1. load' = load
  BY LoadKept
<1>2. ThreadsNotFreed'
  BY <1>1, Zenon DEF ThreadsNotFreed
<1>3. CASE UNCHANGED vars
  <2>1. DataTypes'
    BY <1>3, TreeParts, Zenon DEF DataTypes, TypeOK, vars, tvars, gvars
  <2>2. /\ UNCHANGED <<load, alloc, leader, threads, parent, exiting, zombie, pc, arg, vfork>>
        /\ queue' = queue /\ doing_group_exit' = doing_group_exit
    BY <1>3 DEF vars, tvars, gvars
  <2>3. QED
    BY <1>2, <2>1, <2>2, TreeSame, Zenon
<1>4. ASSUME NEW t \in Pid, Step(t) PROVE TreeInv'
  <2>1. "0" \in Status
    BY DEF Status
  <2>2. CASE copy_task(t) \/ vfork_wakes(t) \/ vfork_clear(t) \/ reap(t) \/ wait_returns(t, FALSE)
    BY <2>2, TreeCopy, TreeVfork, TreeReap, TreeWait, Zenon
  <2>3. CASE Die(t)
    BY <2>1, <2>3, TreeReceive, TreeExitGroup, TreeExits, TreeExitLocked, Zenon DEF Die
  <2>4. QED
    BY <1>4, <2>2, <2>3, Zenon DEF Step
<1>5. ASSUME NEW t \in Pid, do_execve(t) \/ clone_fails(t) \/ wait_returns(t, TRUE) \/ notify_if_stopped(t)
      PROVE  TreeInv'
  BY <1>5, TreeVfork, TreeCloneFails, TreeWait, Zenon
<1>6. ASSUME NEW t \in Pid, NEW p \in Pid, NEW kind \in {"fork", "thread", "vfork"},
             task_create_(t, p, kind)
      PROVE  TreeInv'
  BY <1>6, TreeCreate DEF Cloning
<1>7. ASSUME NEW t \in Pid, NEW s \in {"SIGKILL", "SIGSTOP", "SIGCONT"}, send_signal(t, s)
      PROVE  TreeInv'
  BY <1>7, TreeSend
<1>8. ASSUME NEW t \in Pid, NEW c \in load.codes, sys_exit(t, c) \/ sys_exit_group(t, c)
      PROVE  TreeInv'
  <2>1. c \in Status
    BY ProcessConstants, TreeParts DEF DataTypes, TypeOK, Load, Status
  <2>2. QED
    BY <1>8, <2>1, TreeExits
<1>9. ASSUME NEW t \in Pid, NEW id \in Pid \cup {NULL}, sys_wait4(t, id) PROVE TreeInv'
  BY <1>9, TreeWait, Zenon
<1>10. QED
  BY <1>2, <1>3, <1>4, <1>5, <1>6, <1>7, <1>8, <1>9, Zenon DEF Next

\* Whoever forks, joins, execs, exits, is killed or reaped, in any order and for any
\* number of pids: a task's parent runs, its group lives, the lists of threads are
\* exact and the vfork_info of a child belongs to a parent inside clone, unless a
\* clone has failed after its thread had joined (kernel/fork.c, kernel/exit.c).
THEOREM TreeIsSound == Spec => [](ThreadsNotFreed => TreeSound)
<1> DEFINE Inv == ThreadsNotFreed => TreeInv
<1>1. Init => Inv
  BY TreeStarts
<1>2. Inv /\ [Next]_vars => Inv'
  <2>1. ThreadsNotFreed' /\ [Next]_vars => ThreadsNotFreed
    BY LoadKept, Zenon DEF ThreadsNotFreed
  <2>2. QED
    BY <2>1, TreeStep
<1>3. TreeInv => TreeSound
  <2> SUFFICES ASSUME TreeInv PROVE TreeSound
    OBVIOUS
  <2>1. ParentAlive
    BY TreeParts, Zenon DEF ParentRuns, ParentAlive, Listed, Tasks
  <2>2. GroupAlive
    BY TreeParts, Zenon DEF LeaderSound, GroupAlive, Tasks
  <2>3. VforkInfoAlive
    BY TreeParts, Zenon DEF VforkSound, VforkInfoAlive, VforkParent
  <2>4. QED
    BY <2>1, <2>2, <2>3, TreeParts DEF TreeSound, DataTypes
<1>4. QED
  BY <1>1, <1>2, <1>3, PTL DEF Spec

------------------------------------------------------------------------------
(* The status that wait reports.                                           *)

\* The conjuncts of the invariant, to be used without expanding its name.
LEMMA StatusParts ==
  StatusInv => GroupStatus /\ LeaderStatus /\ WaitsInExit /\ Alone /\ NoStops
  BY Zenon DEF StatusInv

LEMMA StatusStarts == Init => StatusInv
<1> SUFFICES ASSUME Init PROVE StatusInv
  OBVIOUS
<1> USE ProcessConstants DEF Init, All, Pid
<1>1. GroupStatus /\ LeaderStatus /\ WaitsInExit
  BY DEF GroupStatus, LeaderStatus, WaitsInExit, Leads
<1>2. Alone
  BY DEF Alone
<1>3. NoStops
  BY DEF NoStops
<1>4. QED
  BY <1>1, <1>2, <1>3 DEF StatusInv

\* Nothing but the queues and what stops change.
LEMMA StatusSame ==
  ASSUME StatusInv, GroupStatus', NoStops',
         UNCHANGED <<load, alloc, leader, exit_code, doing_group_exit, want, pc, arg>>
  PROVE  StatusInv'
<1>1. LeaderStatus' /\ WaitsInExit' /\ Alone'
  BY StatusParts DEF LeaderStatus, WaitsInExit, Alone, Leads
<1>2. QED
  BY <1>1 DEF StatusInv

\* Where a task is on its way out, or gone.
Exits == {"none", "exit_wait", "exit", "exit_locked"}

\* A task goes on elsewhere, without exiting.
LEMMA StatusGoto ==
  ASSUME TreeInv, StatusInv, GroupStatus', NoStops', NEW t \in Pid, NEW l,
         pc[t] \notin Exits, l \notin Exits, pc' = [pc EXCEPT ![t] = l],
         \A u \in Pid : u # t => arg'[u] = arg[u],
         UNCHANGED <<load, alloc, leader, exit_code, doing_group_exit, want>>
  PROVE  StatusInv'
<1>1. pc'[t] = l /\ \A u \in Pid : u # t => pc'[u] = pc[u]
  BY TreeParts, Zenon DEF DataTypes, TypeOK
<1>2. LeaderStatus'
  BY <1>1, StatusParts, Zenon DEF LeaderStatus, Leads, Exits
<1>3. WaitsInExit'
  BY <1>1, StatusParts, Zenon DEF WaitsInExit, Exits
<1>4. Alone'
  BY <1>1, StatusParts DEF Alone, Exits
<1>5. QED
  BY <1>2, <1>3, <1>4 DEF StatusInv

\* A task goes on elsewhere, and a pid becomes one of no task.
LEMMA StatusWithout ==
  ASSUME TreeInv, StatusInv, NEW t \in Pid, NEW c \in Pid, c # t, pc[t] \notin Exits,
         alloc'[c] # "task", pc'[t] \notin Exits, pc'[c] \notin {"exit_wait"}, load' = load,
         \A u \in Tasks : u # c => leader[u] # c,
         \A u \in Pid : u # c =>
           /\ alloc'[u] = alloc[u] /\ leader'[u] = leader[u] /\ exit_code'[u] = exit_code[u]
           /\ doing_group_exit'[u] = doing_group_exit[u] /\ want'[u] = want[u]
           /\ group_exit_code'[u] = group_exit_code[u] /\ stopped'[u] = stopped[u]
           /\ queue'[u] = queue[u]
           /\ u # t => pc'[u] = pc[u] /\ (pc[u] = "exit" => arg'[u] = arg[u]),
         stopped'[c] => stopped[c], queue'[c] \in {<<>>, queue[c]}
  PROVE  StatusInv'
<1>1. GroupStatus' /\ LeaderStatus'
  BY StatusParts DEF GroupStatus, LeaderStatus, Leads, Exits
<1>2. WaitsInExit'
  <2> SUFFICES ASSUME NEW u \in Pid, pc'[u] = "exit_wait" PROVE doing_group_exit'[leader'[u]]
    BY Zenon DEF WaitsInExit
  <2>1. u # t /\ u # c /\ pc[u] = "exit_wait"
    BY Zenon DEF Exits
  <2>2. leader[u] \in Pid /\ alloc[u] = "task" /\ doing_group_exit[leader[u]]
    BY <2>1, RunsListed, StatusParts, Zenon DEF WaitsInExit
  <2>3. QED
    BY <2>1, <2>2, Zenon DEF Tasks
<1>3. Alone'
  BY StatusParts DEF Alone, Exits
<1>4. NoStops'
  <2>1. <<>> \in Seq({"SIGKILL"})
    OBVIOUS
  <2>2. QED
    BY <2>1, StatusParts, Zenon DEF NoStops
<1>5. QED
  BY <1>1, <1>2, <1>3, <1>4 DEF StatusInv

LEMMA StatusCreate ==
  ASSUME TreeInv, StatusInv, NEW t \in Pid, NEW p \in Pid, NEW kind \in Cloning,
         task_create_(t, p, kind)
  PROVE  StatusInv'
<1>1. /\ pc[t] = "run" /\ alloc[p] = "free"
      /\ alloc' = [alloc EXCEPT ![p] = "new"]
      /\ leader' = [leader EXCEPT ![p] = leader[t]]
      /\ pc' = [pc EXCEPT ![t] = kind] /\ arg' = [arg EXCEPT ![t] = p]
      /\ UNCHANGED <<load, exit_code, gvars, queue, want>>
  BY DEF task_create_, Running, group
<1>2. p # t /\ pc[p] = "none"
  BY <1>1, RunsListed, TreeParts DEF Listed
<1>3. \A u \in Tasks : leader[u] # p
  BY <1>1, TreeParts DEF LeaderSound
<1>4. /\ alloc'[p] = "new" /\ pc'[t] = kind /\ pc'[p] = "none"
      /\ \A u \in Pid : u # p => alloc'[u] = alloc[u] /\ leader'[u] = leader[u]
      /\ \A u \in Pid : u # t => pc'[u] = pc[u] /\ arg'[u] = arg[u]
  BY <1>1, <1>2, TreeParts, Zenon DEF DataTypes, TypeOK
<1>5. QED
  BY <1>1, <1>3, <1>4, StatusWithout DEF Exits, Cloning, gvars

\* The child starts as its parent's thread, or with a group that does not exit.
LEMMA StatusCopy ==
  ASSUME TreeInv, StatusInv, NEW t \in Pid, copy_task(t)
  PROVE  StatusInv'
<1> DEFINE p == arg[t]
<1>0. pc[t] \in Cloning
  BY Zenon DEF copy_task, Cloning
<1>1. /\ p \in Pid /\ alloc[p] = "new" /\ p # t /\ leader[p] = leader[t] /\ leader[t] # p
      /\ pc[p] = "none" /\ \A u \in Tasks : leader[u] # p
  BY <1>0, ChildKnown, Zenon
<1>2. alloc[t] = "task" /\ leader[t] \in Pid
  BY <1>0, RunsListed, Zenon DEF Cloning
<1>3. /\ alloc' = [alloc EXCEPT ![p] = "task"] /\ UNCHANGED <<load, exit_code, queue>>
  BY Zenon DEF copy_task
<1>4. /\ pc'[p] = "run" /\ pc'[t] \in {"run", "vfork_wait"}
      /\ \A u \in Pid : u # p /\ u # t => pc'[u] = pc[u] /\ arg'[u] = arg[u]
  <2>1. CASE pc[t] = "vfork"
    <3>1. pc' = [pc EXCEPT ![p] = "run", ![t] = "vfork_wait"] /\ arg' = arg
      BY <2>1, Zenon DEF copy_task
    <3>2. QED
      BY <1>1, <3>1, TreeParts DEF DataTypes, TypeOK
  <2>2. CASE pc[t] # "vfork"
    <3>1. pc' = [pc EXCEPT ![p] = "run", ![t] = "run"] /\ arg' = [arg EXCEPT ![t] = NULL]
      BY <2>2, Zenon DEF copy_task
    <3>2. QED
      BY <1>1, <3>1, TreeParts DEF DataTypes, TypeOK
  <2>3. QED
    BY <2>1, <2>2, Zenon
<1>5. /\ \A u \in Pid : u # p =>
           /\ leader'[u] = leader[u] /\ doing_group_exit'[u] = doing_group_exit[u]
           /\ group_exit_code'[u] = group_exit_code[u] /\ stopped'[u] = stopped[u]
           /\ want'[u] = want[u]
      /\ leader'[p] = p => ~doing_group_exit'[p]
      /\ leader'[p] # p => pc[t] = "thread"
      /\ stopped'[p] \in {stopped[p], stopped[leader[t]]}
  <2>1. CASE pc[t] = "thread"
    <3>1. UNCHANGED <<leader, gvars, want>>
      BY <2>1 DEF copy_task, Join
    <3>2. QED
      BY <1>1, <2>1, <3>1, Zenon DEF gvars
  <2>2. CASE pc[t] # "thread"
    <3>1. /\ leader' = [leader EXCEPT ![p] = p]
          /\ doing_group_exit' = [doing_group_exit EXCEPT ![p] = FALSE]
          /\ group_exit_code' = [group_exit_code EXCEPT ![p] = group_exit_code[leader[t]]]
          /\ stopped' = [stopped EXCEPT ![p] = stopped[leader[t]]]
          /\ want' = [want EXCEPT ![p] = "0"]
      BY <2>2, Zenon DEF copy_task, Join, group
    <3>2. QED
      BY <1>1, <3>1, TreeParts, Zenon DEF DataTypes, TypeOK
  <2>3. QED
    BY <2>1, <2>2, Zenon
<1>6. \A u \in Pid : u # p => alloc'[u] = alloc[u]
  BY <1>1, <1>3, TreeParts DEF DataTypes, TypeOK
<1> HIDE DEF p
<1>7. GroupStatus' /\ LeaderStatus'
  <2>1. GroupStatus'
    BY <1>5, <1>6, StatusParts DEF GroupStatus, Leads
  <2>2. LeaderStatus'
    BY <1>4, <1>5, <1>3, StatusParts DEF LeaderStatus, Leads
  <2>3. QED
    BY <2>1, <2>2, Zenon
<1>8. WaitsInExit'
  <2> SUFFICES ASSUME NEW u \in Pid, pc'[u] = "exit_wait" PROVE doing_group_exit'[leader'[u]]
    BY DEF WaitsInExit
  <2>1. u # t /\ u # p /\ pc[u] = "exit_wait"
    BY <1>4
  <2>2. leader[u] \in Pid /\ alloc[u] = "task" /\ doing_group_exit[leader[u]]
    BY <2>1, RunsListed, StatusParts, Zenon DEF WaitsInExit
  <2>3. QED
    BY <1>0, <1>1, <1>5, <1>6, <2>2, Zenon DEF Tasks
<1>9. Alone'
  <2> SUFFICES ASSUME "thread" \notin load'.uses, NEW u \in Pid, alloc'[u] = "task"
               PROVE  /\ leader'[u] = u
                      /\ doing_group_exit'[u] => pc'[u] \in {"exit_wait", "exit", "exit_locked", "none"}
    BY Zenon DEF Alone
  <2>1. pc[t] # "thread" /\ "thread" \notin load.uses
    BY <1>0, <1>3, TreeParts DEF ArgsSound
  <2>2. QED
    BY <1>0, <1>4, <1>5, <1>6, <2>1, StatusParts DEF Alone, Cloning
<1>10. NoStops'
  <2> SUFFICES ASSUME "stop" \notin load'.uses, NEW u \in Pid
               PROVE  ~stopped'[u] /\ queue'[u] \in Seq({"SIGKILL"})
    BY DEF NoStops
  <2>1. \A w \in Pid : ~stopped[w] /\ queue[w] \in Seq({"SIGKILL"})
    BY <1>3, StatusParts, Zenon DEF NoStops
  <2>2. QED
    BY <1>2, <1>5, <1>3, <2>1, Zenon
<1>11. QED
  BY <1>7, <1>8, <1>9, <1>10, Zenon DEF StatusInv

LEMMA StatusDestroy ==
  ASSUME TreeInv, StatusInv, NEW t \in Pid, NEW c \in Pid, task_destroy(c, t, "run"),
         pc[t] \in Cloning \cup {"wait"}, pc[c] = "none",
         \A u \in Tasks : u # c => leader[u] # c, load' = load,
         \A u \in Pid : u # c =>
           /\ doing_group_exit'[u] = doing_group_exit[u] /\ want'[u] = want[u]
           /\ group_exit_code'[u] = group_exit_code[u] /\ stopped'[u] = stopped[u],
         stopped'[c] => stopped[c]
  PROVE  StatusInv'
<1>1. c # t
  BY Zenon DEF Cloning
<1>2. /\ alloc' = [alloc EXCEPT ![c] = "free"]
      /\ leader' = [leader EXCEPT ![c] = NULL]
      /\ exit_code' = [exit_code EXCEPT ![c] = "0"]
      /\ queue' = [queue EXCEPT ![c] = <<>>]
      /\ pc' = [pc EXCEPT ![c] = "none", ![t] = "run"]
      /\ arg' = [u \in Pid |-> IF u \in {t, c} \/ (pc[u] \in {"vfork_wait", "vfork_clear"} /\ arg[u] = c)
                               THEN NULL ELSE arg[u]]
  BY Zenon DEF task_destroy
<1>3. /\ alloc'[c] = "free" /\ pc'[c] = "none" /\ pc'[t] = "run" /\ queue'[c] = <<>>
      /\ \A u \in Pid : u # c =>
           /\ alloc'[u] = alloc[u] /\ leader'[u] = leader[u] /\ exit_code'[u] = exit_code[u]
           /\ queue'[u] = queue[u]
           /\ u # t => pc'[u] = pc[u] /\ (pc[u] = "exit" => arg'[u] = arg[u])
  BY <1>1, <1>2, TreeParts, Zenon DEF DataTypes, TypeOK
<1>4. QED
  BY <1>1, <1>3, StatusWithout DEF Exits, Cloning

LEMMA StatusReap ==
  ASSUME TreeInv, StatusInv, NEW t \in Pid, reap(t)
  PROVE  StatusInv'
<1>1. pc[t] = "wait" /\ load' = load
  BY DEF reap
<1>2. PICK c \in candidates(t) :
         /\ zombie[c] /\ task_destroy(c, t, "run")
         /\ doing_group_exit' = [doing_group_exit EXCEPT ![c] = FALSE]
         /\ group_exit_code' = [group_exit_code EXCEPT ![c] = "0"]
         /\ stopped' = [stopped EXCEPT ![c] = FALSE]
         /\ want' = [want EXCEPT ![c] = "0"]
  BY Zenon DEF reap, reapable
<1>3. c \in Pid
  BY <1>1, CandidatesLead
<1>4. pc[c] = "none" /\ \A u \in Tasks : u # c => leader[u] # c
  BY <1>2, <1>3, ZombieAlone, Zenon
<1>5. /\ \A u \in Pid : u # c =>
           /\ doing_group_exit'[u] = doing_group_exit[u] /\ want'[u] = want[u]
           /\ group_exit_code'[u] = group_exit_code[u] /\ stopped'[u] = stopped[u]
      /\ ~stopped'[c]
  BY <1>2, <1>3, TreeParts DEF DataTypes, TypeOK
<1>6. QED
  BY <1>1, <1>2, <1>3, <1>4, <1>5, StatusDestroy, Zenon

LEMMA StatusCloneFails ==
  ASSUME TreeInv, StatusInv, NEW t \in Pid, clone_fails(t)
  PROVE  StatusInv'
<1>1. /\ pc[t] \in Cloning /\ task_destroy(arg[t], t, "run") /\ UNCHANGED <<load, gvars, want>>
  BY Zenon DEF clone_fails, Cloning
<1>2. arg[t] \in Pid /\ pc[arg[t]] = "none" /\ \A u \in Tasks : leader[u] # arg[t]
  BY <1>1, ChildKnown, Zenon
<1>3. QED
  BY <1>1, <1>2, StatusDestroy, Zenon DEF gvars

\* Signals: what stops a group does not come after its exit has begun.
LEMMA StatusSignals ==
  ASSUME TreeInv, StatusInv, StatusNotReplaced, NEW t \in Pid,
         NEW s \in {"SIGKILL", "SIGSTOP", "SIGCONT"}, send_signal(t, s) \/ receive_signals(t)
  PROVE  StatusInv'
<1>1. CASE send_signal(t, s)
  <2>1. /\ s = "SIGSTOP" => "stop" \in load.uses
        /\ queue' = IF s = "SIGCONT" THEN queue ELSE [queue EXCEPT ![t] = Put(queue[t], s)]
        /\ stopped' = IF s = "SIGSTOP" THEN stopped ELSE [stopped EXCEPT ![t] = FALSE]
        /\ UNCHANGED <<tvars, doing_group_exit, group_exit_code, pc, arg, want>>
    BY <1>1, Zenon DEF send_signal
  <2>2. \A u \in Pid : stopped'[u] => stopped[u]
    BY <2>1, TreeParts, Zenon DEF DataTypes, TypeOK
  <2>3. GroupStatus'
    BY <2>1, <2>2, StatusParts, Zenon DEF GroupStatus, Leads, tvars
  <2>4. NoStops'
    <3> SUFFICES ASSUME "stop" \notin load.uses, NEW u \in Pid
                 PROVE  ~stopped'[u] /\ queue'[u] \in Seq({"SIGKILL"})
      BY <2>1, Zenon DEF NoStops, tvars
    <3>1. \A w \in Pid : ~stopped[w] /\ queue[w] \in Seq({"SIGKILL"})
      BY StatusParts, Zenon DEF NoStops
    <3>2. Put(queue[t], "SIGKILL") \in Seq({"SIGKILL"})
      BY <3>1, PutSeq
    <3>3. QED
      BY <2>1, <2>2, <3>1, <3>2, TreeParts, Zenon DEF DataTypes
  <2>5. QED
    BY <2>1, <2>3, <2>4, StatusSame, Zenon DEF tvars
<1>2. CASE receive_signals(t)
  <2>1. /\ pc[t] = "run" /\ queue[t] # <<>>
        /\ queue' = [queue EXCEPT ![t] = Tail(queue[t])]
        /\ UNCHANGED <<load, alloc, leader, exit_code, doing_group_exit, want>>
    BY <1>2, Zenon DEF receive_signals, tvars
  <2>2. alloc[t] = "task" /\ leader[t] \in Pid
    BY <2>1, RunsListed, Zenon
  <2>3. "stop" \notin load.uses =>
          \A u \in Pid : queue[u] \in Seq({"SIGKILL"}) /\ queue'[u] \in Seq({"SIGKILL"})
    <3> SUFFICES ASSUME "stop" \notin load.uses
                 PROVE  \A u \in Pid : queue[u] \in Seq({"SIGKILL"}) /\ queue'[u] \in Seq({"SIGKILL"})
      OBVIOUS
    <3>1. \A w \in Pid : queue[w] \in Seq({"SIGKILL"})
      BY StatusParts DEF NoStops
    <3>2. Tail(queue[t]) \in Seq({"SIGKILL"})
      BY <2>1, <3>1
    <3>3. QED
      BY <2>1, <3>1, <3>2, TreeParts, Zenon DEF DataTypes
  <2>4. CASE Head(queue[t]) = "SIGSTOP"
    <3>1. /\ stopped' = [stopped EXCEPT ![leader[t]] = TRUE]
          /\ group_exit_code' = [group_exit_code EXCEPT ![leader[t]] = "SIGSTOP"]
          /\ UNCHANGED <<pc, arg>>
      BY <1>2, <2>4, Zenon DEF receive_signals, group
    <3>2. "stop" \in load.uses
      <4>1. SUFFICES ASSUME queue[t] \in Seq({"SIGKILL"}) PROVE FALSE
        BY <2>3
      <4>2. Head(queue[t]) \in {"SIGKILL"}
        BY <2>1, <4>1
      <4>3. QED
        BY <2>4, <4>2
    <3>3. "thread" \notin load.uses
      BY <3>2 DEF StatusNotReplaced
    <3>4. ~doing_group_exit[leader[t]]
      BY <2>1, <2>2, <3>3, StatusParts, Zenon DEF Alone
    <3>5. GroupStatus'
      BY <2>1, <3>1, <3>4, TreeParts, StatusParts DEF GroupStatus, Leads, DataTypes, TypeOK
    <3>6. NoStops'
      BY <2>1, <3>2 DEF NoStops
    <3>7. QED
      BY <2>1, <3>1, <3>5, <3>6, StatusSame, Zenon
  <2>5. CASE Head(queue[t]) # "SIGSTOP"
    <3>1. Goto(t, "exit_group", "SIGKILL") /\ UNCHANGED <<stopped, group_exit_code>>
      BY <1>2, <2>5 DEF receive_signals
    <3>2. GroupStatus'
      BY <2>1, <3>1, StatusParts, Zenon DEF GroupStatus, Leads
    <3>3. NoStops'
      BY <2>1, <2>3, <3>1, StatusParts, Zenon DEF NoStops
    <3>4. \A u \in Pid : u # t => arg'[u] = arg[u]
      BY <3>1, TreeParts DEF Goto, DataTypes
    <3>5. QED
      BY <2>1, <3>1, <3>2, <3>3, <3>4, StatusGoto, Zenon DEF Goto, Exits
  <2>6. QED
    BY <2>4, <2>5
<1>3. QED
  BY <1>1, <1>2

\* Calls that only move their caller, and a parent that is told of a stop.
LEMMA StatusCalls ==
  ASSUME TreeInv, StatusInv, NEW t \in Pid, NEW x,
         \/ sys_exit_group(t, x) \/ sys_wait4(t, x) \/ wait_returns(t, x)
         \/ vfork_wakes(t) \/ vfork_clear(t) \/ notify_if_stopped(t)
  PROVE  StatusInv'
<1>1. CASE notify_if_stopped(t)
  <2>1. PICK c \in candidates(t) :
           stopped[c] /\ group_exit_code' = [group_exit_code EXCEPT ![c] = "0"]
    BY <1>1, Zenon DEF notify_if_stopped
  <2>2. /\ pc[t] = "wait" /\ Goto(t, "run", NULL)
        /\ UNCHANGED <<tvars, doing_group_exit, stopped, queue, want>>
    BY <1>1 DEF notify_if_stopped
  <2>3. c \in Pid
    BY <2>2, CandidatesLead, Zenon
  <2>4. GroupStatus'
    BY <2>1, <2>2, <2>3, TreeParts, StatusParts, Zenon DEF GroupStatus, Leads, DataTypes,
       TypeOK, tvars
  <2>5. NoStops'
    BY <2>2, StatusParts, Zenon DEF NoStops, tvars
  <2>6. \A u \in Pid : u # t => arg'[u] = arg[u]
    BY <2>2, TreeParts DEF Goto, DataTypes
  <2>7. QED
    BY <2>2, <2>4, <2>5, <2>6, StatusGoto, Zenon DEF Goto, Exits, tvars
<1>2. CASE ~notify_if_stopped(t)
  <2>1. PICK l \in {"exit_group", "wait", "run", "vfork_clear"} : pc' = [pc EXCEPT ![t] = l]
    BY <1>2, Zenon DEF sys_exit_group, sys_wait4, wait_returns, vfork_wakes, vfork_clear, Goto
  <2>2. /\ pc[t] \notin Exits
        /\ UNCHANGED <<load, alloc, leader, exit_code, doing_group_exit, group_exit_code,
                       stopped, queue, want>>
    BY <1>2, Zenon DEF sys_exit_group, sys_wait4, wait_returns, vfork_wakes, vfork_clear,
       Running, Exits, tvars, gvars
  <2>3. \A u \in Pid : u # t => arg'[u] = arg[u]
    BY <1>2, TreeParts, Zenon DEF sys_exit_group, sys_wait4, wait_returns, vfork_wakes,
       vfork_clear, Goto, DataTypes
  <2>4. GroupStatus' /\ NoStops'
    BY <2>2, StatusParts, Zenon DEF GroupStatus, NoStops, Leads
  <2>5. QED
    BY <2>1, <2>2, <2>3, <2>4, StatusGoto, Zenon DEF Exits
<1>3. QED
  BY <1>1, <1>2

LEMMA StatusExitGroup ==
  ASSUME TreeInv, StatusInv, NEW t \in Pid, do_exit_group(t)
  PROVE  StatusInv'
<1> DEFINE g == leader[t]
           first == ~doing_group_exit[g]
           l == IF waits_for_others(t, first) THEN "exit_wait" ELSE "exit"
           a == IF first THEN arg[t] ELSE group_exit_code[g]
<1>1. pc[t] = "exit_group"
  BY Zenon DEF do_exit_group
<1>2. alloc[t] = "task" /\ g \in Pid /\ alloc[g] = "task" /\ leader[g] = g
  BY <1>1, RunsListed
<1>3. /\ doing_group_exit' = [doing_group_exit EXCEPT ![g] = TRUE]
      /\ group_exit_code' = IF first THEN [group_exit_code EXCEPT ![g] = arg[t]]
                                     ELSE group_exit_code
      /\ want' = IF first THEN [want EXCEPT ![g] = arg[t]] ELSE want
      /\ stopped' = [stopped EXCEPT ![g] = FALSE]
      /\ queue' = [u \in Pid |-> IF u \in threads[g] THEN Put(queue[u], "SIGKILL") ELSE queue[u]]
      /\ Goto(t, l, a)
      /\ UNCHANGED <<load, alloc, leader, exit_code>>
  BY Zenon DEF do_exit_group, group, tvars
<1>4. l \in {"exit_wait", "exit"}
  OBVIOUS
<1>5. /\ pc'[t] = l /\ \A u \in Pid : u # t => pc'[u] = pc[u] /\ arg'[u] = arg[u]
  BY <1>3, TreeParts, Zenon DEF Goto, DataTypes, TypeOK
<1>6. /\ doing_group_exit'[g] /\ ~stopped'[g]
      /\ first => group_exit_code'[g] = want'[g]
      /\ ~first => group_exit_code'[g] = group_exit_code[g] /\ want'[g] = want[g]
      /\ \A u \in Pid : u # g =>
           /\ doing_group_exit'[u] = doing_group_exit[u] /\ stopped'[u] = stopped[u]
           /\ group_exit_code'[u] = group_exit_code[u] /\ want'[u] = want[u]
  BY <1>2, <1>3, TreeParts, Zenon DEF DataTypes, TypeOK
<1>6a. UNCHANGED <<load, alloc, leader, exit_code>>
  BY <1>3, Zenon
<1> HIDE DEF l, a
<1>7. GroupStatus'
  BY <1>6, <1>6a, StatusParts DEF GroupStatus, Leads
<1>8. LeaderStatus'
  BY <1>5, <1>6, <1>6a, StatusParts DEF LeaderStatus, Leads
<1>9. WaitsInExit'
  <2> SUFFICES ASSUME NEW u \in Pid, pc'[u] = "exit_wait" PROVE doing_group_exit'[leader[u]]
    BY <1>6a, Zenon DEF WaitsInExit
  <2>1. CASE u = t
    BY <1>6, <2>1, Zenon
  <2>2. CASE u # t
    <3>1. pc[u] = "exit_wait" /\ doing_group_exit[leader[u]]
      BY <1>5, <2>2, StatusParts DEF WaitsInExit
    <3>2. leader[u] \in Pid
      BY <3>1, RunsListed, Zenon
    <3>3. QED
      BY <1>6, <3>1, <3>2, Zenon
  <2>3. QED
    BY <2>1, <2>2, Zenon
<1>10. Alone'
  BY <1>2, <1>3, <1>4, <1>5, StatusParts DEF Alone
<1>11. NoStops'
  <2> SUFFICES ASSUME "stop" \notin load.uses, NEW u \in Pid
               PROVE  ~stopped'[u] /\ queue'[u] \in Seq({"SIGKILL"})
    BY <1>3, Zenon DEF NoStops
  <2>1. ~stopped[u] /\ queue[u] \in Seq({"SIGKILL"})
    BY StatusParts, Zenon DEF NoStops
  <2>2. Put(queue[u], "SIGKILL") \in Seq({"SIGKILL"})
    BY <2>1, PutSeq
  <2>3. QED
    BY <1>3, <1>6, <2>1, <2>2, Zenon
<1>12. QED
  BY <1>7, <1>8, <1>9, <1>10, <1>11, Zenon DEF StatusInv

LEMMA StatusExits ==
  ASSUME TreeInv, StatusInv, NEW t \in Pid, NEW c,
         exit_group_waited(t) \/ check_group_exit(t) \/ sys_exit(t, c) \/ do_exit(t)
  PROVE  StatusInv'
<1>1. /\ UNCHANGED <<load, alloc, leader, doing_group_exit, group_exit_code, stopped, queue>>
  BY Zenon DEF exit_group_waited, check_group_exit, sys_exit, do_exit, tvars, gvars
<1>2. pc[t] # "none"
  BY Zenon DEF exit_group_waited, check_group_exit, sys_exit, do_exit, Running
<1>3. alloc[t] = "task" /\ leader[t] \in Pid
  BY <1>2, RunsListed, Zenon
<1>4. \A u \in Pid : u # t =>
         pc'[u] = pc[u] /\ arg'[u] = arg[u] /\ exit_code'[u] = exit_code[u] /\ want'[u] = want[u]
  <2>1. CASE exit_group_waited(t)
    BY <2>1, TreeParts, Zenon DEF exit_group_waited, tvars, DataTypes, TypeOK
  <2>2. CASE check_group_exit(t)
    BY <2>2 DEF check_group_exit, Goto, tvars
  <2>3. CASE sys_exit(t, c)
    BY <2>3, TreeParts, Zenon DEF sys_exit, Goto, tvars, DataTypes, TypeOK
  <2>4. CASE do_exit(t)
    BY <2>4, TreeParts, Zenon DEF do_exit, Goto, DataTypes, TypeOK
  <2>5. QED
    BY <2>1, <2>2, <2>3, <2>4, Zenon
<1>5. pc'[t] \in {"exit", "exit_locked"}
  BY TreeParts, Zenon DEF exit_group_waited, check_group_exit, sys_exit, do_exit, Goto, DataTypes,
     TypeOK
<1>6. \/ doing_group_exit[leader[t]] /\ want'[t] = want[t]
      \/ leader[t] # t
      \/ ~doing_group_exit[t] /\ pc'[t] = "exit" /\ arg'[t] = want'[t]
      \/ ~doing_group_exit[t] /\ pc'[t] = "exit_locked" /\ exit_code'[t] = want'[t]
  <2>1. CASE exit_group_waited(t)
    BY <2>1, StatusParts, Zenon DEF exit_group_waited, WaitsInExit
  <2>2. CASE check_group_exit(t)
    BY <2>2, Zenon DEF check_group_exit, group
  <2>3. CASE sys_exit(t, c)
    BY <2>3, TreeParts, Zenon DEF sys_exit, Goto, DataTypes, TypeOK
  <2>4. CASE do_exit(t)
    <3>1. /\ pc[t] = "exit" /\ pc'[t] = "exit_locked" /\ exit_code'[t] = arg[t] /\ want' = want
      BY <2>4, TreeParts, Zenon DEF do_exit, Goto, DataTypes, TypeOK
    <3>2. QED
      BY <1>3, <3>1, StatusParts, Zenon DEF LeaderStatus, Leads
  <2>5. QED
    BY <2>1, <2>2, <2>3, <2>4, Zenon
<1>7. GroupStatus'
  BY <1>1, <1>4, <1>6, StatusParts, Zenon DEF GroupStatus, Leads
<1>8. LeaderStatus'
  BY <1>1, <1>4, <1>6, StatusParts, Zenon DEF LeaderStatus, Leads
<1>9. WaitsInExit'
  BY <1>1, <1>4, <1>5, StatusParts, Zenon DEF WaitsInExit
<1>10. Alone'
  BY <1>1, <1>4, <1>5, StatusParts, Zenon DEF Alone
<1>11. NoStops'
  BY <1>1, StatusParts, Zenon DEF NoStops
<1>12. QED
  BY <1>7, <1>8, <1>9, <1>10, <1>11, Zenon DEF StatusInv

LEMMA StatusExitLocked ==
  ASSUME TreeInv, StatusInv, NEW t \in Pid, do_exit_locked(t)
  PROVE  StatusInv'
<1>1. /\ pc[t] = "exit_locked"
      /\ UNCHANGED <<load, gvars, want>>
      /\ queue' = [queue EXCEPT ![t] = <<>>] /\ pc' = [pc EXCEPT ![t] = "none"]
  BY Zenon DEF do_exit_locked
<1>1a. UNCHANGED <<load, doing_group_exit, group_exit_code, stopped, want>>
  BY <1>1, Zenon DEF gvars
<1>2. alloc[t] = "task" /\ leader[t] \in Pid
  BY <1>1, RunsListed, Zenon
<1>3. /\ pc'[t] = "none" /\ \A u \in Pid : u # t => pc'[u] = pc[u]
      /\ queue'[t] = <<>> /\ \A u \in Pid : u # t => queue'[u] = queue[u]
  BY <1>1, TreeParts DEF DataTypes, TypeOK
<1>4. /\ \A u \in Pid : u # t =>
           /\ alloc'[u] = alloc[u] /\ leader'[u] = leader[u] /\ exit_code'[u] = exit_code[u]
           /\ pc[u] = "exit" => arg'[u] = arg[u]
      /\ alloc'[t] = "task" => leader'[t] = leader[t] /\ exit_code'[t] = exit_code[t]
  <2>1. CASE t = leader[t]
    BY <2>1, Zenon DEF do_exit_locked, group
  <2>2. CASE t # leader[t]
    <3>1. /\ alloc' = [alloc EXCEPT ![t] = "free"] /\ leader' = [leader EXCEPT ![t] = NULL]
          /\ exit_code' = [exit_code EXCEPT ![t] = "0"]
          /\ arg' = [u \in Pid |-> IF pc[u] \in {"vfork_wait", "vfork_clear"} /\ arg[u] = t
                                   THEN NULL ELSE arg[u]]
      BY <2>2, Zenon DEF do_exit_locked, group
    <3>2. QED
      BY <3>1, TreeParts, Zenon DEF DataTypes, TypeOK
  <2>3. QED
    BY <2>1, <2>2, Zenon
<1>5. GroupStatus'
  BY <1>1a, <1>2, <1>4, StatusParts DEF GroupStatus, Leads
<1>6. LeaderStatus'
  <2>1. pc[t] = "exit_locked" /\ pc'[t] = "none" /\ \A u \in Pid : u # t => pc'[u] = pc[u]
    BY <1>1, <1>3, Zenon
  <2>2. QED
    BY <1>1a, <1>2, <1>4, <2>1, StatusParts DEF LeaderStatus, Leads
<1>7. WaitsInExit'
  BY <1>1a, <1>3, <1>4, StatusParts DEF WaitsInExit
<1>8. Alone'
  <2>1. pc'[t] = "none" /\ \A u \in Pid : u # t => pc'[u] = pc[u]
    BY <1>3, Zenon
  <2>2. QED
    BY <1>1a, <1>2, <1>4, <2>1, StatusParts DEF Alone
<1>9. NoStops'
  <2>1. <<>> \in Seq({"SIGKILL"})
    OBVIOUS
  <2>2. QED
    BY <1>1a, <1>3, <2>1, StatusParts, Zenon DEF NoStops
<1>10. QED
  BY <1>5, <1>6, <1>7, <1>8, <1>9, Zenon DEF StatusInv

LEMMA StatusStep ==
  ASSUME TreeInv, StatusInv, StatusNotReplaced, [Next]_vars
  PROVE  StatusInv'
<1>1. CASE UNCHANGED vars
  <2>1. /\ UNCHANGED <<load, alloc, leader, exit_code, doing_group_exit, want, pc, arg>>
        /\ UNCHANGED <<group_exit_code, stopped, queue>>
    BY <1>1 DEF vars, tvars, gvars
  <2>2. GroupStatus' /\ NoStops'
    BY <2>1, StatusParts, Zenon DEF GroupStatus, NoStops, Leads
  <2>3. QED
    BY <2>1, <2>2, StatusSame
<1>2. ASSUME NEW t \in Pid, Step(t) PROVE StatusInv'
  <2>1. CASE copy_task(t) \/ vfork_wakes(t) \/ vfork_clear(t) \/ reap(t) \/ wait_returns(t, FALSE)
    BY <2>1, StatusCopy, StatusCalls, StatusReap, Zenon
  <2>2. CASE Die(t)
    BY <2>2, StatusSignals, StatusExitGroup, StatusExits, StatusExitLocked DEF Die
  <2>3. QED
    BY <1>2, <2>1, <2>2, Zenon DEF Step
<1>3. ASSUME NEW t \in Pid, do_execve(t) PROVE StatusInv'
  <2>1. /\ UNCHANGED <<load, alloc, leader, exit_code, doing_group_exit, want, pc, arg>>
        /\ UNCHANGED <<group_exit_code, stopped, queue>>
    BY <1>3 DEF do_execve, tvars, gvars
  <2>2. GroupStatus' /\ NoStops'
    BY <2>1, StatusParts, Zenon DEF GroupStatus, NoStops, Leads
  <2>3. QED
    BY <2>1, <2>2, StatusSame
<1>4. ASSUME NEW t \in Pid, clone_fails(t) \/ wait_returns(t, TRUE) \/ notify_if_stopped(t)
      PROVE  StatusInv'
  BY <1>4, StatusCloneFails, StatusCalls, Zenon
<1>5. ASSUME NEW t \in Pid, NEW p \in Pid, NEW kind \in {"fork", "thread", "vfork"},
             task_create_(t, p, kind)
      PROVE  StatusInv'
  BY <1>5, StatusCreate DEF Cloning
<1>6. ASSUME NEW t \in Pid, NEW s \in {"SIGKILL", "SIGSTOP", "SIGCONT"}, send_signal(t, s)
      PROVE  StatusInv'
  BY <1>6, StatusSignals
<1>7. ASSUME NEW t \in Pid, NEW c, sys_exit(t, c) \/ sys_exit_group(t, c) \/ sys_wait4(t, c)
      PROVE  StatusInv'
  BY <1>7, StatusExits, StatusCalls
<1>8. QED
  BY <1>1, <1>2, <1>3, <1>4, <1>5, <1>6, <1>7, Zenon DEF Next

\* What wait returns (kernel/task.h), in whatever order threads exit, call exit_group,
\* are killed, stopped and reaped: the status of the first exit_group, or the leader's
\* own if there was none, for programs that do not both use threads and get stopped.
THEOREM ExitStatusReported ==
  Spec => [](ThreadsNotFreed /\ StatusNotReplaced => ExitStatus)
<1> DEFINE Inv == ThreadsNotFreed /\ StatusNotReplaced => TreeInv /\ StatusInv
<1>1. Init => Inv
  BY TreeStarts, StatusStarts
<1>2. Inv /\ [Next]_vars => Inv'
  <2>1. ThreadsNotFreed' /\ StatusNotReplaced' /\ [Next]_vars => ThreadsNotFreed /\ StatusNotReplaced
    BY LoadKept DEF ThreadsNotFreed, StatusNotReplaced
  <2>2. QED
    BY <2>1, TreeStep, StatusStep
<1>3. TreeInv /\ StatusInv => ExitStatus
  <2> SUFFICES ASSUME TreeInv, StatusInv, NEW g \in Pid, zombie[g]
               PROVE  wait_status(g) = want[g]
    BY DEF ExitStatus
  <2>1. alloc[g] = "task" /\ leader[g] = g /\ pc[g] = "none"
    BY ZombieAlone
  <2>2. QED
    BY <2>1, StatusParts, Zenon DEF GroupStatus, LeaderStatus, Leads, wait_status
<1>4. QED
  BY <1>1, <1>2, <1>3, PTL DEF Spec
=============================================================================
