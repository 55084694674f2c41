---------------------------- MODULE ProcessProofs ----------------------------
(***************************************************************************)
(* For any number of tasks, clone, vfork, signals and the way to exit keep *)
(* the tree of tasks, the lists of threads and the records of vfork        *)
(* parents sound. ExitProofs goes on with exit and wait.                   *)
(***************************************************************************)
EXTENDS Process, TLAPS

\* The conjuncts of the invariant, to be used without expanding its name.
LEMMA TreeParts ==
  TreeInv => /\ DataTypes /\ ArgsSound /\ NewSound /\ FreeSound /\ Listed /\ LeaderSound
             /\ ParentRuns /\ ThreadList /\ VforkSound /\ InitSound
  BY Zenon DEF TreeInv

LEMMA TreeStarts == Init => TreeInv
<1> SUFFICES ASSUME Init PROVE TreeInv
  OBVIOUS
<1> USE ProcessConstants DEF Init, All, Pid
<1>1. DataTypes
  BY DEF DataTypes, TypeOK, Status
<1>2. ArgsSound /\ NewSound /\ FreeSound /\ Listed
  BY DEF ArgsSound, NewSound, FreeSound, Listed, Cloning
<1>3. LeaderSound /\ ParentRuns /\ ThreadList /\ VforkSound /\ InitSound
  BY Zenon DEF LeaderSound, ParentRuns, ThreadList, VforkSound, InitSound, Tasks
<1>4. QED
  BY <1>1, <1>2, <1>3 DEF TreeInv

\* Where a task that has not exited stands.
LEMMA RunsListed ==
  ASSUME TreeInv, NEW t \in Pid, pc[t] # "none"
  PROVE  /\ alloc[t] = "task" /\ ~exiting[t] /\ ~zombie[t]
         /\ leader[t] \in Pid /\ alloc[leader[t]] = "task"
         /\ leader[leader[t]] = leader[t] /\ ~zombie[leader[t]]
         /\ t \in threads[leader[t]]
         /\ t # init => leader[t] # init
<1>1. alloc[t] = "task" /\ ~exiting[t] /\ ~zombie[t] /\ t \in threads[leader[t]]
  BY TreeParts DEF Listed
<1>2. leader[t] \in Pid /\ alloc[leader[t]] = "task" /\ leader[leader[t]] = leader[t]
  BY <1>1, TreeParts DEF LeaderSound, Tasks
<1>3. ~zombie[leader[t]]
  BY <1>1, <1>2, TreeParts DEF ThreadList
<1>4. t # init => leader[t] # init
  BY <1>1, TreeParts DEF InitSound
<1>5. QED
  BY <1>1, <1>2, <1>3, <1>4

\* A group that is a zombie belongs to nobody but its leader, who has exited.
LEMMA ZombieAlone ==
  ASSUME TreeInv, NEW c \in Pid, zombie[c]
  PROVE  /\ alloc[c] = "task" /\ exiting[c] /\ leader[c] = c /\ pc[c] = "none"
         /\ c # init /\ threads[c] = {}
         /\ \A u \in Tasks : u # c => leader[u] # c
<1>1. alloc[c] = "task" /\ exiting[c] /\ pc[c] = "none"
  BY TreeParts DEF Listed
<1>2. leader[c] \in Pid
  BY <1>1, TreeParts DEF LeaderSound, Tasks
<1>3. leader[c] = c
  BY <1>1, <1>2, TreeParts DEF Listed, ThreadList
<1>4. threads[c] = {} /\ c # init
  BY <1>1, <1>3, TreeParts DEF ThreadList, InitSound
<1>5. ASSUME NEW u \in Pid, alloc[u] = "task", u # c PROVE leader[u] # c
  BY <1>4, <1>5, TreeParts DEF Listed
<1>6. ASSUME NEW u \in Pid, alloc[u] = "new" PROVE leader[u] # c
  <2>1. /\ parent[u] \in Pid /\ pc[parent[u]] \in Cloning /\ arg[parent[u]] = u
    BY <1>6, TreeParts DEF NewSound
  <2>2. leader[u] = leader[parent[u]]
    BY <2>1, TreeParts DEF ArgsSound
  <2>3. parent[u] \in threads[leader[parent[u]]]
    BY <2>1, RunsListed DEF Cloning
  <2>4. QED
    BY <1>4, <2>2, <2>3
<1>7. QED
  BY <1>1, <1>3, <1>4, <1>5, <1>6, TreeParts, Zenon DEF Tasks, DataTypes, TypeOK

\* Nothing that the tree depends on changes.
LEMMA TreeSame ==
  ASSUME TreeInv, DataTypes',
         UNCHANGED <<load, alloc, leader, threads, parent, exiting, zombie, pc, arg, vfork>>,
         queue'[init] = queue[init], doing_group_exit'[init] = doing_group_exit[init]
  PROVE  TreeInv'
<1>1. ArgsSound'
  BY TreeParts DEF ArgsSound
<1>2. NewSound' /\ FreeSound' /\ Listed'
  BY TreeParts DEF NewSound, FreeSound, Listed
<1>3. LeaderSound' /\ ParentRuns' /\ ThreadList'
  BY TreeParts DEF LeaderSound, ParentRuns, ThreadList, Tasks
<1>4. VforkSound' /\ InitSound'
  BY TreeParts DEF VforkSound, InitSound, Tasks
<1>5. QED
  BY <1>1, <1>2, <1>3, <1>4 DEF TreeInv

\* A task that is neither inside clone nor a vfork parent goes on elsewhere, and
\* the tree stays as it is.
LEMMA Moves ==
  ASSUME TreeInv, DataTypes', NEW t \in Pid, NEW l, NEW a, Goto(t, l, a),
         pc[t] \notin Cloning \cup VforkParent \cup {"none"},
         l \notin Cloning \cup {"none"},
         l \in {"exit_group", "exit_wait", "exit"} => a \in Status,
         l = "wait" => a \in Pid \cup {NULL},
         t = init => l \in {"run", "wait"},
         UNCHANGED <<load, alloc, leader, threads, parent, exiting, zombie, vfork>>,
         queue'[init] = queue[init], doing_group_exit'[init] = doing_group_exit[init]
  PROVE  TreeInv'
<1>1. /\ pc'[t] = l /\ arg'[t] = a
      /\ \A u \in Pid : u # t => pc'[u] = pc[u] /\ arg'[u] = arg[u]
  BY TreeParts DEF Goto, DataTypes, TypeOK
<1>2. ArgsSound'
  BY <1>1, TreeParts DEF ArgsSound, Cloning
<1>3. NewSound' /\ FreeSound' /\ Listed'
  BY <1>1, TreeParts DEF NewSound, FreeSound, Listed
<1>4. LeaderSound' /\ ThreadList'
  BY TreeParts DEF LeaderSound, ThreadList, Tasks
<1>5. ParentRuns'
  BY <1>1, TreeParts DEF ParentRuns, Tasks
<1>6. VforkSound'
  BY <1>1, TreeParts DEF VforkSound, VforkParent, Tasks
<1>7. InitSound'
  BY <1>1, ProcessConstants, TreeParts DEF InitSound, Pid
<1>8. QED
  BY <1>2, <1>3, <1>4, <1>5, <1>6, <1>7, Zenon DEF TreeInv
------------------------------------------------------------------------------
(* clone.                                                                  *)

LEMMA TreeCreate ==
  ASSUME TreeInv, NEW t \in Pid, NEW p \in Pid, NEW kind \in Cloning, task_create_(t, p, kind)
  PROVE  TreeInv'
<1>1. /\ pc[t] = "run" /\ alloc[p] = "free" /\ p # t
      /\ t = init => kind = "fork"
      /\ kind = "thread" => "thread" \in load.uses
      /\ alloc[t] = "task" /\ ~exiting[t] /\ leader[t] \in Pid /\ leader[t] # p
      /\ alloc[leader[t]] = "task" /\ leader[leader[t]] = leader[t]
      /\ pc[p] = "none" /\ p # init
  BY RunsListed, TreeParts, Zenon DEF task_create_, Running, InitSound
<1>2. /\ alloc' = [alloc EXCEPT ![p] = "new"] /\ parent' = [parent EXCEPT ![p] = t]
      /\ leader' = [leader EXCEPT ![p] = leader[t]]
      /\ pc' = [pc EXCEPT ![t] = kind] /\ arg' = [arg EXCEPT ![t] = p]
      /\ UNCHANGED <<load, threads, exiting, zombie, exit_code, gvars, queue, vfork, done, want>>
  BY DEF task_create_, group
<1>3. /\ alloc'[p] = "new" /\ parent'[p] = t /\ leader'[p] = leader[t]
      /\ \A u \in Pid : u # p => alloc'[u] = alloc[u] /\ parent'[u] = parent[u] /\ leader'[u] = leader[u]
      /\ pc'[t] = kind /\ arg'[t] = p
      /\ \A u \in Pid : u # t => pc'[u] = pc[u] /\ arg'[u] = arg[u]
  BY <1>2, TreeParts DEF DataTypes, TypeOK
<1>4. DataTypes'
  BY <1>2, TreeParts, Zenon DEF DataTypes, TypeOK, Cloning, gvars
<1>5. ArgsSound'
  BY <1>1, <1>2, <1>3, TreeParts DEF ArgsSound, Cloning
<1>6. NewSound'
  BY <1>1, <1>2, <1>3, TreeParts DEF NewSound, FreeSound, Cloning
<1>7. FreeSound' /\ Listed'
  BY <1>1, <1>2, TreeParts DEF FreeSound, Listed, Cloning
<1>8. LeaderSound'
  BY <1>1, <1>3, TreeParts DEF LeaderSound, Tasks
<1>9. ParentRuns'
  BY <1>3, TreeParts DEF ParentRuns, Tasks, Cloning
<1>10. ThreadList'
  BY <1>1, <1>2, <1>3, TreeParts DEF ThreadList
<1>11. VforkSound'
  BY <1>1, <1>2, TreeParts DEF VforkSound, FreeSound, VforkParent, Tasks
<1>12. InitSound'
  BY <1>1, <1>2, TreeParts DEF InitSound, gvars
<1>13. QED
  BY <1>4, <1>5, <1>6, <1>7, <1>8, <1>9, <1>10, <1>11, <1>12 DEF TreeInv

\* What clone knows of the child it has made.
LEMMA ChildKnown ==
  ASSUME TreeInv, NEW t \in Pid, pc[t] \in Cloning
  PROVE  /\ arg[t] \in Pid /\ alloc[arg[t]] = "new" /\ arg[t] # t /\ arg[t] # init
         /\ parent[arg[t]] = t /\ leader[arg[t]] = leader[t] /\ leader[t] # arg[t]
         /\ pc[arg[t]] = "none" /\ ~exiting[arg[t]] /\ ~zombie[arg[t]]
         /\ \A u \in Pid : arg[t] \notin threads[u]
         /\ \A u \in Tasks : leader[u] # arg[t]
         /\ \A u \in Tasks \ {init} : parent[u] # arg[t]
         /\ \A u \in Pid : pc[u] \in Cloning /\ u # t => arg[u] # arg[t]
<1>1. /\ arg[t] \in Pid /\ alloc[arg[t]] = "new"
      /\ parent[arg[t]] = t /\ leader[arg[t]] = leader[t]
      /\ \A u \in Pid : pc[u] \in Cloning /\ u # t => arg[u] # arg[t]
  BY TreeParts DEF ArgsSound
<1>2. pc[arg[t]] = "none" /\ ~exiting[arg[t]] /\ ~zombie[arg[t]]
  BY <1>1, TreeParts DEF Listed, NewSound
<1>3. arg[t] # t /\ arg[t] # init
  BY <1>1, <1>2, TreeParts DEF InitSound, Cloning
<1>4. \A u \in Pid : arg[t] \notin threads[u]
  BY <1>1, TreeParts DEF ThreadList
<1>5. \A u \in Tasks : leader[u] # arg[t]
  BY <1>1, TreeParts DEF LeaderSound
<1>6. \A u \in Tasks \ {init} : parent[u] # arg[t]
  BY <1>2, TreeParts DEF ParentRuns
<1>7. leader[t] # arg[t]
  BY <1>1, RunsListed DEF Cloning
<1>8. QED
  BY <1>1, <1>2, <1>3, <1>4, <1>5, <1>6, <1>7, Zenon

LEMMA TreeCopy ==
  ASSUME TreeInv, NEW t \in Pid, copy_task(t)
  PROVE  TreeInv'
<1> DEFINE p == arg[t]
<1>0. pc[t] \in Cloning
  BY DEF copy_task, Cloning
<1>1. /\ p \in Pid /\ alloc[p] = "new" /\ p # t /\ p # init
      /\ parent[p] = t /\ leader[p] = leader[t] /\ leader[t] # p
      /\ pc[p] = "none" /\ ~exiting[p] /\ ~zombie[p]
      /\ \A u \in Pid : p \notin threads[u]
      /\ \A u \in Tasks : leader[u] # p
      /\ \A u \in Tasks \ {init} : parent[u] # p
      /\ \A u \in Pid : pc[u] \in Cloning /\ u # t => arg[u] # p
  BY <1>0, ChildKnown
<1>2. /\ alloc[t] = "task" /\ ~exiting[t] /\ leader[t] \in Pid /\ t \in threads[leader[t]]
      /\ alloc[leader[t]] = "task" /\ leader[leader[t]] = leader[t] /\ ~zombie[leader[t]]
      /\ t # init => leader[t] # init
  BY <1>0, RunsListed DEF Cloning
<1>3. /\ alloc' = [alloc EXCEPT ![p] = "task"]
      /\ UNCHANGED <<load, parent, exiting, zombie, exit_code, queue>>
  BY DEF copy_task
<1>3a. UNCHANGED <<load, parent, exiting, zombie, queue>>
  BY <1>3, Zenon
<1>4. alloc'[p] = "task" /\ \A u \in Pid : u # p => alloc'[u] = alloc[u]
  BY <1>1, <1>3, TreeParts DEF DataTypes, TypeOK
\* The child's group.
<1> DEFINE GroupTyped ==
             /\ leader' \in [Pid -> Pid \cup {NULL}] /\ threads' \in [Pid -> SUBSET Pid]
             /\ group_exit_code' \in [Pid -> Status] /\ want' \in [Pid -> Status]
             /\ doing_group_exit' \in [Pid -> BOOLEAN] /\ stopped' \in [Pid -> BOOLEAN]
           StepTyped ==
             /\ pc' \in [Pid -> {"none", "run", "fork", "thread", "vfork", "vfork_wait",
                                "vfork_clear", "exit_group", "exit_wait", "exit",
                                "exit_locked", "wait"}]
             /\ arg' \in [Pid -> Pid \cup Status \cup {NULL}]
             /\ vfork' \in [Pid -> Pid \cup {NULL}] /\ done' \in [Pid -> BOOLEAN]
<1>5. /\ GroupTyped
      /\ \A u \in Pid : u # p => leader'[u] = leader[u] /\ doing_group_exit'[u] = doing_group_exit[u]
      /\ leader'[p] \in {p, leader[t]} /\ (leader'[p] = leader[t] => pc[t] = "thread")
      /\ threads'[leader'[p]] = {p} \cup IF leader'[p] = p THEN {} ELSE threads[leader[t]]
      /\ \A u \in Pid : u # leader'[p] => threads'[u] = threads[u]
  <2>1. CASE pc[t] = "thread"
    <3>1. /\ threads' = [threads EXCEPT ![leader[t]] = threads[leader[t]] \cup {p}]
          /\ UNCHANGED <<leader, gvars, want>>
      BY <2>1 DEF copy_task, Join, group
    <3>2. QED
      BY <1>1, <1>2, <2>1, <3>1, TreeParts DEF gvars, DataTypes, TypeOK
  <2>2. CASE pc[t] # "thread"
    <3>1. /\ threads' = [threads EXCEPT ![p] = {p}]
          /\ leader' = [leader EXCEPT ![p] = p]
          /\ doing_group_exit' = [doing_group_exit EXCEPT ![p] = FALSE]
          /\ group_exit_code' = [group_exit_code EXCEPT ![p] = group_exit_code[leader[t]]]
          /\ stopped' = [stopped EXCEPT ![p] = stopped[leader[t]]]
          /\ want' = [want EXCEPT ![p] = "0"]
      BY <2>2 DEF copy_task, Join, group
    <3>2. QED
      BY <1>1, <1>2, <3>1, TreeParts DEF DataTypes, TypeOK, Status
  <2>3. QED
    BY <2>1, <2>2
\* Where the two go on.
<1>6. /\ StepTyped
      /\ pc'[p] = "run" /\ pc'[t] = IF pc[t] = "vfork" THEN "vfork_wait" ELSE "run"
      /\ \A u \in Pid : u # p /\ u # t => pc'[u] = pc[u]
      /\ \A u \in Pid : u # t => arg'[u] = arg[u]
      /\ \A u \in Pid : u # p => vfork'[u] = vfork[u]
      /\ vfork'[p] = vfork[p] \/ (vfork'[p] = t /\ pc[t] = "vfork" /\ arg'[t] = p)
  <2>1. CASE pc[t] = "vfork"
    <3>1. /\ vfork' = [vfork EXCEPT ![p] = t] /\ done' = [done EXCEPT ![t] = FALSE]
          /\ pc' = [pc EXCEPT ![p] = "run", ![t] = "vfork_wait"] /\ arg' = arg
      BY <2>1 DEF copy_task
    <3>2. QED
      BY <1>1, <2>1, <3>1, TreeParts, Zenon DEF DataTypes, TypeOK
  <2>2. CASE pc[t] # "vfork"
    <3>1. /\ pc' = [pc EXCEPT ![p] = "run", ![t] = "run"]
          /\ arg' = [arg EXCEPT ![t] = NULL] /\ UNCHANGED <<vfork, done>>
      BY <2>2 DEF copy_task
    <3>2. QED
      BY <1>1, <2>2, <3>1, TreeParts, Zenon DEF DataTypes, TypeOK
  <2>3. QED
    BY <2>1, <2>2
<1>7. DataTypes'
  BY <1>3, <1>5, <1>6, TreeParts, Zenon DEF DataTypes, TypeOK
<1> HIDE DEF p, GroupTyped, StepTyped
<1>8. ArgsSound'
  BY <1>0, <1>1, <1>2, <1>3a, <1>4, <1>5, <1>6, TreeParts DEF ArgsSound, Cloning
<1>9. NewSound'
  BY <1>1, <1>3a, <1>4, <1>6, TreeParts DEF NewSound, Cloning
<1>10. FreeSound' /\ Listed'
  <2>1. FreeSound'
    BY <1>3a, <1>4, <1>6, TreeParts DEF FreeSound
  <2>2. \A u \in Pid : u # p /\ alloc[u] = "task" => threads[leader[u]] \subseteq threads'[leader'[u]]
    BY <1>1, <1>5, TreeParts DEF LeaderSound, Tasks
  <2>3. /\ p \in threads'[leader'[p]] /\ pc'[p] = "run" /\ ~exiting[p] /\ ~zombie[p]
        /\ alloc[t] = "task" /\ ~exiting[t] /\ pc'[t] # "none"
        /\ exiting' = exiting /\ zombie' = zombie
    BY <1>1, <1>2, <1>3a, <1>5, <1>6
  <2>4. \A u \in Pid : u # p => leader'[u] = leader[u] /\ (u # t => pc'[u] = pc[u])
    BY <1>5, <1>6, Zenon
  <2>5. Listed'
    BY <1>4, <2>2, <2>3, <2>4, TreeParts DEF Listed
  <2>6. QED
    BY <2>1, <2>5
<1>11. LeaderSound'
  <2>1. /\ leader'[p] \in {p, leader[t]} /\ leader[t] # p
        /\ \A u \in Pid : u # p => leader'[u] = leader[u]
    BY <1>1, <1>5, Zenon
  <2>2. QED
    BY <1>0, <1>1, <1>2, <1>4, <2>1, TreeParts DEF LeaderSound, Tasks
<1>12. ParentRuns'
  BY <1>1, <1>3a, <1>4, <1>6, TreeParts DEF ParentRuns, Tasks
<1>13. ThreadList'
  <2>1. ASSUME NEW h \in Pid, NEW u \in threads'[h]
        PROVE  alloc'[u] = "task" /\ leader'[u] = h /\ ~exiting'[u]
    <3>1. CASE u = p
      BY <1>1, <1>3a, <1>4, <1>5, <2>1, <3>1, Zenon
    <3>2. CASE u # p
      <4>1. h = leader'[p] => u \in threads[h]
        <5>1. threads'[leader'[p]] = {p} \cup IF leader'[p] = p THEN {} ELSE threads[leader[t]]
          BY <1>5, Zenon
        <5>2. leader'[p] # p => leader'[p] = leader[t]
          BY <1>5, Zenon
        <5>3. QED
          BY <2>1, <3>2, <5>1, <5>2
      <4>2. u \in threads[h]
        BY <1>5, <2>1, <4>1, Zenon
      <4>3. u \in Pid /\ alloc[u] = "task" /\ leader[u] = h /\ ~exiting[u]
        BY <4>2, TreeParts, Zenon DEF DataTypes, TypeOK, ThreadList
      <4>4. QED
        BY <1>3a, <1>4, <1>5, <3>2, <4>3, Zenon
    <3>3. QED
      BY <3>1, <3>2
  <2>2. ASSUME NEW h \in Pid, alloc'[h] = "task", leader'[h] = h
        PROVE  zombie'[h] <=> threads'[h] = {}
    <3>1. CASE h = leader'[p]
      BY <1>1, <1>2, <1>3a, <1>5, <3>1, Zenon
    <3>2. CASE h # leader'[p]
      <4>1. h # p
        BY <2>2, <3>2, Zenon
      <4>2. /\ alloc[h] = "task" /\ leader[h] = h
            /\ threads'[h] = threads[h] /\ zombie'[h] = zombie[h]
        BY <1>3a, <1>4, <1>5, <2>2, <3>2, <4>1, Zenon
      <4>3. QED
        BY <4>2, TreeParts, Zenon DEF ThreadList
    <3>3. QED
      BY <3>1, <3>2
  <2>3. QED
    BY <2>1, <2>2, Zenon DEF ThreadList
<1>14. VforkSound'
  BY <1>0, <1>1, <1>3a, <1>4, <1>6, TreeParts DEF VforkSound, VforkParent, Cloning, Tasks
<1>15. InitSound'
  BY <1>1, <1>2, <1>3a, <1>4, <1>5, <1>6, TreeParts DEF InitSound, Pid
<1>16. QED
  BY <1>0, <1>1, <1>2, <1>3a, <1>4, <1>5, <1>6, <1>7, <1>8, <1>9, <1>10, <1>11, <1>12, <1>13,
     <1>14, <1>15 DEF TreeInv

\* Task c, on which nobody depends, is gone, and t goes on.
Gone(t, c) ==
    /\ c # t /\ alloc[t] = "task" /\ ~exiting[t]
    /\ pc[t] \in Cloning \cup {"wait"} /\ (pc[t] \in Cloning => arg[t] = c)
    /\ pc[c] = "none" /\ c # init /\ (alloc[c] = "new" => parent[c] = t)
    /\ \A u \in Pid : c \notin threads[u]
    /\ \A u \in Tasks : u # c => leader[u] # c
    /\ \A u \in Tasks \ {init} : parent[u] # c
    /\ load' = load /\ ~doing_group_exit'[init] /\ queue'[init] = queue[init]
    /\ alloc'[c] = "free" /\ ~exiting'[c] /\ ~zombie'[c] /\ vfork'[c] = NULL
    /\ pc'[c] = "none" /\ pc'[t] = "run" /\ threads'[c] \subseteq threads[c]
    /\ \A u \in Pid : u # c =>
         /\ alloc'[u] = alloc[u] /\ leader'[u] = leader[u] /\ exiting'[u] = exiting[u]
         /\ zombie'[u] = zombie[u] /\ vfork'[u] = vfork[u] /\ parent'[u] = parent[u]
         /\ threads'[u] = threads[u]
         /\ u # t => pc'[u] = pc[u]
         /\ u # t /\ (pc[u] \in VforkParent => arg[u] # c) => arg'[u] = arg[u]

LEMMA TreeGone ==
  ASSUME TreeInv, DataTypes', NEW t \in Pid, NEW c \in Pid, Gone(t, c)
  PROVE  TreeInv'
<1>0. alloc[c] = "new" => parent[c] = t
  BY Zenon DEF Gone
<1>1. ArgsSound'
  <2> SUFFICES ASSUME NEW u \in Pid, pc'[u] \notin VforkParent \cup {"none", "run"}
               PROVE  /\ pc'[u] \in {"exit_group", "exit_wait", "exit"} => arg'[u] \in Status
                      /\ pc'[u] \in Cloning =>
                           /\ arg'[u] \in Pid /\ alloc'[arg'[u]] = "new"
                           /\ parent'[arg'[u]] = u /\ leader'[arg'[u]] = leader'[u]
                      /\ pc'[u] = "thread" => "thread" \in load'.uses
                      /\ pc'[u] = "wait" => arg'[u] \in Pid \cup {NULL}
    BY Zenon DEF ArgsSound, VforkParent, Cloning, Gone
  <2>1. u # t /\ u # c /\ pc'[u] = pc[u] /\ arg'[u] = arg[u] /\ leader'[u] = leader[u]
    BY Zenon DEF Gone
  <2>2. pc[u] \in Cloning =>
          /\ arg[u] \in Pid /\ alloc[arg[u]] = "new"
          /\ parent[arg[u]] = u /\ leader[arg[u]] = leader[u]
    BY TreeParts, Zenon DEF ArgsSound, Gone
  <2>3. pc[u] \in Cloning => arg[u] # c
    BY <1>0, <2>1, <2>2, Zenon
  <2>4. /\ pc[u] \in {"exit_group", "exit_wait", "exit"} => arg[u] \in Status
        /\ pc[u] = "thread" => "thread" \in load.uses
        /\ pc[u] = "wait" => arg[u] \in Pid \cup {NULL}
    BY TreeParts, Zenon DEF ArgsSound, Gone
  <2>5. pc[u] \in Cloning => /\ alloc'[arg[u]] = "new" /\ parent'[arg[u]] = u
                             /\ leader'[arg[u]] = leader[u]
    BY <2>2, <2>3, Zenon DEF Gone
  <2>6. QED
    BY <2>1, <2>2, <2>4, <2>5, Zenon DEF Gone
<1>2. NewSound'
  <2> SUFFICES ASSUME NEW u \in Pid, alloc'[u] = "new"
               PROVE  /\ parent'[u] \in Pid /\ pc'[parent'[u]] \in Cloning
                      /\ arg'[parent'[u]] = u /\ ~exiting'[u] /\ ~zombie'[u]
    BY Zenon DEF NewSound, Gone
  <2>1. /\ u # c /\ alloc[u] = "new" /\ parent'[u] = parent[u]
        /\ exiting'[u] = exiting[u] /\ zombie'[u] = zombie[u]
    BY Zenon DEF Gone
  <2>2. /\ parent[u] \in Pid /\ pc[parent[u]] \in Cloning /\ arg[parent[u]] = u
        /\ ~exiting[u] /\ ~zombie[u]
    BY <2>1, TreeParts, Zenon DEF NewSound, Gone
  <2>3. parent[u] # t /\ parent[u] # c
    BY <2>1, <2>2, Zenon DEF Cloning, Gone
  <2>4. pc'[parent[u]] = pc[parent[u]] /\ arg'[parent[u]] = arg[parent[u]]
    BY <2>1, <2>2, <2>3, Zenon DEF Gone
  <2>5. QED
    BY <2>1, <2>2, <2>4, Zenon
<1>3. FreeSound' /\ Listed'
  <2>1. FreeSound'
    <3>1. /\ ~exiting'[c] /\ ~zombie'[c] /\ vfork'[c] = NULL
          /\ \A u \in Pid : u # c => /\ alloc'[u] = alloc[u] /\ exiting'[u] = exiting[u]
                                     /\ zombie'[u] = zombie[u] /\ vfork'[u] = vfork[u]
      BY Zenon DEF Gone
    <3>2. QED
      BY <3>1, TreeParts DEF FreeSound
  <2>2. Listed'
    BY TreeParts DEF Listed, LeaderSound, Cloning, Tasks, Gone
  <2>3. QED
    BY <2>1, <2>2
<1>4. LeaderSound' /\ ParentRuns'
  <2>1. /\ alloc'[c] = "free"
        /\ \A u \in Pid : u # c =>
             /\ alloc'[u] = alloc[u] /\ leader'[u] = leader[u] /\ parent'[u] = parent[u]
             /\ pc[u] # "none" => pc'[u] # "none"
    BY DEF Gone, Cloning
  <2>2. \A u \in Tasks : u # c => leader[u] # c /\ (u # init => parent[u] # c)
    BY Zenon DEF Gone, Tasks
  <2>3. LeaderSound'
    BY <2>1, <2>2, TreeParts DEF LeaderSound, Tasks
  <2>4. ParentRuns'
    BY <2>1, <2>2, TreeParts DEF ParentRuns, Tasks
  <2>5. QED
    BY <2>3, <2>4
<1>5. ThreadList'
  <2>1. \A u \in Pid : threads[u] \subseteq Pid
    BY TreeParts, Zenon DEF DataTypes, TypeOK, Gone
  <2>2. ASSUME NEW u \in threads[c] PROVE FALSE
    <3>1. u \in Pid /\ alloc[u] = "task" /\ leader[u] = c /\ u # c
      BY <2>1, <2>2, TreeParts, Zenon DEF ThreadList, Gone
    <3>2. QED
      BY <3>1, Zenon DEF Tasks, Gone
  <2>3. QED
    BY <2>1, <2>2, TreeParts DEF ThreadList, Gone
<1>6. VforkSound'
  BY TreeParts DEF VforkSound, VforkParent, Cloning, Tasks, Gone
<1>7. InitSound'
  BY TreeParts, Zenon DEF InitSound, Pid, Gone
<1>8. QED
  BY <1>1, <1>2, <1>3, <1>4, <1>5, <1>6, <1>7, Zenon DEF TreeInv

\* task_destroy of a task nobody depends on.
LEMMA TreeDestroy ==
  ASSUME TreeInv, NEW t \in Pid, NEW c \in Pid, task_destroy(c, t, "run"),
         pc[t] \in Cloning \cup {"wait"}, pc[t] \in Cloning => arg[t] = c,
         pc[c] = "none", c # init, alloc[c] # "free",
         alloc[c] = "new" => parent[c] = t /\ arg[t] = c /\ pc[t] \in Cloning,
         threads[c] = {} \/ leader[c] # c,
         \A u \in Pid : c \notin threads[u],
         \A u \in Tasks : u # c => leader[u] # c,
         parent' = [parent EXCEPT ![c] = NULL],
         threads' \in [Pid -> SUBSET Pid],
         \A u \in Pid : u # c => threads'[u] = threads[u],
         threads'[c] \subseteq threads[c],
         load' = load, done' = done, want' \in [Pid -> Status],
         group_exit_code' \in [Pid -> Status], doing_group_exit' \in [Pid -> BOOLEAN],
         stopped' \in [Pid -> BOOLEAN], ~doing_group_exit'[init]
  PROVE  TreeInv'
<1>1. c # t
  BY Zenon DEF Cloning
<1>2. /\ alloc' = [alloc EXCEPT ![c] = "free"]
      /\ leader' = [leader EXCEPT ![c] = NULL]
      /\ exiting' = [exiting EXCEPT ![c] = FALSE] /\ zombie' = [zombie EXCEPT ![c] = FALSE]
      /\ exit_code' = [exit_code EXCEPT ![c] = "0"]
      /\ queue' = [queue EXCEPT ![c] = <<>>]
      /\ pc' = [pc EXCEPT ![c] = "none", ![t] = "run"]
      /\ arg' = [u \in Pid |-> IF u \in {t, c} \/ (pc[u] \in {"vfork_wait", "vfork_clear"} /\ arg[u] = c)
                               THEN NULL ELSE arg[u]]
      /\ vfork' = [vfork EXCEPT ![c] = NULL]
  BY DEF task_destroy
<1>3. /\ alloc'[c] = "free" /\ leader'[c] = NULL /\ ~exiting'[c] /\ ~zombie'[c]
      /\ vfork'[c] = NULL /\ parent'[c] = NULL /\ pc'[c] = "none" /\ pc'[t] = "run"
      /\ \A u \in Pid : u # c =>
           /\ alloc'[u] = alloc[u] /\ leader'[u] = leader[u] /\ exiting'[u] = exiting[u]
           /\ zombie'[u] = zombie[u] /\ vfork'[u] = vfork[u] /\ parent'[u] = parent[u]
           /\ u # t => pc'[u] = pc[u]
           /\ u # t /\ (pc[u] \in VforkParent => arg[u] # c) => arg'[u] = arg[u]
  BY <1>2, TreeParts DEF DataTypes, TypeOK, VforkParent
<1>4. DataTypes'
  <2>1. TypeOK'
    BY <1>2, TreeParts, Zenon DEF DataTypes, TypeOK, Status
  <2>2. queue' \in [Pid -> Seq({"SIGKILL", "SIGSTOP"})]
    BY <1>2, TreeParts DEF DataTypes
  <2>3. arg' \in [Pid -> Pid \cup Status \cup {NULL}]
    BY <1>2, TreeParts DEF DataTypes
  <2>4. QED
    BY <2>1, <2>2, <2>3 DEF DataTypes
<1>5. alloc[t] = "task" /\ ~exiting[t]
  BY RunsListed DEF Cloning
<1>6. \A u \in Tasks \ {init} : parent[u] # c
  BY TreeParts, Zenon DEF ParentRuns
<1>7. init \in Pid /\ queue'[init] = queue[init]
  BY <1>2, TreeParts, Zenon DEF DataTypes, Pid
<1>8. \A u \in Pid : u # c =>
         /\ alloc'[u] = alloc[u] /\ leader'[u] = leader[u] /\ exiting'[u] = exiting[u]
         /\ zombie'[u] = zombie[u] /\ vfork'[u] = vfork[u] /\ parent'[u] = parent[u]
         /\ threads'[u] = threads[u]
         /\ u # t => pc'[u] = pc[u]
         /\ u # t /\ (pc[u] \in VforkParent => arg[u] # c) => arg'[u] = arg[u]
  BY <1>3, Zenon
<1>9. Gone(t, c)
  BY <1>1, <1>3, <1>5, <1>6, <1>7, <1>8, Zenon DEF Gone
<1>10. QED
  BY <1>4, <1>9, TreeGone, Zenon

LEMMA TreeCloneFails ==
  ASSUME TreeInv, ThreadsNotFreed, NEW t \in Pid, clone_fails(t)
  PROVE  TreeInv'
<1>0. pc[t] \in Cloning /\ pc[t] # "thread"
  BY TreeParts, Zenon DEF clone_fails, Cloning, ThreadsNotFreed, ArgsSound
<1>1. /\ threads' = threads /\ task_destroy(arg[t], t, "run")
      /\ parent' = [parent EXCEPT ![arg[t]] = NULL]
      /\ UNCHANGED <<load, gvars, done, want>>
  BY <1>0 DEF clone_fails
<1>2. /\ arg[t] \in Pid /\ alloc[arg[t]] = "new" /\ arg[t] # init
      /\ parent[arg[t]] = t /\ leader[arg[t]] = leader[t] /\ leader[t] # arg[t]
      /\ pc[arg[t]] = "none" /\ \A u \in Pid : arg[t] \notin threads[u]
      /\ \A u \in Tasks : leader[u] # arg[t]
  BY <1>0, ChildKnown, Zenon
<1>3. /\ threads' \in [Pid -> SUBSET Pid] /\ want' \in [Pid -> Status]
      /\ group_exit_code' \in [Pid -> Status] /\ doing_group_exit' \in [Pid -> BOOLEAN]
      /\ stopped' \in [Pid -> BOOLEAN] /\ ~doing_group_exit'[init]
  BY <1>1, TreeParts, Zenon DEF DataTypes, TypeOK, InitSound, gvars
<1>4. QED
  BY <1>0, <1>1, <1>2, <1>3, TreeDestroy, Zenon

LEMMA TreeVfork ==
  ASSUME TreeInv, NEW t \in Pid, vfork_wakes(t) \/ vfork_clear(t) \/ do_execve(t)
  PROVE  TreeInv'
<1>1. CASE vfork_wakes(t)
  <2>1. /\ pc[t] = "vfork_wait" /\ pc' = [pc EXCEPT ![t] = "vfork_clear"]
        /\ UNCHANGED <<tvars, gvars, queue, arg, vfork, done, want>>
    BY <1>1 DEF vfork_wakes
  <2>b. /\ pc[t] = "vfork_wait" /\ pc'[t] = "vfork_clear"
        /\ \A u \in Pid : u # t => pc'[u] = pc[u]
    BY <2>1, TreeParts DEF DataTypes, TypeOK
  <2>a. /\ UNCHANGED <<load, alloc, leader, threads, parent, exiting, zombie, queue, arg, vfork>>
        /\ UNCHANGED doing_group_exit
    BY <2>1, Zenon DEF tvars, gvars
  <2>3. DataTypes'
    BY <2>1, TreeParts, Zenon DEF DataTypes, TypeOK, tvars, gvars
  <2>4. ArgsSound' /\ NewSound' /\ FreeSound' /\ Listed'
    <3>1. ArgsSound'
      BY <2>a, <2>b, TreeParts DEF ArgsSound, Cloning
    <3>2. NewSound'
      BY <2>a, <2>b, TreeParts DEF NewSound, Cloning
    <3>3. FreeSound' /\ Listed'
      BY <2>a, <2>b, TreeParts DEF FreeSound, Listed
    <3>4. QED
      BY <3>1, <3>2, <3>3
  <2>5. LeaderSound' /\ ParentRuns' /\ ThreadList'
    <3>1. LeaderSound'
      BY <2>a, <2>b, TreeParts, Zenon DEF LeaderSound, Tasks
    <3>2. ParentRuns'
      BY <2>a, <2>b, TreeParts, Zenon DEF ParentRuns, Tasks
    <3>3. ThreadList'
      BY <2>a, <2>b, TreeParts DEF ThreadList
    <3>4. QED
      BY <3>1, <3>2, <3>3
  <2>6. VforkSound' /\ InitSound'
    <3>1. VforkSound'
      BY <2>a, <2>b, TreeParts DEF VforkSound, VforkParent, Tasks
    <3>2. InitSound'
      BY <2>a, <2>b, TreeParts, Zenon DEF InitSound, Pid
    <3>3. QED
      BY <3>1, <3>2
  <2>7. QED
    BY <2>3, <2>4, <2>5, <2>6 DEF TreeInv
<1>2. CASE vfork_clear(t)
  <2>1. /\ pc[t] = "vfork_clear" /\ Goto(t, "run", NULL)
        /\ vfork' = [p \in Pid |-> IF p = arg[t] THEN NULL ELSE vfork[p]]
        /\ done' = [done EXCEPT ![t] = FALSE]
        /\ UNCHANGED <<tvars, gvars, queue, want>>
    BY <1>2, Zenon DEF vfork_clear
  <2>a. /\ UNCHANGED <<load, alloc, leader, threads, parent, exiting, zombie, queue>>
        /\ UNCHANGED doing_group_exit
    BY <2>1, Zenon DEF tvars, gvars
  <2>2. /\ pc[t] = "vfork_clear" /\ pc'[t] = "run" /\ \A u \in Pid : u # t => pc'[u] = pc[u] /\ arg'[u] = arg[u]
    BY <2>1, TreeParts DEF Goto, DataTypes, TypeOK
  <2>3. DataTypes'
    BY <2>1, TreeParts, Zenon DEF Goto, DataTypes, TypeOK, tvars, gvars
  <2>4. \A p \in Pid : vfork'[p] \in {NULL, vfork[p]} /\ (p = arg[t] => vfork'[p] = NULL)
    BY <2>1, Zenon
  <2>5. ArgsSound' /\ NewSound' /\ FreeSound' /\ Listed'
    <3>1. ArgsSound'
      BY <2>a, <2>2, <2>4, TreeParts DEF ArgsSound, Cloning
    <3>2. NewSound'
      BY <2>a, <2>2, <2>4, TreeParts, Zenon DEF NewSound, Cloning
    <3>3. FreeSound' /\ Listed'
      BY <2>a, <2>2, <2>4, TreeParts DEF FreeSound, Listed
    <3>4. QED
      BY <3>1, <3>2, <3>3
  <2>6. LeaderSound' /\ ParentRuns' /\ ThreadList'
    <3>1. LeaderSound'
      BY <2>a, TreeParts, Zenon DEF LeaderSound, Tasks
    <3>2. ParentRuns'
      BY <2>a, <2>2, <2>4, TreeParts DEF ParentRuns, Tasks
    <3>3. ThreadList'
      BY <2>a, TreeParts DEF ThreadList
    <3>4. QED
      BY <3>1, <3>2, <3>3
  <2>7. VforkSound' /\ InitSound'
    BY <2>a, <2>2, <2>4, TreeParts DEF VforkSound, InitSound, Tasks, Pid
  <2>8. QED
    BY <2>3, <2>5, <2>6, <2>7, Zenon DEF TreeInv
<1>3. CASE do_execve(t)
  <2>1. done' \in [Pid -> BOOLEAN] /\ UNCHANGED <<tvars, gvars, queue, pc, arg, vfork, want>>
    BY <1>3, TreeParts, Zenon DEF do_execve, vfork_notify, DataTypes, TypeOK
  <2>2. QED
    <3>1. DataTypes'
      BY <2>1, TreeParts, Zenon DEF DataTypes, TypeOK, tvars, gvars
    <3>2. QED
      BY <2>1, <3>1, TreeSame, Zenon DEF tvars, gvars
<1>4. QED
  BY <1>1, <1>2, <1>3
------------------------------------------------------------------------------
(* Signals, and the way to exit.                                           *)

LEMMA PutSeq ==
  ASSUME NEW S, NEW q \in Seq(S), NEW s \in S
  PROVE  Put(q, s) \in Seq(S)
BY DEF Put

LEMMA TreeSend ==
  ASSUME TreeInv, NEW t \in Pid, NEW s \in {"SIGKILL", "SIGSTOP", "SIGCONT"}, send_signal(t, s)
  PROVE  TreeInv'
<1>1. /\ t # init
      /\ queue' = IF s = "SIGCONT" THEN queue ELSE [queue EXCEPT ![t] = Put(queue[t], s)]
      /\ stopped' = IF s = "SIGSTOP" THEN stopped ELSE [stopped EXCEPT ![t] = FALSE]
      /\ UNCHANGED <<tvars, doing_group_exit, group_exit_code, pc, arg, vfork, done, want>>
  BY Zenon DEF send_signal
<1>2. queue' \in [Pid -> Seq({"SIGKILL", "SIGSTOP"})]
  <2>1. queue[t] \in Seq({"SIGKILL", "SIGSTOP"})
    BY TreeParts DEF DataTypes
  <2>2. s # "SIGCONT" => Put(queue[t], s) \in Seq({"SIGKILL", "SIGSTOP"})
    BY <2>1, PutSeq
  <2>3. QED
    BY <1>1, <2>2, TreeParts DEF DataTypes
<1>3. stopped' \in [Pid -> BOOLEAN]
  BY <1>1, TreeParts DEF DataTypes, TypeOK
<1>4. queue'[init] = queue[init]
  BY <1>1, ProcessConstants, TreeParts DEF DataTypes, Pid
<1>5. DataTypes'
  BY <1>1, <1>2, <1>3, TreeParts, Zenon DEF DataTypes, TypeOK, tvars
<1>6. QED
  BY <1>1, <1>4, <1>5, TreeSame, Zenon DEF tvars

LEMMA TreeReceive ==
  ASSUME TreeInv, NEW t \in Pid, receive_signals(t)
  PROVE  TreeInv'
<1>1. /\ pc[t] = "run" /\ queue[t] # <<>>
      /\ queue' = [queue EXCEPT ![t] = Tail(queue[t])]
      /\ UNCHANGED <<tvars, doing_group_exit, vfork, done, want>>
  BY Zenon DEF receive_signals
<1>2. t # init /\ leader[t] \in Pid
  BY <1>1, RunsListed, TreeParts, Zenon DEF InitSound
<1>3. queue' \in [Pid -> Seq({"SIGKILL", "SIGSTOP"})] /\ queue'[init] = queue[init]
  <2>1. Tail(queue[t]) \in Seq({"SIGKILL", "SIGSTOP"})
    BY <1>1, TreeParts DEF DataTypes
  <2>2. QED
    BY <1>1, <1>2, <2>1, TreeParts, Zenon DEF DataTypes, Pid
<1>4. CASE Head(queue[t]) = "SIGSTOP"
  <2>1. /\ stopped' = [stopped EXCEPT ![leader[t]] = TRUE]
        /\ group_exit_code' = [group_exit_code EXCEPT ![leader[t]] = "SIGSTOP"]
        /\ UNCHANGED <<pc, arg>>
    BY <1>4, Zenon DEF receive_signals, group
  <2>2. stopped' \in [Pid -> BOOLEAN] /\ group_exit_code' \in [Pid -> Status]
    BY <2>1, TreeParts, Zenon DEF DataTypes, TypeOK, Status
  <2>3. DataTypes'
    BY <1>1, <1>3, <2>1, <2>2, TreeParts, Zenon DEF DataTypes, TypeOK, tvars
  <2>4. QED
    BY <1>1, <1>3, <2>1, <2>3, TreeSame, Zenon DEF tvars
<1>5. CASE Head(queue[t]) # "SIGSTOP"
  <2>1. Goto(t, "exit_group", "SIGKILL") /\ UNCHANGED <<stopped, group_exit_code>>
    BY <1>5, Zenon DEF receive_signals
  <2>2. DataTypes'
    BY <1>1, <1>3, <2>1, TreeParts, Zenon DEF Goto, DataTypes, TypeOK, tvars, Status
  <2>3. QED
    BY <1>1, <1>2, <1>3, <2>1, <2>2, Moves, Zenon DEF tvars, Cloning, VforkParent, Status
<1>6. QED
  BY <1>4, <1>5

\* A call that only moves its caller.
LEMMA TreeGoto ==
  ASSUME TreeInv, NEW t \in Pid, NEW l, NEW a, Goto(t, l, a),
         pc[t] \notin Cloning \cup VforkParent \cup {"none"},
         l \in {"run", "wait", "exit_group", "exit_wait", "exit", "exit_locked"},
         a \in Pid \cup Status \cup {NULL},
         l \in {"exit_group", "exit_wait", "exit"} => a \in Status,
         l = "wait" => a \in Pid \cup {NULL},
         t = init => l \in {"run", "wait"},
         UNCHANGED <<load, alloc, leader, threads, parent, exiting, zombie, vfork, done, stopped>>,
         exit_code' \in [Pid -> Status], group_exit_code' \in [Pid -> Status],
         want' \in [Pid -> Status],
         UNCHANGED <<queue, doing_group_exit>>
  PROVE  TreeInv'
<1>1. DataTypes'
  BY TreeParts, Zenon DEF Goto, DataTypes, TypeOK
<1>2. l \notin Cloning \cup {"none"}
  BY DEF Cloning
<1>3. QED
  BY <1>1, <1>2, Moves, Zenon

LEMMA TreeExits ==
  ASSUME TreeInv, NEW t \in Pid, NEW c \in Status,
         \/ sys_exit_group(t, c) \/ sys_exit(t, c) \/ do_exit(t)
         \/ exit_group_waited(t) \/ check_group_exit(t)
  PROVE  TreeInv'
<1> USE DEF Cloning, VforkParent
<1>0. /\ exit_code \in [Pid -> Status] /\ group_exit_code \in [Pid -> Status]
      /\ want \in [Pid -> Status]
  BY TreeParts DEF DataTypes, TypeOK
<1>1. CASE sys_exit_group(t, c)
  BY <1>0, <1>1, TreeGoto, Zenon DEF sys_exit_group, Running, tvars, gvars
<1>2. CASE sys_exit(t, c)
  <2>1. want' \in [Pid -> Status]
    BY <1>0, <1>2, Zenon DEF sys_exit
  <2>2. QED
    BY <1>0, <1>2, TreeGoto, Zenon DEF sys_exit, Running, tvars, gvars
<1>3. CASE do_exit(t)
  <2>1. pc[t] = "exit" /\ t # init /\ arg[t] \in Status
    BY <1>3, TreeParts, Zenon DEF do_exit, InitSound, ArgsSound
  <2>2. exit_code' \in [Pid -> Status]
    BY <1>0, <1>3, <2>1, Zenon DEF do_exit
  <2>3. QED
    BY <1>0, <1>3, <2>1, TreeGoto, Zenon DEF do_exit, gvars
<1>4. CASE exit_group_waited(t)
  <2>1. /\ pc[t] = "exit_wait" /\ t # init /\ arg[t] \in Status
    BY <1>4, TreeParts, Zenon DEF exit_group_waited, InitSound, ArgsSound
  <2>2. Goto(t, "exit", arg[t])
    BY <1>4, TreeParts DEF exit_group_waited, Goto, DataTypes
  <2>3. QED
    BY <1>0, <1>4, <2>1, <2>2, TreeGoto, Zenon DEF exit_group_waited, tvars, gvars
<1>5. CASE check_group_exit(t)
  <2>1. pc[t] = "run" /\ doing_group_exit[leader[t]] /\ Goto(t, "exit", group_exit_code[leader[t]])
    BY <1>5, Zenon DEF check_group_exit, group
  <2>2. leader[t] \in Pid
    BY <2>1, RunsListed, Zenon
  <2>3. t # init
    BY <2>1, TreeParts DEF InitSound
  <2>4. QED
    BY <1>0, <1>5, <2>1, <2>2, <2>3, TreeGoto, Zenon DEF check_group_exit, tvars, gvars
<1>6. QED
  BY <1>1, <1>2, <1>3, <1>4, <1>5

LEMMA TreeExitGroup ==
  ASSUME TreeInv, NEW t \in Pid, do_exit_group(t)
  PROVE  TreeInv'
<1> DEFINE g == leader[t]
           first == ~doing_group_exit[g]
           l == IF waits_for_others(t, first) THEN "exit_wait" ELSE "exit"
           a == IF first THEN arg[t] ELSE group_exit_code[g]
<1>1. pc[t] = "exit_group" /\ arg[t] \in Status /\ t # init
  BY TreeParts, Zenon DEF do_exit_group, ArgsSound, InitSound
<1>2. g \in Pid /\ g # init /\ init \notin threads[g]
  BY <1>1, RunsListed, TreeParts DEF ThreadList, InitSound
<1>3. /\ doing_group_exit' = [doing_group_exit EXCEPT ![g] = TRUE]
      /\ group_exit_code' = IF first THEN [group_exit_code EXCEPT ![g] = arg[t]]
                                     ELSE group_exit_code
      /\ want' = IF first THEN [want EXCEPT ![g] = arg[t]] ELSE want
      /\ stopped' = [stopped EXCEPT ![g] = FALSE]
      /\ queue' = [u \in Pid |-> IF u \in threads[g] THEN Put(queue[u], "SIGKILL") ELSE queue[u]]
      /\ Goto(t, l, a)
      /\ UNCHANGED <<tvars, vfork, done>>
  BY Zenon DEF do_exit_group, group
<1>4. l \in {"exit_wait", "exit"} /\ a \in Status
  BY <1>1, <1>2, TreeParts DEF DataTypes, TypeOK
<1> HIDE DEF l, a, first, g
<1>5. queue' \in [Pid -> Seq({"SIGKILL", "SIGSTOP"})]
  <2>1. \A u \in Pid : queue[u] \in Seq({"SIGKILL", "SIGSTOP"})
    BY TreeParts DEF DataTypes
  <2>2. \A u \in Pid : Put(queue[u], "SIGKILL") \in Seq({"SIGKILL", "SIGSTOP"})
    BY <2>1, PutSeq
  <2>3. QED
    BY <1>3, <2>1, <2>2, Zenon
<1>6. /\ doing_group_exit' \in [Pid -> BOOLEAN] /\ group_exit_code' \in [Pid -> Status]
      /\ want' \in [Pid -> Status] /\ stopped' \in [Pid -> BOOLEAN]
  BY <1>1, <1>3, TreeParts, Zenon DEF DataTypes, TypeOK
<1>7. DataTypes'
  BY <1>3, <1>4, <1>5, <1>6, TreeParts, Zenon DEF Goto, DataTypes, TypeOK, tvars
<1>8. queue'[init] = queue[init] /\ doing_group_exit'[init] = doing_group_exit[init]
  BY <1>2, <1>3, TreeParts, Zenon DEF Pid, DataTypes, TypeOK
<1>9. QED
  BY <1>1, <1>3, <1>4, <1>7, <1>8, Moves, Zenon DEF Cloning, VforkParent, tvars
==============================================================================
