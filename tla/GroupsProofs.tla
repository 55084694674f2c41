----------------------------- MODULE GroupsProofs -----------------------------
(***************************************************************************)
(* Process groups and sessions, for a pid table of any size: the lists are *)
(* exact, and a pid that names a group or a session is not given out.      *)
(***************************************************************************)
EXTENDS Groups, FiniteSetTheorems, TLAPS

LEMMA GroupStarts == GroupInit => GroupInv
<1> SUFFICES ASSUME GroupInit PROVE GroupInv
  OBVIOUS
<1> USE GroupConstants DEF GroupInit, construct_task, None, Pids
<1>1. 1 \in Pids
  OBVIOUS
<1>2. GroupTypes
  BY <1>1 DEF GroupTypes, ProcType
<1>3. Alive = {1} /\ proc[1].sid = 1 /\ proc[1].pgid = 1 /\ ~proc[1].tty
  BY <1>1 DEF Alive
<1>4. OnLists
  BY <1>1, <1>3, Zenon DEF OnLists
<1>5. TtyUsed /\ IdsKept
  BY <1>3 DEF TtyUsed, IdsKept
<1>6. SignalReachesGroup
  BY <1>1, <1>3 DEF SignalReachesGroup, send_group_signal
<1>7. QED
  BY <1>2, <1>4, <1>5, <1>6 DEF GroupInv

\* A pid that is free to be given out names nothing, unless somebody is misfiled.
LEMMA SpareUnused ==
  ASSUME GroupInv, NEW p \in Spare, Taken(p)
  PROVE  /\ p \in Pids /\ p \notin Alive
         /\ \A g \in Pids : p \notin pgroup[g] /\ p \notin session[g]
         /\ pgroup[p] = {} /\ session[p] = {}
         /\ "misfiled" \notin gholes => gholes' = gholes
         /\ gholes' = gholes \/ gholes' = gholes \cup {"reused"}
<1>1. p \in Pids /\ proc[p].st = "free" /\ session[p] = {} /\ pgroup[p] = {}
  BY DEF Spare, pid_empty
<1>2. p \notin Alive
  BY <1>1 DEF Alive
<1>3. \A g \in Pids : p \notin pgroup[g] /\ p \notin session[g]
  BY <1>2 DEF GroupInv, OnLists
<1>4. "misfiled" \notin gholes => ~InUse(p)
  BY <1>1 DEF InUse, GroupInv, OnLists, SignalReachesGroup, send_group_signal
<1>5. QED
  BY <1>1, <1>2, <1>3, <1>4 DEF Taken

\* A new process beside another one, or with lists of its own.
LEMMA GroupFork ==
  ASSUME GroupInv, NEW q \in Pids, fork(q)
  PROVE  GroupInv'
<1>1. q \in Alive /\ proc[q].st = "task"
  BY DEF fork, TaskPids, Alive
<1>2. PICK p \in Spare :
         /\ Taken(p) /\ proc' = [proc EXCEPT ![p] = [proc[q] EXCEPT !.parent = q]]
         /\ pgroup' = Beside(pgroup, q, p) /\ session' = Beside(session, q, p)
  BY Zenon DEF fork
<1>3. gload' = gload /\ tty_session' = tty_session
  BY DEF fork
<1>4. /\ p \in Pids /\ p \notin Alive /\ p # q
      /\ \A g \in Pids : p \notin pgroup[g] /\ p \notin session[g]
      /\ "misfiled" \notin gholes => gholes' = gholes
      /\ gholes' = gholes \/ gholes' = gholes \cup {"reused"}
  BY <1>1, <1>2, SpareUnused
<1>5. GroupTypes'
  <2>1. pgroup' \in [Pids -> SUBSET Pids] /\ session' \in [Pids -> SUBSET Pids]
    BY <1>2, <1>4 DEF GroupInv, GroupTypes, Beside
  <2>2. [proc[q] EXCEPT !.parent = q] \in ProcType
    <3>1. q \in 0 .. MAX_PID
      BY GroupConstants DEF Pids
    <3>2. proc[q] \in ProcType
      BY DEF GroupInv, GroupTypes
    <3>3. QED
      BY <3>1, <3>2 DEF ProcType
  <2>3. QED
    BY <1>2, <1>3, <1>4, <2>1, <2>2, Zenon DEF GroupInv, GroupTypes
<1>6. /\ Alive' = Alive \cup {p}
      /\ \A r \in Alive : proc'[r] = proc[r]
      /\ proc'[p].sid = proc[q].sid /\ proc'[p].pgid = proc[q].pgid /\ proc'[p].tty = proc[q].tty
  BY <1>1, <1>2, <1>4 DEF Alive, GroupInv, GroupTypes, ProcType
<1>7. \A g \in Pids, r \in Pids :
         /\ r \in pgroup'[g] <=> r \in pgroup[g] \/ (r = p /\ q \in pgroup[g])
         /\ r \in session'[g] <=> r \in session[g] \/ (r = p /\ q \in session[g])
  BY <1>2 DEF Beside
<1>8. OnLists'
  <2>1. ASSUME NEW r \in Alive'
        PROVE  /\ proc'[r].sid \in Pids /\ proc'[r].pgid \in Pids
               /\ \A s \in Pids : r \in session'[s] <=> s = proc'[r].sid
               /\ \E g \in Pids : \A h \in Pids : r \in pgroup'[h] <=> h = g
    <3>1. CASE r = p
      BY <1>1, <1>4, <1>6, <1>7, <3>1 DEF GroupInv, OnLists
    <3>2. CASE r \in Alive
      BY <1>4, <1>6, <1>7, <3>2 DEF GroupInv, OnLists, Alive
    <3>3. QED
      BY <1>6, <2>1, <3>1, <3>2
  <2>2. \A g \in Pids : pgroup'[g] \cup session'[g] \subseteq Alive'
    BY <1>5, <1>6, <1>7 DEF GroupInv, OnLists, GroupTypes
  <2>3. QED
    BY <2>1, <2>2 DEF OnLists
<1>9. TtyUsed'
  BY <1>1, <1>3, <1>6 DEF GroupInv, TtyUsed
<1>10. IdsKept'
  <2>1. gholes' \subseteq KnownHoles'
    BY <1>3, <1>4, Zenon DEF GroupInv, IdsKept, KnownHoles
  <2>2. tty_session # 0 => session[tty_session] \subseteq session'[tty_session]
    BY <1>7 DEF GroupInv, GroupTypes, Pids
  <2>3. QED
    BY <1>3, <1>4, <2>1, <2>2 DEF GroupInv, IdsKept
<1>11. "misfiled" \notin gholes' => SignalReachesGroup'
  <2> SUFFICES ASSUME "misfiled" \notin gholes', NEW r \in Alive'
               PROVE  r \in pgroup'[proc'[r].pgid]
    BY DEF SignalReachesGroup, send_group_signal
  <2>1. \A u \in Alive : u \in pgroup[proc[u].pgid] /\ proc[u].pgid \in Pids /\ u \in Pids
    BY <1>4 DEF GroupInv, SignalReachesGroup, send_group_signal, OnLists, Alive
  <2>2. QED
    BY <1>1, <1>4, <1>6, <1>7, <2>1
<1>12. QED
  BY <1>5, <1>8, <1>9, <1>10, <1>11 DEF GroupInv

LEMMA GroupTerminal ==
  ASSUME GroupInv, become_new_init_child
  PROVE  GroupInv'
<1>1. PICK p \in Spare :
         /\ Taken(p) /\ proc' = [proc EXCEPT ![p] = construct_task(p, 1)]
         /\ pgroup' = [pgroup EXCEPT ![p] = {p}] /\ session' = [session EXCEPT ![p] = {p}]
  BY Zenon DEF become_new_init_child
<1>2. gload' = gload /\ tty_session' = tty_session
  BY DEF become_new_init_child
<1>3. /\ p \in Pids /\ p \notin Alive /\ pgroup[p] = {} /\ session[p] = {}
      /\ \A g \in Pids : p \notin pgroup[g] /\ p \notin session[g]
      /\ "misfiled" \notin gholes => gholes' = gholes
      /\ gholes' = gholes \/ gholes' = gholes \cup {"reused"}
  BY <1>1, SpareUnused
<1>4. GroupTypes'
  BY <1>1, <1>2, <1>3, GroupConstants, SMTT(30) DEF GroupInv, GroupTypes, ProcType, Pids, construct_task
<1>5. /\ Alive' = Alive \cup {p}
      /\ \A r \in Alive : proc'[r] = proc[r]
      /\ proc'[p].sid = p /\ proc'[p].pgid = p /\ ~proc'[p].tty
  BY <1>1, <1>3 DEF Alive, GroupInv, GroupTypes, construct_task
<1>6. \A g \in Pids, r \in Pids :
         /\ r \in pgroup'[g] <=> r \in pgroup[g] \/ (r = p /\ g = p)
         /\ r \in session'[g] <=> r \in session[g] \/ (r = p /\ g = p)
  BY <1>1, <1>3 DEF GroupInv, GroupTypes
<1>7. OnLists'
  <2>1. ASSUME NEW r \in Alive'
        PROVE  /\ proc'[r].sid \in Pids /\ proc'[r].pgid \in Pids
               /\ \A s \in Pids : r \in session'[s] <=> s = proc'[r].sid
               /\ \E g \in Pids : \A h \in Pids : r \in pgroup'[h] <=> h = g
    <3>1. CASE r = p
      BY <1>3, <1>5, <1>6, <3>1
    <3>2. CASE r \in Alive
      BY <1>3, <1>5, <1>6, <3>2 DEF GroupInv, OnLists, Alive
    <3>3. QED
      BY <1>5, <2>1, <3>1, <3>2
  <2>2. \A g \in Pids : pgroup'[g] \cup session'[g] \subseteq Alive'
    BY <1>4, <1>5, <1>6 DEF GroupInv, OnLists, GroupTypes
  <2>3. QED
    BY <2>1, <2>2 DEF OnLists
<1>8. TtyUsed'
  BY <1>2, <1>5 DEF GroupInv, TtyUsed
<1>9. IdsKept'
  <2>1. gholes' \subseteq KnownHoles'
    BY <1>2, <1>3, Zenon DEF GroupInv, IdsKept, KnownHoles
  <2>2. tty_session # 0 => session[tty_session] \subseteq session'[tty_session]
    BY <1>6 DEF GroupInv, GroupTypes, Pids
  <2>3. QED
    BY <1>2, <1>3, <2>1, <2>2 DEF GroupInv, IdsKept
<1>10. "misfiled" \notin gholes' => SignalReachesGroup'
  <2> SUFFICES ASSUME "misfiled" \notin gholes', NEW r \in Alive'
               PROVE  r \in pgroup'[proc'[r].pgid]
    BY DEF SignalReachesGroup, send_group_signal
  <2>1. \A u \in Alive : u \in pgroup[proc[u].pgid] /\ proc[u].pgid \in Pids /\ u \in Pids
    BY <1>3 DEF GroupInv, SignalReachesGroup, send_group_signal, OnLists, Alive
  <2>2. QED
    BY <1>3, <1>5, <1>6, <2>1
<1>11. QED
  BY <1>4, <1>7, <1>8, <1>9, <1>10 DEF GroupInv
------------------------------------------------------------------------------
LEMMA GroupMove ==
  ASSUME GroupInv, NEW q \in Pids, NEW id \in Pids, NEW pgid \in Pids, sys_setpgid(q, id, pgid)
  PROVE  GroupInv'
<1>1. /\ id \in Alive /\ (id # pgid => "join" \in gload.uses)
      /\ proc' = [proc EXCEPT ![id].pgid = pgid]
      /\ pgroup' = [Without(pgroup, id) EXCEPT ![id] = Without(pgroup, id)[id] \cup {id}]
      /\ gholes' = IF id # pgid THEN gholes \cup {"misfiled"} ELSE gholes
      /\ UNCHANGED <<gload, session, tty_session>>
  BY DEF sys_setpgid, Moved
<1>2. /\ \A r \in Pids : /\ proc'[r].st = proc[r].st /\ proc'[r].sid = proc[r].sid
                         /\ proc'[r].tty = proc[r].tty /\ (r # id => proc'[r].pgid = proc[r].pgid)
      /\ proc'[id].pgid = pgid
  BY <1>1 DEF GroupInv, GroupTypes, ProcType
<1>3. GroupTypes'
  <2>1. pgroup' \in [Pids -> SUBSET Pids]
    BY <1>1 DEF GroupInv, GroupTypes, Without
  <2>2. pgid \in 0 .. MAX_PID
    BY GroupConstants DEF Pids
  <2>3. proc' \in [Pids -> ProcType]
    BY <1>1, <2>2 DEF GroupInv, GroupTypes, ProcType
  <2>4. QED
    BY <1>1, <2>1, <2>3 DEF GroupInv, GroupTypes
<1>4. Alive' = Alive
  BY <1>2 DEF Alive
<1>5. \A g \in Pids, r \in Pids :
         r \in pgroup'[g] <=> (r # id /\ r \in pgroup[g]) \/ (r = id /\ g = id)
  BY <1>1 DEF Without, GroupInv, GroupTypes
<1>6. OnLists'
  <2>1. ASSUME NEW r \in Alive
        PROVE  /\ proc'[r].sid \in Pids /\ proc'[r].pgid \in Pids
               /\ \A s \in Pids : r \in session'[s] <=> s = proc'[r].sid
    BY <1>1, <1>2 DEF GroupInv, OnLists, Alive
  <2>2. ASSUME NEW r \in Alive
        PROVE  \E g \in Pids : \A h \in Pids : r \in pgroup'[h] <=> h = g
    <3>1. CASE r = id
      BY <1>5, <3>1
    <3>2. CASE r # id
      BY <1>5, <3>2 DEF GroupInv, OnLists, Alive
    <3>3. QED
      BY <3>1, <3>2
  <2>3. \A g \in Pids : pgroup'[g] \cup session'[g] \subseteq Alive
    BY <1>1, <1>3, <1>5 DEF GroupInv, OnLists, GroupTypes
  <2>4. QED
    BY <1>4, <2>1, <2>2, <2>3 DEF OnLists
<1>7. TtyUsed'
  BY <1>1, <1>2, <1>4 DEF GroupInv, TtyUsed, Alive
<1>8. IdsKept'
  BY <1>1 DEF GroupInv, IdsKept, KnownHoles
<1>9. "misfiled" \notin gholes' => SignalReachesGroup'
  <2> SUFFICES ASSUME "misfiled" \notin gholes', NEW r \in Alive
               PROVE  r \in pgroup'[proc'[r].pgid]
    BY <1>4 DEF SignalReachesGroup, send_group_signal
  <2>1. id = pgid /\ "misfiled" \notin gholes
    BY <1>1
  <2>2. r \in pgroup[proc[r].pgid] /\ proc[r].pgid \in Pids /\ r \in Pids
    BY <2>1 DEF GroupInv, SignalReachesGroup, send_group_signal, OnLists, Alive
  <2>3. QED
    BY <1>2, <1>5, <2>1, <2>2
<1>10. QED
  BY <1>3, <1>6, <1>7, <1>8, <1>9 DEF GroupInv

\* Leaving a session: what can go wrong then is known, and a terminal whose session
\* has lost its last member is given up.
LEMMA LeaveSession ==
  ASSUME GroupInv, NEW p \in Alive, task_leave_session(p), gload' = gload
  PROVE  /\ tty_session' \in {0, tty_session}
         /\ gholes' \subseteq KnownHoles' /\ gholes \subseteq gholes'
         /\ "misfiled" \in gholes' <=> "misfiled" \in gholes
         /\ "reused" \in gholes' <=> "reused" \in gholes
         /\ tty_session' # 0 /\ "tty_kept" \notin gholes' => session[tty_session'] \ {p} # {}
<1> DEFINE s == proc[p].sid
           last == session[s] = {p}
<1>1. /\ tty_session' = IF proc[p].tty /\ last THEN 0 ELSE tty_session
      /\ gholes' = gholes \cup
           (IF proc[p].tty /\ last /\ proc[s].st = "free" /\ pgroup[s] = {} THEN {"no_pid"} ELSE {}) \cup
           (IF ~proc[p].tty /\ last /\ tty_session = s THEN {"tty_kept"} ELSE {})
  BY DEF task_leave_session
<1>2. s \in Pids /\ s # 0 /\ \A u \in Pids : p \in session[u] <=> u = s
  BY DEF GroupInv, OnLists, Pids
<1>3. tty_session' \in {0, tty_session} /\ gholes \subseteq gholes'
  BY <1>1
<1>4. gholes' \subseteq KnownHoles'
  <2>1. proc[p].tty \/ tty_session = s => "tty" \in gload.uses
    BY <1>2 DEF GroupInv, TtyUsed
  <2>2. KnownHoles' = KnownHoles /\ gholes \subseteq KnownHoles
    BY DEF KnownHoles, GroupInv, IdsKept
  <2>3. QED
    BY <1>1, <2>1, <2>2 DEF KnownHoles
<1>5. /\ "misfiled" \in gholes' <=> "misfiled" \in gholes
      /\ "reused" \in gholes' <=> "reused" \in gholes
  BY <1>1
<1>6. ASSUME tty_session' # 0, "tty_kept" \notin gholes'
      PROVE  session[tty_session'] \ {p} # {}
  <2>1. /\ tty_session' = tty_session /\ tty_session \in Pids /\ session[tty_session] # {}
        /\ ~(proc[p].tty /\ last) /\ ~(~proc[p].tty /\ last /\ tty_session = s)
    BY <1>1, <1>3, <1>6, SMTT(30) DEF GroupInv, GroupTypes, IdsKept, Pids
  <2>2. CASE tty_session = s
    <3>1. ~last
      BY <2>1, <2>2 DEF GroupInv, GroupTypes, Alive
    <3>2. QED
      BY <1>2, <2>1, <2>2, <3>1
  <2>3. CASE tty_session # s
    BY <1>2, <2>1, <2>3
  <2>4. QED
    BY <2>2, <2>3
<1>7. QED
  BY <1>3, <1>4, <1>5, <1>6

LEMMA GroupSetsid ==
  ASSUME GroupInv, NEW p \in Pids, task_setsid(p)
  PROVE  GroupInv'
<1>1. /\ p \in Alive /\ task_leave_session(p) /\ gload' = gload
      /\ session' = [Without(session, p) EXCEPT ![p] = Without(session, p)[p] \cup {p}]
      /\ pgroup' = [Without(pgroup, p) EXCEPT ![p] = Without(pgroup, p)[p] \cup {p}]
      /\ proc' = [proc EXCEPT ![p].sid = p, ![p].pgid = p, ![p].tty = FALSE]
  BY DEF task_setsid, TaskPids, Alive
<1>2. /\ tty_session' \in {0, tty_session}
      /\ gholes' \subseteq KnownHoles' /\ gholes \subseteq gholes'
      /\ "misfiled" \in gholes' <=> "misfiled" \in gholes
      /\ "reused" \in gholes' <=> "reused" \in gholes
      /\ tty_session' # 0 /\ "tty_kept" \notin gholes' => session[tty_session'] \ {p} # {}
  BY <1>1, LeaveSession
<1>3. /\ \A r \in Pids : proc'[r].st = proc[r].st /\ (r # p => proc'[r] = proc[r])
      /\ proc'[p].sid = p /\ proc'[p].pgid = p /\ ~proc'[p].tty
  BY <1>1 DEF GroupInv, GroupTypes, ProcType
<1>4. GroupTypes'
  <2>1. pgroup' \in [Pids -> SUBSET Pids] /\ session' \in [Pids -> SUBSET Pids]
    BY <1>1 DEF GroupInv, GroupTypes, Without
  <2>2. proc' \in [Pids -> ProcType]
    <3>1. p \in 0 .. MAX_PID
      BY GroupConstants DEF Pids
    <3>2. proc[p] \in ProcType
      BY DEF GroupInv, GroupTypes
    <3>3. [proc[p] EXCEPT !.sid = p, !.pgid = p, !.tty = FALSE] \in ProcType
      BY <3>1, <3>2, Zenon DEF ProcType
    <3>4. proc' = [proc EXCEPT ![p] = [proc[p] EXCEPT !.sid = p, !.pgid = p, !.tty = FALSE]]
      BY <1>1, Zenon DEF GroupInv, GroupTypes
    <3>5. QED
      BY <3>3, <3>4, Zenon DEF GroupInv, GroupTypes
  <2>3. tty_session' \in 0 .. MAX_PID
    BY <1>2, GroupConstants DEF GroupInv, GroupTypes
  <2>4. QED
    BY <1>1, <2>1, <2>2, <2>3 DEF GroupInv, GroupTypes
<1>5. Alive' = Alive
  BY <1>3 DEF Alive
<1>6. \A g \in Pids, r \in Pids :
         /\ r \in pgroup'[g] <=> (r # p /\ r \in pgroup[g]) \/ (r = p /\ g = p)
         /\ r \in session'[g] <=> (r # p /\ r \in session[g]) \/ (r = p /\ g = p)
  BY <1>1 DEF Without, GroupInv, GroupTypes
<1>7. OnLists'
  <2>1. ASSUME NEW r \in Alive
        PROVE  /\ proc'[r].sid \in Pids /\ proc'[r].pgid \in Pids
               /\ \A s \in Pids : r \in session'[s] <=> s = proc'[r].sid
               /\ \E g \in Pids : \A h \in Pids : r \in pgroup'[h] <=> h = g
    <3>1. CASE r = p
      BY <1>3, <1>6, <3>1
    <3>2. CASE r # p
      BY <1>3, <1>6, <3>2 DEF GroupInv, OnLists, Alive
    <3>3. QED
      BY <3>1, <3>2
  <2>2. \A g \in Pids : pgroup'[g] \cup session'[g] \subseteq Alive
    BY <1>1, <1>4, <1>6 DEF GroupInv, OnLists, GroupTypes
  <2>3. QED
    BY <1>5, <2>1, <2>2 DEF OnLists
<1>8. TtyUsed'
  BY <1>1, <1>2, <1>3, <1>5, Zenon DEF GroupInv, TtyUsed, Alive
<1>9. IdsKept'
  <2>1. ASSUME tty_session' # 0, "tty_kept" \notin gholes' PROVE session'[tty_session'] # {}
    BY <1>2, <1>4, <1>6, <2>1 DEF GroupTypes, GroupInv, Pids
  <2>2. QED
    BY <1>2, <2>1 DEF GroupInv, IdsKept
<1>10. "misfiled" \notin gholes' => SignalReachesGroup'
  <2> SUFFICES ASSUME "misfiled" \notin gholes', NEW r \in Alive
               PROVE  r \in pgroup'[proc'[r].pgid]
    BY <1>5 DEF SignalReachesGroup, send_group_signal
  <2>1. r \in pgroup[proc[r].pgid] /\ proc[r].pgid \in Pids /\ r \in Pids
    BY <1>2 DEF GroupInv, SignalReachesGroup, send_group_signal, OnLists, Alive
  <2>2. QED
    BY <1>3, <1>6, <2>1
<1>11. QED
  BY <1>4, <1>7, <1>8, <1>9, <1>10 DEF GroupInv

LEMMA GroupTty ==
  ASSUME GroupInv, NEW p \in Pids, tty_set_controlling(p)
  PROVE  GroupInv'
<1>1. /\ "tty" \in gload.uses /\ p \in Alive /\ proc[p].sid = p
      /\ proc' = [proc EXCEPT ![p].tty = TRUE] /\ tty_session' = p
      /\ UNCHANGED <<gload, pgroup, session, gholes>>
  BY DEF tty_set_controlling, TaskPids, Alive
<1>2. \A r \in Pids : proc'[r].st = proc[r].st /\ proc'[r].sid = proc[r].sid /\ proc'[r].pgid = proc[r].pgid
  BY <1>1 DEF GroupInv, GroupTypes, ProcType
<1>3. GroupTypes'
  <2>1. p \in 0 .. MAX_PID
    BY GroupConstants DEF Pids
  <2>2. proc[p] \in ProcType
    BY DEF GroupInv, GroupTypes
  <2>3. [proc[p] EXCEPT !.tty = TRUE] \in ProcType
    BY <2>2, Zenon DEF ProcType
  <2>4. proc' = [proc EXCEPT ![p] = [proc[p] EXCEPT !.tty = TRUE]]
    BY <1>1, Zenon
  <2>5. proc' \in [Pids -> ProcType]
    BY <2>3, <2>4, Zenon DEF GroupInv, GroupTypes
  <2>6. QED
    BY <1>1, <2>1, <2>5, Zenon DEF GroupInv, GroupTypes
<1>4. Alive' = Alive
  BY <1>2 DEF Alive
<1>5. OnLists'
  <2>1. \A r \in Alive : r \in Pids
    BY DEF Alive
  <2>2. QED
    BY <1>1, <1>2, <1>4, <2>1 DEF GroupInv, OnLists
<1>6. TtyUsed'
  BY <1>1 DEF TtyUsed
<1>7. IdsKept'
  BY <1>1 DEF GroupInv, IdsKept, KnownHoles, OnLists
<1>8. "misfiled" \notin gholes' => SignalReachesGroup'
  BY <1>1, <1>2, <1>4 DEF GroupInv, SignalReachesGroup, send_group_signal, Alive
<1>9. QED
  BY <1>3, <1>5, <1>6, <1>7, <1>8 DEF GroupInv

LEMMA GroupExit ==
  ASSUME GroupInv, NEW p \in Pids, do_exit_leader(p)
  PROVE  GroupInv'
<1>1. /\ p \in Alive
      /\ proc' = [q \in Pids |-> IF q = p THEN [proc[q] EXCEPT !.st = "zombie"]
                                 ELSE IF proc[q].parent = p THEN [proc[q] EXCEPT !.parent = 1]
                                 ELSE proc[q]]
      /\ UNCHANGED <<gload, pgroup, session, tty_session, gholes>>
  BY DEF do_exit_leader, TaskPids, Alive
<1>2. 1 \in 0 .. MAX_PID
  BY GroupConstants
<1>3. proc' \in [Pids -> ProcType]
  <2>1. \A q \in Pids : proc[q] \in ProcType
    BY DEF GroupInv, GroupTypes
  <2>2. \A q \in Pids : [proc[q] EXCEPT !.st = "zombie"] \in ProcType
    BY <2>1 DEF ProcType
  <2>3. \A q \in Pids : [proc[q] EXCEPT !.parent = 1] \in ProcType
    BY <1>2, <2>1 DEF ProcType
  <2>4. QED
    BY <1>1, <2>1, <2>2, <2>3
<1>4. /\ \A r \in Pids : /\ proc'[r].sid = proc[r].sid /\ proc'[r].pgid = proc[r].pgid
                         /\ proc'[r].tty = proc[r].tty
                         /\ r # p => proc'[r].st = proc[r].st
      /\ proc'[p].st = "zombie"
  <2>1. \A q \in Pids : proc[q] \in ProcType
    BY DEF GroupInv, GroupTypes
  <2>2. QED
    BY <1>1, <2>1 DEF ProcType
<1>5. Alive' = Alive /\ \A r \in Alive : r \in Pids
  BY <1>1, <1>4 DEF Alive
<1>6. GroupTypes'
  BY <1>1, <1>3 DEF GroupInv, GroupTypes
<1>7. OnLists' /\ TtyUsed'
  BY <1>1, <1>4, <1>5 DEF GroupInv, OnLists, TtyUsed
<1>8. IdsKept'
  BY <1>1 DEF GroupInv, IdsKept, KnownHoles
<1>9. "misfiled" \notin gholes' => SignalReachesGroup'
  BY <1>1, <1>4, <1>5 DEF GroupInv, SignalReachesGroup, send_group_signal
<1>10. QED
  BY <1>6, <1>7, <1>8, <1>9 DEF GroupInv

LEMMA GroupReap ==
  ASSUME GroupInv, NEW q \in Pids, NEW p \in Pids, reap_if_zombie(q, p)
  PROVE  GroupInv'
<1>1. /\ p \in Alive /\ task_leave_session(p) /\ gload' = gload
      /\ session' = Without(session, p) /\ pgroup' = Without(pgroup, p)
      /\ proc' = [proc EXCEPT ![p] = None]
  BY DEF reap_if_zombie, Alive
<1>2. /\ tty_session' \in {0, tty_session}
      /\ gholes' \subseteq KnownHoles' /\ gholes \subseteq gholes'
      /\ "misfiled" \in gholes' <=> "misfiled" \in gholes
      /\ "reused" \in gholes' <=> "reused" \in gholes
      /\ tty_session' # 0 /\ "tty_kept" \notin gholes' => session[tty_session'] \ {p} # {}
  BY <1>1, LeaveSession
<1>3. GroupTypes'
  <2>1. 0 \in 0 .. MAX_PID
    BY GroupConstants
  <2>2. None \in ProcType
    BY <2>1 DEF None, ProcType
  <2>3. pgroup' \in [Pids -> SUBSET Pids] /\ session' \in [Pids -> SUBSET Pids]
    BY <1>1 DEF GroupInv, GroupTypes, Without
  <2>4. QED
    BY <1>1, <1>2, <2>1, <2>2, <2>3, Zenon DEF GroupInv, GroupTypes
<1>4. Alive' = Alive \ {p} /\ \A r \in Alive : r \in Pids /\ (r # p => proc'[r] = proc[r])
  BY <1>1 DEF Alive, None, GroupInv, GroupTypes
<1>5. \A g \in Pids, r \in Pids :
         /\ r \in pgroup'[g] <=> r # p /\ r \in pgroup[g]
         /\ r \in session'[g] <=> r # p /\ r \in session[g]
  BY <1>1 DEF Without
<1>6. OnLists'
  <2>1. ASSUME NEW r \in Alive, r # p
        PROVE  /\ proc'[r].sid \in Pids /\ proc'[r].pgid \in Pids
               /\ \A s \in Pids : r \in session'[s] <=> s = proc'[r].sid
               /\ \E g \in Pids : \A h \in Pids : r \in pgroup'[h] <=> h = g
    BY <1>4, <1>5, <2>1, SMTT(30) DEF GroupInv, OnLists
  <2>2. \A g \in Pids : pgroup'[g] \cup session'[g] \subseteq Alive \ {p}
    BY <1>3, <1>5 DEF GroupInv, OnLists, GroupTypes
  <2>3. QED
    BY <1>4, <2>1, <2>2 DEF OnLists
<1>7. TtyUsed'
  BY <1>1, <1>2, <1>4 DEF GroupInv, TtyUsed
<1>8. IdsKept'
  <2>1. ASSUME tty_session' # 0, "tty_kept" \notin gholes' PROVE session'[tty_session'] # {}
    BY <1>2, <1>3, <1>5, <2>1 DEF GroupTypes, GroupInv, Pids
  <2>2. QED
    BY <1>2, <2>1 DEF GroupInv, IdsKept
<1>9. "misfiled" \notin gholes' => SignalReachesGroup'
  <2> SUFFICES ASSUME "misfiled" \notin gholes', NEW r \in Alive, r # p
               PROVE  r \in pgroup'[proc'[r].pgid]
    BY <1>4 DEF SignalReachesGroup, send_group_signal
  <2>1. r \in pgroup[proc[r].pgid] /\ proc[r].pgid \in Pids
    BY <1>2 DEF GroupInv, SignalReachesGroup, send_group_signal, OnLists
  <2>2. QED
    BY <1>4, <1>5, <2>1
<1>10. QED
  BY <1>3, <1>6, <1>7, <1>8, <1>9 DEF GroupInv
------------------------------------------------------------------------------
\* In a pid table of any size, however forks, setpgid, setsid, terminals, exits and
\* reaping interleave (kernel/group.c): every process is on exactly one list of
\* groups and on the list of its session, and a pid is given out while it names a
\* group or session only after a process has been put on the wrong list.
THEOREM GroupsAreSound == GroupSpec => []GroupsSound
<1>1. GroupInv /\ [GroupNext]_group_vars => GroupInv'
  <2> SUFFICES ASSUME GroupInv, [GroupNext]_group_vars PROVE GroupInv'
    OBVIOUS
  <2>1. CASE UNCHANGED group_vars
    BY <2>1, SMTT(30) DEF group_vars, GroupInv, GroupTypes, OnLists, TtyUsed, IdsKept, KnownHoles, Alive,
         SignalReachesGroup, send_group_signal
  <2>2. CASE GroupNext
    BY <2>2, GroupFork, GroupTerminal, GroupMove, GroupSetsid, GroupTty, GroupExit, GroupReap
    DEF GroupNext
  <2>3. QED
    BY <2>1, <2>2
<1>2. GroupInv => GroupsSound
  <2> SUFFICES ASSUME GroupInv PROVE ListsExact
    BY DEF GroupsSound, GroupInv
  <2>1. ASSUME NEW p \in Alive PROVE Cardinality({g \in Pids : p \in pgroup[g]}) = 1
    <3>1. PICK g \in Pids : \A h \in Pids : p \in pgroup[h] <=> h = g
      BY DEF GroupInv, OnLists
    <3>2. {h \in Pids : p \in pgroup[h]} = {g}
      BY <3>1
    <3>3. QED
      BY <3>2, FS_Singleton, Zenon
  <2>2. ASSUME NEW p \in Alive PROVE {s \in Pids : p \in session[s]} = {proc[p].sid}
    BY DEF GroupInv, OnLists
  <2>3. QED
    BY <2>1, <2>2 DEF ListsExact, GroupInv, OnLists
<1>3. QED
  BY GroupStarts, <1>1, <1>2, PTL DEF GroupSpec
=============================================================================
