--------------------------------- MODULE Ipc ---------------------------------
(***************************************************************************)
(* POSIX message queues and the System V queues, semaphores and shared     *)
(* memory (kernel/ipc.c).  Everything is under one lock, shm_lock, which   *)
(* a call gives up while it sleeps, and in three places while it reads     *)
(* its arguments from the guest.                                           *)
(***************************************************************************)
EXTENDS Integers, Sequences, SequencesExt

CONSTANTS Users,      \* tasks
          NULL,
          SemMod,     \* semaphore values are kept modulo this, 2^16 in the code
          IpcLoads

VARIABLES iload,      \* who shares what and what is called, never changes
          user,       \* the call each task is in, and how many it has left
          mq, fds,    \* message queues; the queue a process has a descriptor of
          msgq,       \* System V queues
          sem, net,   \* semaphore sets, and what has been added to each
          shm, attaches, maps,   \* segments, shm_attaches, what each mm has mapped
          sent,       \* messages so far
          raced,      \* names created again while their creator read its attributes
          died        \* a call went on with a queue that was freed

vars == <<iload, user, mq, fds, msgq, sem, net, shm, attaches, maps, sent, raced, died>>
mqvars == <<mq, fds, raced, died>>
sysv == <<msgq, sem, net>>
shmvars == <<shm, attaches, maps>>

Call(t) == user[t].pc = "idle" /\ user[t].left > 0
\* Takes the call t is making out of the count.
Stays(t, pc, op, q) ==
    [user EXCEPT ![t] = [pc |-> pc, op |-> op, q |-> q,
                         left |-> IF @.pc = "idle" THEN @.left - 1 ELSE @.left]]
Return(t) == user' = Stays(t, "idle", NULL, NULL)
Sleep(t, op, q) == user' = Stays(t, "asleep", op, q)
\* t returns and wakes up everyone who sleeps in a call of the given kinds.
notify(t, kinds) ==
    user' = [u \in Users |->
               IF u # t /\ user[u].pc = "asleep" /\ user[u].op.do \in kinds
               THEN [user[u] EXCEPT !.pc = "retry"] ELSE Stays(t, "idle", NULL, NULL)[u]]
\* What a call does at first and whenever it has been woken up.
Begin(t, op) == Call(t) \/ (user[t].pc = "retry" /\ user[t].op = op)
interrupted(t) ==
    /\ user[t].pc = "asleep" /\ Return(t)
    /\ UNCHANGED <<iload, mqvars, sysv, shmvars, sent>>
------------------------------------------------------------------------------
\* POSIX queues.  The descriptors of a process are those of all its tasks.
Proc(t) == iload.proc[t]
MqOps == {"mq_send", "mq_receive", "mq_write", "mq_read"}
mq_find_name(name) == {q \in DOMAIN mq : mq[q].live /\ ~mq[q].unlinked /\ mq[q].name = name}
mq_maybe_free(q, queue) == [mq EXCEPT ![q] = [queue EXCEPT !.live = @ /\ ~(queue.unlinked /\ queue.open = 0)]]
\* The descriptor is installed, or it is closed again when there is no room.
Opened(t, qs, q, op) ==
    IF fds[Proc(t)] = NULL
    THEN /\ mq' = [qs EXCEPT ![q].open = @ + 1, ![q].nonblock = op.nonblock]
         /\ fds' = [fds EXCEPT ![Proc(t)] = q]
    ELSE /\ mq' = [qs EXCEPT ![q].nonblock = op.nonblock]
         /\ UNCHANGED fds
Created(t, op) ==
    Opened(t, Append(mq, [name |-> op.name, unlinked |-> FALSE, live |-> TRUE, open |-> 0,
                          max |-> op.max, nonblock |-> FALSE, messages |-> <<>>]), Len(mq) + 1, op)
\* A queue found by its name is the one that was created last.
sys_mq_open(t, op) ==
    LET found == mq_find_name(op.name) IN
    /\ op.do = "mq_open" /\ Call(t)
    /\ IF (found # {} /\ op.create /\ op.excl) \/ (found = {} /\ ~op.create)
       THEN Return(t) /\ UNCHANGED <<mq, fds>>
       ELSE IF found # {}
       THEN Return(t) /\ Opened(t, mq, CHOOSE q \in found : \A r \in found : r <= q, op)
       ELSE IF op.attr
       THEN user' = Stays(t, "attr", op, NULL) /\ UNCHANGED <<mq, fds>>
       ELSE Return(t) /\ Created(t, op)
    /\ UNCHANGED <<iload, raced, died, sysv, shmvars, sent>>
\* The lock was given up to read the attributes.
mq_open_attr(t) ==
    LET op == user[t].op IN
    /\ user[t].pc = "attr" /\ Return(t)
    /\ Created(t, op)
    /\ raced' = IF mq_find_name(op.name) = {} THEN raced ELSE raced \cup {op.name}
    /\ UNCHANGED <<iload, died, sysv, shmvars, sent>>
sys_mq_unlink(t, op) ==
    LET found == mq_find_name(op.name)
        q == CHOOSE q \in found : \A r \in found : r <= q IN
    /\ op.do = "mq_unlink" /\ Call(t) /\ Return(t)
    /\ mq' = IF found = {} THEN mq ELSE mq_maybe_free(q, [mq[q] EXCEPT !.unlinked = TRUE])
    /\ UNCHANGED <<iload, fds, raced, died, sysv, shmvars, sent>>
mqfd_close(t, op) ==
    LET q == fds[Proc(t)] IN
    /\ op.do = "mq_close" /\ Call(t) /\ Return(t)
    /\ IF q = NULL THEN UNCHANGED <<mq, fds>>
       ELSE /\ fds' = [fds EXCEPT ![Proc(t)] = NULL]
            /\ mq' = mq_maybe_free(q, [mq[q] EXCEPT !.open = @ - 1])
    /\ UNCHANGED <<iload, raced, died, sysv, shmvars, sent>>
mqfd_setflags(t, op) ==
    LET q == fds[Proc(t)] IN
    /\ op.do = "mq_setflags" /\ Call(t) /\ Return(t)
    /\ mq' = IF q = NULL THEN mq ELSE [mq EXCEPT ![q].nonblock = op.nonblock]
    /\ UNCHANGED <<iload, fds, raced, died, sysv, shmvars, sent>>
\* The lock is given up to read the new flags: the queue may be gone by then.
sys_mq_getsetattr(t, op) ==
    /\ op.do = "mq_setattr" /\ Call(t)
    /\ IF fds[Proc(t)] = NULL THEN Return(t) ELSE user' = Stays(t, "setattr", op, fds[Proc(t)])
    /\ UNCHANGED <<iload, mqvars, sysv, shmvars, sent>>
setattr_flags(t) ==
    LET q == user[t].q IN
    /\ user[t].pc = "setattr" /\ Return(t)
    /\ IF fds[Proc(t)] # q THEN died' = TRUE /\ UNCHANGED mq
       ELSE mq' = [mq EXCEPT ![q].nonblock = user[t].op.nonblock] /\ UNCHANGED died
    /\ UNCHANGED <<iload, fds, raced, sysv, shmvars, sent>>

\* The queue of a call: that of the descriptor at first, the same one afterwards.
Queue(t) == IF user[t].pc = "idle" THEN fds[Proc(t)] ELSE user[t].q
Gone(t) == died' = TRUE /\ Return(t) /\ UNCHANGED <<mq, sent>>
\* Mutant: a message goes before older ones of the same priority.
Insert_before(s, m) ==
    LET k == Cardinality({i \in DOMAIN s : \A j \in 1 .. i : s[j].prio > m.prio})
    IN SubSeq(s, 1, k) \o <<m>> \o SubSeq(s, k + 1, Len(s))
Insert(s, m) ==
    LET before == {i \in DOMAIN s : \A j \in 1 .. i : s[j].prio >= m.prio}
        k == Cardinality(before)
    IN SubSeq(s, 1, k) \o <<m>> \o SubSeq(s, k + 1, Len(s))
\* The queue becomes messages: the message is put into its place, or at the end
\* for write, whose messages have the lowest priority.
Sends(t, op, messages) ==
    LET q == Queue(t) IN
    /\ IF q = NULL THEN Return(t) /\ UNCHANGED <<mq, died, sent>>
       ELSE IF ~mq[q].live THEN Gone(t)
       ELSE IF Len(mq[q].messages) >= mq[q].max
       THEN (IF mq[q].nonblock THEN Return(t) ELSE Sleep(t, op, q)) /\ UNCHANGED <<mq, died, sent>>
       ELSE /\ mq' = [mq EXCEPT ![q].messages = messages]
            /\ sent' = sent + 1 /\ notify(t, MqOps) /\ UNCHANGED died
    /\ UNCHANGED <<iload, fds, raced, sysv, shmvars>>
sys_mq_timedsend(t, op) ==
    /\ op.do = "mq_send" /\ Begin(t, op)
    /\ Sends(t, op, Insert(mq[Queue(t)].messages, [prio |-> op.prio, no |-> sent]))
mqfd_write(t, op) ==
    /\ op.do = "mq_write" /\ Begin(t, op)
    /\ Sends(t, op, Append(mq[Queue(t)].messages, [prio |-> 0, no |-> sent]))
Receives(t, op) ==
    LET q == Queue(t) IN
    /\ IF q = NULL THEN Return(t) /\ UNCHANGED <<mq, died, sent>>
       ELSE IF ~mq[q].live THEN Gone(t)
       ELSE IF mq[q].messages = <<>>
       THEN (IF mq[q].nonblock THEN Return(t) ELSE Sleep(t, op, q)) /\ UNCHANGED <<mq, died, sent>>
       ELSE mq' = [mq EXCEPT ![q].messages = Tail(@)] /\ notify(t, MqOps) /\ UNCHANGED <<died, sent>>
    /\ UNCHANGED <<iload, fds, raced, sysv, shmvars>>
sys_mq_timedreceive(t, op) == op.do = "mq_receive" /\ Begin(t, op) /\ Receives(t, op)
\* A buffer shorter than the message leaves it where it is.
mqfd_read(t, op) ==
    LET q == Queue(t) IN
    /\ op.do = "mq_read" /\ Begin(t, op)
    /\ IF op.short /\ q # NULL /\ mq[q].live /\ mq[q].messages # <<>>
       THEN Return(t) /\ UNCHANGED <<iload, mqvars, sysv, shmvars, sent>>
       ELSE Receives(t, op)
------------------------------------------------------------------------------
\* System V queues and semaphores.  Identifiers are never used again, up to 2^31.
Keyed(objs, key) == {i \in DOMAIN objs : objs[i].live /\ objs[i].key = key}
Fresh(objs, op) == op.key = 0 \/ (Keyed(objs, op.key) = {} /\ op.create)
sys_msgget(t, op) ==
    /\ op.do = "msgget" /\ Call(t) /\ Return(t)
    /\ msgq' = IF Fresh(msgq, op) THEN Append(msgq, [key |-> op.key, live |-> TRUE, messages |-> <<>>]) ELSE msgq
    /\ UNCHANGED <<iload, mqvars, sem, net, shmvars, sent>>
Lives(objs, id) == id \in DOMAIN objs /\ objs[id].live
sys_msgctl_rmid(t, op) ==
    /\ op.do = "msgrm" /\ Call(t)
    /\ IF Lives(msgq, op.id)
       THEN msgq' = [msgq EXCEPT ![op.id] = [@ EXCEPT !.live = FALSE, !.messages = <<>>]] /\ notify(t, {"msgrcv"})
       ELSE Return(t) /\ UNCHANGED msgq
    /\ UNCHANGED <<iload, mqvars, sem, net, shmvars, sent>>
sys_msgsnd(t, op) ==
    /\ op.do = "msgsnd" /\ Call(t)
    /\ IF Lives(msgq, op.id)
       THEN /\ msgq' = [msgq EXCEPT ![op.id].messages = Append(@, [type |-> op.type, no |-> sent])]
            /\ sent' = sent + 1 /\ notify(t, {"msgrcv"})
       ELSE Return(t) /\ UNCHANGED <<msgq, sent>>
    /\ UNCHANGED <<iload, mqvars, sem, net, shmvars>>
msg_matches(have, want, except) ==
    \/ want = 0
    \/ want > 0 /\ (IF except THEN have # want ELSE have = want)
    \/ want < 0 /\ have <= -want
\* The message msgrcv takes: the first that matches, for a negative type the
\* first of the lowest type.
Candidates(ms, op) == {i \in DOMAIN ms : msg_matches(ms[i].type, op.type, op.except)}
Best(ms, op) ==
    CHOOSE i \in Candidates(ms, op) : \A j \in Candidates(ms, op) :
        IF op.type < 0 /\ ms[i].type # ms[j].type THEN ms[i].type < ms[j].type ELSE i <= j
Without(s, i) == SubSeq(s, 1, i - 1) \o SubSeq(s, i + 1, Len(s))
sys_msgrcv(t, op) ==
    /\ op.do = "msgrcv" /\ Begin(t, op)
    /\ IF ~Lives(msgq, op.id) THEN Return(t) /\ UNCHANGED msgq
       ELSE LET ms == msgq[op.id].messages IN
            IF Candidates(ms, op) # {}
            THEN Return(t) /\ msgq' = [msgq EXCEPT ![op.id].messages = Without(ms, Best(ms, op))]
            ELSE (IF op.nowait THEN Return(t) ELSE Sleep(t, op, NULL)) /\ UNCHANGED msgq
    /\ UNCHANGED <<iload, mqvars, sem, net, shmvars, sent>>

sys_semget(t, op) ==
    /\ op.do = "semget" /\ Call(t) /\ Return(t)
    /\ IF Fresh(sem, op)
       THEN /\ sem' = Append(sem, [key |-> op.key, live |-> TRUE, values |-> [i \in 1 .. op.n |-> 0]])
            /\ net' = Append(net, [i \in 1 .. op.n |-> 0])
       ELSE UNCHANGED <<sem, net>>
    /\ UNCHANGED <<iload, mqvars, msgq, shmvars, sent>>
sys_semctl_rmid(t, op) ==
    /\ op.do = "semrm" /\ Call(t)
    /\ IF Lives(sem, op.id) THEN sem' = [sem EXCEPT ![op.id].live = FALSE] /\ notify(t, {"semop"})
       ELSE Return(t) /\ UNCHANGED sem
    /\ UNCHANGED <<iload, mqvars, msgq, net, shmvars, sent>>
SetTo(id, values) ==
    /\ sem' = [sem EXCEPT ![id].values = values] /\ net' = [net EXCEPT ![id] = values]
sys_semctl_setval(t, op) ==
    /\ op.do = "setval" /\ Call(t)
    /\ IF Lives(sem, op.id) /\ op.num \in DOMAIN sem[op.id].values
       THEN SetTo(op.id, [sem[op.id].values EXCEPT ![op.num] = op.val % SemMod]) /\ notify(t, {"semop"})
       ELSE Return(t) /\ UNCHANGED <<sem, net>>
    /\ UNCHANGED <<iload, mqvars, msgq, shmvars, sent>>
\* The values are read with the lock given up, and the set is looked up again.
sys_semctl_setall(t, op) ==
    /\ op.do = "setall" /\ Call(t)
    /\ IF Lives(sem, op.id) THEN user' = Stays(t, "setall", op, NULL) ELSE Return(t)
    /\ UNCHANGED <<iload, mqvars, sysv, shmvars, sent>>
setall_values(t) ==
    LET op == user[t].op IN
    /\ user[t].pc = "setall"
    /\ IF Lives(sem, op.id) THEN SetTo(op.id, [i \in DOMAIN sem[op.id].values |-> op.val]) /\ notify(t, {"semop"})
       ELSE Return(t) /\ UNCHANGED <<sem, net>>
    /\ UNCHANGED <<iload, mqvars, msgq, shmvars, sent>>

\* Each operation is looked at by itself, against the values there are now.
MayApply(values, ops) ==
    \A i \in DOMAIN ops : LET val == values[ops[i].num] IN
        /\ ops[i].op < 0 => val >= -ops[i].op
        /\ ops[i].op = 0 => val = 0
Applied(values, ops) == FoldLeft(LAMBDA v, o : [v EXCEPT ![o.num] = @ + o.op], values, ops)
sys_semtimedop(t, op) ==
    /\ op.do = "semop" /\ Begin(t, op)
    /\ IF ~Lives(sem, op.id) \/ \E i \in DOMAIN op.ops : op.ops[i].num \notin DOMAIN sem[op.id].values
       THEN Return(t) /\ UNCHANGED <<sem, net>>
       ELSE IF MayApply(sem[op.id].values, op.ops)
       THEN LET applied == Applied(sem[op.id].values, op.ops) IN
            /\ sem' = [sem EXCEPT ![op.id].values = [i \in DOMAIN applied |-> applied[i] % SemMod]]
            /\ net' = [net EXCEPT ![op.id] = Applied(@, op.ops)]
            /\ notify(t, {"semop"})
       ELSE (IF op.nowait THEN Return(t) ELSE Sleep(t, op, NULL)) /\ UNCHANGED <<sem, net>>
    /\ UNCHANGED <<iload, mqvars, msgq, shmvars, sent>>
------------------------------------------------------------------------------
\* Shared memory.  maps[p] has a mapping for each address that is taken: the
\* segment it shows (0 for other memory) and whether shmat of p itself made it.
Mapping(s, own) == [seg |-> s, own |-> own]
sys_shmget(t, op) ==
    /\ op.do = "shmget" /\ Call(t) /\ Return(t)
    /\ shm' = IF Fresh(shm, op) THEN Append(shm, [key |-> op.key, live |-> TRUE]) ELSE shm
    /\ UNCHANGED <<iload, mqvars, sysv, attaches, maps, sent>>
sys_shmctl_rmid(t, op) ==
    /\ op.do = "shmrm" /\ Call(t) /\ Return(t)
    /\ shm' = IF Lives(shm, op.id) THEN [shm EXCEPT ![op.id].live = FALSE] ELSE shm
    /\ UNCHANGED <<iload, mqvars, sysv, attaches, maps, sent>>
sys_shmat(t, op) ==
    LET p == Proc(t) IN
    /\ op.do = "shmat" /\ Call(t) /\ Return(t)
    /\ IF Lives(shm, op.id) /\ (maps[p][op.addr] = NULL \/ op.remap)
       THEN /\ maps' = [maps EXCEPT ![p][op.addr] = Mapping(op.id, TRUE)]
            /\ attaches' = <<[mm |-> p, addr |-> op.addr, id |-> op.id]>> \o attaches
       ELSE UNCHANGED <<maps, attaches>>
    /\ UNCHANGED <<iload, mqvars, sysv, shm, sent>>
Entries(p, addr) == {i \in DOMAIN attaches : attaches[i].mm = p /\ attaches[i].addr = addr}
sys_shmdt(t, op) ==
    LET p == Proc(t) IN
    /\ op.do = "shmdt" /\ Call(t)
    /\ IF Entries(p, op.addr) = {} THEN Return(t) /\ UNCHANGED attaches
       ELSE /\ attaches' = Without(attaches, CHOOSE i \in Entries(p, op.addr) : \A j \in Entries(p, op.addr) : i <= j)
            /\ user' = Stays(t, "detach", op, NULL)
    /\ UNCHANGED <<iload, mqvars, sysv, shm, maps, sent>>
\* After the lock, in the address space's own.
pt_unmap(t) ==
    /\ user[t].pc = "detach" /\ Return(t)
    /\ maps' = [maps EXCEPT ![Proc(t)][user[t].op.addr] = NULL]
    /\ UNCHANGED <<iload, mqvars, sysv, shm, attaches, sent>>
\* Memory changes by other calls as well, of which this list does not hear.
other_map(t, op) ==
    LET p == Proc(t) IN
    /\ Call(t) /\ Return(t)
    /\ \/ op.do = "mmap" /\ maps[p][op.addr] = NULL /\ maps' = [maps EXCEPT ![p][op.addr] = Mapping(0, FALSE)]
       \/ op.do = "munmap" /\ maps' = [maps EXCEPT ![p][op.addr] = NULL]
       \/ op.do = "fork" /\ (\A u \in Users : Proc(u) = op.to => user[u].left = iload.left[u])
          /\ maps' = [maps EXCEPT ![op.to] = [a \in DOMAIN maps[p] |->
             IF maps[p][a] = NULL THEN NULL ELSE [maps[p][a] EXCEPT !.own = FALSE]]]
    /\ UNCHANGED <<iload, mqvars, sysv, shm, attaches, sent>>
------------------------------------------------------------------------------
Next ==
    \E t \in Users :
        \/ interrupted(t) \/ mq_open_attr(t) \/ setattr_flags(t) \/ setall_values(t) \/ pt_unmap(t)
        \/ \E op \in iload.calls : Begin(t, op) /\
             (\/ sys_mq_open(t, op) \/ sys_mq_unlink(t, op) \/ mqfd_close(t, op) \/ mqfd_setflags(t, op)
              \/ sys_mq_timedsend(t, op) \/ sys_mq_timedreceive(t, op)
              \/ mqfd_write(t, op) \/ mqfd_read(t, op) \/ sys_mq_getsetattr(t, op)
              \/ sys_msgget(t, op) \/ sys_msgctl_rmid(t, op) \/ sys_msgsnd(t, op) \/ sys_msgrcv(t, op)
              \/ sys_semget(t, op) \/ sys_semctl_rmid(t, op) \/ sys_semctl_setval(t, op)
              \/ sys_semctl_setall(t, op) \/ sys_semtimedop(t, op)
              \/ sys_shmget(t, op) \/ sys_shmctl_rmid(t, op) \/ sys_shmat(t, op) \/ sys_shmdt(t, op)
              \/ other_map(t, op))
Procs == {iload.proc[t] : t \in Users}
Init ==
    /\ iload \in IpcLoads
    /\ user = [t \in Users |-> [pc |-> "idle", op |-> NULL, q |-> NULL, left |-> iload.left[t]]]
    /\ mq = <<>> /\ fds = [p \in Procs |-> NULL]
    /\ msgq = <<>> /\ sem = <<>> /\ net = <<>> /\ shm = <<>> /\ attaches = <<>>
    /\ maps = [p \in Procs |-> [a \in iload.addrs |-> NULL]]
    /\ sent = 0 /\ raced = {} /\ died = FALSE
Spec == Init /\ [][Next]_vars
------------------------------------------------------------------------------
\* A queue never has more than its maximum, and its messages are in the order of
\* their priority, and of their sending within one; it is freed exactly when it
\* is unlinked and closed everywhere (sys_mq_timedsend, mq_maybe_free_unlocked).
QueueExact ==
    \A q \in DOMAIN mq :
        /\ mq[q].open = Cardinality({p \in Procs : fds[p] = q})
        /\ mq[q].live <=> ~(mq[q].unlinked /\ mq[q].open = 0)
        /\ mq[q].live =>
             LET s == mq[q].messages IN
             /\ Len(s) <= mq[q].max
             /\ \A i, j \in DOMAIN s : i < j =>
                  s[i].prio > s[j].prio \/ (s[i].prio = s[j].prio /\ s[i].no < s[j].no)
\* A name is that of one queue, but for two creations that both read attributes.
OneQueue == \A n \in {mq[q].name : q \in DOMAIN mq} : Cardinality(mq_find_name(n)) <= 1 \/ n \in raced
\* A sleeper is left asleep only while its call can not go on: every change that
\* lets it go on wakes it up.
SleepersBlocked ==
    \A t \in Users : user[t].pc = "asleep" =>
        LET op == user[t].op IN
        CASE op.do \in {"mq_send", "mq_write"} -> mq[user[t].q].live => Len(mq[user[t].q].messages) >= mq[user[t].q].max
          [] op.do \in {"mq_receive", "mq_read"} -> mq[user[t].q].live => mq[user[t].q].messages = <<>>
          [] op.do = "msgrcv" -> Lives(msgq, op.id) /\ Candidates(msgq[op.id].messages, op) = {}
          [] op.do = "semop" -> Lives(sem, op.id) /\ ~MayApply(sem[op.id].values, op.ops)
\* A semaphore is the sum of what was done to it, when no call names it twice.
SemExact ==
    \A s \in DOMAIN sem : sem[s].live /\ ~iload.twice => sem[s].values = net[s]
\* What shmat mapped can be detached, as long as nothing else unmapped it, and
\* there is an entry for each mapping of an address space's own.
AttachKnown ==
    \A p \in Procs : \A a \in iload.addrs :
        maps[p][a] # NULL /\ maps[p][a].own =>
            \/ \E i \in Entries(p, a) : attaches[i].id = maps[p][a].seg
            \/ \E t \in Users : user[t].pc = "detach" /\ Proc(t) = p /\ user[t].op.addr = a
\* A call does not go on with a freed queue, when every process has one task.
QueueAlive == died => \E t, u \in Users : t # u /\ Proc(t) = Proc(u)
\* Queues, semaphores and segments, however the calls of the processes interleave.
IpcSound == QueueExact /\ OneQueue /\ QueueAlive /\ SleepersBlocked /\ SemExact /\ AttachKnown
==============================================================================
