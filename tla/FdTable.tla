------------------------------ MODULE FdTable -------------------------------
(***************************************************************************)
(* Open files and who refers to them: descriptor tables (fs/fd.c), working *)
(* and root directories (kernel/fs_info.c), the mounts below them, and     *)
(* fork, exec and exit, which copy, clean and drop the tables.  A pointer   *)
(* that f_get returns carries no reference; when the file is freed before   *)
(* the pointer is used, the call ends as "wild".                            *)
(***************************************************************************)
EXTENDS Mounts

CONSTANTS First,      \* the task there is to begin with
          MaxFiles,   \* struct fds ever created
          MaxFd,      \* descriptors are 0 .. MaxFd
          Loads       \* what may be done, and the mounts there are

VARIABLES fd,      \* struct fd: NULL before it is created, FREED after
          tab,     \* descriptor tables, one per task that was given its own
          fsi,     \* struct fs_info, likewise
          task,    \* files, fs and exiting of every task
          calls,
          lost,    \* history: references dropped by a store into a slot that was taken
          died     \* history: the host process crashed
fvars == <<fd, tab, fsi, task, calls, lost, died>>
vars == <<load, mvars, call, fvars>>

Slots == 0 .. MaxFd
Live(t) == task[t] # NULL /\ task[t].files # NULL
TabOf(t) == tab[task[t].files]

\* The first task, with one open file and the root as its directories; the root
\* mount is used by both.
FdInit ==
    /\ fd = [i \in 1 .. MaxFiles |-> IF i = 1 THEN [refs |-> 1, m |-> 1]
                                     ELSE IF i = 2 THEN [refs |-> 2, m |-> 1] ELSE NULL]
    /\ tab = [t \in Tasks |-> IF t = First
                              THEN [refs |-> 1, size |-> 1, cloexec |-> {},
                                    files |-> [f \in Slots |-> IF f = 0 THEN 1 ELSE NULL]]
                              ELSE NULL]
    /\ fsi = [t \in Tasks |-> IF t = First THEN [refs |-> 1, pwd |-> 2, root |-> 2] ELSE NULL]
    /\ task = [t \in Tasks |-> IF t = First THEN [files |-> t, fs |-> t, exiting |-> FALSE]
                               ELSE NULL]
    /\ calls = 0 /\ lost = [i \in 1 .. MaxFiles |-> 0] /\ died = FALSE
    /\ call = [t \in Tasks |-> Idle]
------------------------------------------------------------------------------
(* References.  World w: files, tables, directories and mounts.             *)

World == [fd |-> fd, tab |-> tab, fsi |-> fsi, mnt |-> mnt]
Becomes(w) ==
    /\ fd' = w.fd /\ tab' = w.tab /\ fsi' = w.fsi /\ mnt' = w.mnt
    /\ UNCHANGED <<mounts, cache, version>>
fd_retain(w, i) == [w EXCEPT !.fd[i].refs = @ + 1]
fd_close(w, i) ==
    IF w.fd[i].refs > 1 THEN [w EXCEPT !.fd[i].refs = @ - 1]
    ELSE [w EXCEPT !.fd[i] = FREED, !.mnt = Released(@, w.fd[i].m)]
\* fdtable_get takes its bound from the current task's table.
fdtable_get(t, k, f) == IF f >= TabOf(t).size THEN NULL ELSE tab[k].files[f]
fdtable_close(w, k, f) ==
    IF w.tab[k].files[f] = NULL THEN w
    ELSE [fd_close(w, w.tab[k].files[f]) EXCEPT
            !.tab[k].files[f] = NULL, !.tab[k].cloexec = @ \ {f}]
CloseAll(w, k, fs) == FoldSet(LAMBDA f, x : fdtable_close(x, k, f), w, fs)
fdtable_release(w, k) ==
    IF w.tab[k].refs > 1 THEN [w EXCEPT !.tab[k].refs = @ - 1]
    ELSE [CloseAll(w, k, 0 .. w.tab[k].size - 1) EXCEPT !.tab[k] = NULL]
fs_info_release(w, k) ==
    IF w.fsi[k].refs > 1 THEN [w EXCEPT !.fsi[k].refs = @ - 1]
    ELSE [fd_close(fd_close(w, w.fsi[k].pwd), w.fsi[k].root) EXCEPT !.fsi[k] = NULL]
\* Mutant: the child's descriptors are not counted.
fdtable_copy_plain(w, k, c) == [w EXCEPT !.tab[c] = [w.tab[k] EXCEPT !.refs = 1]]
fdtable_copy(w, k, c) ==
    LET kept == {f \in Slots : w.tab[k].files[f] # NULL}
    IN  FoldSet(LAMBDA f, x : fd_retain(x, w.tab[k].files[f]),
                [w EXCEPT !.tab[c] = [w.tab[k] EXCEPT !.refs = 1]], kept)
------------------------------------------------------------------------------
(* Installing a file under the lowest free descriptor.                      *)

\* The descriptor f_install_start chooses in table k, or EMFILE.
EMFILE == MaxFd + 1
Chosen(w, k, start) ==
    LET lim == Min({load.rlimit, w.tab[k].size})
        free == {f \in start .. lim - 1 : w.tab[k].files[f] = NULL}
        f == IF free # {} THEN Min(free) ELSE Max({start, lim})
    IN  IF f >= load.rlimit THEN EMFILE ELSE f
fdtable_expand(w, k, f) == [w EXCEPT !.tab[k].size = Max({@, f + 1})]
Store(w, k, f, i, cloexec) ==
    [fdtable_expand(w, k, f) EXCEPT
       !.tab[k].files[f] = i, !.tab[k].cloexec = IF cloexec THEN @ \union {f} ELSE @ \ {f}]
\* f_install_start in one go; on an error the file is closed.
f_install_start(w, k, i, start, cloexec) ==
    LET f == Chosen(w, k, start)
    IN  IF f = EMFILE THEN fd_close(w, i) ELSE Store(w, k, f, i, cloexec)
------------------------------------------------------------------------------
(* System calls.  A call that goes on holds: a file with a reference ("h"), *)
(* a file without one ("fd"), a mount, a descriptor.                        *)

Ready(t, op) ==
    /\ op \in load.ops /\ calls < load.calls /\ ~died
    /\ Live(t) /\ call[t].pc = "idle" /\ calls' = calls + 1
    /\ UNCHANGED <<load, lost>>
At(t, pc, ops) ==
    /\ ~died /\ call[t].pc = pc /\ call[t].op \in ops /\ UNCHANGED <<load, calls>>
Begin(t, pc, op) ==
    [pc |-> pc, op |-> op, path |-> <<>>, m |-> NULL, fd |-> NULL, h |-> NULL,
     f |-> 0, cloexec |-> FALSE, raced |-> FALSE, shared |-> FALSE, child |-> NULL]
Return(t) == call' = [call EXCEPT ![t] = Idle]
Goto(t, c) == call' = [call EXCEPT ![t] = c]
NewFile == Min({i \in 1 .. MaxFiles : fd[i] = NULL})
CanCreate == \E i \in 1 .. MaxFiles : fd[i] = NULL

\* open, chdir, chroot: find the mount, open there.
sys_open(t, op) ==
    /\ Ready(t, op) /\ CanCreate
    /\ \E p \in load.paths, c \in {FALSE, TRUE} :
         Goto(t, [Begin(t, "find", op) EXCEPT !.path = p, !.cloexec = c /\ op = "open"])
    /\ UNCHANGED <<mvars, fd, tab, fsi, task, died>>
\* generic_openat after the look-up.  The file system may refuse; a file that was
\* opened and then fails a check is closed again, with the same outcome.
generic_openat(t) ==
    /\ At(t, "found", {"open", "chdir", "chroot", "reopen"})
    /\ \/ /\ call' = [call EXCEPT ![t] = IF @.op = "reopen" THEN [@ EXCEPT !.pc = "install", !.m = NULL]
                                           ELSE Idle]
          /\ mount_release(call[t].m) /\ UNCHANGED <<fd, tab, fsi>>
       \/ /\ CanCreate
          /\ LET w == [World EXCEPT !.fd[NewFile] = [refs |-> 1, m |-> call[t].m]]
             IN  Becomes(IF call[t].op = "reopen" THEN fd_close(w, call[t].h) ELSE w)
          /\ call' = [call EXCEPT ![t].pc = IF call[t].op \in {"chdir", "chroot"} THEN "chdir" ELSE "install",
                                  ![t].h = NewFile, ![t].m = NULL]
    /\ UNCHANGED <<task, lost, died>>
f_install(t) ==
    /\ At(t, "install", {"open", "reopen"})
    /\ Becomes(f_install_start(World, task[t].files, call[t].h, 0, call[t].cloexec))
    /\ Return(t) /\ UNCHANGED <<task, lost, died>>
fs_chdir(t) ==
    /\ At(t, "chdir", {"chdir", "chroot", "fchdir"})
    /\ LET k == task[t].fs  h == call[t].h
       IN  Becomes(IF call[t].op = "chroot"
                   THEN [fd_close(World, fsi[k].root) EXCEPT !.fsi[k].root = h]
                   ELSE [fd_close(World, fsi[k].pwd) EXCEPT !.fsi[k].pwd = h])
    /\ Return(t) /\ UNCHANGED <<task, lost, died>>

sys_close(t) ==
    /\ Ready(t, "close")
    /\ \E f \in 0 .. TabOf(t).size - 1 : Becomes(fdtable_close(World, task[t].files, f))
    /\ UNCHANGED <<call, task, died>>
sys_close_range(t) ==
    /\ Ready(t, "close_range")
    /\ \E first \in Slots, cloexec \in {FALSE, TRUE} :
         LET k == task[t].files  fs == first .. TabOf(t).size - 1
         IN  Becomes(IF cloexec
                     THEN [World EXCEPT !.tab[k].cloexec =
                             @ \union {f \in fs : tab[k].files[f] # NULL}]
                     ELSE CloseAll(World, k, fs))
    /\ UNCHANGED <<call, task, died>>
fdtable_do_cloexec(t) ==
    /\ Ready(t, "exec") /\ Becomes(CloseAll(World, task[t].files, TabOf(t).cloexec))
    /\ UNCHANGED <<call, task, died>>

\* f_get: dup, dup3, fcntl, fchdir go on from the pointer it returns.
f_get(t, op) ==
    /\ Ready(t, op)
    /\ \E f \in 0 .. TabOf(t).size - 1 :
         /\ TabOf(t).files[f] # NULL
         /\ Goto(t, [Begin(t, "got", op) EXCEPT
                       !.fd = fdtable_get(t, task[t].files, f), !.f = f,
                       !.shared = TabOf(t).refs > 1])
    /\ UNCHANGED <<mvars, fd, tab, fsi, task, died>>
Wild(t) == fd[call[t].fd] = FREED
GoWild(t) ==
    /\ ~died /\ call[t].pc = "got" /\ call[t].op # "setfd" /\ Wild(t)
    /\ call' = [call EXCEPT ![t].pc = "wild"]
    /\ UNCHANGED <<load, calls, mvars, fd, tab, fsi, task, lost, died>>
sys_dup(t) ==
    /\ At(t, "got", {"dup"}) /\ ~Wild(t)
    /\ Becomes(f_install_start(fd_retain(World, call[t].fd), task[t].files, call[t].fd, 0, FALSE))
    /\ Return(t) /\ UNCHANGED <<task, lost, died>>
\* F_DUPFD looks for a free descriptor without the lock, and stores later.
\* F_DUPFD_CLOEXEC sets the bit of the error number when there is none.
sys_fcntl_dupfd(t) ==
    /\ At(t, "got", {"dupfd"}) /\ ~Wild(t)
    /\ \E start \in Slots, cloexec \in {FALSE, TRUE} :
         LET f == Chosen(World, task[t].files, start)
             w == fd_retain(World, call[t].fd)
         IN  /\ died' = (f = EMFILE /\ cloexec)
             /\ IF f = EMFILE THEN Becomes(fd_close(w, call[t].fd)) /\ Return(t)
                ELSE /\ Becomes(fdtable_expand(w, task[t].files, f))
                     /\ call' = [call EXCEPT ![t].pc = "store", ![t].h = call[t].fd,
                                             ![t].f = f, ![t].cloexec = cloexec]
    /\ UNCHANGED <<task, lost>>
\* dup3 expands the table and closes the old file of new_f, and stores later.
sys_dup3(t) ==
    /\ At(t, "got", {"dup3"}) /\ ~Wild(t)
    /\ \E new_f \in Slots, cloexec \in {FALSE, TRUE} :
         IF new_f >= load.rlimit THEN Becomes(World) /\ Return(t)
         ELSE LET k == task[t].files
                  w == fd_retain(fdtable_expand(World, k, new_f), call[t].fd)
              IN  /\ Becomes(fdtable_close(w, k, new_f))
                  /\ call' = [call EXCEPT ![t].pc = "store", ![t].h = call[t].fd,
                                          ![t].f = new_f, ![t].cloexec = cloexec]
    /\ UNCHANGED <<task, lost, died>>
store(t) ==
    /\ At(t, "store", {"dupfd", "dup3"})
    /\ LET k == task[t].files  f == call[t].f  old == tab[k].files[f]
           keeps == call[t].op = "dup3" /\ f \in tab[k].cloexec
       IN  /\ Becomes(Store(World, k, f, call[t].h, call[t].cloexec \/ keeps))
           /\ lost' = IF old = NULL THEN lost ELSE [lost EXCEPT ![old] = @ + 1]
    /\ Return(t) /\ UNCHANGED <<task, died>>
\* F_SETFD, FIOCLEX and FIONCLEX change the bit without the lock.
sys_fcntl_setfd(t) ==
    /\ At(t, "got", {"setfd"})
    /\ \E set \in {FALSE, TRUE} :
         Becomes([World EXCEPT !.tab[task[t].files].cloexec =
                    IF set THEN @ \union {call[t].f} ELSE @ \ {call[t].f}])
    /\ Return(t) /\ UNCHANGED <<task, lost, died>>
sys_fchdir(t) ==
    /\ At(t, "got", {"fchdir"}) /\ ~Wild(t)
    /\ Becomes(fd_retain(World, call[t].fd))
    /\ call' = [call EXCEPT ![t].pc = "chdir", ![t].h = call[t].fd]
    /\ UNCHANGED <<task, lost, died>>
------------------------------------------------------------------------------
(* Reopening a file of another task, fork, exit, mount and umount.          *)

\* /proc/<pid>/fd/<f>, under pids_lock and the other table's lock.  The bound is
\* that of the caller's own table: a larger one reads past the other's end.
procfd_openat(t) ==
    /\ Ready(t, "procfd") /\ CanCreate
    /\ \E u \in Tasks \ {t}, f \in 0 .. TabOf(t).size - 1 :
         /\ task[u] # NULL /\ ~task[u].exiting
         /\ LET k == task[u].files
                beyond == k = NULL \/ (k # NULL /\ f >= tab[k].size)
                i == fdtable_get(t, k, f)
            IN  /\ died' = beyond
                /\ IF beyond \/ (~beyond /\ i = NULL)
                   THEN UNCHANGED <<call, mvars, fd, tab, fsi>>
                   ELSE /\ Becomes(fd_retain(World, i))
                        /\ Goto(t, [Begin(t, "find", "reopen") EXCEPT
                                      !.h = i, !.path = mnt[fd[i].m].point])
    /\ UNCHANGED task

\* The child gets its table, then its directories: fs_info_copy reads them
\* without the lock of the parent's.
sys_clone(t) ==
    /\ Ready(t, "clone")
    /\ \E c \in Tasks, files \in {FALSE, TRUE}, fs \in {FALSE, TRUE} :
         /\ task[c] = NULL /\ ~\E u \in Tasks : call[u].pc = "copyfs"
         /\ files \in load.share /\ fs \in load.share
         /\ Becomes(IF files THEN [World EXCEPT !.tab[task[t].files].refs = @ + 1]
                    ELSE fdtable_copy(World, task[t].files, c))
         /\ Goto(t, [Begin(t, "copyfs", "clone") EXCEPT
                       !.child = c, !.fd = fsi[task[t].fs].pwd, !.f = IF fs THEN 1 ELSE 0,
                       !.m = IF files THEN task[t].files ELSE c,
                       !.shared = fsi[task[t].fs].refs > 1])
    /\ UNCHANGED <<task, died>>
fs_info_copy(t) ==
    /\ At(t, "copyfs", {"clone"})
    /\ LET c == call[t].child  k == task[t].fs  share == call[t].f = 1
           w == IF share THEN [World EXCEPT !.fsi[k].refs = @ + 1]
                ELSE fd_retain(fd_retain([World EXCEPT
                       !.fsi[c] = [refs |-> 1, pwd |-> call[t].fd, root |-> fsi[k].root]],
                       call[t].fd), fsi[k].root)
       IN  IF ~share /\ Wild(t)
           THEN /\ call' = [call EXCEPT ![t].pc = "wild"]
                /\ UNCHANGED <<mvars, fd, tab, fsi, task>>
           ELSE /\ Return(t)
                /\ \/ /\ Becomes(w)
                      /\ task' = [task EXCEPT ![c] = [files |-> call[t].m, exiting |-> FALSE,
                                                      fs |-> IF share THEN k ELSE c]]
                   \* A later step of copy_task fails: everything is released again.
                   \/ /\ Becomes(fdtable_release(fs_info_release(w, IF share THEN k ELSE c), call[t].m))
                      /\ UNCHANGED task
    /\ UNCHANGED <<lost, died>>

\* do_exit drops table and directories first; only then is the task exiting.
do_exit(t) ==
    /\ Ready(t, "exit")
    /\ Becomes(fdtable_release(World, task[t].files))
    /\ task' = [task EXCEPT ![t].files = NULL]
    /\ Goto(t, Begin(t, "exit", "exit")) /\ UNCHANGED died
do_exit_fs(t) ==
    /\ At(t, "exit", {"exit"})
    /\ Becomes(fs_info_release(World, task[t].fs))
    /\ task' = [task EXCEPT ![t].fs = NULL, ![t].exiting = TRUE]
    /\ Return(t) /\ UNCHANGED <<lost, died>>

sys_mount(t) ==
    /\ Ready(t, "mount") /\ \E p \in load.paths : do_mount(t, p)
    /\ UNCHANGED <<fd, tab, fsi, task, died>>
sys_umount2(t) ==
    /\ Ready(t, "umount") /\ \E p \in load.paths : do_umount(t, p)
    /\ UNCHANGED <<fd, tab, fsi, task, died>>
Look(t) ==
    /\ ~died /\ (mount_find(t) \/ mount_find_cached(t)) /\ UNCHANGED <<load, fvars>>

Task(t) ==
    \/ \E op \in {"open", "chdir", "chroot"} : sys_open(t, op)
    \/ \E op \in {"dup", "dupfd", "dup3", "setfd", "fchdir"} : f_get(t, op)
    \/ Look(t) \/ generic_openat(t) \/ f_install(t) \/ fs_chdir(t)
    \/ sys_close(t) \/ sys_close_range(t) \/ fdtable_do_cloexec(t)
    \/ GoWild(t) \/ sys_dup(t) \/ sys_fcntl_dupfd(t) \/ sys_dup3(t) \/ store(t)
    \/ sys_fcntl_setfd(t) \/ sys_fchdir(t) \/ procfd_openat(t)
    \/ sys_clone(t) \/ fs_info_copy(t) \/ do_exit(t) \/ do_exit_fs(t)
    \/ sys_mount(t) \/ sys_umount2(t)
Next == \E t \in Tasks : Task(t)
Init == load \in Loads /\ MountInit /\ FdInit
Spec == Init /\ [][Next]_vars
------------------------------------------------------------------------------
TypeOK ==
    /\ \A i \in 1 .. MaxFiles : fd[i] \in {NULL, FREED} \/ fd[i].refs > 0
    /\ \A k \in Tasks : tab[k] # NULL => /\ tab[k].refs > 0 /\ tab[k].size \in 0 .. MaxFd + 1
                                       /\ \A f \in tab[k].size .. MaxFd : tab[k].files[f] = NULL
    /\ \A m \in ToSet(mounts) : mnt[m].refs \in Nat

Tabs == {k \in Tasks : tab[k] # NULL}
FsInfos == {k \in Tasks : fsi[k] # NULL}
Holding(t, i) ==
    /\ call[t].pc \in {"install", "store", "chdir", "find", "hit", "found", "stale"}
    /\ call[t].h = i
References(i) ==
    Cardinality({s \in Tabs \X Slots : tab[s[1]].files[s[2]] = i})
    + Cardinality({k \in FsInfos : fsi[k].pwd = i}) + Cardinality({k \in FsInfos : fsi[k].root = i})
    + Cardinality({t \in Tasks : Holding(t, i)}) + lost[i]
UsesOfMount(m) ==
    Cardinality({i \in 1 .. MaxFiles : fd[i] \notin {NULL, FREED} /\ fd[i].m = m})
    + Cardinality({t \in Tasks : call[t].pc = "found" /\ call[t].m = m})
Cloning(t) == call[t].pc \in {"copyfs", "wild"} /\ call[t].child # NULL
\* A file is as often counted as it is referred to: by descriptors, directories
\* and calls, and by the descriptors that an unlocked store overwrote.  What is
\* referred to is not freed, and a mount is counted by its files.  So a file is
\* closed, and a mount can be unmounted, when the last user is gone.
RefsExact ==
    /\ \A i \in 1 .. MaxFiles :
         IF fd[i] \in {NULL, FREED} THEN References(i) = lost[i] ELSE fd[i].refs = References(i)
    /\ \A m \in ToSet(mounts) : mnt[m].refs = UsesOfMount(m)
    /\ \A k \in Tabs : tab[k].refs = Cardinality({t \in Tasks : task[t] # NULL /\ task[t].files = k})
                                    + Cardinality({t \in Tasks : Cloning(t) /\ call[t].m = k})
\* A call never uses a file after it was freed, unless another task shares the
\* table (or the directories) it took the file from.  A descriptor that a
\* task alone owns is only overwritten or made close-on-exec by that task.
OwnFilesAlive ==
    /\ \A t \in Tasks : call[t].pc = "wild" => call[t].shared
    /\ (\A k \in Tabs : tab[k].refs = 1) /\ load.share = {FALSE}
         => /\ \A i \in 1 .. MaxFiles : lost[i] = 0
            /\ \A k \in Tabs : \A f \in tab[k].cloexec : tab[k].files[f] # NULL
\* The mount a look-up returns is the one its path belongs to, and is still
\* mounted, unless the list changed between the look at the cache and the lock.
MountFound ==
    \A t \in Tasks :
      /\ call[t].pc = "stale" => call[t].raced
      /\ call[t].pc = "hit" /\ ~call[t].raced => call[t].m = MountOf(call[t].path)
\* The invariants above together.
TablesSound == TypeOK /\ RefsExact /\ OwnFilesAlive /\ MountFound
=============================================================================
