------------------------------- MODULE FakeFs -------------------------------
(***************************************************************************)
(* fakefs (fs/fake.c, fs/fake-db.c, fs/fake-rebuild.c, fs/inode.c) under   *)
(* the path system calls of fs/generic.c: a tree of files on the host, and *)
(* a database that gives every path an inode and every inode its Linux     *)
(* metadata.  The two are changed one after the other: by several threads, *)
(* with the process dying anywhere, and with host directories bound into   *)
(* the tree.  Paths are normalized ones, as sequences of names.            *)
(***************************************************************************)
EXTENDS Naturals, Sequences, FiniteSets, FiniteSetsExt, SequencesExt

CONSTANTS Threads, NULL,
          PathOrder,    \* the paths there are, in the order of the table's key
          MaxIno,       \* bounds host inodes and rows
          Bound,        \* the path that host directories are bound to
          Loads         \* initial trees and what may be done to them

Paths == ToSet(PathOrder)
Kinds == {"file", "dir", "link", "node"}
NoFile == [ino |-> 0, kind |-> "none"]

\* tree: the files there are to begin with.  calls: how many system calls are
\* made, and on which paths.  ops: which ones.
Load == [tree : SUBSET [path : Paths, ino : 1 .. MaxIno, kind : Kinds],
         calls : Nat, paths : SUBSET Paths,
         ops : SUBSET {"open", "creat", "link", "unlink", "rmdir", "rename", "symlink",
                       "mknod", "mkdir", "access", "fchmod", "bind", "crash", "move"}]

ASSUME FakeFsConstants ==
    /\ NULL \notin Threads /\ Bound \in Paths /\ Loads \subseteq Load
    /\ \A p \in Paths : p # <<>> /\ (Len(p) > 1 => Front(p) \in Paths)

VARIABLES load,      \* never changes
          host,      \* the tree below mount->root_fd: path -> host inode and kind
          db,        \* meta.db as committed: paths, stats
          dblock,    \* who is inside a transaction that also changes the host
          call,      \* the system call every thread is in
          file,      \* the file every thread has open
          bind,      \* the slot of g_bind_mounts for Bound
          mounted, died, calls,
          hurt,      \* history: paths where host and database may have come apart
          leaked     \* history: rows that lost their last path without a cleanup
fakefs_vars == <<load, host, db, dblock, call, file, bind, mounted, died, calls, hurt, leaked>>

FakeFsInit ==
    /\ load \in Loads
    /\ host = [p \in Paths |->
                 IF \E n \in load.tree : n.path = p
                 THEN LET n == CHOOSE n \in load.tree : n.path = p
                      IN  [ino |-> n.ino, kind |-> IF n.kind = "dir" THEN "dir" ELSE "file"]
                 ELSE NoFile]
    /\ db = [path |-> [p \in Paths |-> host[p].ino],
             stat |-> [i \in 1 .. MaxIno |->
                         IF \E n \in load.tree : n.ino = i
                         THEN [kind |-> (CHOOSE n \in load.tree : n.ino = i).kind, perm |-> 0]
                         ELSE NULL]]
    /\ dblock = NULL /\ call = [t \in Threads |-> NULL] /\ file = [t \in Threads |-> NULL]
    /\ bind = [mode |-> "none", todo |-> <<>>]
    /\ mounted = FALSE /\ died = FALSE /\ calls = 0 /\ hurt = {} /\ leaked = {}
------------------------------------------------------------------------------
(* The host's file system (external), reached through fs/real.c: what an   *)
(* operation makes of the tree, and NULL where it fails.                    *)

Below == [p \in Paths |-> {q \in Paths : IsPrefix(p, q)}]
Under(p) == Below[p]
ParentIsDir(p) == Len(p) > 1 => host[Front(p)].kind = "dir"
Moved(q, src, dst) == dst \o SubSeq(q, Len(src) + 1, Len(q))
Fresh ==
    Min((1 .. MaxIno) \ ({host[p].ino : p \in Paths}
                         \union {call[t].h.ino : t \in {u \in Threads : call[u] # NULL}}
                         \union {file[t].h.ino : t \in {u \in Threads : file[u] # NULL}}))
NewFile(kind) == [ino |-> Fresh, kind |-> kind]

realfs_open(p, creat) ==
    CASE host[p] # NoFile -> host
      [] host[p] = NoFile /\ creat /\ ParentIsDir(p) -> [host EXCEPT ![p] = NewFile("file")]
      [] OTHER -> NULL
realfs_link(src, dst) ==
    IF host[src].kind = "file" /\ host[dst] = NoFile /\ ParentIsDir(dst)
    THEN [host EXCEPT ![dst] = host[src]] ELSE NULL
realfs_unlink(p) == IF host[p].kind = "file" THEN [host EXCEPT ![p] = NoFile] ELSE NULL
realfs_rmdir(p) ==
    IF host[p].kind = "dir" /\ \A q \in Under(p) \ {p} : host[q] = NoFile
    THEN [host EXCEPT ![p] = NoFile] ELSE NULL
\* Two names of one file: rename(2) does nothing and succeeds.
realfs_rename(src, dst) ==
    CASE host[src] # NoFile /\ host[src].ino = host[dst].ino -> host
      [] /\ host[src] # NoFile /\ host[src].ino # host[dst].ino
         /\ ParentIsDir(dst) /\ dst \notin Under(src)
         /\ host[dst] # NoFile => host[dst].kind = host[src].kind
         /\ \A q \in Under(dst) \ {dst} : host[q] = NoFile
         /\ \A q \in Under(src) : host[q] # NoFile => Moved(q, src, dst) \in Paths ->
           [p \in Paths |-> IF p \in Under(dst)
                            THEN LET q == Moved(p, dst, src)
                                 IN  IF q \in Paths THEN host[q] ELSE NoFile
                            ELSE IF p \in Under(src) THEN NoFile ELSE host[p]]
      [] OTHER -> NULL
HostCreate(p, kind) ==
    IF host[p] = NoFile /\ ParentIsDir(p) THEN [host EXCEPT ![p] = NewFile(kind)] ELSE NULL
realfs_mkdir(p) == HostCreate(p, "dir")
realfs_mknod(p) == HostCreate(p, "file")
------------------------------------------------------------------------------
(* The statements of fs/fake-db.c, on a database d.                         *)

Row(d, p) == d.path[p]
\* "insert into stats": SQLite takes the largest row number plus one.
path_create(d, p, kind) ==
    LET i == 1 + Max({0} \union {j \in 1 .. MaxIno : d.stat[j] # NULL})
    IN  [path |-> [d.path EXCEPT ![p] = i],
         stat |-> [d.stat EXCEPT ![i] = [kind |-> kind, perm |-> 0]]]
inode_write_stat(d, i, stat) == [d EXCEPT !.stat[i] = stat]
path_link(d, src, dst) == [d EXCEPT !.path[dst] = Row(d, src)]
path_unlink(d, p) == [d EXCEPT !.path[p] = 0]
\* "update or replace paths set path = change_prefix(path, src, dst)"
path_rename(d, src, dst) ==
    [d EXCEPT !.path =
       [p \in Paths |->
          LET from == {q \in Under(src) : Moved(q, src, dst) = p /\ Row(d, q) # 0}
          IN  IF from # {} THEN Row(d, CHOOSE q \in from : TRUE)
              ELSE IF p \in Under(src) THEN 0 ELSE Row(d, p)]]
\* Mutant: other links to the inode are not looked for.
try_cleanup_inode_linked(d, i) == IF i # 0 THEN [d EXCEPT !.stat[i] = NULL] ELSE d
try_cleanup_inode(d, i) ==
    IF i # 0 /\ \A p \in Paths : Row(d, p) # i THEN [d EXCEPT !.stat[i] = NULL] ELSE d
\* fake_db_init: "delete from stats where not exists ..."
delete_orphans(d) ==
    [d EXCEPT !.stat = [i \in 1 .. MaxIno |->
                          IF \E p \in Paths : Row(d, p) = i THEN d.stat[i] ELSE NULL]]

\* fakefs_rebuild, over the paths in order: a path takes the number of its host
\* file, read before the hard link to an earlier path of the same row is restored.
First(p) ==
    CHOOSE q \in Paths :
      /\ Row(db, q) = Row(db, p) /\ host[q] # NoFile
      /\ \A r \in Paths : Row(db, r) = Row(db, p) /\ host[r] # NoFile
                           => SelectInSeq(PathOrder, LAMBDA x : x = q)
                              <= SelectInSeq(PathOrder, LAMBDA x : x = r)
Kept(p) == Row(db, p) # 0 /\ host[p] # NoFile
rebuild_host ==
    [p \in Paths |-> IF Kept(p) /\ host[p].kind = "file" /\ host[First(p)].kind = "file"
                     THEN host[First(p)] ELSE host[p]]
rebuild_db ==
    [path |-> [p \in Paths |-> IF Kept(p) THEN host[p].ino ELSE 0],
     stat |-> [i \in 1 .. MaxIno |->
                 IF \E p \in Paths : Kept(p) /\ host[p].ino = i
                 THEN db.stat[Row(db, CHOOSE p \in Paths : Kept(p) /\ host[p].ino = i)]
                 ELSE NULL]]
------------------------------------------------------------------------------
(* What a path looks like, and the bookkeeping of calls.                    *)

fakefs_stat(p) == IF Row(db, p) # 0 /\ host[p] # NoFile THEN db.stat[Row(db, p)] ELSE NULL
fakefs_readlink(p) == Row(db, p) # 0 /\ db.stat[Row(db, p)].kind = "link"
\* What lies above p, as far as it exists, is a directory and no link.
path_normalize(p) ==
    \A q \in Paths \ {p} : p \in Under(q) =>
        ~fakefs_readlink(q) /\ (fakefs_stat(q) # NULL => fakefs_stat(q).kind = "dir")
is_under_bind_mount(p) == bind.mode # "none" /\ p \in Under(Bound)
\* Mutant: only the mount point itself is protected.
is_under_readonly_bind_mount_point(p) == bind.mode = "ro" /\ p = Bound
is_under_readonly_bind_mount(p) == bind.mode = "ro" /\ p \in Under(Bound)
\* Bound itself is neither removed nor renamed while something is bound to it.
Free(p) == p # Bound \/ bind.mode = "none"

Running == mounted /\ ~died
Mismatch ==
    {p \in Paths : \/ (Row(db, p) = 0) # (host[p] = NoFile)
                   \/ Row(db, p) # 0 /\ (db.stat[Row(db, p)].kind = "dir") # (host[p].kind = "dir")}
\* A call that has looked its path up and finds it changed by someone else.
Disturbed(c) ==
    IF c # NULL /\ (host'[c.p] # host[c.p] \/ db'.path[c.p] # db.path[c.p])
    THEN [c EXCEPT !.clash = TRUE] ELSE c
SetCall(t, c) == call' = [u \in Threads |-> IF u = t THEN c ELSE Disturbed(call[u])]
Go(t, pc) == SetCall(t, [call[t] EXCEPT !.pc = pc])
Return(t) == SetCall(t, NULL)
At(t, pc) == Running /\ call[t] # NULL /\ call[t].pc = pc

\* A system call, as far as its early returns: the path is resolved and the
\* read-only check passed.
Start(t, op, p, q, pc) ==
    /\ Running /\ call[t] = NULL /\ calls < load.calls /\ op \in load.ops
    /\ p \in load.paths /\ q \in load.paths
    /\ path_normalize(p) /\ path_normalize(q)
    /\ calls' = calls + 1
    /\ call' = [call EXCEPT ![t] = [op |-> op, pc |-> pc, p |-> p, q |-> q, h |-> NoFile,
                                    ino |-> 0, clash |-> FALSE, early |-> FALSE]]
    /\ UNCHANGED <<load, host, db, dblock, file, bind, mounted, died, hurt, leaked>>

generic_openat(t, p, creat) ==
    /\ file[t] = NULL /\ ~fakefs_readlink(p)
    /\ creat => ~is_under_readonly_bind_mount(p)
    /\ Start(t, IF creat THEN "creat" ELSE "open", p, p, "open")
generic_linkat(t, p, q) == ~is_under_readonly_bind_mount(q) /\ Start(t, "link", p, q, "host")
EnsureFirst(p) == IF is_under_bind_mount(p) THEN "ensure" ELSE "host"
generic_unlinkat(t, p) ==
    ~is_under_readonly_bind_mount(p) /\ Free(p) /\ Start(t, "unlink", p, p, EnsureFirst(p))
generic_rmdirat(t, p) ==
    /\ ~is_under_readonly_bind_mount(p) /\ Free(p) /\ ~fakefs_readlink(p)
    /\ Start(t, "rmdir", p, p, EnsureFirst(p))
generic_renameat(t, p, q) ==
    /\ ~is_under_readonly_bind_mount(p) /\ ~is_under_readonly_bind_mount(q)
    /\ Free(p) /\ Free(q) /\ Start(t, "rename", p, q, "host")
generic_symlinkat(t, p) == ~is_under_readonly_bind_mount(p) /\ Start(t, "symlink", p, p, "host")
generic_mknodat(t, p) == ~is_under_readonly_bind_mount(p) /\ Start(t, "mknod", p, p, "mknod")
generic_mkdirat(t, p) ==
    /\ ~is_under_readonly_bind_mount(p) /\ ~fakefs_readlink(p)
    /\ Start(t, "mkdir", p, p, "host")
\* stat, readdir and setattr of a path below a bind mount without a row.
generic_statat(t, p) ==
    is_under_bind_mount(p) /\ Row(db, p) = 0 /\ Start(t, "access", p, p, "ensure")
------------------------------------------------------------------------------
(* open: first the host's file, then a transaction for the row, then, under *)
(* inodes_lock, the inode.                                                  *)

fakefs_open(t) ==
    /\ At(t, "open")
    /\ UNCHANGED <<load, db, dblock, file, bind, mounted, died, calls, hurt, leaked>>
    /\ LET c == call[t]
           h == realfs_open(c.p, c.op = "creat")
       IN  IF h = NULL THEN UNCHANGED host /\ Return(t)
           ELSE /\ host' = h
                /\ SetCall(t, [c EXCEPT !.pc = "open_db", !.h = h[c.p]])

fakefs_open_row(t) ==
    /\ At(t, "open_db") /\ dblock = NULL
    /\ UNCHANGED <<load, host, dblock, file, bind, mounted, died, calls, leaked>>
    /\ LET c == call[t]
           d == IF Row(db, c.p) = 0 /\ c.op = "creat" THEN path_create(db, c.p, "file") ELSE db
       IN  /\ db' = d
           /\ hurt' = IF d # db /\ host[c.p] = NoFile THEN hurt \union {c.p} ELSE hurt
           /\ CASE Row(d, c.p) # 0 ->
                     SetCall(t, [c EXCEPT !.pc = "install", !.ino = Row(d, c.p)])
                [] Row(d, c.p) = 0 /\ is_under_bind_mount(c.p) -> Go(t, "ensure")
                [] OTHER -> Return(t)

\* fstat and inode_get_unlocked in one critical section of inodes_lock.
generic_openat_inode(t) ==
    /\ At(t, "install") /\ dblock = NULL
    /\ UNCHANGED <<load, host, db, dblock, bind, mounted, died, calls, hurt, leaked>>
    /\ IF db.stat[call[t].ino] = NULL THEN UNCHANGED file /\ Return(t)
       ELSE /\ file' = [file EXCEPT ![t] = [ino |-> call[t].ino, h |-> call[t].h,
                                            clash |-> call[t].clash \/ call[t].p \in hurt]]
            /\ IF db.stat[call[t].ino].kind = "link" THEN Go(t, "close") ELSE Return(t)

inode_get_data(i) == \E t \in Threads : file[t] # NULL /\ file[t].ino = i
\* inode_release: the last reference cleans the row up, under inodes_lock.
inode_release(t) ==
    LET i == file[t].ino
        last == \A u \in Threads \ {t} : file[u] # NULL => file[u].ino # i
        d == IF last THEN try_cleanup_inode(db, i) ELSE db
    IN  /\ file' = [file EXCEPT ![t] = NULL] /\ db' = d
        /\ leaked' = IF d # db THEN leaked \ {i} ELSE leaked
fd_close(t) ==
    /\ Running /\ file[t] # NULL /\ (call[t] # NULL => call[t].pc = "close") /\ dblock = NULL
    /\ UNCHANGED <<load, dblock, bind, mounted, died, calls, hurt>>
    /\ inode_release(t)
    /\ UNCHANGED host /\ Return(t)

fakefs_fsetattr(t) ==
    /\ Running /\ "fchmod" \in load.ops /\ file[t] # NULL /\ dblock = NULL
    /\ LET s == db.stat[file[t].ino]
       IN  /\ died' = (s = NULL)
           /\ db' = IF s = NULL THEN db
                    ELSE inode_write_stat(db, file[t].ino, [s EXCEPT !.perm = 1])
    /\ UNCHANGED <<load, host, dblock, call, file, bind, mounted, calls, hurt, leaked>>

\* The row of a path below a bind mount that the host has and the database has
\* not: looked for in one transaction, made in another.
bind_mount_ensure_inode(t) ==
    LET c == call[t]
        After(i) == CASE c.op = "access" -> Return(t)
                      [] c.op \in {"unlink", "rmdir"} -> Go(t, "host")
                      [] c.op \in {"open", "creat"} /\ i = 0 -> Return(t)
                      [] OTHER -> SetCall(t, [c EXCEPT !.pc = "install", !.ino = i])
    IN  \/ /\ At(t, "ensure") /\ dblock = NULL
           /\ UNCHANGED <<host, db, leaked>>
           /\ IF Row(db, c.p) # 0 \/ host[c.p] = NoFile THEN After(Row(db, c.p))
              ELSE Go(t, "ensure_create")
           /\ UNCHANGED <<load, dblock, file, bind, mounted, died, calls, hurt>>
        \/ /\ At(t, "ensure_create") /\ dblock = NULL
           /\ db' = path_create(db, c.p, IF host[c.p].kind = "dir" THEN "dir" ELSE "file")
           /\ leaked' = leaked \union ({Row(db, c.p)} \ {0})
           /\ UNCHANGED host
           /\ After(Row(db', c.p))
           /\ UNCHANGED <<load, dblock, file, bind, mounted, died, calls, hurt>>
------------------------------------------------------------------------------
(* The calls that change both sides: the host inside the transaction, the   *)
(* database when it commits.                                                *)

HostDone(c) ==
    CASE c.op = "link" -> realfs_link(c.p, c.q)
      [] c.op = "unlink" -> realfs_unlink(c.p)
      [] c.op = "rmdir" -> realfs_rmdir(c.p)
      [] c.op = "rename" -> realfs_rename(c.p, c.q)
      [] c.op = "symlink" -> HostCreate(c.p, "file")
      [] c.op = "mkdir" -> realfs_mkdir(c.p)
ChangeHost(t) ==
    /\ At(t, "host") /\ dblock = NULL
    /\ UNCHANGED <<load, db, file, bind, mounted, died, calls, leaked>>
    /\ LET c == call[t]
           h == HostDone(c)
       IN  IF h = NULL THEN UNCHANGED <<host, dblock, hurt>> /\ Return(t)
           ELSE /\ host' = h /\ dblock' = t /\ Go(t, "commit")
                /\ hurt' = IF c.op = "rename" /\ h = host /\ c.p # c.q
                           THEN hurt \union {c.p, c.q} ELSE hurt

Commit(t, op, d) ==
    /\ At(t, "commit") /\ call[t].op = op
    /\ dblock' = NULL /\ db' = d
    /\ UNCHANGED <<load, host, file, bind, mounted, calls>>
\* A row that its last path is taken from.
Replaced(p) == IF \A q \in Paths : Row(db', q) # Row(db, p) THEN {Row(db, p)} \ {0} ELSE {}

fakefs_link(t) ==
    LET c == call[t] IN
    /\ Commit(t, "link", IF Row(db, c.p) = 0 THEN db ELSE path_link(db, c.p, c.q))
    /\ died' = (Row(db, c.p) = 0)         \* "nonexistent src path"
    /\ leaked' = leaked \union Replaced(c.q)
    /\ hurt' = hurt \union (IF died' \/ c.p \in hurt THEN {c.q} ELSE {})
    /\ Return(t)
fakefs_unlink(t) ==
    /\ \E op \in {"unlink", "rmdir"} : Commit(t, op, path_unlink(db, call[t].p))
    /\ SetCall(t, [call[t] EXCEPT !.pc = "orphan", !.ino = Row(db, call[t].p)])
    /\ UNCHANGED <<died, hurt, leaked>>
inode_check_orphaned(t) ==
    /\ At(t, "orphan") /\ dblock = NULL
    /\ UNCHANGED <<load, dblock, file, bind, mounted, died, calls, hurt>>
    /\ LET i == call[t].ino
           d == IF inode_get_data(i) THEN db ELSE try_cleanup_inode(db, i)
       IN  db' = d /\ leaked' = IF d # db THEN leaked \ {i} ELSE leaked
    /\ UNCHANGED host /\ Return(t)
\* What is apart below the old name is apart below the new one.
fakefs_rename(t) ==
    LET c == call[t] IN
    /\ Commit(t, "rename", path_rename(db, c.p, c.q))
    /\ leaked' = leaked \union UNION {Replaced(q) : q \in Under(c.q)}
    /\ hurt' = hurt \union {q \in Under(c.q) :
                           LET r == Moved(q, c.q, c.p)
                           IN  \/ r \in hurt \/ (db'.path[q] = 0) # (host[q] = NoFile)
                               \/ r \in Paths /\ Row(db, r) = 0 /\ host[q] # NoFile}
    /\ Return(t) /\ UNCHANGED died
fakefs_create(t) ==
    LET c == call[t] IN
    /\ \E op \in {"mkdir", "symlink"} :
         Commit(t, op, path_create(db, c.p, IF op = "mkdir" THEN "dir" ELSE "link"))
    /\ leaked' = leaked \union Replaced(c.p)
    /\ Return(t) /\ UNCHANGED <<died, hurt>>

\* mknod changes the host before its transaction begins, and takes a file that
\* is there for its own.
fakefs_mknod(t) ==
    /\ At(t, "mknod")
    /\ UNCHANGED <<load, db, dblock, file, bind, mounted, died, calls, leaked>>
    /\ LET p == call[t].p
           h == realfs_mknod(p)
       IN  IF h = NULL /\ host[p] = NoFile THEN UNCHANGED <<host, hurt>> /\ Return(t)
           ELSE /\ host' = IF h = NULL THEN host ELSE h
                /\ hurt' = IF host[p].kind = "dir" THEN hurt \union {p} ELSE hurt
                /\ Go(t, "mknod_db")
fakefs_mknod_row(t) ==
    /\ At(t, "mknod_db") /\ dblock = NULL
    /\ UNCHANGED <<load, dblock, file, bind, mounted, died, calls, leaked>>
    /\ LET p == call[t].p
       IN  /\ db' = IF Row(db, p) = 0 THEN path_create(db, p, "node")
                    ELSE inode_write_stat(db, Row(db, p), [kind |-> "node", perm |-> 0])
           /\ hurt' = IF host[p].kind # "file" THEN hurt \union {p} ELSE hurt
    /\ UNCHANGED host /\ Return(t)
------------------------------------------------------------------------------
(* Bind mounts, made by the app, and the life of the mount.                 *)

\* The bound directory as the host's paths now reach it: it has a file of every
\* name.  Its inodes are not those of the tree.
Outside(p) ==
    [ino |-> MaxIno + SelectInSeq(PathOrder, LAMBDA x : x = p),
     kind |-> IF p = Bound THEN "dir" ELSE "file"]
\* remove_tree_at, create_relative_symlink
ReplaceTree == host' = [p \in Paths |-> IF p \in Under(Bound) THEN Outside(p) ELSE host[p]]
\* Calls that are past the read-only check when the flag changes.
SetFlag(mode, todo) ==
    /\ bind' = [mode |-> mode, todo |-> todo]
    /\ call' = [t \in Threads |-> IF call[t] = NULL THEN NULL ELSE [call[t] EXCEPT !.early = TRUE]]
fakefs_bind_mount(mode) ==
    /\ Running /\ "bind" \in load.ops /\ bind.todo = <<>> /\ calls < load.calls
    /\ calls' = calls + 1
    /\ ParentIsDir(Bound)
    /\ \/ bind.mode = "none" /\ SetFlag(mode, <<"host", "row">>)
       \/ bind.mode # "none" /\ SetFlag(mode, <<"row">>)
       \/ bind.mode # "none" /\ SetFlag(mode, <<"row", "host">>)
    /\ hurt' = hurt \union Under(Bound)
    /\ UNCHANGED <<load, host, db, dblock, file, mounted, died, leaked>>
fakefs_bind_mount_step ==
    /\ Running /\ bind.todo # <<>>
    /\ bind' = [bind EXCEPT !.todo = Tail(@)]
    /\ \/ Head(bind.todo) = "host" /\ ReplaceTree /\ UNCHANGED <<db, hurt>>
       \/ /\ Head(bind.todo) = "row" /\ dblock = NULL /\ UNCHANGED host
          /\ db' = IF Row(db, Bound) = 0 THEN path_create(db, Bound, "dir")
                   ELSE [db EXCEPT !.stat[Row(db, Bound)].kind = "dir"]
          /\ hurt' = hurt \union {p \in Paths : Row(db, p) # 0 /\ Row(db, p) = Row(db, Bound)}
    /\ call' = [t \in Threads |-> Disturbed(call[t])]
    /\ UNCHANGED <<load, dblock, file, mounted, died, calls, leaked>>
fakefs_bind_unmount ==
    /\ Running /\ bind.mode # "none" /\ bind.todo = <<>>
    /\ bind' = [mode |-> "none", todo |-> <<>>]
    /\ host' = [p \in Paths |-> IF p \in Under(Bound) THEN NoFile ELSE host[p]]
    /\ UNCHANGED db
    /\ call' = [t \in Threads |-> Disturbed(call[t])]
    /\ UNCHANGED <<load, dblock, file, mounted, died, calls, hurt, leaked>>

\* The process ends: the host keeps what was done, the database what was committed.
Interrupted == {t \in Threads : call[t] # NULL /\ call[t].pc \in {"commit", "open_db", "mknod_db"}}
Crash ==
    /\ Running /\ "crash" \in load.ops /\ calls < load.calls
    /\ mounted' = FALSE /\ dblock' = NULL
    /\ call' = [t \in Threads |-> NULL] /\ file' = [t \in Threads |-> NULL]
    /\ bind' = [mode |-> "none", todo |-> <<>>]
    /\ hurt' = hurt \union UNION {Under(call[t].p) \union Under(call[t].q) : t \in Interrupted}
    /\ calls' = calls + 1
    /\ UNCHANGED <<load, host, db, died, leaked>>
\* A copy of the tree made while it was not mounted: files have new inodes, and
\* links have become files.
Copied ==
    [p \in Paths |-> IF host[p] = NoFile THEN NoFile
                     ELSE [host[p] EXCEPT !.ino = SelectInSeq(PathOrder, LAMBDA x : x = p)]]
Move ==
    /\ ~mounted /\ ~died /\ "move" \in load.ops /\ host # Copied
    /\ host' = Copied
    /\ UNCHANGED <<load, db, dblock, call, file, bind, mounted, died, calls, hurt, leaked>>
\* fake_db_init: rebuild when meta.db itself has another inode than it had, that
\* is, when it was copied with the tree; then the rows without a path go.
fakefs_mount ==
    /\ ~mounted /\ ~died
    /\ mounted' = TRUE
    /\ IF "move" \in load.ops /\ host = Copied
       THEN host' = rebuild_host /\ db' = delete_orphans(rebuild_db)
       ELSE UNCHANGED host /\ db' = delete_orphans(db)
    /\ leaked' = {}
    /\ UNCHANGED <<load, dblock, call, file, bind, died, calls, hurt>>

Thread(t) ==
    \/ \E p \in Paths :
         \/ \E creat \in BOOLEAN : generic_openat(t, p, creat)
         \/ generic_unlinkat(t, p) \/ generic_rmdirat(t, p) \/ generic_symlinkat(t, p)
         \/ generic_mknodat(t, p) \/ generic_mkdirat(t, p) \/ generic_statat(t, p)
         \/ \E q \in Paths : generic_linkat(t, p, q) \/ generic_renameat(t, p, q)
    \/ fakefs_open(t) \/ fakefs_open_row(t) \/ generic_openat_inode(t)
    \/ fd_close(t) \/ fakefs_fsetattr(t) \/ bind_mount_ensure_inode(t)
    \/ ChangeHost(t) \/ fakefs_link(t) \/ fakefs_unlink(t) \/ inode_check_orphaned(t)
    \/ fakefs_rename(t) \/ fakefs_create(t) \/ fakefs_mknod(t) \/ fakefs_mknod_row(t)
Ended == (died \/ mounted) /\ (died \/ \A t \in Threads : call[t] = NULL) /\ UNCHANGED fakefs_vars
FakeFsNext ==
    \/ \E t \in Threads : Thread(t)
    \/ \E mode \in {"ro", "rw"} : fakefs_bind_mount(mode)
    \/ fakefs_bind_mount_step \/ fakefs_bind_unmount
    \/ Crash \/ Move \/ fakefs_mount \/ Ended
FakeFsSpec == FakeFsInit /\ [][FakeFsNext]_fakefs_vars
------------------------------------------------------------------------------
Inos == 0 .. MaxIno + Len(PathOrder)
FakeFsTypes ==
    /\ host \in [Paths -> [ino : Inos, kind : {"none", "file", "dir"}]]
    /\ db.path \in [Paths -> 0 .. MaxIno]
    /\ db.stat \in [1 .. MaxIno -> [kind : Kinds, perm : 0 .. 1] \union {NULL}]
    /\ dblock \in Threads \union {NULL} /\ hurt \subseteq Paths /\ leaked \subseteq 1 .. MaxIno

\* A row is there as long as a path names it or somebody has it open, also when
\* the file is unlinked while another thread is opening it (what
\* inode_read_stat_or_die relies on), and apart from those that a rename or a
\* second path_create took the path from, no other row stays behind.
RowsExact ==
    /\ \A p \in Paths : Row(db, p) # 0 => db.stat[Row(db, p)] # NULL
    /\ \A t \in Threads : file[t] # NULL => db.stat[file[t].ino] # NULL
    /\ Running /\ (\A t \in Threads : call[t] = NULL) =>
         \A i \in 1 .. MaxIno : db.stat[i] # NULL /\ i \notin leaked =>
            inode_get_data(i) \/ \E p \in Paths : Row(db, p) = i

Quiet ==
    /\ dblock = NULL
    /\ \A t \in Threads : call[t] # NULL => call[t].pc \notin {"open_db", "mknod_db"}
\* Host and database have the same paths, and the same directories, outside of
\* the calls that are under way.  They come apart only where the process died in
\* a call, where a file was removed while it was being created, where a rename
\* gave two names of one file, where mknod named a directory, or where something
\* was bound, to a path or to another name of its file; and a rename takes that
\* along.
Agree == Quiet => Mismatch \subseteq hurt

\* The inode of an open file is that of the host file it reads, unless its path
\* changed hands between the two halves of the open, or was one of those already.
OpenedFile ==
    Quiet => \A t \in Threads, p \in Paths \ hurt :
        file[t] # NULL /\ ~file[t].clash /\ Row(db, p) = file[t].ino
            => host[p].ino = file[t].h.ino

\* Paths are links to one file in the database if and only if they are on the host.
LinksKept ==
    Quiet /\ mounted => \A p, q \in Paths \ hurt :
        Row(db, p) # 0 /\ Row(db, q) # 0 =>
            (Row(db, p) = Row(db, q) <=> host[p].ino = host[q].ino)

\* Nothing below a read-only bind mount changes, whatever is called, except by
\* calls that had passed the check when it became read-only.
ReadOnlyKept ==
    [][/\ bind.mode = "ro" /\ bind' = bind
       /\ \A t \in Threads : call[t] # NULL => ~call[t].early
       => \A p \in Under(Bound) : host'[p] = host[p]]_fakefs_vars

\* The database and the host tree belong together (the invariants above).
RowsMatchHost == FakeFsTypes /\ RowsExact /\ Agree /\ OpenedFile /\ LinksKept
=============================================================================
