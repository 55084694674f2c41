------------------------------- MODULE PathWalk -------------------------------
(***************************************************************************)
(* How path names are resolved (fs/path.c) and the calls of kernel/fs.c    *)
(* that hand them to a file system: chdir, chroot, open, mkdir, chmod,     *)
(* chown, truncate, access, readlink.  A path is a sequence of components; *)
(* the tree maps the normalized path of everything that exists to its      *)
(* attributes.  Namei is what Linux does, for comparison.                  *)
(***************************************************************************)
EXTENDS Naturals, Sequences, SequencesExt, FiniteSets

CONSTANTS NULL,
          PathLoads  \* trees, credentials and the calls made on them

Bits == {"r", "w", "x"}
Mode(u, g, o) == [u |-> u, g |-> g, o |-> o]
MAX_LEVELS == 5       \* links followed in one lookup
AT_PWD == "AT_PWD"

\* A path as given: absolute or not, its components, a slash at the end.
Path(abs, names, slash) == [abs |-> abs, names |-> names, slash |-> slash]
File(kind, mode, uid, gid) == [kind |-> kind, mode |-> mode, uid |-> uid, gid |-> gid, size |-> 0,
                               link |-> Path(FALSE, <<>>, FALSE)]
Link(to) == [File("link", Mode(Bits, Bits, Bits), 0, 0) EXCEPT !.link = to]

VARIABLES pload,  \* never changes
          tree,
          root, pwd, umask,   \* fs_info
          opened, \* path of the file that one descriptor is open on, or NULL
          pcalls  \* calls made so far

vars == <<pload, tree, root, pwd, umask, opened, pcalls>>

Init ==
    /\ pload \in PathLoads
    /\ tree = pload.tree /\ pwd = pload.pwd /\ root = <<>>
    /\ umask = Mode({}, {"w"}, {"w"}) /\ opened = NULL /\ pcalls = 0

Exists(p) == p \in DOMAIN tree
IsDir(p) == Exists(p) /\ tree[p].kind = "dir"
IsLink(p) == Exists(p) /\ tree[p].kind = "link"
Cred == pload.cred   \* uid, gid, euid, egid
------------------------------------------------------------------------------
\* access_check with euid and egid: one of the bits asked for is enough, and
\* the groups of the process other than egid do not count.
access_check(file, uid, gid, check) ==
    \/ uid = 0 \/ check = {}
    \/ (IF uid = file.uid THEN file.mode.u ELSE IF gid = file.gid THEN file.mode.g ELSE file.mode.o)
         \cap check # {}
Allowed(who, p, check) == access_check(tree[p], who.uid, who.gid, check)
Effective == [uid |-> Cred.euid, gid |-> Cred.egid]
Real == [uid |-> Cred.uid, gid |-> Cred.gid]

Found(p) == [err |-> "ok", out |-> p]
Error(e) == [err |-> e, out |-> <<>>]
Parent(p) == IF p = <<>> THEN p ELSE Front(p)

RECURSIVE __path_normalize(_, _, _, _, _, _)
\* Mutant: the rest of the path is dropped when a link is expanded.
Expanded_only(out, rest) ==
    LET to == tree[out].link IN IF to.abs THEN to.names ELSE Parent(out) \o to.names
\* A link's target, and the rest of the path behind it, from the top of the
\* tree: an absolute target replaces what was walked, a relative one the link.
Expanded(out, rest) ==
    LET to == tree[out].link IN (IF to.abs THEN to.names ELSE Parent(out) \o to.names) \o rest
\* slash: the last component has a slash behind it, which is lost with the
\* expansion of a link there.
__path_normalize(who, out, path, slash, follow, levels) ==
    IF path = <<>> THEN Found(out)
    ELSE LET rest == Tail(path)
             next == Append(out, Head(path))
             more == rest # <<>>
         IN  CASE Head(path) = "." -> __path_normalize(who, out, rest, slash, follow, levels)
               [] Head(path) = ".." -> __path_normalize(who, Parent(out), rest, slash, follow, levels)
               [] OTHER ->
                  IF ~(follow \/ more) THEN __path_normalize(who, next, rest, slash, follow, levels)
                  ELSE IF IsLink(next)
                  THEN IF levels >= MAX_LEVELS THEN Error("ELOOP")
                       ELSE __path_normalize(who, <<>>, Expanded(next, rest), more /\ slash, follow, levels + 1)
                  ELSE IF (more \/ slash) /\ Exists(next) /\ ~IsDir(next) THEN Error("ENOTDIR")
                  ELSE IF (more \/ slash) /\ Exists(next) /\ ~Allowed(who, next, {"x"}) THEN Error("EACCES")
                  ELSE __path_normalize(who, next, rest, slash, follow, levels)

\* Where a lookup starts: at is AT_PWD, the path of a descriptor's file, or NULL.
Start(at, path) == IF path.abs THEN root ELSE IF at = AT_PWD THEN pwd ELSE at
NormalizedFor(who, at, path, follow) ==
    IF ~path.abs /\ path.names = <<>> THEN Error("ENOENT")
    ELSE IF ~path.abs /\ at = NULL THEN Error("EBADF")
    ELSE __path_normalize(who, Start(at, path), path.names, path.slash, follow, 0)
path_normalize(at, path, follow) == NormalizedFor(Effective, at, path, follow)
\* at_fd: the directory a call names by number.
at_fd(at) == IF at = AT_PWD THEN AT_PWD ELSE opened
------------------------------------------------------------------------------
\* What a call finds: the normalized path, or an error.
generic_statat(at, path, follow) ==
    LET r == path_normalize(at, path, follow)
    IN  IF r.err = "ok" /\ ~Exists(r.out) THEN Error("ENOENT") ELSE r
\* faccessat checks with the real ids in the place of the effective ones, also
\* for the directories on the way.
sys_faccessat(path, mode, eaccess) ==
    LET who == IF eaccess THEN Effective ELSE Real
        r == NormalizedFor(who, AT_PWD, path, TRUE)
    IN  r.err = "ok" /\ Exists(r.out) /\ Allowed(who, r.out, mode)
sys_readlinkat(at, path) ==
    LET r == path_normalize(at_fd(at), path, FALSE)
    IN  IF r.err = "ok" /\ IsLink(r.out) THEN tree[r.out].link ELSE NULL
\* The path from the top of the tree, whatever the root of the process.
sys_getcwd == pwd

Uses(op) == op \in pload.ops
apply_umask(mode) == [c \in DOMAIN mode |-> mode[c] \ umask[c]]
\* A new file under a directory; only the file system minds that there is one.
Made(p, kind, mode) ==
    tree' = [q \in DOMAIN tree \cup {p} |->
               IF q = p THEN File(kind, apply_umask(mode), Cred.euid, Cred.egid) ELSE tree[q]]
\* A file that is made for the call may be one that the caller cannot read: it
\* stays, and the open fails.
sys_openat(at, path, creat, mode) ==
    LET r == path_normalize(at_fd(at), path, TRUE)
    IN  /\ Uses("open") /\ r.err = "ok"
        /\ \/ /\ Exists(r.out) /\ ~IsLink(r.out) /\ Allowed(Effective, r.out, {"r"})
              /\ opened' = r.out /\ UNCHANGED tree
           \/ /\ creat /\ ~Exists(r.out) /\ IsDir(Parent(r.out)) /\ Made(r.out, "file", mode)
              /\ opened' = IF Cred.euid = 0 \/ "r" \in apply_umask(mode).u THEN r.out ELSE opened
        /\ UNCHANGED <<pload, root, pwd, umask>>
\* openat2 refuses what it does not know of.
sys_openat2(path, resolve) == resolve = 0 /\ sys_openat(AT_PWD, path, FALSE, Mode({}, {}, {}))
sys_mkdirat(path, mode) ==
    LET r == path_normalize(AT_PWD, path, TRUE)
    IN  /\ Uses("mkdir") /\ r.err = "ok" /\ ~Exists(r.out) /\ IsDir(Parent(r.out))
        /\ Made(r.out, "dir", mode)
        /\ UNCHANGED <<pload, root, pwd, umask, opened>>

\* open_dir: looked up, then opened, for which the directory has to be readable.
open_dir(path) ==
    LET r == generic_statat(AT_PWD, path, TRUE)
    IN  IF r.err # "ok" THEN r
        ELSE IF ~IsDir(r.out) THEN Error("ENOTDIR")
        ELSE IF ~Allowed(Effective, r.out, {"r"}) THEN Error("EACCES") ELSE r
sys_chdir(path) ==
    /\ Uses("chdir") /\ open_dir(path).err = "ok" /\ pwd' = open_dir(path).out
    /\ UNCHANGED <<pload, tree, root, umask, opened>>
\* The descriptor may be open on anything.
sys_fchdir ==
    /\ Uses("fchdir") /\ opened # NULL /\ pwd' = opened
    /\ UNCHANGED <<pload, tree, root, umask, opened>>
\* The working directory stays where it is.
sys_chroot(path) ==
    /\ Uses("chroot") /\ open_dir(path).err = "ok" /\ root' = open_dir(path).out
    /\ UNCHANGED <<pload, tree, pwd, umask, opened>>
sys_umask(mask) ==
    /\ Uses("umask") /\ umask' = mask
    /\ UNCHANGED <<pload, tree, root, pwd, opened>>

\* setattr of a path and fsetattr of a descriptor: nobody asks who the caller is.
Changed(f, attr) == [x \in DOMAIN f |-> IF x \in DOMAIN attr THEN attr[x] ELSE f[x]]
generic_setattrat(at, path, follow, attr) ==
    LET r == generic_statat(at, path, follow)
    IN  /\ r.err = "ok" /\ tree' = [tree EXCEPT ![r.out] = Changed(@, attr)]
        /\ UNCHANGED <<pload, root, pwd, umask, opened>>
generic_fsetattr(attr) ==
    /\ opened # NULL /\ tree' = [tree EXCEPT ![opened] = Changed(@, attr)]
    /\ UNCHANGED <<pload, root, pwd, umask, opened>>
sys_fchmod(mode) == Uses("chmod") /\ generic_fsetattr([mode |-> mode])
\* An empty path is the descriptor itself, or the working directory, with
\* AT_EMPTY_PATH.
do_fchmodat(at, path, mode, nofollow, empty_path) ==
    LET attr == [mode |-> mode]
    IN  /\ Uses("chmod")
        /\ IF empty_path /\ ~path.abs /\ path.names = <<>>
           THEN IF at = AT_PWD THEN generic_setattrat(AT_PWD, Path(FALSE, <<".">>, FALSE), TRUE, attr)
                ELSE generic_fsetattr(attr)
           ELSE /\ at_fd(at) # NULL
                /\ generic_setattrat(at_fd(at), path, ~nofollow, attr)
sys_fchown32(owner, group) ==
    Uses("chown") /\ generic_fsetattr([uid |-> owner, gid |-> group])
\* Owner and group are set one after the other, by the same path.
sys_fchownat(path, owner, group, nofollow) ==
    /\ Uses("chown")
    /\ generic_setattrat(AT_PWD, path, ~nofollow, [uid |-> owner, gid |-> group])
\* A size is for a file.  No directory to start from is given, so that a
\* relative path is refused.
sys_truncate64(path, size) ==
    /\ Uses("truncate") /\ IsDir(generic_statat(NULL, path, TRUE).out) = FALSE
    /\ generic_setattrat(NULL, path, TRUE, [size |-> size])
sys_ftruncate64(size) ==
    /\ Uses("truncate") /\ opened # NULL /\ ~IsDir(opened)
    /\ generic_fsetattr([size |-> size])
sys_fallocate(offset, len) ==
    /\ Uses("truncate") /\ opened # NULL /\ ~IsDir(opened)
    /\ offset + len > tree[opened].size
    /\ generic_fsetattr([size |-> offset + len])
------------------------------------------------------------------------------
Modes == pload.modes
Call ==
    \/ \E at \in {AT_PWD, "fd"}, p \in pload.paths, creat \in BOOLEAN, m \in Modes :
         (at = AT_PWD \/ opened # NULL) /\ sys_openat(at, p, creat, m)
    \/ \E p \in pload.paths :
         \/ sys_openat2(p, 0) \/ sys_chdir(p) \/ sys_chroot(p)
         \/ \E m \in Modes : sys_mkdirat(p, m)
         \/ \E size \in 0 .. 1 : sys_truncate64(p, size)
         \/ \E id \in pload.ids, no \in BOOLEAN : sys_fchownat(p, id, id, no)
         \/ \E m \in Modes, at \in {AT_PWD, "fd"}, no \in BOOLEAN, empty \in BOOLEAN :
              do_fchmodat(at, p, m, no, empty)
    \/ sys_fchdir
    \/ \E m \in Modes : sys_umask(m) \/ sys_fchmod(m)
    \/ \E id \in pload.ids : sys_fchown32(id, id)
    \/ \E size \in 0 .. 1 : sys_ftruncate64(size) \/ sys_fallocate(size, 1)
Next == pcalls < pload.calls /\ pcalls' = pcalls + 1 /\ Call
Spec == Init /\ [][Next]_vars
------------------------------------------------------------------------------
\* Linux: every component is looked up in a directory that can be searched.
RECURSIVE Namei(_, _, _, _)
Namei(dir, path, follow, links) ==
    IF path = <<>> THEN Found(dir)
    ELSE LET rest == Tail(path)
             next == Append(dir, Head(path))
         IN  CASE ~Exists(dir) -> Error("ENOENT")
               [] ~IsDir(dir) -> Error("ENOTDIR")
               [] ~Allowed(Effective, dir, {"x"}) -> Error("EACCES")
               [] Head(path) = "." -> Namei(dir, rest, follow, links)
               [] Head(path) = ".." -> Namei(IF dir = root THEN dir ELSE Parent(dir), rest, follow, links)
               [] IsLink(next) /\ (follow \/ rest # <<>>) ->
                    IF links = MAX_LEVELS THEN Error("ELOOP")
                    ELSE LET to == tree[next].link
                         IN  Namei(IF to.abs THEN root ELSE dir, to.names \o rest, follow, links + 1)
               [] OTHER -> Namei(next, rest, follow, links)
\* The paths that are looked up: all relative ones of up to three of the names of
\* the load, and all absolute ones of up to two.
Asked ==
    LET Names(n) == UNION {[1 .. k -> pload.names] : k \in 1 .. n}
    IN  {Path(FALSE, names, FALSE) : names \in Names(3)} \cup {Path(TRUE, names, FALSE) : names \in Names(2)}
Searchable(p) == \A n \in 0 .. Len(p) :
    LET q == SubSeq(p, 1, n) IN IsDir(q) /\ Allowed(Effective, q, {"x"})
\* Any change of modes, owners, directory and tree: a lookup finds what Linux
\* finds or fails with the same error, except that the process is not kept
\* inside its root, that a slash at the end is not always minded, that what
\* leads to the starting point is searched once a link is met and not before,
\* and that a missing name is passed over when ".." follows.
ResolvesAsLinux ==
    \A path \in Asked, follow \in BOOLEAN :
      root = <<>> /\ Searchable(Start(AT_PWD, path)) =>
        LET n == Namei(Start(AT_PWD, path), path.names, follow, 0)
        IN  n.err = "ENOENT" \/ path_normalize(AT_PWD, path, follow) = n

\* What readlink gives for a name leads, from the directory of that name, to
\* where a lookup that follows links ends; and a lookup from the top of the tree
\* of what getcwd gives ends there.
LinkFollowed ==
    /\ \A path \in Asked :
         LET to == sys_readlinkat(AT_PWD, path)
             dir == Parent(path_normalize(AT_PWD, path, FALSE).out)
             end == path_normalize(AT_PWD, path, TRUE)
         IN  to # NULL /\ end.err = "ok" => end = path_normalize(IF to.abs THEN <<>> ELSE dir, [to EXCEPT !.abs = FALSE], TRUE)
    /\ LET here == __path_normalize(Effective, <<>>, sys_getcwd, FALSE, TRUE, 0)
       IN  here.err = "ok" => here = Found(pwd)
\* The root is a directory, and so is the working directory unless fchdir set
\* it; access grants a single right only to who has it.
DirsHeld ==
    /\ IsDir(root) /\ (Uses("fchdir") \/ IsDir(pwd))
    /\ \A path \in Asked, e \in BOOLEAN :
         LET who == IF e THEN Effective ELSE Real
             r == NormalizedFor(who, AT_PWD, path, TRUE)
             f == tree[r.out]
         IN  r.err = "ok" /\ Exists(r.out) =>
               \A bit \in Bits :
                 sys_faccessat(path, {bit}, e) =>
                   \/ who.uid = 0
                   \/ who.uid = f.uid /\ bit \in f.mode.u
                   \/ who.uid # f.uid /\ who.gid = f.gid /\ bit \in f.mode.g
                   \/ who.uid # f.uid /\ who.gid # f.gid /\ bit \in f.mode.o
\* The three together.
PathSound == ResolvesAsLinux /\ LinkFollowed /\ DirsHeld
=============================================================================
