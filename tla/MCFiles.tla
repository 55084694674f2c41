------------------------------- MODULE MCFiles -------------------------------
(***************************************************************************)
(* For TLC: files, one component at a time: record locks, and fakefs with  *)
(* its database.                                                           *)
(***************************************************************************)
EXTENDS FileLock, FakeFs, TLC

CONSTANT Parts

\* Three bytes let a lock stick out of a request on both sides and let two locks
\* touch; three owners let the walk stop at a group that is followed by another.
Symmetry == Permutations(Owner) \cup Permutations(Threads)

A == <<"a">>
B == <<"b">>
AX == <<"a", "x">>
BX == <<"b", "x">>
Order == <<A, AX, B, BX>>
\* Two threads, with a process that may die anywhere: plain files, hard links, a
\* directory with a file in it, a rebuild after a move, and host directories bound.
FakeFsPrograms ==
  LET N(p, i, k) == [path |-> p, ino |-> i, kind |-> k]
      Dirs == {N(A, 1, "dir"), N(AX, 2, "file")}
      Flat == {N(A, 1, "file"), N(B, 2, "file")}
      Linked == {N(A, 1, "file"), N(B, 1, "file")}
      L(t, n, paths, ops) == [tree |-> t, calls |-> n, paths |-> paths, ops |-> ops]
  IN  { L(Flat, 3, {A, B}, {"open", "creat", "unlink", "rename", "fchmod"}),
        L(Linked, 3, {A, B}, {"creat", "link", "unlink", "rename", "crash"}),
        L(Linked, 4, {A, B}, {"link", "unlink", "rename", "crash"}),
        L(Dirs, 3, {A, B, AX, BX}, {"open", "rmdir", "rename", "mkdir", "symlink"}),
        L(Dirs, 3, {A, B, AX}, {"creat", "mkdir", "mknod", "rename", "crash"}),
        L(Dirs, 3, {A, B, AX}, {"creat", "open", "rename", "unlink", "crash", "move"}),
        L(Dirs, 3, {A, B, AX}, {"bind", "access", "unlink", "rename"}),
        L(Dirs, 3, {A, AX}, {"bind", "open", "creat", "unlink"}),
        L(Dirs, 3, {A, B, AX}, {"bind", "link", "rmdir", "mkdir", "crash"}) }

------------------------------------------------------------------------------
VARIABLE part   \* the component that runs; never changes

FilesInit ==
    /\ part \in Parts /\ Init
    /\ FakeFsInit /\ (part # "fakefs" => load = CHOOSE l \in FakeFsPrograms : TRUE)
FilesNext ==
    \/ part = "locks" /\ Next /\ UNCHANGED <<part, fakefs_vars>>
    \/ part = "fakefs" /\ FakeFsNext /\ UNCHANGED <<part, vars>>
FilesSpec == FilesInit /\ [][FilesNext]_<<part, vars, fakefs_vars>>
------------------------------------------------------------------------------
\* Record locks (fs/lock.c): the list of ranges is in order, F_GETLK reports ranges
\* as a caller would lock them, and EAGAIN is answered exactly when some byte is denied.
LockList == part = "locks" => RecordLocks
\* The list implements one lock state per owner and byte (ImplementsByteLocks for
\* this part): merging, splitting and overriding change the bytes of the request.
ByteLockSteps == Bytes!Init /\ [][part = "locks" => UNCHANGED posix_locks \/ Bytes!Next]_Held
==============================================================================
