------------------------------- MODULE FileLock ------------------------------
(***************************************************************************)
(* fs/lock.c: the POSIX locks of one inode, kept as a list of ranges, and  *)
(* their use by fcntl (F_SETLK, F_SETLKW and the 64-bit forms) and close.  *)
(* Every operation holds inode->lock throughout, so it is one step.        *)
(***************************************************************************)
EXTENDS Integers, SequencesExt

CONSTANTS Owner,     \* struct fdtable pointers
          MaxOff,    \* stands for OFF_T_MAX
          Cmds       \* the fcntl commands that callers use

ASSUME FileLockConstants ==
    /\ MaxOff \in Nat
    /\ Cmds \subseteq {"F_SETLK", "F_SETLKW", "F_SETLK64", "F_SETLKW64"}

VARIABLES posix_locks,   \* inode->posix_locks
          ret            \* command and result of the last fcntl

vars == <<posix_locks, ret>>

Byte == 0 .. MaxOff
Types == {"read", "write"}
Lock == [owner : Owner, type : Types, start : Byte, end : Byte]

Init == posix_locks = << >> /\ ret = << >>
------------------------------------------------------------------------------
file_locks_overlap(a, b) == a.end >= b.start /\ b.end >= a.start
file_locks_conflict(a, b) ==
    /\ a.owner # b.owner
    /\ file_locks_overlap(a, b)
    /\ a.type = "write" \/ b.type = "write"
file_locks_adjacent(a, b) == a.end = b.start - 1 \/ b.end = a.start - 1

\* Mutant: a lock that sticks out on both ends is cut instead of split.
Subtract_no_split(lock, request) ==
    IF lock.start < request.start
      THEN <<[lock EXCEPT !.end = request.start - 1]>>
    ELSE IF lock.end > request.end
      THEN <<[lock EXCEPT !.start = request.end + 1]>>
    ELSE << >>

\* What is left of lock when request overrides part of it: the piece that
\* sticks out at the start and the one that sticks out at the end.
Subtract(lock, request) ==
    (IF lock.start < request.start
       THEN <<[lock EXCEPT !.end = request.start - 1]>> ELSE << >>)
    \o
    (IF lock.end > request.end
       THEN <<[lock EXCEPT !.start = request.end + 1]>> ELSE << >>)

\* request grown to cover a lock of the same type.
Extend(request, lock) ==
    [request EXCEPT !.start = IF lock.start < @ THEN lock.start ELSE @,
                    !.end   = IF lock.end > @ THEN lock.end ELSE @]

\* One round of the loop of file_lock_acquire.  w.before is the list already
\* walked; the locks from the one that broke the loop on collect in w.after.
Visit(w, lock) ==
    LET r == w.request
        ours == lock.owner = r.owner
        keep == [w EXCEPT !.before = Append(@, lock), !.found = @ \/ ours]
    IN  IF w.after # << >> \/ (w.found /\ ~ours)
          THEN [w EXCEPT !.after = Append(@, lock)]
        ELSE IF ~ours THEN keep
        ELSE IF r.type = lock.type
          THEN IF file_locks_overlap(lock, r) \/ file_locks_adjacent(r, lock)
                 THEN [w EXCEPT !.request = Extend(r, lock), !.found = TRUE]
                 ELSE keep
        ELSE IF file_locks_overlap(lock, r)
          THEN [w EXCEPT !.before = @ \o Subtract(lock, r), !.found = TRUE]
          ELSE keep

\* Mutant: the new lock always goes to the tail of the list.
Placed_at_tail(locks, request) ==
    LET w == FoldLeft(Visit, [before |-> << >>, after |-> << >>,
                              request |-> request, found |-> FALSE], locks)
    IN  w.before \o w.after
                 \o (IF request.type = "none" THEN << >> ELSE <<w.request>>)

\* The list after request has been placed: it goes before the lock that ended
\* the walk, or to the tail.
Placed(locks, request) ==
    LET w == FoldLeft(Visit, [before |-> << >>, after |-> << >>,
                              request |-> request, found |-> FALSE], locks)
    IN  w.before \o (IF request.type = "none" THEN << >> ELSE <<w.request>>)
                 \o w.after

Conflicting(locks, request) ==
    \E i \in DOMAIN locks : file_locks_conflict(locks[i], request)

\* file_lock_acquire returns EAGAIN, or places the request.
EAGAIN(locks, request) ==
    request.type # "none" /\ Conflicting(locks, request)

\* start and len of a struct flock (whence already added) as a byte range.
file_lock_from_flock(o, type, start, len) ==
    [owner |-> o, type |-> type,
     start |-> IF len < 0 THEN start + len ELSE start,
     end   |-> IF len > 0 THEN start + len - 1
               ELSE IF len < 0 THEN start - 1 ELSE MaxOff]

\* The struct flock that F_GETLK reports for a lock: its start and len.
flock_from_file_lock(lock) ==
    [start |-> lock.start,
     len   |-> IF lock.end # MaxOff THEN lock.end - lock.start + 1 ELSE 0]

\* The requests of callers, with a range within 0 .. OFF_T_MAX; the code does
\* not reject others.
Requests ==
    {r \in {file_lock_from_flock(o, type, start, len) :
               o \in Owner, type \in Types \cup {"none"}, start \in Byte,
               len \in -MaxOff .. MaxOff + 1} :
       r.start \in Byte /\ r.end \in Byte /\ r.start <= r.end}

\* The last argument that sys_fcntl passes for each command.
blocking(cmd) ==
    IF cmd \in {"F_SETLK", "F_SETLKW"} THEN cmd = "F_SETLKW64"
                                       ELSE cmd = "F_SETLKW"

\* sys_fcntl and fcntl_setlk.  A request that conflicts and is not blocking
\* returns EAGAIN; a blocking one would sleep on posix_unlock and try again,
\* which no command asks for.
fcntl_setlk(cmd, request) ==
    IF EAGAIN(posix_locks, request)
      THEN ~blocking(cmd) /\ ret' = <<cmd, "EAGAIN">> /\ UNCHANGED posix_locks
      ELSE /\ posix_locks' = Placed(posix_locks, request)
           /\ ret' = <<cmd, "0">>

\* close drops every lock the descriptor table holds on the inode.
file_lock_remove_owned_by(o) ==
    /\ posix_locks' = SelectSeq(posix_locks, LAMBDA l : l.owner # o)
    /\ ret' = << >>

Next ==
    \/ \E cmd \in Cmds, request \in Requests : fcntl_setlk(cmd, request)
    \/ \E o \in Owner : file_lock_remove_owned_by(o)

Spec == Init /\ [][Next]_vars
------------------------------------------------------------------------------
\* The list holds locks with a range within 0 .. OFF_T_MAX and nothing else.
TypeOK == posix_locks \in Seq(Lock) /\ ret \in (Cmds \X {"0", "EAGAIN"}) \cup {<< >>}

\* The list is what file_lock_acquire relies on when it walks it: the locks of
\* an owner are next to each other (the walk stops at the first lock of
\* another owner), they do not overlap, and two of the same type do not even
\* touch, because acquiring merges them.
WellFormed ==
    /\ \A i, j, k \in DOMAIN posix_locks :
         i < j /\ j < k /\ posix_locks[i].owner = posix_locks[k].owner
             => posix_locks[j].owner = posix_locks[i].owner
    /\ \A i, j \in DOMAIN posix_locks :
         LET a == posix_locks[i]
             b == posix_locks[j]
         IN  i # j /\ a.owner = b.owner =>
                 /\ a.end < b.start \/ b.end < a.start
                 /\ a.type = b.type => a.end + 1 < b.start \/ b.end + 1 < a.start

\* The range F_GETLK reports for a lock is the range a caller would lock by
\* passing it back, up to and including locks that reach OFF_T_MAX.
GetlkRoundTrip ==
    \A i \in DOMAIN posix_locks :
        LET l == posix_locks[i]
            f == flock_from_file_lock(l)
        IN  file_lock_from_flock(l.owner, l.type, f.start, f.len) = l

\* What the list says about each owner and byte.
Held ==
    [o \in Owner |-> [b \in Byte |->
        LET I == {i \in DOMAIN posix_locks :
                    LET l == posix_locks[i] IN l.owner = o /\ l.start <= b /\ b <= l.end}
        IN  IF I = {} THEN "none" ELSE posix_locks[CHOOSE i \in I : TRUE].type]]
Bytes == INSTANCE ByteLocks WITH held <- Held
\* The list implements one lock state per owner and byte: merging, splitting
\* and overriding ranges changes exactly the bytes of the request.
ImplementsByteLocks == Bytes!Spec

\* file_lock_acquire answers EAGAIN exactly when the abstract table denies one
\* of the bytes of the request to its owner.
RefusedOnlyIfDenied ==
    \A o \in Owner, type \in Types, lo, hi \in Byte :
        LET r == [owner |-> o, type |-> type, start |-> lo, end |-> hi]
        IN  lo <= hi =>
              (EAGAIN(posix_locks, r)
                 <=> Bytes!Denied(o, type, Bytes!Interval(lo, hi)))

\* The list is in order, and answers are what the table says (the four above).
RecordLocks == TypeOK /\ WellFormed /\ GetlkRoundTrip /\ RefusedOnlyIfDenied

\* F_SETLKW waits for a conflicting lock instead of failing with EAGAIN.
SetlkwWaits ==
    ret # << >> /\ ret[1] \in {"F_SETLKW", "F_SETLKW64"} => ret[2] # "EAGAIN"
==============================================================================
