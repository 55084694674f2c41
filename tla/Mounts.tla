------------------------------- MODULE Mounts -------------------------------
(***************************************************************************)
(* The mount list of fs/mount.c: mounts in descending order of the length  *)
(* of their points, counted by those who use them, and looked up through a *)
(* cache of one entry per thread that a version number invalidates.        *)
(* Points and paths are sequences of names; the root's point is empty.     *)
(***************************************************************************)
EXTENDS Naturals, Sequences, FiniteSets, FiniteSetsExt, SequencesExt

CONSTANTS Tasks, NULL, FREED, MaxMounts

VARIABLES load,      \* never changes
          mounts,    \* the list: mount numbers
          mnt,       \* number -> point and refcount, FREED once removed
          cache,     \* last_mount_cache and mount_cache_version of every thread
          version,   \* global_mount_version
          call       \* the system call every task is in
mvars == <<mounts, mnt, cache, version>>

Idle == [pc |-> "idle"]
Matches(path, m) == IsPrefix(mnt[m].point, path)
\* The mount a path belongs to: the one with the longest point, and of several
\* on one point the latest.
Covering(path) == {mounts[i] : i \in {j \in 1 .. Len(mounts) : Matches(path, mounts[j])}}
MountOf(path) ==
    CHOOSE m \in Covering(path) :
      \A o \in Covering(path) :
        LET lm == Len(mnt[m].point)  lo == Len(mnt[o].point)
        IN  lo < lm \/ (lo = lm /\ o <= m)

MountInit ==
    /\ mounts = load.mounts
    /\ mnt = [m \in 1 .. MaxMounts |->
                IF m <= Len(load.points) THEN [point |-> load.points[m], refs |-> IF m = 1 THEN 2 ELSE 0] ELSE NULL]
    /\ cache = [t \in Tasks |-> [m |-> NULL, ver |-> 0]] /\ version = 0

\* Outside mounts_lock.  An entry of the current version is looked into.
Current(t) == cache[t].m # NULL /\ cache[t].ver = version
mount_cache_check(t, path) ==
    /\ Current(t) /\ mnt[cache[t].m].point # <<>> /\ Matches(path, cache[t].m)
\* The first mount in the list that the path is under.
FirstMatch(path) == mounts[SelectInSeq(mounts, LAMBDA m : Matches(path, m))]

\* A look-up, for the call t is in.  What is found is in call.m, with a reference.
mount_find(t) ==
    /\ call[t].pc = "find"
    /\ IF Current(t) /\ mnt[cache[t].m] = FREED
       THEN call' = [call EXCEPT ![t].pc = "stale"] /\ UNCHANGED mvars
       ELSE IF mount_cache_check(t, call[t].path)
       THEN /\ call' = [call EXCEPT ![t].pc = "hit", ![t].m = cache[t].m]
            /\ UNCHANGED mvars
       ELSE LET m == FirstMatch(call[t].path)
            IN  /\ call' = [call EXCEPT ![t].pc = "found", ![t].m = m]
                /\ mnt' = [mnt EXCEPT ![m].refs = @ + 1]
                /\ cache' = [cache EXCEPT ![t] = [m |-> m, ver |-> version]]
                /\ UNCHANGED <<mounts, version>>
\* The cached mount gets its reference under the lock.  It may be gone by now.
mount_find_cached(t) ==
    /\ call[t].pc = "hit"
    /\ LET m == call[t].m
       IN  IF mnt[m] = FREED
           THEN call' = [call EXCEPT ![t].pc = "stale"] /\ UNCHANGED mvars
           ELSE /\ call' = [call EXCEPT ![t].pc = "found"]
                /\ mnt' = [mnt EXCEPT ![m].refs = @ + 1]
                /\ UNCHANGED <<mounts, cache, version>>

Released(mm, m) == IF m = NULL THEN mm ELSE [mm EXCEPT ![m].refs = @ - 1]
mount_release(m) == mnt' = Released(mnt, m) /\ UNCHANGED <<mounts, cache, version>>

\* Who is between the check of the cache and the lock, and so may be overtaken.
Overtaken == [t \in Tasks |-> IF call[t].pc = "hit" THEN [call[t] EXCEPT !.raced = TRUE] ELSE call[t]]
\* do_mount: mounting the file system itself may fail.
do_mount(t, point) ==
    /\ \E m \in 1 .. MaxMounts : mnt[m] = NULL
    /\ LET m == CHOOSE m \in 1 .. MaxMounts : mnt[m] = NULL /\ \A o \in 1 .. m - 1 : mnt[o] # NULL
           at == {i \in 1 .. Len(mounts) : Len(mnt[mounts[i]].point) <= Len(point)}
       IN  /\ mnt' = [mnt EXCEPT ![m] = [point |-> point, refs |-> 0]]
           /\ mounts' = IF at = {} THEN Append(mounts, m) ELSE InsertAt(mounts, Min(at), m)
    /\ version' = version + 1
    /\ call' = [Overtaken EXCEPT ![t] = Idle] /\ UNCHANGED cache
do_umount(t, point) ==
    LET at == {i \in 1 .. Len(mounts) : mnt[mounts[i]].point = point}
        m == mounts[Min(at)]
    IN  IF at # {} /\ mnt[m].refs = 0
        THEN /\ mounts' = Remove(mounts, m) /\ mnt' = [mnt EXCEPT ![m] = FREED]
             /\ version' = version + 1
             /\ call' = [Overtaken EXCEPT ![t] = Idle] /\ UNCHANGED cache
        ELSE call' = [call EXCEPT ![t] = Idle] /\ UNCHANGED mvars
=============================================================================
