------------------------------- MODULE FileIo -------------------------------
(***************************************************************************)
(* Reading and writing an open file that several processes share           *)
(* (kernel/fs.c), with the operations of its file system below: realfs,    *)
(* where the host keeps the position; tmpfs, which has no pread, so that a  *)
(* positioned call moves the position there and back; procfs, which has     *)
(* only pread, so that a plain read moves the position afterwards.  And the *)
(* listing of a tmpfs directory to which entries are added.                 *)
(***************************************************************************)
EXTENDS Integers, Sequences, FiniteSets, FiniteSetsExt, SequencesExt

CONSTANTS Procs, NULL,
          MaxSize,    \* bounds the position of a write
          Chunk,      \* the buffer of sendfile and copy_file_range
          Loads

VARIABLES load,    \* never changes: the file system, the initial file and directory,
                   \* calls and which, the largest offset, whether writes fall short
          data,    \* the file's bytes
          pos,     \* fd->offset, or the host's position
          fdlock,  \* who holds fd->lock
          io,      \* the call every process is in
          out,     \* bytes that sendfile and copy_file_range have delivered
          ref,     \* history: where reads, writes and seeks have left the position
          dir,     \* the directory's entries, in order of their index
          dirpos,  \* tmpfs.dir_pos: an entry, or 0 at the end
          seen,    \* history: entries the listing has returned
          calls
vars == <<load, data, pos, fdlock, io, out, ref, dir, dirpos, seen, calls>>

Idle == [pc |-> "idle"]
Init ==
    /\ load \in Loads
    /\ data = [i \in 1 .. load.size |-> i] /\ pos = 0 /\ ref = 0 /\ fdlock = NULL
    /\ io = [p \in Procs |-> Idle] /\ out = <<>>
    /\ dir = [i \in 1 .. load.entries |-> i] /\ dirpos = IF load.entries = 0 THEN 0 ELSE 1
    /\ seen = <<>> /\ calls = 0
------------------------------------------------------------------------------
(* The file systems' operations on the bytes.                               *)

Slice(d, off, n) == SubSeq(d, off + 1, Min({off + n, Len(d)}))
\* tmpfs_write: a hole is filled with zeroes (tmpfs_file_resize).
Overwritten(d, off, bytes) ==
    [i \in 1 .. Max({Len(d), off + Len(bytes)}) |->
       IF i \in off + 1 .. off + Len(bytes) THEN bytes[i - off]
       ELSE IF i <= Len(d) THEN d[i] ELSE 0]
\* tmpfs_read: size - offset is unsigned, so a position past the end of the file
\* is only noticed when the buffer is larger than the wrapped difference.
Width == 2 ^ 4
tmpfs_read_size(size, off, n) ==
    IF n > (size + Width - off) % Width
    THEN IF off >= size THEN 0 ELSE size - off
    ELSE n
\* What a read of n bytes at off returns: NULL for memory behind the file.
Bytes(off, n) ==
    IF load.kind = "tmp"
    THEN [i \in 1 .. tmpfs_read_size(Len(data), off, n) |->
            IF off + i <= Len(data) THEN data[off + i] ELSE NULL]
    ELSE Slice(data, off, n)
------------------------------------------------------------------------------
Has(op) == op \in load.ops
Start(p, op) ==
    /\ Has(op) /\ calls < load.calls /\ io[p].pc = "idle"
    /\ calls' = calls + 1 /\ UNCHANGED load
At(p, pc) == io[p].pc = pc /\ UNCHANGED <<load, calls>>
Set(p, c) == io' = [io EXCEPT ![p] = c]
Finish(p) == Set(p, Idle)
NoDir == UNCHANGED <<dir, dirpos, seen>>
Byte == 9

\* read and write: one operation of the file system, without fd->lock.  procfs
\* has only pread and pwrite: the position follows in a step of its own (lseek
\* by the result).
Read(p, n) ==
    LET got == Len(Bytes(pos, n))
    IN  /\ IF load.kind = "proc"
           THEN Set(p, [pc |-> "advance", n |-> got]) /\ UNCHANGED <<pos, ref>>
           ELSE pos' = pos + got /\ ref' = ref + got /\ UNCHANGED io
        /\ UNCHANGED <<data, fdlock, out>> /\ NoDir
sys_read_buf(p) == Start(p, "read") /\ \E n \in 1 .. 2 : Read(p, n)
\* read_iovec, iovec_size: the vector's buffers in one read.
iovec_size(iovec) == SumFunction(iovec)
Iovecs == {<<1>>, <<1, 1>>}
sys_readv(p) == Start(p, "readv") /\ \E iovec \in Iovecs : Read(p, iovec_size(iovec))
Write(p, n) ==
    /\ pos < MaxSize /\ data' = Overwritten(data, pos, [i \in 1 .. n |-> Byte])
    /\ IF load.kind = "proc" THEN Set(p, [pc |-> "advance", n |-> n]) /\ UNCHANGED <<pos, ref>>
       ELSE pos' = pos + n /\ ref' = ref + n /\ UNCHANGED io
    /\ UNCHANGED <<fdlock, out>> /\ NoDir
sys_write_buf(p) == Start(p, "write") /\ Write(p, 1)
\* read_iovec_to_buf: a vector is gathered before the file is touched.
sys_writev(p) == Start(p, "writev") /\ \E iovec \in Iovecs : Write(p, iovec_size(iovec))
advance(p) ==
    /\ At(p, "advance")
    /\ pos' = pos + io[p].n /\ ref' = ref + io[p].n /\ Finish(p)
    /\ UNCHANGED <<data, fdlock, out>> /\ NoDir

\* Where a seek goes, or NULL; the host's lseek does the same for a file.
generic_seek(off, whence) ==
    LET to == CASE whence = "LSEEK_SET" -> off
                [] whence = "LSEEK_CUR" -> pos + off
                [] whence = "LSEEK_END" -> Len(data) + off
    IN  IF to < 0 THEN NULL ELSE to
\* lseek, llseek: under fd->lock.
sys_lseek(p) ==
    /\ Start(p, "lseek") /\ fdlock = NULL
    /\ \E whence \in {"LSEEK_SET", "LSEEK_CUR", "LSEEK_END"}, off \in -1 .. load.far :
         /\ whence = "LSEEK_SET" => off >= 0
         /\ whence # "LSEEK_SET" => off <= 0
         /\ LET to == generic_seek(off, whence)
            IN  pos' = (IF to = NULL THEN pos ELSE to) /\ ref' = (IF to = NULL THEN ref ELSE to)
    /\ UNCHANGED <<data, fdlock, io, out>> /\ NoDir

\* pread, pwrite, preadv, pwritev.  With the file system's own operation they
\* are one step under fd->lock; otherwise the position is saved, set, used
\* and restored, all under the lock.
PositionedRead(p, n) ==
    /\ fdlock = NULL
    /\ \E off \in 0 .. load.far :
         IF load.kind # "tmp"
         THEN UNCHANGED <<pos, fdlock, io>>
         ELSE /\ fdlock' = p /\ pos' = off
              /\ Set(p, [pc |-> "pread", off |-> off, n |-> n, saved |-> pos,
                         got |-> <<>>, want |-> <<>>])
    /\ UNCHANGED <<data, out, ref>> /\ NoDir
sys_pread(p) == Start(p, "pread") /\ \E n \in 1 .. 2 : PositionedRead(p, n)
sys_preadv(p) ==
    Start(p, "preadv") /\ \E iovec \in Iovecs : PositionedRead(p, iovec_size(iovec))
fd_pread_buf(p) ==
    /\ At(p, "pread")
    /\ LET got == Bytes(pos, io[p].n)
       IN  /\ pos' = pos + Len(got)
           /\ Set(p, [io[p] EXCEPT !.pc = "restore", !.got = got,
                                   !.want = Slice(data, io[p].off, io[p].n)])
    /\ UNCHANGED <<data, fdlock, out, ref>> /\ NoDir
PositionedWrite(p, n) ==
    /\ fdlock = NULL
    /\ \E off \in 0 .. load.far :
         IF load.kind # "tmp"
         THEN /\ data' = Overwritten(data, off, [i \in 1 .. n |-> Byte])
              /\ UNCHANGED <<pos, fdlock, io>>
         ELSE /\ fdlock' = p /\ pos' = off
              /\ Set(p, [pc |-> "pwrite", off |-> off, n |-> n, saved |-> pos,
                         got |-> <<>>, want |-> <<>>])
              /\ UNCHANGED data
    /\ UNCHANGED <<out, ref>> /\ NoDir
sys_pwrite(p) == Start(p, "pwrite") /\ PositionedWrite(p, 1)
sys_pwritev(p) ==
    Start(p, "pwritev") /\ \E iovec \in Iovecs : PositionedWrite(p, iovec_size(iovec))
fd_pwrite_buf(p) ==
    /\ At(p, "pwrite")
    /\ LET bytes == [i \in 1 .. io[p].n |-> Byte]
       IN  /\ data' = Overwritten(data, pos, bytes) /\ pos' = pos + io[p].n
           /\ Set(p, [io[p] EXCEPT !.pc = "restore", !.got = data',
                                   !.want = Overwritten(data, io[p].off, bytes)])
    /\ UNCHANGED <<fdlock, out, ref>> /\ NoDir
\* Mutant: the position is left where the positioned call put it.
restore_not(p) ==
    /\ At(p, "restore") /\ fdlock' = NULL /\ Finish(p)
    /\ UNCHANGED <<data, pos, out, ref>> /\ NoDir
restore(p) ==
    /\ At(p, "restore")
    /\ pos' = io[p].saved /\ fdlock' = NULL /\ Finish(p)
    /\ UNCHANGED <<data, out, ref>> /\ NoDir
------------------------------------------------------------------------------
(* sendfile and copy_file_range: chunks are read and written in turn, from  *)
(* the caller's offset or from the position.  A write may fall short.        *)

sendfile(p, op) ==
    /\ Start(p, op) /\ load.kind # "tmp"
    /\ \E off \in 0 .. load.size, own \in {FALSE, TRUE}, n \in 1 .. Chunk + 1 :
         Set(p, [pc |-> "copy", op |-> op, own |-> own, off |-> IF own THEN off ELSE pos,
                 first |-> IF own THEN off ELSE pos, left |-> n, total |-> 0, buf |-> <<>>,
                 sent |-> <<>>])
    /\ UNCHANGED <<data, pos, fdlock, out, ref>> /\ NoDir
copy_read(p) ==
    /\ At(p, "copy") /\ io[p].left > 0
    /\ LET c == io[p]
           buf == Slice(data, IF c.own THEN c.off ELSE pos, Min({Chunk, c.left}))
       IN  /\ Set(p, IF buf = <<>> THEN [c EXCEPT !.pc = "copied"]
                     ELSE [c EXCEPT !.pc = "deliver", !.buf = buf,
                             !.off = IF c.op = "copy_file_range" /\ c.own THEN @ + Len(buf) ELSE @])
           /\ pos' = IF c.own THEN pos ELSE pos + Len(buf)
           /\ ref' = IF c.own THEN ref ELSE ref + Len(buf)
    /\ UNCHANGED <<data, fdlock, out>> /\ NoDir
copy_write(p) ==
    /\ At(p, "deliver")
    /\ \E n \in (IF load.short THEN 0 ELSE Len(io[p].buf)) .. Len(io[p].buf) :
         LET c == io[p]
         IN  Set(p, [c EXCEPT !.pc = IF n < Len(c.buf) THEN "copied" ELSE "copy",
                              !.sent = @ \o SubSeq(c.buf, 1, n), !.total = @ + n, !.left = @ - n,
                              !.off = IF c.op = "sendfile" /\ c.own THEN @ + n ELSE @])
    /\ UNCHANGED <<data, pos, fdlock, out, ref>> /\ NoDir
copy_done(p) ==
    /\ io[p].pc = "copied" \/ (io[p].pc = "copy" /\ io[p].left = 0)
    /\ out' = io[p].sent /\ Finish(p)
    /\ UNCHANGED <<load, calls, data, pos, fdlock, ref>> /\ NoDir
------------------------------------------------------------------------------
(* Listing a tmpfs directory, one process, while others add entries.        *)

NextEntry(e) == IF e < Len(dir) THEN e + 1 ELSE 0
\* tmpfs_seekdir: the first entry whose index is not below ptr.
tmpfs_seekdir(ptr) == IF ptr \in 1 .. Len(dir) THEN ptr ELSE 0
sys_getdents(p) ==
    /\ Start(p, "getdents") /\ ~\E q \in Procs : io[q].pc = "dents"
    /\ \E room \in 1 .. 2 : Set(p, [pc |-> "dents", room |-> room])
    /\ UNCHANGED <<data, pos, fdlock, out, ref>> /\ NoDir
\* One turn of the loop: an entry that no longer fits has been read and the
\* listing is put back to before it.  At the end the position is -1.
tmpfs_readdir(p) ==
    /\ At(p, "dents")
    /\ LET ptr == dirpos
       IN  CASE ptr = 0 -> Finish(p) /\ UNCHANGED <<dirpos, seen>>
             [] ptr # 0 /\ io[p].room > 0 ->
                  /\ Set(p, [io[p] EXCEPT !.room = @ - 1])
                  /\ dirpos' = NextEntry(ptr) /\ seen' = Append(seen, dir[ptr])
             [] ptr # 0 /\ io[p].room = 0 ->
                  Finish(p) /\ dirpos' = tmpfs_seekdir(ptr) /\ UNCHANGED seen
    /\ UNCHANGED <<data, pos, fdlock, out, ref, dir>>
tmpfs_dir_link(p) ==
    /\ Start(p, "creat") /\ dir' = Append(dir, Len(dir) + 1)
    /\ UNCHANGED <<data, pos, fdlock, io, out, ref, dirpos, seen>>

Next ==
    \E p \in Procs :
      \/ sys_read_buf(p) \/ sys_readv(p) \/ sys_write_buf(p) \/ sys_writev(p)
      \/ advance(p) \/ sys_lseek(p) \/ sys_preadv(p) \/ sys_pwritev(p)
      \/ sys_pread(p) \/ fd_pread_buf(p) \/ sys_pwrite(p) \/ fd_pwrite_buf(p) \/ restore(p)
      \/ \E op \in {"sendfile", "copy_file_range"} : sendfile(p, op)
      \/ copy_read(p) \/ copy_write(p) \/ copy_done(p)
      \/ sys_getdents(p) \/ tmpfs_readdir(p) \/ tmpfs_dir_link(p)
Spec == Init /\ [][Next]_vars
------------------------------------------------------------------------------
TypeOK ==
    /\ data \in Seq(Nat) /\ pos \in Nat /\ fdlock \in Procs \union {NULL}
    /\ ToSet(seen) \subseteq ToSet(dir)

\* A positioned call reads and writes at its own offset and leaves the position
\* where reads, writes and seeks have put it, whoever else uses the file.  On
\* tmpfs this rests on fd->lock, which plain reads and writes do not take.
PositionedIo ==
    /\ \A p \in Procs : io[p].pc = "restore" => io[p].got = io[p].want
    /\ fdlock = NULL => pos = ref
\* sendfile and copy_file_range deliver the bytes from their first offset on,
\* as many as they report, and an offset of the caller's moves by that many.
CopyExact ==
    \A p \in Procs :
      io[p].pc \in {"copy", "copied"} /\ io[p].own =>
        /\ io[p].sent = Slice(data, io[p].first, io[p].total)
        /\ io[p].off = io[p].first + io[p].total
\* A listing returns every entry once, also entries created meanwhile that it
\* has not passed, and whatever the size of the buffer.
ListedOnce ==
    /\ \A i \in 1 .. Len(seen) : seen[i] = i
    /\ \A p \in Procs : io[p].pc = "dents" /\ dirpos # 0 => dirpos = Len(seen) + 1
\* The invariants above together.
IoSound == TypeOK /\ PositionedIo /\ CopyExact /\ ListedOnce
=============================================================================
