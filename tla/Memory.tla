------------------------------- MODULE Memory --------------------------------
(***************************************************************************)
(* Guest address spaces: page tables over reference-counted data objects,  *)
(* lazy reservations, copy-on-write, the software TLB, and the system      *)
(* calls that change mappings (kernel/memory.c, kernel/mmap.c,             *)
(* kernel/user.c, emu/tlb.c).                                              *)
(*                                                                         *)
(* What runs under the write side of mem->lock is one step; an access runs *)
(* under the read side and gives it up to change the page table.           *)
(***************************************************************************)
EXTENDS Integers, Sequences, FiniteSets, SequencesExt, FiniteSetsExt

CONSTANTS Threads, First, Mms, NULL, ZERO, SHARED,
          HOLE_END, HOLE_START,      \* the mmap area is HOLE_END + 1 .. HOLE_START
          STACK_TOP, HIGH, BAD_PAGE, \* guard page, first high page, end of the table
          StackLimit, AnonLimit, Lazy, MaxData, Loads

VARIABLES load,    \* what the threads may do, never changes
          mem,     \* address spaces
          dat,     \* struct data: the host memory behind pages
          anon,    \* anon_page_count
          thr,     \* threads: their address space, TLB and access in progress
          view,    \* the contents each address space should have, NULL where none
          raced,   \* pages mapped for a reservation or stack that was gone by then
          calls

vars == <<load, mem, dat, anon, thr, view, raced, calls>>

Pages == 0 .. BAD_PAGE - 1
DataIds == 1 .. MaxData
Span(start, pages) == start .. start + pages - 1
NoTlb == [p \in Pages |-> NULL]
FreeLock == [w |-> NULL, r |-> {}]
NoMm == [refs |-> 0, pt |-> NoTlb, res |-> <<>>, hint |-> 0, changes |-> 0,
         lock |-> FreeLock, start_brk |-> 0, brk |-> 0]
NoThread == [mm |-> NULL, pc |-> "idle", op |-> NULL, tlb |-> NoTlb, tmm |-> NULL, ch |-> 0]
------------------------------------------------------------------------------
(* Page tables.  S is a record of mem, dat and anon, so that steps compose. *)
World == [mem |-> mem, dat |-> dat, anon |-> anon]
Becomes(S) == mem' = S.mem /\ dat' = S.dat /\ anon' = S.anon

mem_pt(S, m, p) == IF p \in Pages THEN S.mem[m].pt[p] ELSE NULL
Writable(e) == "w" \in e.flags /\ "cow" \notin e.flags
ProtNone(flags) == flags \cap {"r", "w"} = {}
mem_changed(S, m) == [S EXCEPT !.mem[m].changes = @ + 1]

mem_find_reservation(S, m, p) ==
    SelectInSeq(S.mem[m].res, LAMBDA r : p \in Span(r.start, r.pages))
mem_range_has_reservation(S, m, start, pages) ==
    \E i \in DOMAIN S.mem[m].res :
        Span(S.mem[m].res[i].start, S.mem[m].res[i].pages) \cap Span(start, pages) # {}
Piece(start, end, flags) ==
    IF start < end THEN <<[start |-> start, pages |-> end - start, flags |-> flags]>> ELSE <<>>

\* Every reservation keeps what lies before and after the range.
mem_remove_reservations(S, m, start, pages) ==
    LET end == start + pages
        Rest(r) == LET re == r.start + r.pages IN
            IF pages = 0 \/ r.start >= end \/ re <= start THEN <<r>>
            ELSE Piece(r.start, start, r.flags) \o Piece(end, re, r.flags)
    IN  [S EXCEPT !.mem[m].res = FlattenSeq([i \in DOMAIN @ |-> Rest(@[i])])]

\* The part inside the range gets the new protection; only P_ANONYMOUS is kept.
mem_set_reservation_flags(S, m, start, pages, flags) ==
    LET end == start + pages
        Split(r) == LET re == r.start + r.pages
                        lo == Max({r.start, start})  hi == Min({re, end}) IN
            IF pages = 0 \/ r.start >= end \/ re <= start THEN <<r>>
            ELSE Piece(r.start, lo, r.flags)
                 \o Piece(lo, hi, flags \cup (r.flags \cap {"anon"}))
                 \o Piece(hi, re, r.flags)
    IN  [S EXCEPT !.mem[m].res = FlattenSeq([i \in DOMAIN @ |-> Split(@[i])])]

pt_map_lazy(S, m, start, pages, flags) ==
    mem_changed([S EXCEPT !.mem[m].res =
        <<[start |-> start, pages |-> pages, flags |-> flags \cup {"anon"}]>> \o @], m)

\* Mutant: the anonymous pages are not counted down.
Drop_uncounted(S, m, p) ==
    LET e == S.mem[m].pt[p] IN
    IF e = NULL THEN S
    ELSE [S EXCEPT !.mem[m].pt[p] = NULL,
                   !.dat[e.d] = IF @.refs = 1 THEN NULL ELSE [@ EXCEPT !.refs = @ - 1]]
\* One page goes: the data object loses a reference and is freed with the last.
Drop(S, m, p) ==
    LET e == S.mem[m].pt[p] IN
    IF e = NULL THEN S
    ELSE [S EXCEPT !.mem[m].pt[p] = NULL,
                   !.anon = IF "anon" \in e.flags THEN @ - 1 ELSE @,
                   !.dat[e.d] = IF @.refs = 1 THEN NULL ELSE [@ EXCEPT !.refs = @ - 1]]
pt_unmap_always(S, m, start, pages) ==
    LET last == start + pages - 1
        H == [S EXCEPT !.mem[m].hint = IF last > @ THEN last ELSE @]
        R == mem_remove_reservations(H, m, start, pages)
    IN  mem_changed(FoldSet(LAMBDA p, T : Drop(T, m, p), R, Span(start, pages) \cap Pages), m)
pt_unmap_fails(S, m, start, pages) == \E p \in Span(start, pages) : mem_pt(S, m, p) = NULL

\* A new data object holding `init`, one cell for each page.
FreshData(S) == Min({d \in DataIds : S.dat[d] = NULL})
pt_map(S, m, start, pages, init, flags) ==
    LET d == FreshData(S)
        P == [S EXCEPT !.dat[d] = [refs |-> 0, cells |-> init]]
        MapPage(p, T) ==
            LET U == IF T.mem[m].pt[p] # NULL THEN pt_unmap_always(T, m, p, 1) ELSE T IN
            [U EXCEPT !.dat[d].refs = @ + 1,
                      !.mem[m].pt[p] = [d |-> d, off |-> p - start, flags |-> flags]]
    IN  mem_changed(FoldSet(MapPage, P, Span(start, pages)), m)
pt_map_nothing(S, m, start, pages, flags) ==
    IF pages = 0 THEN S
    ELSE pt_map(S, m, start, pages, [k \in 0 .. pages - 1 |-> ZERO], flags \cup {"anon"})

\* Protection changes; how the page was allocated does not.
pt_set_flags_fails(S, m, start, pages) ==
    \E p \in Span(start, pages) : mem_pt(S, m, p) = NULL /\ mem_find_reservation(S, m, p) = 0
pt_set_flags(S, m, start, pages, flags) ==
    LET meta == {"anon", "grow", "cow", "shared"}
        Set(p, T) == IF T.mem[m].pt[p] = NULL THEN T
                     ELSE [T EXCEPT !.mem[m].pt[p].flags = flags \cup (@ \cap meta)]
    IN  mem_changed(mem_set_reservation_flags(
            FoldSet(Set, S, Span(start, pages)), m, start, pages, flags), m)

\* Mutant: the two sides go on writing to the same page.
Cow_not(e) == e
Cow(e) ==
    IF e = NULL \/ "shared" \in e.flags THEN e ELSE [e EXCEPT !.flags = @ \cup {"cow"}]
\* The child gets every page of the parent; private ones become copy-on-write in both.
pt_copy_on_write(S, src, dst) ==
    LET pt == [p \in Pages |-> Cow(S.mem[src].pt[p])]
        Refs(d) == Cardinality({p \in Pages : pt[p] # NULL /\ pt[p].d = d})
    IN  mem_changed(mem_changed(
          [S EXCEPT !.mem[src].pt = pt, !.mem[dst].pt = pt,
                    !.mem[dst].res = Reverse(S.mem[src].res),
                    !.mem[dst].hint = Max({p \in Pages : pt[p] # NULL} \cup {0}),
                    !.dat = [d \in DataIds |-> IF @[d] = NULL THEN NULL
                                               ELSE [@[d] EXCEPT !.refs = @ + Refs(d)]],
                    !.anon = @ + Cardinality({p \in Pages :
                                     pt[p] # NULL /\ "anon" \in pt[p].flags})], src), dst)

pt_is_hole(S, m, start, pages) ==
    /\ \A p \in Span(start, pages) : mem_pt(S, m, p) = NULL
    /\ ~mem_range_has_reservation(S, m, start, pages)

\* The highest range of free pages at or below `start`: unallocated parts of the
\* table are skipped in one go, which finds the same range.
pt_find_hole_from(S, m, size, start) ==
    LET fits == {p \in HOLE_END + 1 .. start - size + 1 :
                   \A q \in Span(p, size) : mem_pt(S, m, q) = NULL}
    IN  IF fits = {} THEN BAD_PAGE ELSE Max(fits)
\* The lowest range above 4 GB without a reservation; a part of the table in
\* which anything is mapped is left alone.
pt_find_hole_high(S, m, size) ==
    LET fits == {p \in HIGH .. BAD_PAGE - size : ~mem_range_has_reservation(S, m, p, size)}
    IN  IF fits = {} \/ \E p \in HIGH .. BAD_PAGE - 1 : mem_pt(S, m, p) # NULL
        THEN BAD_PAGE ELSE Min(fits)
\* Ten attempts from `first`, each below the reservation the last one ran into.
Attempts(S, m, size, first) ==
    LET Found(s) == pt_find_hole_from(S, m, size, s)
        Clear(p) == p = BAD_PAGE \/ ~mem_range_has_reservation(S, m, p, size)
        InWay(p) == S.mem[m].res[SelectInSeq(S.mem[m].res, LAMBDA r :
                        Span(r.start, r.pages) \cap Span(p, size) # {})]
        Below(s) == Max({InWay(Found(s)).start - 1, 0})
        last == FoldLeft(LAMBDA s, k : IF Clear(Found(s)) THEN s ELSE Below(s), first, [k \in 1 .. 9 |-> k])
        p == Found(last)
    IN  [page |-> IF Clear(p) THEN p ELSE BAD_PAGE, start |-> IF Clear(p) THEN last ELSE Below(last)]
pt_find_hole(S, m, size) ==
    LET h == S.mem[m].hint
        start == IF h = 0 \/ h > HOLE_START \/ h <= HOLE_END + size THEN HOLE_START ELSE h
        one == Attempts(S, m, size, start)
        low == IF one.page = BAD_PAGE /\ one.start < HOLE_START
               THEN Attempts(S, m, size, HOLE_START).page ELSE one.page
    IN  IF low # BAD_PAGE THEN [page |-> low, hint |-> low - 1]
        ELSE [page |-> pt_find_hole_high(S, m, size), hint |-> h]
------------------------------------------------------------------------------
(* mem->lock *)
CanRead(m) == mem[m].lock.w = NULL
CanWrite(m) == mem[m].lock = FreeLock
Rd(S, m, t) == [S EXCEPT !.mem[m].lock.r = @ \cup {t}]
UnRd(S, m, t) == [S EXCEPT !.mem[m].lock.r = @ \ {t}]

Mm(t) == thr[t].mm
Idle(t) == thr[t].pc = "idle" /\ Mm(t) # NULL
May(t, op) == Idle(t) /\ op \in load.ops[t] /\ calls[t] > 0 /\ calls' = [calls EXCEPT ![t] = @ - 1]
Room(n) == Cardinality({d \in DataIds : dat[d] = NULL}) >= n
Seen(m, f) == view' = [view EXCEPT ![m] = f @@ @]
\* A range that is taken over although it is in use keeps what it should hold.
Taken(S, m, start, pages, fixed, v) ==
    [p \in Span(start, pages) |-> IF fixed \/ pt_is_hole(S, m, p, 1) THEN v ELSE view[m][p]]

\* do_mmap checks the limit on anonymous pages, then adds to the count.
OverLimit(pages) == anon + pages > AnonLimit
Aligned(S, m, pages, hole) ==
    LET aligned == (hole.page \div pages) * pages IN
    IF hole.page # BAD_PAGE /\ aligned >= HOLE_END /\ pt_is_hole(S, m, aligned, pages)
    THEN [hole EXCEPT !.page = aligned] ELSE hole
Choose(S, m, addr, pages, fl) ==
    LET out == addr > 0 /\ (addr + pages > BAD_PAGE \/ (addr < HIGH /\ addr + pages > STACK_TOP))
        hint == addr > 0 /\ ~out /\ ("fixed" \in fl \/ pt_is_hole(S, m, addr, pages))
        big == "noreserve" \in fl /\ pages >= Lazy
    IN  IF out /\ "fixed" \in fl THEN [page |-> BAD_PAGE, hint |-> S.mem[m].hint]
        ELSE IF hint THEN [page |-> addr, hint |-> S.mem[m].hint]
        ELSE IF big
        THEN Aligned(S, m, pages, [page |-> pt_find_hole_high(S, m, pages), hint |-> S.mem[m].hint])
        ELSE pt_find_hole(S, m, pages)
do_mmap(t) ==
    Idle(t) /\ \E a \in load.maps : \E c \in {Choose(World, Mm(t), a.addr, a.pages, a.fl)} :
        LET m == Mm(t)
            S == [World EXCEPT !.mem[m].hint = c.hint]
            flags == a.prot \cup (a.fl \cap {"shared"})
            value == IF "shared" \in a.fl THEN SHARED ELSE ZERO
            none == ProtNone(a.prot)
        IN  /\ May(t, "mmap") /\ CanWrite(m) /\ Room(1)
            /\ UNCHANGED <<load, raced>>
            /\ \/ /\ c.page = BAD_PAGE
                  /\ Becomes(S) /\ UNCHANGED <<thr, view>>
               \/ /\ c.page # BAD_PAGE /\ "noreserve" \in a.fl /\ a.pages >= Lazy
                  /\ IF pt_is_hole(S, m, c.page, a.pages)
                     THEN /\ Becomes(pt_map_lazy(S, m, c.page, a.pages, flags))
                          /\ Seen(m, Taken(World, m, c.page, a.pages, FALSE, value))
                     ELSE Becomes(S) /\ UNCHANGED view
                  /\ UNCHANGED thr
               \/ /\ c.page # BAD_PAGE /\ ~("noreserve" \in a.fl /\ a.pages >= Lazy)
                  /\ IF ~none /\ OverLimit(a.pages)
                     THEN Becomes(S) /\ UNCHANGED thr
                     ELSE /\ Becomes([S EXCEPT !.mem[m].lock.w = t])
                          /\ thr' = [thr EXCEPT ![t].pc = "mmap", ![t].op =
                                 [page |-> c.page, pages |-> a.pages, flags |-> flags,
                                  fixed |-> "fixed" \in a.fl /\ a.addr > 0, v |-> value]]
                  /\ UNCHANGED view
mmap_map(t) ==
    LET o == thr[t].op  m == Mm(t)
        n == IF ProtNone(o.flags) THEN 0 ELSE o.pages
        S == pt_map_nothing([World EXCEPT !.anon = @ + n], m, o.page, o.pages, o.flags)
    IN  /\ thr[t].pc = "mmap"
        /\ Becomes([S EXCEPT !.mem[m].lock.w = NULL])
        /\ Seen(m, Taken(World, m, o.page, o.pages, o.fixed, o.v))
        /\ thr' = [thr EXCEPT ![t].pc = "idle", ![t].op = NULL]
        /\ UNCHANGED <<load, raced, calls>>

sys_munmap(t) ==
    \E r \in load.ranges :
        /\ May(t, "munmap") /\ CanWrite(Mm(t))
        /\ Becomes(pt_unmap_always(World, Mm(t), r.addr, r.pages))
        /\ Seen(Mm(t), [p \in Span(r.addr, r.pages) |-> NULL])
        /\ UNCHANGED <<load, thr, raced>>
sys_mprotect(t) ==
    \E r \in load.ranges, prot \in load.prots :
        /\ May(t, "mprotect") /\ CanWrite(Mm(t))
        /\ IF pt_set_flags_fails(World, Mm(t), r.addr, r.pages) THEN Becomes(World)
           ELSE Becomes(pt_set_flags(World, Mm(t), r.addr, r.pages, prot))
        /\ UNCHANGED <<load, thr, view, raced>>

\* Growing in place, or moving: copied cell by cell, then the old range unmapped.
mremap_grow(S, m, start, old, new, flags) ==
    LET n == IF ProtNone(flags) THEN 0 ELSE new - old IN
    IF n > 0 /\ OverLimit(n) THEN S
    ELSE pt_map_nothing([S EXCEPT !.anon = @ + n], m, start + old, new - old, flags)
mremap_move(S, m, start, old, new, to, flags) ==
    LET n == IF ProtNone(flags) THEN 0 ELSE new
        M == pt_map_nothing([S EXCEPT !.anon = @ + n], m, to, new, flags)
        Cell(T, p) == T.dat[T.mem[m].pt[p].d].cells[T.mem[m].pt[p].off]
        d == M.mem[m].pt[to].d
        C == IF ProtNone(flags) THEN M
             ELSE [M EXCEPT !.dat[d].cells = [k \in DOMAIN @ |->
                       IF k < old THEN Cell(M, start + k) ELSE @[k]]]
    IN  pt_unmap_always(C, m, start, old)
sys_mremap(t) ==
    Idle(t) /\ \E r \in load.ranges, new \in 1 .. 2, move \in BOOLEAN :
      \E hole \in {pt_find_hole(World, Mm(t), new)} :
        LET m == Mm(t)  old == r.pages  start == r.addr
            e == mem_pt(World, m, start)
            same == e # NULL /\ \A p \in Span(start, old) :
                        mem_pt(World, m, p) # NULL /\ mem_pt(World, m, p).flags = e.flags
            inPlace == pt_is_hole(World, m, start + old, new - old)
            S == [World EXCEPT !.mem[m].hint = hole.hint]
            over == ~ProtNone(e.flags) /\ OverLimit(new)
            v == IF "shared" \in e.flags THEN SHARED ELSE ZERO
        IN  /\ May(t, "mremap") /\ CanWrite(m) /\ Room(1)
            /\ UNCHANGED <<load, thr, raced>>
            /\ \/ /\ new <= old
                  /\ IF pt_unmap_fails(World, m, start + new, old - new)
                     THEN Becomes(World) /\ UNCHANGED view
                     ELSE /\ Becomes(pt_unmap_always(World, m, start + new, old - new))
                          /\ Seen(m, [p \in Span(start + new, old - new) |-> NULL])
               \/ /\ new > old /\ ~(same /\ "anon" \in e.flags)
                  /\ Becomes(World) /\ UNCHANGED view
               \/ /\ new > old /\ same /\ "anon" \in e.flags /\ inPlace
                  /\ Becomes(mremap_grow(World, m, start, old, new, e.flags))
                  /\ IF ~ProtNone(e.flags) /\ OverLimit(new - old) THEN UNCHANGED view
                     ELSE Seen(m, [p \in Span(start + old, new - old) |-> v])
               \/ /\ new > old /\ same /\ "anon" \in e.flags /\ ~inPlace
                  /\ IF ~move THEN Becomes(World) /\ UNCHANGED view
                     ELSE IF hole.page = BAD_PAGE \/ over THEN Becomes(S) /\ UNCHANGED view
                     ELSE /\ Becomes(mremap_move(S, m, start, old, new, hole.page, e.flags))
                          /\ Seen(m, [p \in Span(start, old) |-> NULL] @@
                                     [p \in Span(hole.page, new) |->
                                         IF p - hole.page < old
                                         THEN view[m][start + p - hole.page] ELSE v])

\* Break values count half pages, so that both parts of a rounded page occur.
RoundUp(b) == (b + 1) \div 2
sys_brk(t) ==
    \E b \in load.brks :
        LET m == Mm(t)  old == RoundUp(mem[m].brk)  new == RoundUp(b)
            grow == b > mem[m].brk  n == new - old
            refuse == \/ b < mem[m].start_brk
                      \/ grow /\ ~pt_is_hole(World, m, old, n)
                      \/ grow /\ OverLimit(n)
            S == IF grow THEN pt_map_nothing([World EXCEPT !.anon = @ + n], m, old, n, {"w"})
                 ELSE IF new < old THEN pt_unmap_always(World, m, new, old - new) ELSE World
        IN  /\ May(t, "brk") /\ CanWrite(m) /\ Room(1)
            /\ UNCHANGED <<load, thr, raced>>
            /\ IF refuse THEN Becomes(World) /\ UNCHANGED view
               ELSE /\ Becomes([S EXCEPT !.mem[m].brk = b])
                    /\ Seen(m, [p \in old .. new - 1 |-> ZERO] @@ [p \in new .. old - 1 |-> NULL])
------------------------------------------------------------------------------
(* Address spaces: fork, exec, exit *)
mem_destroy(S, m) ==
    LET U == pt_unmap_always(S, m, 0, BAD_PAGE) IN [U EXCEPT !.mem[m] = NoMm]
mm_release(S, m) ==
    IF S.mem[m].refs = 1 THEN mem_destroy(S, m) ELSE [S EXCEPT !.mem[m].refs = @ - 1]
Spare(m) == mem[m].refs = 0
mm_copy(t) ==
    \E m \in Mms, u \in Threads :
        /\ May(t, "fork") /\ CanWrite(Mm(t)) /\ Spare(m) /\ Mm(u) = NULL
        /\ Becomes(pt_copy_on_write(
               [World EXCEPT !.mem[m] = [NoMm EXCEPT !.refs = 1,
                                         !.start_brk = mem[Mm(t)].start_brk,
                                         !.brk = mem[Mm(t)].brk]], Mm(t), m))
        /\ view' = [view EXCEPT ![m] = view[Mm(t)]]
        /\ thr' = [thr EXCEPT ![u] = [NoThread EXCEPT !.mm = m]]
        /\ UNCHANGED <<load, raced>>
mm_retain(t) ==
    \E u \in Threads :
        /\ May(t, "thread") /\ Mm(u) = NULL
        /\ Becomes([World EXCEPT !.mem[Mm(t)].refs = @ + 1])
        /\ thr' = [thr EXCEPT ![u] = [NoThread EXCEPT !.mm = Mm(t)]]
        /\ UNCHANGED <<load, view, raced>>
\* exec maps the new program's stack without counting its pages.
Stack == STACK_TOP - 1
NewProgram(S, m) ==
    pt_map_nothing([S EXCEPT !.mem[m] = [NoMm EXCEPT !.refs = 1,
                                         !.start_brk = 2 * (HOLE_END + 1),
                                         !.brk = 2 * (HOLE_END + 1)]],
                   m, Stack, 1, {"w", "grow"})
NewView == [p \in Pages |-> IF p = Stack THEN ZERO ELSE NULL]
\* The old address space is released before the new one is allocated, so that
\* the new one may have the address of the old.
sys_execve(t) ==
    \E m \in Mms :
        /\ May(t, "exec") /\ Room(1)
        /\ Spare(m) \/ (m = Mm(t) /\ mem[m].refs = 1)
        /\ mem[Mm(t)].refs = 1 => CanWrite(Mm(t))
        /\ Becomes(NewProgram(mm_release(World, Mm(t)), m))
        /\ thr' = [thr EXCEPT ![t].mm = m]
        /\ view' = [view EXCEPT ![m] = NewView]
        /\ UNCHANGED <<load, raced>>
do_exit(t) ==
    /\ May(t, "exit") /\ (mem[Mm(t)].refs = 1 => CanWrite(Mm(t)))
    /\ Becomes(mm_release(World, Mm(t)))
    /\ thr' = [thr EXCEPT ![t] = NoThread]
    /\ UNCHANGED <<load, view, raced>>
------------------------------------------------------------------------------
(* Accesses.  An access is [todo, type, jit, how, ptrs]: the pages still to *)
(* translate, and the pointers it holds.                                     *)
Ptr(S, m, p) == [d |-> S.mem[m].pt[p].d, off |-> S.mem[m].pt[p].off]
mem_ptr_nofault(S, m, p, type) ==
    LET e == mem_pt(S, m, p) IN
    IF e = NULL \/ (type = "w" /\ ~Writable(e)) THEN NULL ELSE Ptr(S, m, p)

\* Code runs (task_run_current), or the kernel copies (user_write_task, madvise):
\* the read lock is taken and a thread that runs code drops a stale TLB.
tlb_refresh(t) ==
    LET m == Mm(t) IN
    IF thr[t].tmm = m /\ thr[t].ch = mem[m].changes THEN thr[t]
    ELSE [thr[t] EXCEPT !.tlb = NoTlb, !.tmm = m, !.ch = mem[m].changes]
access(t) ==
    \E a \in load.access :
        /\ May(t, a.how) /\ CanRead(Mm(t))
        /\ Becomes(Rd(World, Mm(t), t))
        /\ thr' = [thr EXCEPT ![t] =
               [(IF a.how \in {"run", "cross"} THEN tlb_refresh(t) ELSE thr[t]) EXCEPT
                    !.pc = "look", !.op = [todo |-> a.todo, type |-> a.type, how |-> a.how,
                                           again |-> FALSE, ptrs |-> <<>>, flags |-> {}]]]
        /\ UNCHANGED <<load, view, raced>>

In(t, pc) == thr[t].pc = pc
Op(t) == thr[t].op
Page(t) == Head(Op(t).todo)
Jit(t) == Op(t).how \in {"run", "cross"}
\* The next mapped page above, the one whose region may grow down to here.
Above(m, p) == LET up == {q \in p + 1 .. BAD_PAGE - 1 : mem_pt(World, m, q) # NULL}
               IN  IF up = {} THEN NULL ELSE mem_pt(World, m, Min(up))
Goto(t, pc) == thr' = [thr EXCEPT ![t].pc = pc]
\* mem_ptr is done with this page; ptr may be NULL.  The memory may have changed
\* while the lock was given up: then the TLB is flushed and the page translated anew.
tlb_handle_miss(t, S, ptr) ==
    LET m == Mm(t)  p == Page(t)  o == Op(t)
        stale == S.mem[m].changes # thr[t].ch
        flushed == IF stale THEN NoTlb ELSE thr[t].tlb
        e == [d |-> ptr.d, off |-> ptr.off,
              w |-> o.type = "w" \/ mem_ptr_nofault(S, m, p, "w") # NULL]
        T == [thr EXCEPT ![t].tlb = flushed, ![t].ch = S.mem[m].changes]
    IN  IF stale /\ ~o.again
        THEN thr' = [T EXCEPT ![t].pc = "look", ![t].op.again = TRUE]
        ELSE IF ptr = NULL THEN thr' = [T EXCEPT ![t].pc = "fault"]
        ELSE thr' = [T EXCEPT ![t].pc = "got", ![t].tlb[p] = e,
                              ![t].op.ptrs = Append(@, ptr), ![t].op.again = FALSE]
Translated(t, S, ptr) ==
    IF Jit(t) THEN tlb_handle_miss(t, S, ptr)
    ELSE thr' = [thr EXCEPT ![t].pc = IF ptr = NULL THEN "fault" ELSE "got",
                            ![t].op.ptrs = IF ptr = NULL THEN @ ELSE Append(@, ptr)]
tlb_hit(t) ==
    LET e == thr[t].tlb[Page(t)] IN Jit(t) /\ e # NULL /\ (Op(t).type = "w" => e.w)

\* The part of mem_ptr for a page that is there.
have_entry(t, S) ==
    LET m == Mm(t)  p == Page(t)  e == mem_pt(S, m, p)  ty == Op(t).type
        E == IF ty = "p" THEN [S EXCEPT !.mem[m].pt[p].flags = @ \cup {"w", "cow"}] ELSE S
    IN  IF e # NULL /\ ty \in {"w", "p"}
        THEN IF ty = "w" /\ "w" \notin e.flags
             THEN Becomes(S) /\ Translated(t, S, NULL)
             ELSE IF "cow" \in E.mem[m].pt[p].flags
             THEN Becomes(UnRd(E, m, t)) /\ Goto(t, "cow")
             ELSE Becomes(E) /\ Translated(t, E, mem_ptr_nofault(E, m, p, ty))
        ELSE Becomes(S) /\ Translated(t, S, mem_ptr_nofault(S, m, p, ty))
mem_ptr(t) ==
    LET m == Mm(t)  p == Page(t)  above == Above(m, p)
        grows == above # NULL /\ "grow" \in above.flags
        res == mem_find_reservation(World, m, p)
    IN  /\ In(t, "look") /\ UNCHANGED <<load, view, raced, calls>>
        /\ IF tlb_hit(t)
           THEN /\ Becomes(World)
                /\ thr' = [thr EXCEPT ![t].pc = "got", ![t].op.ptrs =
                       Append(@, [d |-> thr[t].tlb[p].d, off |-> thr[t].tlb[p].off])]
           ELSE IF mem_pt(World, m, p) # NULL THEN have_entry(t, World)
           ELSE IF Op(t).how = "madvise" THEN Becomes(World) /\ Goto(t, "fault")
           ELSE IF grows /\ STACK_TOP - p > StackLimit
           THEN Becomes(World) /\ Translated(t, World, NULL)
           ELSE IF grows THEN Becomes(UnRd(World, m, t)) /\ Goto(t, "grow")
           ELSE IF res = 0 THEN Becomes(World) /\ Translated(t, World, NULL)
           ELSE /\ Becomes(UnRd(World, m, t))
                /\ thr' = [thr EXCEPT ![t].pc = "res",
                                      ![t].op.flags = mem[m].res[res].flags]
\* The reservation found under the read lock is read under the write lock.  It may
\* have been split or changed meanwhile; when it has been freed, this is anything.
res_flags(t) ==
    LET i == mem_find_reservation(World, Mm(t), Page(t)) IN
    IF i # 0 THEN {Op(t).flags, mem[Mm(t)].res[i].flags} ELSE {Op(t).flags, {}, {"w"}}
\* With the write lock: still nothing there?  Then one page is mapped.  A thread
\* that runs code only tries for the lock, and gives up when others read.
Upgraded(t, flags) ==
    LET m == Mm(t)  p == Page(t) IN
    IF mem_pt(World, m, p) # NULL THEN Becomes(World) /\ UNCHANGED <<view, raced>>
    ELSE /\ Becomes(pt_map_nothing([World EXCEPT !.anon = @ + 1], m, p, 1, flags))
         /\ IF view[m][p] = NULL /\ In(t, "res")
            THEN raced' = raced \cup {<<m, p>>} /\ UNCHANGED view
            ELSE raced' = raced /\ Seen(m, p :> IF view[m][p] = NULL THEN ZERO ELSE view[m][p])
Upgrade(t) ==
    /\ In(t, "grow") \/ In(t, "res")
    /\ UNCHANGED <<load, calls>>
    /\ IF CanWrite(Mm(t))
       THEN /\ Room(1)
            /\ \E f \in IF In(t, "grow") THEN {{"w", "grow"}} ELSE {g \ {"grow"} : g \in res_flags(t)} :
                   Upgraded(t, f)
            /\ Goto(t, "relock")
       ELSE Jit(t) /\ Becomes(World) /\ Goto(t, "giveup") /\ UNCHANGED <<view, raced>>
reacquire_read_after_failed_jit_upgrade(t) ==
    /\ In(t, "giveup") /\ CanRead(Mm(t))
    /\ Becomes(Rd(World, Mm(t), t)) /\ Translated(t, World, NULL)
    /\ UNCHANGED <<load, view, raced, calls>>
relock(t) ==
    /\ In(t, "relock") /\ CanRead(Mm(t))
    /\ have_entry(t, Rd(World, Mm(t), t))
    /\ UNCHANGED <<load, view, raced, calls>>
\* The page is copied unless somebody else did that meanwhile.
copy(t) ==
    LET m == Mm(t)  p == Page(t)  e == mem_pt(World, m, p)
        n == IF "anon" \in e.flags THEN 1 ELSE 0
        value == dat[e.d].cells[e.off]
        S == pt_map([World EXCEPT !.anon = @ + n], m, p, 1, 0 :> value, e.flags \ {"cow"})
    IN  /\ In(t, "cow") /\ CanWrite(m) /\ Room(1)
        /\ IF e # NULL /\ "cow" \in e.flags THEN Becomes(mem_changed(S, m)) ELSE Becomes(World)
        /\ Goto(t, "copied")
        /\ UNCHANGED <<load, view, raced, calls>>
copied(t) ==
    /\ In(t, "copied") /\ CanRead(Mm(t))
    /\ LET S == Rd(World, Mm(t), t) IN
       /\ Becomes(S)
       /\ Translated(t, S, mem_ptr_nofault(S, Mm(t), Page(t), Op(t).type))
    /\ UNCHANGED <<load, view, raced, calls>>
\* The access itself, through the pointers held.  An access that crosses a page
\* boundary translates both pages first; the others use each pointer at once.
Store(S, ptr, v) == [S EXCEPT !.dat[ptr.d] = IF @ = NULL THEN NULL ELSE [@ EXCEPT !.cells[ptr.off] = v]]
Expect(m, f) == [p \in Pages |-> IF p \in DOMAIN f /\ view[m][p] \notin {NULL, SHARED}
                                 THEN f[p] ELSE view[m][p]]
got(t) ==
    LET o == Op(t)  m == Mm(t)  p == Page(t)  last == Tail(o.todo) = <<>>
        wait == o.how = "cross" /\ ~last
        n == Len(o.ptrs)
        all == IF o.how = "cross" THEN o.ptrs ELSE <<o.ptrs[n]>>
        S == IF o.type = "r" \/ wait THEN World
             ELSE FoldSet(LAMBDA i, T : Store(T, all[i], t), World, DOMAIN all)
        pages == {p - (Len(all) - i) : i \in DOMAIN all}
    IN  /\ In(t, "got") /\ o.how # "madvise"
        /\ view' = IF o.type = "r" \/ wait THEN view
                   ELSE [view EXCEPT ![m] = Expect(m, [q \in pages |-> t])]
        /\ IF last
           THEN /\ Becomes(UnRd(S, m, t))
                /\ thr' = [thr EXCEPT ![t].pc = "idle", ![t].op = NULL]
           ELSE /\ Becomes(S)
                /\ thr' = [thr EXCEPT ![t].pc = "look", ![t].op.todo = Tail(@)]
        /\ UNCHANGED <<load, raced, calls>>
fault(t) ==
    /\ In(t, "fault")
    /\ Becomes(UnRd(World, Mm(t), t))
    /\ thr' = [thr EXCEPT ![t].pc = "idle", ![t].op = NULL]
    /\ UNCHANGED <<load, view, raced, calls>>
\* madvise unlocks first and zeroes the page after that.
madvise_unlock(t) ==
    /\ In(t, "got") /\ Op(t).how = "madvise"
    /\ Becomes(UnRd(World, Mm(t), t)) /\ Goto(t, "zero")
    /\ UNCHANGED <<load, view, raced, calls>>
madvise_zero(t) ==
    LET m == Mm(t)  ptr == Op(t).ptrs[1]  p == Page(t)
        there == mem_pt(World, m, p) # NULL /\ Ptr(World, m, p) = ptr
    IN  /\ In(t, "zero")
        /\ Becomes(Store(World, ptr, ZERO))
        /\ view' = [view EXCEPT ![m] = Expect(m, IF there THEN p :> ZERO ELSE <<>>)]
        /\ thr' = [thr EXCEPT ![t].pc = "idle", ![t].op = NULL]
        /\ UNCHANGED <<load, raced, calls>>

Access(t) ==
    \/ mem_ptr(t) \/ Upgrade(t) \/ reacquire_read_after_failed_jit_upgrade(t) \/ relock(t)
    \/ copy(t) \/ copied(t) \/ got(t) \/ fault(t) \/ madvise_unlock(t) \/ madvise_zero(t)
    \/ mmap_map(t)
Call(t) ==
    \/ do_mmap(t) \/ sys_munmap(t) \/ sys_mprotect(t) \/ sys_mremap(t) \/ sys_brk(t)
    \/ mm_copy(t) \/ mm_retain(t) \/ sys_execve(t) \/ do_exit(t) \/ access(t)
Next == \E t \in Threads : Call(t) \/ Access(t)

FirstMm == CHOOSE m \in Mms : TRUE
Init ==
    LET S == NewProgram([mem |-> [m \in Mms |-> NoMm], dat |-> [d \in DataIds |-> NULL],
                         anon |-> 0], FirstMm)
    IN  /\ load \in Loads
        /\ mem = S.mem /\ dat = S.dat /\ anon = S.anon
        /\ thr = [t \in Threads |-> IF t = First THEN [NoThread EXCEPT !.mm = FirstMm]
                                    ELSE NoThread]
        /\ view = [m \in Mms |-> IF m = FirstMm THEN NewView ELSE NoTlb]
        /\ raced = {} /\ calls = load.calls
Spec == Init /\ [][Next]_vars
------------------------------------------------------------------------------
\* Every variable has its type.
TypeOK ==
    /\ anon \in Int
    /\ \A m \in Mms : mem[m].refs \in 0 .. Cardinality(Threads) /\ mem[m].hint \in 0 .. BAD_PAGE
    /\ \A d \in DataIds : dat[d] # NULL => dat[d].refs \in 1 .. BAD_PAGE * Cardinality(Mms)
    /\ \A t \in Threads : thr[t].mm \in Mms \cup {NULL}

\* A data object is referenced by exactly the page table entries that use it and
\* freed with the last; a page table entry never outlives its data.
DataRefs ==
    LET entries == {mp \in Mms \X Pages : mem[mp[1]].pt[mp[2]] # NULL}
        uses(d) == {mp \in entries : mem[mp[1]].pt[mp[2]].d = d}
    IN  \A d \in DataIds : Cardinality(uses(d)) = IF dat[d] = NULL THEN 0 ELSE dat[d].refs

\* What a program finds at an address: nothing, zeroes of a reservation, or a page.
Content(m, p) ==
    LET e == mem[m].pt[p] IN
    IF e # NULL THEN IF "shared" \in e.flags THEN SHARED ELSE dat[e.d].cells[e.off]
    ELSE IF mem_find_reservation(World, m, p) = 0 THEN NULL
    ELSE IF "shared" \in mem[m].res[mem_find_reservation(World, m, p)].flags THEN SHARED ELSE ZERO
\* An address space holds exactly what its own threads put there: no mapping lands
\* on another, a fork separates the two sides, and moving a mapping keeps it.
\* Pages that lost a race between the two locks of mem_ptr are the exception.
Private ==
    \A m \in Mms : mem[m].refs > 0 =>
        \A p \in Pages : \/ <<m, p>> \in raced \/ view[m][p] = Content(m, p)
\* The same, where the cross-page accesses of the TLB play no part.
PrivateButCross ==
    (\A t \in Threads : load.ops[t] \cap {"cross", "madvise"} = {}) => Private

\* A pointer held under the read lock is the page's current one.
PointersCurrent ==
    \A t \in Threads : In(t, "got") =>
        LET o == Op(t) IN
        /\ t \in mem[Mm(t)].lock.r
        /\ mem_pt(World, Mm(t), Page(t)) # NULL
        /\ o.ptrs[Len(o.ptrs)] = Ptr(World, Mm(t), Page(t))
        /\ o.type = "w" => Writable(mem_pt(World, Mm(t), Page(t)))

\* The three together, with the types.
PagesSound == TypeOK /\ DataRefs /\ PrivateButCross /\ PointersCurrent

\* anon_page_count follows the anonymous pages: every step that maps or unmaps
\* some changes it by as many.  exec and PROT_NONE are the exceptions.
AnonPages == {mp \in Mms \X Pages : mem[mp[1]].pt[mp[2]] # NULL
                                     /\ "anon" \in mem[mp[1]].pt[mp[2]].flags}
AnonStep ==
    (\A t \in Threads : "exec" \notin load.ops[t]) /\ load.nonone
        => anon' - anon = Cardinality(AnonPages') - Cardinality(AnonPages)
==============================================================================
