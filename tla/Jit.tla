--------------------------------- MODULE Jit ---------------------------------
(***************************************************************************)
(* The code cache of an address space (asbestos/asbestos.c) and the        *)
(* threads that run from it: blocks are compiled under asbestos->lock,     *)
(* chained to each other, cached for each thread, and invalidated when     *)
(* their page changes.  An invalidated block is jetsam until no thread can *)
(* be running it.                                                          *)
(***************************************************************************)
EXTENDS Naturals, FiniteSets, Sequences, SequencesExt, FiniteSetsExt

CONSTANTS Runners, NULL, CodePages, Addrs, MaxBlocks, CodeLoads

VARIABLES program,  \* the guest code and what happens to it, never changes
          code,     \* for each page, how often it has been written
          blocks,   \* struct fiber_block, by when it was compiled
          listed,   \* pages whose list of blocks has been initialised
          gen,      \* invalidate_gen
          alock,    \* asbestos->lock: its holder
          jetsam,   \* jetsam_lock: the writer and the readers
          changes,  \* mmu->changes
          run,      \* threads, with their caches
          missed    \* pages written without dropping the blocks made from them

vars == <<program, code, blocks, listed, gen, alock, jetsam, changes, run, missed>>

Ids == 1 .. MaxBlocks
NoBlock == [addr |-> NULL, st |-> "none"]
Empty == [a \in Addrs |-> NULL]
PagesOf(a) == program.pages[a]
Slots == {0, 1}

Live == {b \in Ids : blocks[b].st = "live"}
Jetsam == {b \in Ids : blocks[b].st = "jetsam"}
OnPage(p) == {b \in Live : p \in PagesOf(blocks[b].addr)}
fiber_lookup(a) == {b \in Live : blocks[b].addr = a}
\* A slot holds the address of its target, or the block it has been chained to.
Target(b, i) == program.jumps[blocks[b].addr][i]

\* Every pointer to the block goes: its own jumps and the jumps to it are
\* addresses again.
fiber_block_disconnect(B, b) ==
    [c \in Ids |->
        IF c = b THEN [B[b] EXCEPT !.st = "jetsam", !.slot = [i \in Slots |-> NULL]]
        ELSE IF B[c].st = "none" THEN B[c]
        ELSE [B[c] EXCEPT !.slot = [i \in Slots |-> IF @[i] = b THEN NULL ELSE @[i]]]]
asbestos_invalidate_range(p) ==
    /\ alock = NULL
    /\ blocks' = FoldSet(LAMBDA b, B : fiber_block_disconnect(B, b), blocks, OnPage(p))
    /\ gen' = IF OnPage(p) = {} THEN gen ELSE gen + 1
    /\ missed' = missed \ {p}

\* A new block on top of the list of its page.  Jumps within the page are
\* chained at once: its own, and those of the two newest other blocks.
Patch(B, b, i, c) ==
    IF /\ B[b].slot[i] = NULL /\ program.jumps[B[b].addr][i] = B[c].addr
       /\ B[b].st = "live" /\ B[c].st = "live"
       /\ program.first[B[b].addr] = program.first[B[c].addr]
    THEN [B EXCEPT ![b].slot[i] = c] ELSE B
fiber_prechain_outgoing_same_page(B, b) ==
    FoldSet(LAMBDA ci, T : Patch(T, b, ci[2], ci[1]), B, (Live \cup {b}) \X Slots)
fiber_prechain_incoming_same_page(B, b) ==
    LET same == {c \in Live : program.first[blocks[c].addr] = program.first[B[b].addr]}
        near == {c \in same : Cardinality({d \in same : d > c}) < 2}
    IN  FoldSet(LAMBDA ci, T : Patch(T, ci[1], ci[2], b), B, near \X Slots)
fiber_insert(B, b) ==
    IF ~program.prechain THEN B
    ELSE fiber_prechain_incoming_same_page(fiber_prechain_outgoing_same_page(B, b), b)
------------------------------------------------------------------------------
At(t, pc) == run[t].pc = pc
Goto(t, pc) == run' = [run EXCEPT ![t].pc = pc]
CodeUnchanged == UNCHANGED <<code, blocks, listed, gen, missed>>
Locks == <<alock, jetsam>>
Cleared(r) == [r EXCEPT !.cache = Empty, !.ret = Empty]
Pending == UNION {PagesOf(run[t].ip) : t \in {u \in Runners : run[u].pc = "compile"}}

tlb_refresh(r) ==
    IF r.changes = changes THEN r
    ELSE [Cleared(r) EXCEPT !.gen = 0, !.last = NULL, !.dirty = NULL, !.changes = changes]
\* The caches are only good for the generation they were filled in.
loop(r) ==
    IF r.gen = gen THEN [r EXCEPT !.pc = "find"]
    ELSE [Cleared(r) EXCEPT !.gen = gen, !.last = NULL, !.pc = "find"]
\* cpu_run_to_interrupt, and cpu_step_to_interrupt up to its loop.
cpu_step_to_interrupt(t) ==
    LET r == tlb_refresh(run[t])
    IN  /\ At(t, "out") /\ program.rounds > run[t].rounds
        /\ jetsam.w = NULL
        /\ jetsam' = [jetsam EXCEPT !.r = @ \cup {t}]
        /\ \E a \in program.entry[t] :
             run' = [run EXCEPT ![t] =
                loop([r EXCEPT !.last = NULL, !.ip = a, !.rounds = @ + 1])]
        /\ CodeUnchanged /\ UNCHANGED <<program, alock, changes>>
Run(t, b) == [run EXCEPT ![t].cur = b, ![t].cache[run[t].ip] = b, ![t].pc = "chain"]
find(t) ==
    LET ip == run[t].ip IN
    /\ At(t, "find")
    /\ IF run[t].cache[ip] # NULL
       THEN run' = Run(t, run[t].cache[ip]) /\ UNCHANGED alock
       ELSE /\ alock = NULL
            /\ IF fiber_lookup(ip) # {}
               THEN run' = Run(t, Max(fiber_lookup(ip))) /\ UNCHANGED alock
               ELSE /\ alock' = t
                    /\ run' = [run EXCEPT ![t].pc = "compile", ![t].ver =
                                  [p \in PagesOf(ip) |-> code[p]]]
    /\ CodeUnchanged /\ UNCHANGED <<program, jetsam, changes>>
\* The instructions have been read; the block is finished and inserted.
fiber_block_compile(t) ==
    LET free == {b \in Ids : blocks[b].st = "none"}
        b == Min(free)  ip == run[t].ip
        new == [blocks EXCEPT ![b] = [addr |-> ip, st |-> "live", ver |-> run[t].ver,
                                      slot |-> [i \in Slots |-> NULL]]]
    IN  /\ At(t, "compile") /\ free # {}
        /\ blocks' = fiber_insert(new, b)
        /\ listed' = listed \cup PagesOf(ip)
        /\ alock' = NULL /\ run' = [Run(t, b) EXCEPT ![t].ver = NULL]
        /\ UNCHANGED <<program, code, gen, jetsam, changes, missed>>
\* The jump that led here is chained, when the lock is to be had.
chain(t) ==
    LET b == run[t].last  c == run[t].cur
        both == b # NULL /\ blocks[b].st = "live" /\ blocks[c].st = "live"
        Link(i, B) == IF B[b].slot[i] = NULL /\ program.jumps[B[b].addr][i] = B[c].addr
                      THEN [B EXCEPT ![b].slot[i] = c] ELSE B
    IN  /\ At(t, "chain")
        /\ blocks' = IF both /\ alock = NULL THEN FoldSet(Link, blocks, Slots) ELSE blocks
        /\ run' = [run EXCEPT ![t].pc = "run", ![t].last = c]
        /\ UNCHANGED <<program, code, listed, gen, missed, Locks, changes>>
------------------------------------------------------------------------------
(* fiber_enter: the gadgets of the block, and of those it is chained to *)
Kind(t) == program.kind[blocks[run[t].cur].addr]
\* The thread notes the page it has written, or looked up; one page at a time.
Note(t, p) ==
    missed' = IF run[t].dirty \notin {NULL, p} /\ run[t].wrote /\
                 (OnPage(run[t].dirty) # {} \/ run[t].dirty \in Pending)
              THEN missed \cup {run[t].dirty} ELSE missed
write_prep(t) ==
    \E p \in program.writes[t] :
        /\ At(t, "run") /\ run[t].stores > 0
        /\ code' = [code EXCEPT ![p] = @ + 1]
        /\ Note(t, p)
        /\ run' = [run EXCEPT ![t].dirty = p, ![t].wrote = TRUE, ![t].stores = @ - 1]
        /\ UNCHANGED <<program, blocks, listed, gen, Locks, changes>>
\* A miss may give up mem->lock for a while; the TLB is flushed, the caches are not.
tlb_miss(t) ==
    /\ At(t, "run") /\ run[t].stores > 0 /\ program.misses # {}
    /\ Goto(t, "miss")
    /\ CodeUnchanged /\ UNCHANGED <<program, Locks, changes>>
tlb_handle_miss(t) ==
    \E p \in program.misses :
        /\ At(t, "miss") /\ Note(t, p)
        /\ run' = [run EXCEPT ![t].pc = "run", ![t].dirty = p,
                              ![t].wrote = @ /\ run[t].dirty = p, ![t].changes = changes, ![t].stores = @ - 1]
        /\ UNCHANGED <<program, code, blocks, listed, gen, Locks, changes>>
\* fiber_ret_chain: to the next block, unless it is not chained or the thread is
\* needed in the loop.
Follow(t, b, i, r) ==
    LET c == blocks[b].slot[i] IN
    IF c = NULL THEN run' = [run EXCEPT ![t] = [r EXCEPT !.ip = Target(b, i), !.pc = "end"]]
    ELSE IF changes # r.changes
    THEN run' = [run EXCEPT ![t] = [r EXCEPT !.ip = blocks[c].addr, !.pc = "end", !.last = c]]
    ELSE run' = [run EXCEPT ![t] = [r EXCEPT !.cur = c, !.last = c]]
Poked(t, b, i, r) ==
    LET c == blocks[b].slot[i] IN
    c # NULL /\ run' = [run EXCEPT ![t] = [r EXCEPT !.ip = blocks[c].addr, !.pc = "end", !.last = c]]
branch(t) ==
    /\ At(t, "run") /\ Kind(t) = "jump"
    /\ \E i \in Slots : /\ Target(run[t].cur, i) # NULL
                        /\ Follow(t, run[t].cur, i, run[t]) \/ Poked(t, run[t].cur, i, run[t])
    /\ CodeUnchanged /\ UNCHANGED <<program, Locks, changes>>
\* Slot 1 is the callee, slot 0 the place to return to; the caller's block is
\* remembered under the return address.
branch_link(t) ==
    LET b == run[t].cur  back == Target(b, 0)
        r == [run[t] EXCEPT !.lr = back, !.ret[back] = b]
    IN  /\ At(t, "run") /\ Kind(t) = "call"
        /\ Follow(t, b, 1, r) \/ Poked(t, b, 1, r)
        /\ CodeUnchanged /\ UNCHANGED <<program, Locks, changes>>
ret(t) ==
    LET r == run[t]  b == r.ret[r.lr]
        c == IF b = NULL THEN NULL ELSE blocks[b].slot[0]
    IN  /\ At(t, "run") /\ Kind(t) = "ret"
        /\ run' = [run EXCEPT ![t] =
               IF c # NULL THEN [@ EXCEPT !.cur = c, !.last = c]
               ELSE IF b # NULL THEN [@ EXCEPT !.ip = r.lr, !.pc = "end", !.last = b]
               ELSE [@ EXCEPT !.ip = r.lr, !.pc = "end"]]
        /\ CodeUnchanged /\ UNCHANGED <<program, Locks, changes>>
\* A host fault: everything cached is dropped and the block tried again.
jit_crash(t) ==
    /\ At(t, "run") /\ program.crashes > run[t].crashes
    /\ run' = [run EXCEPT ![t] =
           [Cleared(@) EXCEPT !.gen = gen, !.changes = changes, !.last = NULL,
               !.pc = "end", !.ip = blocks[run[t].cur].addr, !.crashes = @ + 1]]
    /\ CodeUnchanged /\ UNCHANGED <<program, Locks, changes>>
------------------------------------------------------------------------------
(* Back in the loop *)
\* asbestos_invalidate_page: no lock is taken where there never was a block.
asbestos_invalidate_page(t) ==
    LET p == run[t].dirty IN
    /\ At(t, "end")
    /\ run' = [run EXCEPT ![t].dirty = NULL, ![t].wrote = FALSE, ![t].cur = NULL,
                          ![t].pc = "check"]
    /\ IF p = NULL \/ p \notin listed
       THEN /\ missed' = IF p \in Pending /\ run[t].wrote THEN missed \cup {p} ELSE missed
            /\ UNCHANGED <<blocks, gen>>
       ELSE asbestos_invalidate_range(p)
    /\ UNCHANGED <<program, code, listed, Locks, changes>>
check(t) ==
    /\ At(t, "check")
    /\ LET r == IF run[t].changes = changes THEN run[t]
                ELSE [Cleared(run[t]) EXCEPT !.changes = changes, !.gen = gen, !.last = NULL]
       IN  \/ run' = [run EXCEPT ![t] = loop(r)]
           \/ run' = [run EXCEPT ![t] = [r EXCEPT !.pc = "leave", !.ip = NULL, !.last = NULL]]
    /\ CodeUnchanged /\ UNCHANGED <<program, Locks, changes>>
\* Out of the code: jetsam is freed when nobody else is inside.
leave(t) ==
    /\ At(t, "leave") /\ jetsam' = [jetsam EXCEPT !.r = @ \ {t}] /\ Goto(t, "free")
    /\ CodeUnchanged /\ UNCHANGED <<program, alock, changes>>
\* Mutant: blocks are freed although other threads are in the code cache.
write_wrtrylock_any(t) ==
    LET try == Jetsam # {} /\ jetsam.w = NULL IN
    /\ At(t, "free") /\ alock = NULL
    /\ jetsam' = IF try THEN [jetsam EXCEPT !.w = t] ELSE jetsam
    /\ Goto(t, IF try THEN "freeing" ELSE "out")
    /\ CodeUnchanged /\ UNCHANGED <<program, alock, changes>>
write_wrtrylock(t) ==
    LET try == Jetsam # {} /\ jetsam = [w |-> NULL, r |-> {}] IN
    /\ At(t, "free") /\ alock = NULL
    /\ jetsam' = IF try THEN [jetsam EXCEPT !.w = t] ELSE jetsam
    /\ Goto(t, IF try THEN "freeing" ELSE "out")
    /\ CodeUnchanged /\ UNCHANGED <<program, alock, changes>>
fiber_free_jetsam(t) ==
    /\ At(t, "freeing") /\ alock = NULL
    /\ blocks' = [b \in Ids |-> IF b \in Jetsam THEN [blocks[b] EXCEPT !.st = "freed"] ELSE blocks[b]]
    /\ jetsam' = [jetsam EXCEPT !.w = NULL] /\ Goto(t, "out")
    /\ UNCHANGED <<program, code, listed, gen, missed, alock, changes>>
\* The kernel writes to guest memory: blocks go first, then the bytes change.
user_write(t) ==
    \E p \in program.kernel :
        /\ At(t, "out") /\ run[t].stores > 0
        /\ IF p \in listed THEN asbestos_invalidate_range(p) ELSE UNCHANGED <<blocks, gen, missed>>
        /\ run' = [run EXCEPT ![t].pc = "copy", ![t].dirty = p, ![t].stores = @ - 1]
        /\ UNCHANGED <<program, code, listed, Locks, changes>>
user_copy(t) ==
    LET p == run[t].dirty IN
    /\ At(t, "copy")
    /\ code' = [code EXCEPT ![p] = @ + 1]
    /\ missed' = IF OnPage(p) # {} \/ p \in Pending THEN missed \cup {p} ELSE missed
    /\ run' = [run EXCEPT ![t].pc = "out", ![t].dirty = NULL]
    /\ UNCHANGED <<program, blocks, listed, gen, Locks, changes>>
\* A mapping is replaced, under the write side of mem->lock.
remap(t) ==
    \E p \in program.remaps :
        /\ At(t, "out") /\ run[t].stores > 0
        /\ \A u \in Runners : run[u].pc \in {"out", "miss"}
        /\ IF p \in listed THEN asbestos_invalidate_range(p) ELSE UNCHANGED <<blocks, gen, missed>>
        /\ code' = [code EXCEPT ![p] = @ + 1]
        /\ changes' = changes + 1
        /\ run' = [run EXCEPT ![t].stores = @ - 1]
        /\ UNCHANGED <<program, listed, Locks>>

Next == \E t \in Runners :
    \/ cpu_step_to_interrupt(t) \/ find(t) \/ fiber_block_compile(t) \/ chain(t)
    \/ write_prep(t) \/ tlb_miss(t) \/ tlb_handle_miss(t) \/ branch(t) \/ branch_link(t) \/ ret(t)
    \/ jit_crash(t) \/ asbestos_invalidate_page(t) \/ check(t) \/ leave(t)
    \/ write_wrtrylock(t) \/ fiber_free_jetsam(t) \/ user_write(t) \/ user_copy(t) \/ remap(t)

Init ==
    /\ program \in CodeLoads
    /\ code = [p \in CodePages |-> 0] /\ blocks = [b \in Ids |-> NoBlock]
    /\ listed = {} /\ gen = 0 /\ alock = NULL /\ jetsam = [w |-> NULL, r |-> {}]
    /\ changes = 0 /\ missed = {}
    /\ run = [t \in Runners |->
         [pc |-> "out", ip |-> NULL, cur |-> NULL, last |-> NULL, cache |-> Empty, ret |-> Empty,
          gen |-> 0, dirty |-> NULL, wrote |-> FALSE, changes |-> 0, lr |-> NULL, ver |-> NULL,
          stores |-> program.stores[t], rounds |-> 0, crashes |-> 0]]
Spec == Init /\ [][Next]_vars
------------------------------------------------------------------------------
\* A thread inside the code cache holds no pointer to a freed block.
Pointers(t) == ({run[t].cur, run[t].last} \cup {run[t].cache[a] : a \in Addrs}
                \cup {run[t].ret[a] : a \in Addrs}) \ {NULL}
Inside(t) == t \in jetsam.r
NoFreedCode == \A t \in Runners :
    Inside(t) => \A b \in Pointers(t) : blocks[b].st # "freed"

\* Chained jumps lead to the live block for their target, from live blocks only.
ChainsSound ==
    \A b \in Ids, i \in Slots : blocks[b].st # "none" /\ blocks[b].slot[i] # NULL =>
        /\ blocks[b].st = "live" /\ blocks[blocks[b].slot[i]].st = "live"
        /\ Target(b, i) = blocks[blocks[b].slot[i]].addr

\* Of an address there is one block to be found at a time.
OneBlock == \A a \in Addrs : Cardinality(fiber_lookup(a)) <= 1

\* A block that can be found was made from what its pages hold, or a thread has
\* the page noted and will drop it: apart from the pages in missed.
Stale == {bp \in Live \X CodePages : /\ bp[2] \in PagesOf(blocks[bp[1]].addr)
                                     /\ blocks[bp[1]].ver[bp[2]] # code[bp[2]]}
FreshUnlessMissed == \A bp \in Stale :
    bp[2] \in missed \/ \E t \in Runners : run[t].dirty = bp[2] /\ run[t].wrote
\* The four together.
CodeSound == NoFreedCode /\ ChainsSound /\ OneBlock /\ FreshUnlessMissed
==============================================================================
