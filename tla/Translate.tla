------------------------------ MODULE Translate ------------------------------
(***************************************************************************)
(* The translator of guest code (asbestos/guest-arm64/gen.c): a block of   *)
(* instructions becomes a stream of words, gadgets with their operands,    *)
(* and the gadgets (gadgets-aarch64) run one after the other until one     *)
(* leaves the block.  Pairs of instructions are fused, a branch may be     *)
(* followed inside the block, and a load or store may fault.               *)
(*                                                                         *)
(* Next to cpu runs arch, the processor that executes the instructions one *)
(* by one; a gadget carries n, how many instructions of the block have     *)
(* been done when it has run.  Sizes are scaled down (BITS), and memory is *)
(* a set of cells wide enough for every access.                            *)
(***************************************************************************)
EXTENDS Integers, Sequences

CONSTANTS PAGE_SIZE,    \* bytes of a page
          BITS,         \* bits of an access of size 0 .. 3; 2 is a W and 3 an X register
          TextLoads,    \* families of programs, with the states they start in
          MaxBlocksRun  \* blocks run for a program

VARIABLES text,     \* the program, its instructions from text.start on; never changes
          gs,       \* struct gen_state, then the block
          st,       \* "gen", "run", "done", or the interrupt that ended cpu_run
          at,       \* _pc: the position in the code of the block
          cpu,      \* struct cpu_state and fiber_frame
          arch,     \* history: the processor the block stands for
          backed,   \* cells that can be read and written
          left,     \* blocks that may still run
          strayed   \* history: a fault was reported at another instruction

translate_vars == <<text, gs, st, at, cpu, arch, backed, left, strayed>>

XREG == 3
WREG == 2
SP == 31     \* cpu_state has sp right after the 31 registers; as an operand, 31 is also XZR
PAGE(a) == a \div PAGE_SIZE
GEN_INTERNAL_CONTINUE_MAX == 4
GEN_INTERNAL_CONTINUE_BUDGET_INSNS == 2

RegSize(sf) == IF sf THEN XREG ELSE WREG
Trunc(v, size) == v % 2^BITS[size]
SignExtend(v, size, to) ==
    IF v >= 2^(BITS[size] - 1) THEN v + 2^BITS[to] - 2^BITS[size] ELSE v
\* The sum or the difference, and the flags N, Z, C and V.
AddSub(a, b, sub, sf) ==
    LET m == 2^BITS[RegSize(sf)]
        x == a % m
        y == b % m
        r == (IF sub THEN x - y ELSE x + y) % m
        neg(v) == v >= m \div 2
    IN  [v |-> r,
         f |-> [n |-> neg(r), z |-> r = 0,
                c |-> IF sub THEN x >= y ELSE x + y >= m,
                v |-> neg(r) # neg(x) /\ (sub = (neg(x) # neg(y)))]]
Insn(a) ==
    LET k == (a - text.start) \div 4 + 1 IN
    IF a >= text.start /\ a % 4 = 0 /\ k <= Len(text.insn) THEN text.insn[k] ELSE [op |-> "none"]
Cell(mem, a) == IF a \in DOMAIN mem THEN mem[a] ELSE 0
Loaded(mem, a, o) ==
    LET v == Trunc(Cell(mem, a), o.size) IN IF o.sx THEN SignExtend(v, o.size, RegSize(o.x64)) ELSE v
Stored(mem, a, o, v) ==
    [mem EXCEPT ![a] = @ - Trunc(@, o.size) + Trunc(v, o.size)]
Bit(v, b) == (v \div 2^b) % 2 = 1
------------------------------------------------------------------------------
\* The instructions as the architecture defines them.
Holds(cond, f) ==
    LET base == CASE cond \div 2 = 0 -> f.z
                  [] cond \div 2 = 1 -> f.c
                  [] cond \div 2 = 2 -> f.n
                  [] cond \div 2 = 3 -> f.v
                  [] cond \div 2 = 4 -> f.c /\ ~f.z
                  [] cond \div 2 = 5 -> f.n = f.v
                  [] cond \div 2 = 6 -> f.n = f.v /\ ~f.z
                  [] OTHER -> TRUE
    IN  IF cond % 2 = 1 /\ cond # 15 THEN ~base ELSE base
\* An instruction that faults or traps leaves everything as it is.
ArchStep(a) ==
    LET i == Insn(a.pc)
        R(r) == IF r = 31 THEN 0 ELSE a.x[r]
        to(x, r, v) == IF r = 31 THEN x ELSE [x EXCEPT ![r] = v]
        go(t) == [a EXCEPT !.pc = t]
        next == go(a.pc + 4)
        branch(taken) == IF taken THEN go(a.pc + i.imm) ELSE next
        alu(o, b) == LET r == AddSub(o, b, i.sub, i.sf) IN
            IF i.S THEN [next EXCEPT !.x = to(@, i.rd, r.v), !.f = r.f]
            ELSE [next EXCEPT !.x = IF i.op = "ADDSUB_REG" THEN to(@, i.rd, r.v)
                                    ELSE [@ EXCEPT ![i.rd] = r.v]]
    IN
    CASE i.op = "B" -> go(a.pc + i.imm)
      [] i.op = "BL" -> [go(a.pc + i.imm) EXCEPT !.x[30] = a.pc + 4]
      [] i.op = "BCOND" -> branch(Holds(i.cond, a.f))
      [] i.op = "CBZ" -> branch((Trunc(R(i.rt), RegSize(i.sf)) = 0) # i.nz)
      [] i.op = "TBZ" -> branch(Bit(R(i.rt), i.bit) = i.nz)
      [] i.op \in {"BR", "RET"} -> go(R(i.rn))
      [] i.op = "BLR" -> [go(R(i.rn)) EXCEPT !.x[30] = a.pc + 4]
      [] i.op = "ADR" ->
            [next EXCEPT !.x = to(@, i.rd, Trunc(IF i.page THEN PAGE_SIZE * (PAGE(a.pc) + i.imm)
                                                 ELSE a.pc + i.imm, XREG))]
      [] i.op = "ADDSUB_IMM" -> alu(IF i.rn = 31 THEN a.x[SP] ELSE R(i.rn),
                                    IF i.sh THEN i.imm * PAGE_SIZE ELSE i.imm)
      [] i.op = "ADDSUB_REG" -> alu(R(i.rn), R(i.rm))
      [] i.op = "LDST" ->
            LET p == Trunc(a.x[i.rn] + i.imm * 2^i.size, XREG) IN
            IF p \notin backed THEN a
            ELSE IF i.load THEN [next EXCEPT !.x = to(@, i.rt, Loaded(a.mem, p, i))]
            ELSE [next EXCEPT !.mem = Stored(@, p, i, R(i.rt))]
      [] i.op = "DC_ZVA" -> IF R(i.rt) \in backed THEN [next EXCEPT !.mem[R(i.rt)] = 0] ELSE a
      [] i.op = "MSR" -> [next EXCEPT !.tls = R(i.rt)]
      [] i.op = "MRS" -> [next EXCEPT !.x = to(@, i.rt, a.tls)]
      [] i.op \in {"SVC", "HINT", "BARRIER", "PRFM"} -> next
      [] OTHER -> a
ArchRun(a, n) ==
    LET f[k \in 0 .. n] == IF k = 0 THEN a ELSE ArchStep(f[k - 1]) IN f[n]
------------------------------------------------------------------------------
\* gen.c.  A word is a gadget, an operand, or where to go: a guest address
\* (with bit 63 set), or, patched in by gen_end, a position in this block.
Gadget(s, name) == [g |-> name, n |-> s.n]
Fake(t) == <<"fake", t>>
Inside(pos) == <<"code", pos>>
gen(s, words) == [s EXCEPT !.code = @ \o words]
Stop(s) == [s EXCEPT !.more = FALSE]
\* state->ip += 4 over the instruction that is translated.
Consume(s) == [s EXCEPT !.ip = @ + 4, !.n = @ + 1, !.read = @ \cup {s.ip}]
gen_peek_next_insn(s) == Insn(s.ip)

gen_start(a) ==
    [addr |-> a, ip |-> a, orig_ip |-> a, b_follow_depth |-> 0, jump_ip |-> <<0, 0>>,
     block_patch_ip |-> 0, patches |-> <<>>, used |-> FALSE, segment_start |-> 0,
     segment_budget |-> 0, code |-> <<>>, end_addr |-> a, more |-> TRUE, n |-> 0, read |-> {}]
gen_end(s) ==
    [s EXCEPT
        !.code = [p \in DOMAIN @ |->
                    IF s.block_patch_ip = p THEN <<"block", s.addr>>
                    ELSE IF \E k \in DOMAIN s.patches : s.patches[k][1] = p
                    THEN Inside((CHOOSE q \in {s.patches[k] : k \in DOMAIN s.patches} : q[1] = p)[2])
                    ELSE @[p]],
        !.end_addr = IF s.addr # s.ip THEN s.ip - 1 ELSE s.addr]
gen_exit(s) == Stop(gen(s, <<Gadget(s, "exit"), s.ip>>))
gen_interrupt(s, int) ==
    Stop(gen(s, <<Gadget(s, "set_pc"), s.orig_ip, Gadget(s, "interrupt"), int>>))

\* The last two words are where the branch goes: both can be chained.
EndTwoWay(s, words, target) ==
    LET e == gen(s, words \o <<Fake(target), Fake(s.ip)>>)
    IN  Stop([e EXCEPT !.jump_ip = <<Len(e.code) - 1, Len(e.code)>>])
EndBranch(s, target) ==
    LET e == gen(s, <<Gadget(s, "branch"), Fake(target)>>)
    IN  Stop([e EXCEPT !.jump_ip[1] = Len(e.code)])
------------------------------------------------------------------------------
\* Fusing an instruction with the one after it: j is that one, s has
\* consumed the first, and its translation is that of both.
bcond_gadgets ==
    <<"eq", "ne", "cs", "cc", "mi", "pl", "vs", "vc", "hi", "ls", "ge", "lt", "gt", "le">>
FusableBcond(j) == j.op = "BCOND" /\ j.cond < 14
try_fuse_subs_bcond(s, i, j) ==
    LET c == Consume(s) IN
    EndTwoWay(c, <<Gadget(c, "fused_subs_bcond"),
                   [rd |-> i.rd, rn |-> i.rn, imm |-> i.imm, sf |-> i.sf,
                    cond |-> bcond_gadgets[j.cond + 1]]>>,
              (c.ip - 4) + j.imm)
try_fuse_subs_reg_bcond(s, i, j) ==
    LET c == Consume(s) IN
    EndTwoWay(c, <<Gadget(c, "fused_subs_reg_bcond"),
                   [rd |-> i.rd, rn |-> i.rn, rm |-> i.rm,
                    cond |-> bcond_gadgets[j.cond + 1]]>>,
              (c.ip - 4) + j.imm)
FusableAddsubCbz(i, j) == j.op = "CBZ" /\ j.rt = i.rd
try_fuse_addsub_cbz(s, i, j) ==
    LET c == Consume(s) IN
    EndTwoWay(c, <<Gadget(c, "fused_addsub_cbz"),
                   [rd |-> i.rd, rn |-> i.rn, imm |-> i.imm, sub |-> i.sub, sf |-> i.sf,
                    test_sf |-> j.sf, nz |-> j.nz]>>,
              (c.ip - 4) + j.imm)
\* An access through the register that was just computed, of any size.
FusableAddsubLdst(s, i, j, load) ==
    /\ i.sf /\ PAGE(s.orig_ip) = PAGE(s.ip)
    /\ j.op = "LDST" /\ j.load = load /\ ~j.sx /\ j.rn = i.rd /\ j.rt # 31
AddsubLdst(i, j) ==
    [rd |-> i.rd, rn |-> i.rn, imm |-> i.imm, sub |-> i.sub, rt |-> j.rt, off |-> j.imm,
     size |-> j.size, sx |-> FALSE, x64 |-> FALSE]
\* try_fuse_addsub_ldr64, 32, 16 and 8
try_fuse_addsub_ldr(s, i, j) ==
    LET c == Consume(s) IN gen(c, <<Gadget(c, "fused_addsub_ldr"), AddsubLdst(i, j), s.ip>>)
\* try_fuse_addsub_str64, 32, 16 and 8
try_fuse_addsub_str(s, i, j) ==
    LET c == Consume(s) IN gen(c, <<Gadget(c, "fused_addsub_str"), AddsubLdst(i, j), s.ip>>)
\* A load and the branch on what it loaded: ldr64_cbz64 and ldr64_sp_cbz64;
\* ldr32_sx_cbz64 and ldr_sx_cbz; ldr32_cbz32, ldr16_cbz32 and ldr8_cbz32.
FusesLdr64_w_branch(i, j) == ~i.sx /\ i.size = XREG
FusesLdr64(i, j) == ~i.sx /\ i.size = XREG /\ j.sf
FusesLdrSx(i, j) == i.sx
FusesLdr32(i, j) == ~i.sx /\ i.size # XREG /\ ~j.sf
FusableLdrCbz(s, i, j) ==
    /\ i.rt # 31 /\ PAGE(s.orig_ip) = PAGE(s.ip)
    /\ j.op = "CBZ" /\ j.rt = i.rt
    /\ FusesLdr64(i, j) \/ FusesLdrSx(i, j) \/ FusesLdr32(i, j)
try_fuse_ldr_cbz(s, i, j) ==
    LET c == Consume(s) IN
    EndTwoWay(c, <<Gadget(c, "fused_ldr_cbz"),
                   [rt |-> i.rt, rn |-> i.rn, imm |-> i.imm, size |-> i.size, sx |-> i.sx,
                    x64 |-> i.x64, nz |-> j.nz],
                   c.orig_ip>>,
              s.ip + j.imm)
------------------------------------------------------------------------------
FusableAdrpLdr(i, j) ==
    j.op = "LDST" /\ j.load /\ ~j.sx /\ j.size = XREG /\ j.rn = i.rd /\ j.rt # 31
FusableAdrpAdd(i, j) ==
    /\ j.op = "ADDSUB_IMM" /\ j.sf /\ ~j.sub /\ ~j.S /\ ~j.sh
    /\ j.rn = i.rd /\ j.rd = i.rd
gen_adr(s, i) ==
    LET j == gen_peek_next_insn(s)
        c == Consume(s)
        target == Trunc(IF i.page THEN (s.orig_ip - (s.orig_ip % PAGE_SIZE)) + i.imm * PAGE_SIZE
                        ELSE s.orig_ip + i.imm, XREG)
        fuse == i.page /\ i.rd # 31
    IN
    IF fuse /\ FusableAdrpLdr(i, j)
    THEN gen(c, <<Gadget(c, "fused_adrp_ldr64"),
                  [rt |-> j.rt, rd |-> i.rd, off |-> j.imm * 2^XREG], target>>)
    ELSE IF fuse /\ FusableAdrpAdd(i, j)
    THEN gen(c, <<Gadget(c, "fused_adrp_add"), [rd |-> i.rd, imm |-> j.imm], target>>)
    ELSE gen(s, <<Gadget(s, "adr"), [rd |-> i.rd, target |-> target]>>)
gen_addsub_imm(s, i) ==
    LET j == gen_peek_next_insn(s)
        plain == ~i.sh /\ ~i.S /\ i.rd # 31 /\ i.rn # 31
        fast == i.rn # 31 /\ (i.S \/ i.rd # 31) /\ (i.sf \/ ~i.sh)
        sp_src == i.sf /\ ~i.sh /\ i.rn = 31 /\ ~i.S /\ i.rd # 31
    IN
    IF ~i.sh /\ i.rn # 31 /\ i.S /\ i.sub /\ FusableBcond(j) THEN try_fuse_subs_bcond(s, i, j)
    ELSE IF plain /\ FusableAddsubCbz(i, j) THEN try_fuse_addsub_cbz(s, i, j)
    ELSE IF plain /\ FusableAddsubLdst(s, i, j, TRUE) THEN try_fuse_addsub_ldr(s, i, j)
    ELSE IF plain /\ FusableAddsubLdst(s, i, j, FALSE) THEN try_fuse_addsub_str(s, i, j)
    ELSE gen(s, <<Gadget(s, CASE fast -> "addsub_imm_fast"
                              [] sp_src -> "addsub_imm_sp_src"
                              [] OTHER -> "addsub_imm"), i>>)
gen_dp_imm(s, i) == IF i.op = "ADR" THEN gen_adr(s, i) ELSE gen_addsub_imm(s, i)
\* Add and subtract of registers, without a shift.
gen_dp_reg(s, i) ==
    LET j == gen_peek_next_insn(s)
        fast == i.sf /\ i.rn # 31 /\ i.rm # 31
    IN
    IF fast /\ i.S /\ i.sub /\ FusableBcond(j) THEN try_fuse_subs_reg_bcond(s, i, j)
    ELSE gen(s, <<Gadget(s, IF fast /\ (i.S \/ i.rd # 31) THEN "addsub_reg_fast" ELSE "addsub_reg"), i>>)
gen_ldst(s, i) ==
    LET j == gen_peek_next_insn(s)
        fast == i.rt # 31 /\ (i.rn # 31 \/ i.size >= WREG)
    IN
    IF i.op = "PRFM" THEN s
    ELSE IF i.load /\ FusableLdrCbz(s, i, j) THEN try_fuse_ldr_cbz(s, i, j)
    ELSE IF i.sx /\ i.size < WREG
    THEN gen(s, <<Gadget(s, "calc_addr_imm"), [rn |-> i.rn, off |-> i.imm * 2^i.size],
                  Gadget(s, "load_sx"), i, Gadget(s, "store_reg"), i.rt>>)
    ELSE gen(s, <<Gadget(s, IF fast /\ ~i.sx THEN "ldst_imm_fast" ELSE "ldst_imm"), i>>)
------------------------------------------------------------------------------
\* A conditional branch one edge of which goes on inside the block: words is
\* the gadget, kind its name; the other edge is the only one to be chained.
Near(s, target) ==
    /\ text.taken_enabled /\ PAGE(target) = PAGE(s.addr)
    /\ target > s.ip /\ target - s.ip <= 8
InternalContinue(s, target) ==
    /\ text.continue_enabled /\ ~s.used
    /\ Len(s.patches) + 2 <= GEN_INTERNAL_CONTINUE_MAX
    /\ PAGE(s.ip) = PAGE(s.addr)
    /\ Near(s, target) \/ target < s.ip
gen_internal_continue(s, words, target) ==
    LET near == Near(s, target)
        to == IF near THEN target ELSE s.ip
        b == gen(s, words \o (IF near THEN <<0, Fake(s.ip)>> ELSE <<Fake(target), 0>>))
        size == Len(b.code)
        r == gen(b, <<Gadget(b, "internal_continue"), to, 0>>)
    IN  [r EXCEPT !.jump_ip[1] = IF near THEN size ELSE size - 1,
                  !.patches = @ \o <<<<IF near THEN size - 1 ELSE size, size + 1>>,
                                     <<size + 3, size + 4>>>>,
                  !.used = TRUE, !.segment_start = to,
                  !.segment_budget = GEN_INTERNAL_CONTINUE_BUDGET_INSNS, !.ip = to]
gen_conditional(s, words, internal, target) ==
    IF InternalContinue(s, target) THEN gen_internal_continue(s, internal, target)
    ELSE EndTwoWay(s, words, target)
gen_bcond(s, i) ==
    LET target == s.orig_ip + i.imm IN
    IF i.cond >= 14 THEN EndBranch(s, target)
    ELSE LET op == [cond |-> bcond_gadgets[i.cond + 1]]
         IN  gen_conditional(s, <<Gadget(s, "bcond"), op>>, <<Gadget(s, "bcond"), op>>, target)
gen_cbz(s, i) ==
    gen_conditional(s, <<Gadget(s, IF i.rt # 31 THEN "cbz_fast" ELSE "cbz"), i>>,
                    <<Gadget(s, "cbz"), i>>, s.orig_ip + i.imm)
gen_tbz(s, i) ==
    gen_conditional(s, <<Gadget(s, "tbz"), i>>, <<Gadget(s, "tbz"), i>>, s.orig_ip + i.imm)
gen_b(s, i) ==
    LET target == s.orig_ip + i.imm IN
    IF PAGE(target) = PAGE(s.addr) /\ target > s.orig_ip /\ s.b_follow_depth < 3
    THEN [s EXCEPT !.ip = target, !.b_follow_depth = @ + 1]
    ELSE EndBranch(s, target)
gen_bl(s, i) ==
    LET e == gen(s, <<Gadget(s, "branch_link"), 0, s.ip, Fake(s.ip), Fake(s.orig_ip + i.imm)>>)
    IN  Stop([e EXCEPT !.block_patch_ip = Len(e.code) - 3,
                       !.jump_ip = <<Len(e.code) - 1, Len(e.code)>>])
gen_branch_register(s, i) ==
    Stop(gen(s, CASE i.op = "BR" -> <<Gadget(s, "branch_reg"), i.rn>>
                  [] i.op = "BLR" -> <<Gadget(s, "branch_link_reg"), i.rn, s.ip>>
                  [] i.op = "RET" -> <<Gadget(s, "ret"), i.rn>>))
\* Hints and cache maintenance have no gadget; a barrier has one without effect here.
gen_system(s, i) ==
    CASE i.op = "HINT" -> s
      [] i.op = "BARRIER" -> gen(s, <<Gadget(s, "barrier")>>)
      [] i.op = "DC_ZVA" -> gen(s, <<Gadget(s, "dc_zva"), i.rt>>)
      [] i.op = "MSR" -> gen(s, <<Gadget(s, "msr_tpidr"), i.rt>>)
      [] i.op = "MRS" -> gen(s, <<Gadget(s, "mrs_tpidr"), i.rt>>)
gen_branch(s, i) ==
    CASE i.op = "SVC" -> gen_interrupt(gen(s, <<Gadget(s, "svc"), s.ip>>), "SYSCALL")
      [] i.op = "BRK" -> gen_interrupt(s, "BREAKPOINT")
      [] i.op = "B" -> gen_b(s, i)
      [] i.op = "BL" -> gen_bl(s, i)
      [] i.op = "BCOND" -> gen_bcond(s, i)
      [] i.op = "CBZ" -> gen_cbz(s, i)
      [] i.op = "TBZ" -> gen_tbz(s, i)
      [] i.op \in {"BR", "BLR", "RET"} -> gen_branch_register(s, i)
      [] OTHER -> gen_system(s, i)
gen_step(s0) ==
    LET s == [s0 EXCEPT !.orig_ip = s0.ip]
        i == Insn(s.ip)
        c == Consume(s)
    IN
    CASE i.op = "none" -> gen_interrupt(s, "GPF")
      [] i.op \in {"ADR", "ADDSUB_IMM"} -> gen_dp_imm(c, i)
      [] i.op = "ADDSUB_REG" -> gen_dp_reg(c, i)
      [] i.op \in {"LDST", "PRFM"} ->
            gen_ldst(gen(c, <<Gadget(c, "set_jit_saved_pc"), c.orig_ip>>), i)
      [] i.op = "UNDEFINED" -> gen_interrupt(c, "UNDEFINED")
      [] OTHER -> gen_branch(c, i)
\* asbestos.c: one round of the loop of fiber_block_compile.
CompileFull(s) ==
    \/ s.segment_budget # 0 /\ s.ip - s.segment_start >= s.segment_budget * 4
    \/ s.ip - s.addr >= PAGE_SIZE - 15
fiber_block_compile ==
    LET s == gen_step(gs)
        e == IF s.more /\ CompileFull(s) THEN gen_exit(s) ELSE s
    IN
    /\ st = "gen"
    /\ gs' = IF e.more THEN e ELSE gen_end(e)
    /\ st' = IF e.more THEN "gen" ELSE "run"
    /\ at' = 1
    /\ UNCHANGED <<text, cpu, arch, backed, left, strayed>>
------------------------------------------------------------------------------
\* The gadgets.  Word(k) is the word k places after the gadget.
Here == gs.code[at]
Word(k) == gs.code[at + k]
Is(name) == st = "run" /\ Here.g = name
\* gret: the next gadget.
Then(c, words) ==
    /\ cpu' = c /\ at' = at + words
    /\ UNCHANGED <<text, gs, st, arch, backed, left, strayed>>
\* cpu_step_to_interrupt: the block at pc is compiled and entered.
Dispatch(c, pc) ==
    /\ cpu' = [c EXCEPT !.pc = pc, !.jit_saved_pc = pc]
    /\ gs' = gen_start(pc)
    /\ st' = IF left = 0 THEN "done" ELSE "gen"
    /\ left' = IF left = 0 THEN 0 ELSE left - 1
\* fiber_ret and fiber_ret_chain
Leave(c, pc) ==
    /\ Dispatch(c, pc) /\ arch' = ArchRun(arch, Here.n)
    /\ UNCHANGED <<text, at, backed, strayed>>
\* fiber_exit with an interrupt
Interrupt(c, pc, int) ==
    /\ cpu' = [c EXCEPT !.pc = pc] /\ arch' = ArchRun(arch, Here.n) /\ st' = int
    /\ UNCHANGED <<text, gs, at, backed, left, strayed>>
\* The two words from the k-th on are where a conditional branch goes.
Edge(taken, k) == IF taken THEN Word(k) ELSE Word(k + 1)
Branch(taken) ==
    LET word == Edge(taken, 2)
    IN  IF word[1] = "fake" THEN Leave(cpu, word[2]) ELSE Then(cpu, word[2] - at)

HostHolds(name, f) ==
    CASE name = "eq" -> f.z          [] name = "ne" -> ~f.z
      [] name = "cs" -> f.c          [] name = "cc" -> ~f.c
      [] name = "mi" -> f.n          [] name = "pl" -> ~f.n
      [] name = "vs" -> f.v          [] name = "vc" -> ~f.v
      [] name = "hi" -> f.c /\ ~f.z  [] name = "ls" -> ~f.c \/ f.z
      [] name = "ge" -> f.n = f.v    [] name = "lt" -> f.n # f.v
      [] name = "gt" -> f.n = f.v /\ ~f.z
      [] name = "le" -> f.n # f.v \/ f.z
ReadZ(x, r) == IF r = 31 THEN 0 ELSE x[r]
WriteZ(x, r, v) == IF r = 31 THEN x ELSE [x EXCEPT ![r] = v]

set_jit_saved_pc == Is("set_jit_saved_pc") /\ Then([cpu EXCEPT !.jit_saved_pc = Word(1)], 2)
set_pc == Is("set_pc") /\ Then([cpu EXCEPT !.pc = Word(1)], 2)
interrupt == Is("interrupt") /\ Interrupt(cpu, cpu.pc, Word(1))
exit == Is("exit") /\ Leave(cpu, Word(1))
svc == Is("svc") /\ Interrupt(cpu, Word(1), "SYSCALL")
internal_continue ==
    Is("internal_continue") /\ Then([cpu EXCEPT !.pc = Word(1)], Word(2)[2] - at)
branch == Is("branch") /\ Leave(cpu, Word(1)[2])
branch_link == Is("branch_link") /\ Leave([cpu EXCEPT !.x[30] = Word(2)], Word(4)[2])
branch_reg == (Is("branch_reg") \/ Is("ret")) /\ Leave(cpu, cpu.x[Word(1)])
branch_link_reg ==
    Is("branch_link_reg") /\ Leave([cpu EXCEPT !.x[30] = Word(2)], cpu.x[Word(1)])
bcond == Is("bcond") /\ Branch(HostHolds(Word(1).cond, cpu.f))
cbz ==
    /\ Is("cbz") \/ Is("cbz_fast")
    /\ LET o == Word(1)
           v == IF Is("cbz") THEN ReadZ(cpu.x, o.rt) ELSE cpu.x[o.rt]
       IN  Branch((Trunc(v, RegSize(o.sf)) = 0) # o.nz)
tbz == Is("tbz") /\ LET o == Word(1) IN Branch(Bit(ReadZ(cpu.x, o.rt), o.bit) = o.nz)
barrier == Is("barrier") /\ Then(cpu, 1)
msr_tpidr == Is("msr_tpidr") /\ Then([cpu EXCEPT !.tls = ReadZ(cpu.x, Word(1))], 2)
mrs_tpidr == Is("mrs_tpidr") /\ Then([cpu EXCEPT !.x = WriteZ(@, Word(1), cpu.tls)], 2)
adr == Is("adr") /\ Then([cpu EXCEPT !.x = WriteZ(@, Word(1).rd, Word(1).target)], 2)
fused_adrp_add ==
    Is("fused_adrp_add") /\ Then([cpu EXCEPT !.x[Word(1).rd] = Trunc(Word(2) + Word(1).imm, XREG)], 3)
\* The specialised gadgets do not look whether a register is number 31.
addsub_imm ==
    /\ Is("addsub_imm") \/ Is("addsub_imm_fast") \/ Is("addsub_imm_sp_src")
    /\ LET o == Word(1)
           rn == IF Is("addsub_imm_sp_src") THEN SP ELSE o.rn
           sh == o.sh /\ ~Is("addsub_imm_sp_src")
           r == AddSub(cpu.x[rn], IF sh THEN o.imm * PAGE_SIZE ELSE o.imm, o.sub, o.sf)
       IN  Then([cpu EXCEPT !.f = IF o.S THEN r.f ELSE @,
                            !.x = IF o.S THEN WriteZ(@, o.rd, r.v) ELSE [@ EXCEPT ![o.rd] = r.v]], 2)
addsub_reg ==
    /\ Is("addsub_reg") \/ Is("addsub_reg_fast")
    /\ LET o == Word(1)
           R(r) == IF Is("addsub_reg") THEN ReadZ(cpu.x, r) ELSE cpu.x[r]
           r == AddSub(R(o.rn), R(o.rm), o.sub, o.sf)
       IN  Then([cpu EXCEPT !.f = IF o.S THEN r.f ELSE @,
                            !.x = IF o.S \/ Is("addsub_reg") THEN WriteZ(@, o.rd, r.v)
                                  ELSE [@ EXCEPT ![o.rd] = r.v]], 2)
fused_subs_bcond ==
    /\ Is("fused_subs_bcond") \/ Is("fused_subs_reg_bcond")
    /\ LET o == Word(1)
           r == IF Is("fused_subs_bcond") THEN AddSub(cpu.x[o.rn], o.imm, TRUE, o.sf)
                ELSE AddSub(cpu.x[o.rn], cpu.x[o.rm], TRUE, TRUE)
       IN  Leave([cpu EXCEPT !.f = r.f, !.x = WriteZ(@, o.rd, r.v)],
                 Edge(HostHolds(o.cond, r.f), 2)[2])
fused_addsub_cbz ==
    /\ Is("fused_addsub_cbz")
    /\ LET o == Word(1)
           r == AddSub(cpu.x[o.rn], o.imm, o.sub, o.sf)
       IN  Leave([cpu EXCEPT !.x[o.rd] = r.v],
                 Edge((Trunc(r.v, RegSize(o.test_sf)) = 0) # o.nz, 2)[2])
------------------------------------------------------------------------------
\* read_prep, write_prep and their slow paths: an access that fails is
\* reported at jit_saved_pc.
Fault(c, a) == a \notin backed /\ Interrupt([c EXCEPT !.segfault_addr = a], c.jit_saved_pc, "GPF")
Address(base, off) == Trunc(base + off, XREG)
ldst_imm ==
    /\ Is("ldst_imm") \/ Is("ldst_imm_fast")
    /\ LET o == Word(1)
           a == Address(cpu.x[o.rn], o.imm * 2^o.size)
           fast == Is("ldst_imm_fast")
           v == Loaded(cpu.mem, a, o)
           rt == IF fast THEN cpu.x[o.rt] ELSE ReadZ(cpu.x, o.rt)
       IN  \/ Fault(cpu, a)
           \/ /\ a \in backed
              /\ Then(IF o.load
                      THEN [cpu EXCEPT !.x = IF fast THEN [@ EXCEPT ![o.rt] = v] ELSE WriteZ(@, o.rt, v)]
                      ELSE [cpu EXCEPT !.mem = Stored(@, a, o, rt)], 2)
calc_addr_imm ==
    Is("calc_addr_imm") /\ Then([cpu EXCEPT !.addr = Address(cpu.x[Word(1).rn], Word(1).off)], 2)
load_sx ==
    /\ Is("load_sx")
    /\ \/ Fault(cpu, cpu.addr)
       \/ /\ cpu.addr \in backed
          /\ Then([cpu EXCEPT !.tmp = Loaded(cpu.mem, cpu.addr, Word(1))], 2)
store_reg == Is("store_reg") /\ Then([cpu EXCEPT !.x = WriteZ(@, Word(1), cpu.tmp)], 2)
dc_zva ==
    /\ Is("dc_zva")
    /\ LET a == ReadZ(cpu.x, Word(1)) IN
       \/ Fault(cpu, a)
       \/ a \in backed /\ Then([cpu EXCEPT !.mem[a] = 0], 2)
fused_adrp_ldr64 ==
    /\ Is("fused_adrp_ldr64")
    /\ LET o == Word(1)
           c == [cpu EXCEPT !.x[o.rd] = Word(2)]
           a == Address(Word(2), o.off)
       IN  \/ Fault(c, a)
           \/ a \in backed /\ Then([c EXCEPT !.x[o.rt] = Cell(c.mem, a)], 3)
fused_addsub_ldst ==
    /\ Is("fused_addsub_ldr") \/ Is("fused_addsub_str")
    /\ LET o == Word(1)
           base == AddSub(cpu.x[o.rn], o.imm, o.sub, TRUE).v
           c == [cpu EXCEPT !.x[o.rd] = base, !.jit_saved_pc = Word(2)]
           a == Address(base, o.off * 2^o.size)
       IN  \/ Fault(c, a)
           \/ /\ a \in backed
              /\ Then(IF Is("fused_addsub_ldr") THEN [c EXCEPT !.x[o.rt] = Loaded(c.mem, a, o)]
                      ELSE [c EXCEPT !.mem = Stored(@, a, o, c.x[o.rt])], 3)
fused_ldr_cbz ==
    /\ Is("fused_ldr_cbz")
    /\ LET o == Word(1)
           c == [cpu EXCEPT !.jit_saved_pc = Word(2)]
           a == Address(cpu.x[o.rn], o.imm * 2^o.size)
           v == Loaded(c.mem, a, o)
       IN  \/ Fault(c, a)
           \/ a \in backed /\ Leave([c EXCEPT !.x[o.rt] = v], Edge((v = 0) # o.nz, 3)[2])
------------------------------------------------------------------------------
\* External: the kernel backs the address and the guest goes on at cpu.pc.
fault_handled ==
    /\ st = "GPF" /\ cpu.segfault_addr \in DOMAIN cpu.mem \ backed
    /\ backed' = backed \cup {cpu.segfault_addr}
    /\ strayed' = (strayed \/ cpu.pc # arch.pc)
    /\ Dispatch(cpu, cpu.pc)
    /\ UNCHANGED <<text, at, arch>>

TranslateInit ==
    /\ \E l \in TextLoads : \E i \in l.first, j \in l.second, k \in l.third :
         \E d \in l.data, a \in l.start, c \in l.continue :
            text = [insn |-> <<i, j, k>> \o l.rest, start |-> a, x |-> [d.x EXCEPT ![30] = a + 4],
                    f |-> d.f, mem |-> d.mem, backed |-> d.backed,
                    continue_enabled |-> c, taken_enabled |-> c]
    /\ gs = gen_start(text.start) /\ st = "gen" /\ at = 1
    /\ arch = [x |-> text.x, f |-> text.f, mem |-> text.mem, tls |-> 0, pc |-> text.start]
    /\ cpu = [x |-> text.x, f |-> text.f, mem |-> text.mem, tls |-> 0, pc |-> text.start,
              jit_saved_pc |-> text.start,
              segfault_addr |-> -1, addr |-> 0, tmp |-> 0]
    /\ backed = text.backed /\ left = MaxBlocksRun /\ strayed = FALSE

gadget ==
    \/ set_jit_saved_pc \/ set_pc \/ interrupt \/ exit \/ svc \/ internal_continue
    \/ branch \/ branch_link \/ branch_reg \/ branch_link_reg \/ bcond \/ cbz \/ tbz
    \/ barrier \/ msr_tpidr \/ mrs_tpidr \/ adr \/ fused_adrp_add
    \/ addsub_imm \/ addsub_reg \/ fused_subs_bcond \/ fused_addsub_cbz
    \/ ldst_imm \/ calc_addr_imm \/ load_sx \/ store_reg
    \/ dc_zva \/ fused_adrp_ldr64 \/ fused_addsub_ldst \/ fused_ldr_cbz
TranslateNext == fiber_block_compile \/ gadget \/ fault_handled
TranslateSpec == TranslateInit /\ [][TranslateNext]_translate_vars
------------------------------------------------------------------------------
\* What the translator says of the block: the instructions it stands for are
\* on the pages it will be listed under, it spans at most a page's length, and
\* the words to be chained hold guest addresses.
BlockShape ==
    /\ gs.read \subseteq gs.addr .. gs.end_addr
    /\ \A a \in gs.read : PAGE(a) \in {PAGE(gs.addr), PAGE(gs.end_addr)}
    /\ gs.ip - gs.addr <= PAGE_SIZE
    /\ \A k \in {1, 2} : gs.jump_ip[k] # 0 => gs.code[gs.jump_ip[k]][1] = "fake"
\* The translated code does what the instructions say.  Whenever the gadgets
\* of a block have been left, by whichever exit, registers, flags, memory and
\* pc are those of the processor that executed the instructions on the path
\* one by one; a fault or a trap shows them as they were before the
\* instruction it belongs to, and names that instruction.  The exceptions are
\* the faults of a fused ADRP and LDR and of DC ZVA, which are reported at the
\* last instruction that set jit_saved_pc: what follows it is done again.
BlocksSound ==
    /\ st # "run" /\ ~strayed =>
        /\ cpu.x = arch.x /\ cpu.f = arch.f /\ cpu.mem = arch.mem /\ cpu.tls = arch.tls
        /\ cpu.pc = arch.pc \/ (st = "GPF" /\ Here.g \in {"fused_adrp_ldr64", "dc_zva"})
    /\ st = "run" => BlockShape
==============================================================================
