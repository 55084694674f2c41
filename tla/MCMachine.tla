------------------------------ MODULE MCMachine ------------------------------
(***************************************************************************)
(* For TLC: what a guest program runs on, one component at a time: its     *)
(* memory, the code made from its instructions and the cache that keeps    *)
(* it, its start, the files it names, and its vector instructions.         *)
(***************************************************************************)
EXTENDS Memory, Vectors, TLC

CONSTANT Parts

\* Address spaces of eleven pages and up to three threads: a fork against the
\* accesses of two threads; the placement of mappings; reservations; a fault
\* against a change of the mapping; a growing stack; shared mappings, ptrace, exec
\* and exit; madvise.
MemoryPrograms ==
  LET RW == {"r", "w"}
      Map(addr, pages, prot, fl) == [addr |-> addr, pages |-> pages, prot |-> prot, fl |-> fl]
      R(addr, pages) == [addr |-> addr, pages |-> pages]
      A(how, type, todo) == [how |-> how, type |-> type, todo |-> todo]
      Of(ops, n) == [ops |-> ops, calls |-> n]
      None == Of({}, 0)
      L(one, two, three, maps, ranges, prots, brks, acc) ==
          [ops |-> [t1 |-> one.ops, t2 |-> two.ops, t3 |-> three.ops],
           calls |-> [t1 |-> one.calls, t2 |-> two.calls, t3 |-> three.calls],
           maps |-> maps, ranges |-> ranges, prots |-> prots, brks |-> brks, access |-> acc, nonone |-> TRUE]
  IN  { L(Of({"mmap", "thread", "fork"}, 3), Of({"run", "user"}, 2), Of({"run"}, 1), {Map(0, 2, RW, {})},
          {}, {}, {}, {A("run", "w", <<3, 4>>), A("user", "w", <<3, 4>>), A("run", "r", <<4>>)}),
        L(Of({"mmap", "munmap", "mremap", "brk", "user"}, 5), None, None,
          {Map(0, 1, RW, {}), Map(3, 2, RW, {"fixed"}), Map(2, 1, RW, {})}, {R(3, 1), R(3, 2)}, {}, {4, 6},
          {A("user", "w", <<3>>)}),
        L(Of({"mmap", "munmap", "mprotect", "user", "fork"}, 4), Of({"run"}, 1), None,
          {Map(0, 1, RW, {}), Map(0, 3, RW, {"noreserve"})}, {R(9, 1), R(8, 2)},
          {{"r"}}, {}, {A("user", "w", <<9>>), A("run", "w", <<8, 9>>)}),
        L(Of({"mmap", "thread", "munmap", "mprotect"}, 3), Of({"run", "user"}, 2), None,
          {Map(8, 3, RW, {"noreserve"})}, {R(9, 1), R(8, 3)}, {{"r"}}, {},
          {A("user", "w", <<9>>), A("run", "r", <<9>>)}),
        L(Of({"thread", "fork", "user", "run"}, 3), Of({"run"}, 1), Of({"user"}, 1), {}, {}, {}, {},
          {A("run", "w", <<5>>), A("user", "w", <<4, 5>>), A("run", "w", <<6>>)}),
        L(Of({"mmap", "fork", "ptrace", "user", "exit"}, 4), Of({"user", "exec", "exit"}, 1), None,
          {Map(0, 1, RW, {"shared"}), Map(0, 1, {"r"}, {})}, {}, {}, {},
          {A("ptrace", "p", <<4>>), A("user", "w", <<4>>)}),
        L(Of({"mmap", "thread", "madvise", "user"}, 4), Of({"munmap", "fork"}, 1), None,
          {Map(4, 1, RW, {})}, {R(4, 1)}, {}, {}, {A("madvise", "w", <<4>>), A("user", "w", <<4>>)}) }

\* Three pieces of code on two pages, run by two threads that also write them.
\* Calls: a calls c and returns to b, on one page; b jumps to a; c, on another,
\* returns.  Loops: a loops and leaves to b, which goes on into the next page.
CodePrograms ==
  LET Jumps(x, y) == 0 :> x @@ 1 :> y
      Calls == [pages |-> [a |-> {"p1"}, b |-> {"p1"}, c |-> {"p2"}],
                first |-> [a |-> "p1", b |-> "p1", c |-> "p2"],
                kind |-> [a |-> "call", b |-> "jump", c |-> "ret"],
                jumps |-> [a |-> Jumps("b", "c"), b |-> Jumps("a", NULL), c |-> Jumps(NULL, NULL)]]
      Loops == [pages |-> [a |-> {"p1"}, b |-> {"p1", "p2"}, c |-> {"p2"}],
                first |-> [a |-> "p1", b |-> "p1", c |-> "p2"],
                kind |-> [a |-> "jump", b |-> "jump", c |-> "jump"],
                jumps |-> [a |-> Jumps("a", "b"), b |-> Jumps("a", NULL), c |-> Jumps(NULL, NULL)]]
      P(text, prechain, e1, e2, rounds, s1, s2, w1, w2, misses, kernel, remaps, crashes) ==
          text @@ [prechain |-> prechain, entry |-> [r1 |-> e1, r2 |-> e2], rounds |-> rounds,
                   stores |-> [r1 |-> s1, r2 |-> s2], writes |-> [r1 |-> w1, r2 |-> w2],
                   misses |-> misses, kernel |-> kernel, remaps |-> remaps, crashes |-> crashes]
  IN  { P(Loops, FALSE, {"a"}, {"a"}, 1, 1, 0, {"p2"}, {}, {}, {}, {}, 0),
        P(Loops, TRUE, {"b"}, {"a"}, 1, 0, 1, {}, {"p2"}, {}, {}, {}, 0),
        P(Calls, TRUE, {"a"}, {"a"}, 1, 1, 0, {"p2"}, {}, {}, {}, {}, 0),
        P(Loops, TRUE, {"a"}, {}, 1, 2, 0, {"p1", "p2"}, {}, {"p2"}, {}, {}, 0),
        P(Loops, FALSE, {"a"}, {}, 1, 0, 2, {}, {}, {}, {"p1"}, {"p1"}, 0),
        P(Calls, FALSE, {"a"}, {}, 2, 1, 1, {}, {}, {"p2"}, {}, {"p1"}, 1) }

\* Programs, scripts and interpreters that are there, missing or damaged; every
\* short environment of the variables the kernel looks at; node's arguments.
ExecPrograms ==
  LET F(exists, exec, kind, ld, suid) ==
          [exists |-> exists, exec |-> exec, kind |-> kind, interp |-> ld, suid |-> suid]
      Fs == [static |-> F(TRUE, TRUE, "elf", NULL, NULL), dynamic |-> F(TRUE, TRUE, "elf", "ld", "root"),
             ld |-> F(TRUE, FALSE, "elf", NULL, NULL), script |-> F(TRUE, TRUE, "script", "dynamic", NULL),
             loop |-> F(TRUE, TRUE, "script", "script", NULL), none |-> F(FALSE, FALSE, "elf", NULL, NULL),
             text |-> F(TRUE, TRUE, "data", NULL, NULL), broken |-> F(TRUE, TRUE, "elf", "text", NULL),
             orphan |-> F(TRUE, TRUE, "elf", "none", NULL), dangling |-> F(TRUE, TRUE, "script", "none", NULL)]
      Shims(there) == [f \in {"wasm", "fetch", "zero_free"} |-> F(there, FALSE, "data", NULL, NULL)]
      Node == [node |-> Fs["static"]]
      Own(name) == [var |-> name, val |-> "own"]
      KV == [var : {"forced", "default", "bytecode", "other"}, val : {"own", "injected"}]
      NodeEnvs == {<<>>, <<Own("no_args")>>, <<Own("preload")>>}
      NodeArgs == {<<"node">> \o s : s \in UNION {[1 .. n -> {"jitless", "wasm", "x"}] : n \in 0 .. 3}}
      E(files, programs, envs, args, n) ==
          [files |-> files, programs |-> programs, envs |-> envs, args |-> args, calls |-> n]
  IN  { E(Fs @@ Shims(FALSE), DOMAIN Fs, {<<>>}, {<<>>}, 2),
        E(Fs @@ Shims(FALSE), {"static"}, UNION {[1 .. n -> KV] : n \in 0 .. 3}, {<<>>}, 1),
        E(Node @@ Shims(TRUE), {"node"}, NodeEnvs, NodeArgs, 1),
        E(Node @@ Shims(FALSE), {"node"}, NodeEnvs, NodeArgs, 1) }

\* Every encoding of the shifts, immediates and masks; tables with indices on
\* both sides of their ends; loads and stores of several registers; and SM4 with
\* keys that make the first round look up every byte of its table.
Q == {0, 1}
Every(n) == {b \in 0 .. 127 : b % n = 0}
Mixed == {b \in 0 .. 127 : (b * b + b \div 5) % 7 \in {0, 1, 3}}
Regs == <<Mixed, Every(3) \cup {63, 127}, {b \in 0 .. 127 : (b * b) % 11 < 5}, Every(2)>>
Regs0 == [r \in 0 .. 3 |-> Regs[r + 1]]
AllShifts == [op : Shifts, rd : {0}, rn : {0, 1}, Q : Q, immh : 1 .. 15, immb : 0 .. 7]
Imms == {{}, {0}, {7}, {0, 3, 6}, 0 .. 7, {1, 2, 5}, {4, 5, 6, 7}}
Modimms == [op : {"MODIMM"}, rd : {0}, Q : Q, u : Q, cmode : 0 .. 15, imm : Imms]
Masks == [op : {"LOGIC"}, rd : {0}, sf : Q, n : Q, imms : SUBSET (0 .. 5),
          immr : {{}, {0}, {1}, {0, 1, 2}, {4}, {5}, 0 .. 5}]
Others == [op : {"EOR3"}, rd : {0}, rn : {1}, rm : {2}, ra : {3}]
     \cup [op : {"XAR"}, rd : {0}, rm : {2}, rm5 : 0 .. 31, b22 : Q]
     \cup [op : {"SM3PARTW1"}, rd : {0}, rn : {1}, rm : {2}]
     \cup [op : {"PMULL"}, rd : {0}, rn : {0, 1}, rm : {2}, Q : Q, size : {0, 3}]
Ends == <<0, 15, 16, 17, 31, 32, 33, 47, 48, 62, 63, 64, 65, 127, 128, 255>>
Indices == UNION {{b + 8 * k : b \in BitsOf(Ends[k + 1])} : k \in 0 .. 15}
Tables == [op : {"TBL", "TBX"}, rd : {0, 1}, rn : 0 .. 3, rm : {2}, Q : Q, len : 0 .. 3]
RoundKey(k) == Xor(Xor(Xor(Lane(Mixed, 32, 1), Lane(Mixed, 32, 2)), Lane(Mixed, 32, 3)),
                UNION {{b + 8 * j : b \in BitsOf(4 * k + j)} : j \in 0 .. 3})
Keyed(k) == [Regs0 EXCEPT ![1] = RoundKey(k) \cup {b \in @ : b >= 32}]
VectorLoad(i, r) == [insns |-> i, regs |-> r, mem |-> {}]
Multiples == [op : {"LD", "ST"}, opcode : 0 .. 15, rd : {0, 3}, Q : Q, size : 0 .. 3,
              post : BOOLEAN, rm : {2, 31}]
VectorPrograms ==
    { VectorLoad(AllShifts \cup Modimms \cup Masks \cup Others, Regs0), VectorLoad(Tables, [Regs0 EXCEPT ![2] = Indices]),
      [insns |-> Multiples, regs |-> Regs0, mem |-> {b \in 0 .. 511 : (b * b + b \div 7) % 13 < 6}] }
    \cup {VectorLoad([op : {"SM4E"}, rd : {0}, rn : {1}], Keyed(k)) : k \in 0 .. 63}

\* Lookups in a tree with links to a directory, to its parent, to nothing and to
\* themselves, and in one whose modes and owners change, by owner and by others.
PathPrograms ==
  LET All == {"r", "w", "x"}
      M(u, g, o) == [u |-> u, g |-> g, o |-> o]
      Open == M(All, {"r", "x"}, {"r", "x"})
      Shut == M(All, {}, {})
      Plain == M({"r", "w"}, {"r"}, {"r"})
      Names(abs, names) == [abs |-> abs, names |-> names, slash |-> FALSE]
      Rel(names) == Names(FALSE, names)
      Abs(names) == Names(TRUE, names)
      F(kind, mode, uid, gid, to) ==
          [kind |-> kind, mode |-> mode, uid |-> uid, gid |-> gid, size |-> 0, link |-> to]
      File(mode, uid, gid) == F("file", mode, uid, gid, Rel(<<>>))
      Dir(uid, gid) == F("dir", Open, uid, gid, Rel(<<>>))
      Link(to) == F("link", M(All, All, All), 0, 0, to)
      Linked == <<>> :> Dir(0, 0) @@ <<"d">> :> Dir(0, 0) @@ <<"d", "f">> :> File(Plain, 1, 1)
                @@ <<"d", "u">> :> Link(Rel(<<"..", "d">>)) @@ <<"a">> :> Link(Abs(<<"d", "f">>))
                @@ <<"o">> :> Link(Rel(<<"o">>)) @@ <<"x">> :> Link(Rel(<<"d", "n">>))
      Owned == <<>> :> Dir(0, 0) @@ <<"d">> :> Dir(1, 1) @@ <<"d", "e">> :> Dir(1, 2)
               @@ <<"d", "e", "f">> :> File(Plain, 2, 1) @@ <<"l">> :> Link(Rel(<<"d", "e">>))
      User(e) == [uid |-> 1, gid |-> 1, euid |-> e, egid |-> e]
      K(t, cwd, cred, ops, paths, names, modes, ids) ==
          [tree |-> t, pwd |-> cwd, cred |-> cred, ops |-> ops, paths |-> paths, names |-> names,
           modes |-> modes, ids |-> ids, calls |-> 3]
  IN  { K(Linked, <<>>, User(1), {"chdir", "open", "mkdir", "chroot", "fchdir"},
          {Rel(<<"d">>), Rel(<<"d", "u", "f">>), Rel(<<"x">>), Abs(<<"d">>), Rel(<<"..">>)},
          {"d", "u", "a", "..", "o"}, {Plain}, {}),
        K(Owned, <<"d">>, User(1), {"chmod", "chown", "chdir", "open"},
          {Rel(<<"e">>), Abs(<<"l">>), Rel(<<"e", "f">>), Rel(<<>>)},
          {"e", "f", "l", "..", "."}, {Open, Shut}, {2}),
        K(Owned, <<"d">>, User(2), {"umask", "open", "truncate", "chmod"},
          {Rel(<<"e", "f">>), Abs(<<"l", "f">>), Rel(<<"n">>)},
          {"e", "f", "l", ".."}, {Open, Shut}, {}) }

\* Two instructions in every combination that is fused or just not, with
\* operands on both sides of zero, carry and overflow, and data that is or is
\* not there; and three instructions of a menu with branches back and
\* forth, at the start of a page and across its end, with and without
\* branches that go on inside the block.
TextPrograms ==
  LET Cells == {64, 72, 80, 96, 104}
      Zeros == [p \in Cells |-> 0]
      Ones == 64 :> 82 @@ 72 :> 96 @@ 80 :> 0 @@ 96 :> 39 @@ 104 :> 90
      D(x0, x1, cells, there) ==
          [x |-> 0 :> x0 @@ 1 :> x1 @@ 30 :> 0 @@ 31 :> 96, mem |-> cells, backed |-> there,
           f |-> [n |-> FALSE, z |-> TRUE, c |-> FALSE, v |-> FALSE]]
      L(first, second, third, rest, data, start, continue) ==
          [first |-> first, second |-> second, third |-> third, rest |-> rest, data |-> data,
           start |-> start, continue |-> continue]
      Two(first, second, data) == L(first, second, {[op |-> "SVC"]}, <<[op |-> "BRK"]>>, data, {0}, {FALSE})
      Straight(i, j, k, rest) == L({i}, {j}, {k}, rest, {D(0, 64, Ones, {}), D(0, 64, Ones, {72})}, {0, 20}, {FALSE})
      Imm(S, sh, rd, rn, imm) ==
          [op : {"ADDSUB_IMM"}, sf : BOOLEAN, sub : BOOLEAN, S : S, sh : sh, rd : rd, rn : rn, imm : {imm}]
      Reg(S) ==
          [op : {"ADDSUB_REG"}, sf : BOOLEAN, sub : BOOLEAN, S : {S}, rd : {0, 31}, rn : {0, 31}, rm : {1, 31}]
      Cbz == [op : {"CBZ"}, sf : BOOLEAN, nz : BOOLEAN, rt : {0, 31}, imm : {8}]
      Tbz == [op : {"TBZ"}, nz : BOOLEAN, bit : {6}, rt : {0}, imm : {8}]
      Bcond == [op : {"BCOND"}, cond : 0 .. 15, imm : {8}]
      Ldst(rn, rt, imm) ==
          LET A(loads, size, sx, x64) ==
                  [op : {"LDST"}, load : loads, size : size, sx : {sx}, x64 : x64, rn : rn, rt : rt, imm : {imm}]
          IN  A(BOOLEAN, 0 .. 3, FALSE, {FALSE}) \cup A({TRUE}, {0, 1}, TRUE, BOOLEAN) \cup A({TRUE}, {2}, TRUE, {TRUE})
      Adr == [op : {"ADR"}, page : BOOLEAN, rd : {0, 31}, imm : {2, 3}]
      Inc == CHOOSE i \in Imm({TRUE}, {FALSE}, {1}, {1}, 8) : i.sf /\ ~i.sub
      Load == CHOOSE i \in Ldst({1}, {0}, 0) : i.load /\ i.size = 3
      B(imm) == [op |-> "B", imm |-> imm]
      Menu == { B(8), [op |-> "BL", imm |-> 8], [op |-> "RET", rn |-> 30], [op |-> "BLR", rn |-> 30], Inc, Load,
                [op |-> "BCOND", cond |-> 0, imm |-> -4], [op |-> "MSR", rt |-> 1],
                [op |-> "CBZ", sf |-> TRUE, nz |-> FALSE, rt |-> 0, imm |-> 8],
                [op |-> "TBZ", nz |-> TRUE, bit |-> 3, rt |-> 1, imm |-> -4] }
      Final == {Inc, Load, [op |-> "RET", rn |-> 30]} \cup {i \in Menu : i.op \in {"BCOND", "TBZ"}}
      Svc == [op |-> "SVC"]
  IN  { Two(Imm({TRUE}, BOOLEAN, {0, 31}, {0, 31}, 1) \cup Reg(TRUE), Bcond, {D(x, 65, Zeros, {}) : x \in {0, 1, 64}}),
        Two(Imm({FALSE}, {FALSE}, {0, 31}, {0, 31}, 8) \cup Imm({FALSE}, {TRUE}, {0}, {0}, 8),
            Cbz \cup Ldst({0}, {0, 1, 31}, 0),
            {D(8, 127, Ones, Cells), D(72, 127, Ones, {}), D(72, 127, Ones, Cells)}),
        Two(Reg(FALSE), Tbz, {D(8, 127, Ones, Cells)}),
        Two(Ldst({1, 31}, {0, 31}, 0), Cbz \cup Tbz, {D(64, 72, Zeros, Cells), D(64, 72, Ones, {}), D(64, 72, Ones, Cells)}),
        Two(Adr, Ldst({0}, {0, 1, 31}, 1) \cup Imm(BOOLEAN, BOOLEAN, {0, 1}, {0}, 8), {D(8, 72, Ones, {}), D(8, 72, Ones, Cells)}),
        L(Menu, Menu, Final, <<Svc, [op |-> "BRK"]>>, {D(0, 64, Ones, {72})}, {0, 24}, BOOLEAN),
        Straight(B(4), B(4), B(4), <<B(4), Svc>>), Straight(Inc, Inc, Inc, [k \in 1 .. 8 |-> Inc]), Straight(Inc, Inc, B(-4), <<>>),
        Straight([op |-> "MRS", rt |-> 0], [op |-> "HINT"], [op |-> "BARRIER"], <<>>),
        Straight(Inc, [op |-> "DC_ZVA", rt |-> 1], Svc, <<>>), Straight(Inc, [op |-> "PRFM"], [op |-> "UNDEFINED"], <<>>),
        Straight([op |-> "ADR", page |-> FALSE, rd |-> 0, imm |-> 8], [op |-> "BR", rn |-> 0], Svc, <<>>) }
TextBits == 0 :> 2 @@ 1 :> 3 @@ 2 :> 5 @@ 3 :> 7
------------------------------------------------------------------------------
VARIABLES part,   \* the component that runs; never changes
          pload, tree, root, pwd, umask, opened, pcalls,   \* PathWalk
          program, code, blocks, listed, gen, alock, jetsam, changes, run, missed,   \* Jit
          xload, ex, held, task, env, fails,   \* Exec
          text, gs, st, at, cpu, arch, backed, left, strayed   \* Translate

P == INSTANCE PathWalk WITH PathLoads <- PathPrograms
J == INSTANCE Jit WITH Runners <- {"r1", "r2"}, CodePages <- {"p1", "p2"},
        Addrs <- {"a", "b", "c"}, MaxBlocks <- 5, CodeLoads <- CodePrograms
X == INSTANCE Exec WITH MaxFails <- 2, EnvRoom <- 5, ExecLoads <- ExecPrograms
T == INSTANCE Translate WITH PAGE_SIZE <- 32, BITS <- TextBits, TextLoads <- TextPrograms,
        MaxBlocksRun <- 3

paths_vars == <<pload, tree, root, pwd, umask, opened, pcalls>>
jit_vars == <<program, code, blocks, listed, gen, alock, jetsam, changes, run, missed>>
exec_vars == <<xload, ex, held, task, env, fails>>
text_vars == <<text, gs, st, at, cpu, arch, backed, left, strayed>>

MachineInit ==
    /\ part \in Parts
    /\ IF part = "memory" THEN Init
       ELSE load = NULL /\ mem = NULL /\ dat = NULL /\ anon = NULL /\ thr = NULL /\ view = NULL /\ raced = NULL /\ calls = NULL
    /\ IF part = "vectors" THEN VectorInit
       ELSE vregs = NULL /\ insn = NULL /\ v = NULL /\ vmem = NULL /\ vpc = NULL
    /\ IF part = "paths" THEN P!Init
       ELSE pload = NULL /\ tree = NULL /\ root = NULL /\ pwd = NULL /\ umask = NULL /\
            opened = NULL /\ pcalls = NULL
    /\ IF part = "jit" THEN J!Init
       ELSE program = NULL /\ code = NULL /\ blocks = NULL /\ listed = NULL /\ gen = NULL /\
            alock = NULL /\ jetsam = NULL /\ changes = NULL /\ run = NULL /\ missed = NULL
    /\ IF part = "exec" THEN X!Init
       ELSE xload = NULL /\ ex = NULL /\ held = NULL /\ task = NULL /\ env = NULL /\
            fails = NULL
    /\ IF part = "text" THEN T!TranslateInit
       ELSE text = NULL /\ gs = NULL /\ st = NULL /\ at = NULL /\ cpu = NULL /\ arch = NULL /\
            backed = NULL /\ left = NULL /\ strayed = NULL
MachineNext ==
    \/ part = "memory" /\ Next /\ UNCHANGED <<part, vector_vars, paths_vars, jit_vars, exec_vars, text_vars>>
    \/ part = "vectors" /\ VectorNext /\ UNCHANGED <<part, vars, paths_vars, jit_vars, exec_vars, text_vars>>
    \/ part = "paths" /\ P!Next /\ UNCHANGED <<part, vars, vector_vars, jit_vars, exec_vars, text_vars>>
    \/ part = "jit" /\ J!Next /\ UNCHANGED <<part, vars, vector_vars, paths_vars, exec_vars, text_vars>>
    \/ part = "exec" /\ X!Next /\ UNCHANGED <<part, vars, vector_vars, paths_vars, jit_vars, text_vars>>
    \/ part = "text" /\ T!TranslateNext /\ UNCHANGED <<part, vars, vector_vars, paths_vars, jit_vars, exec_vars>>
MachineSpec ==
    MachineInit /\
    [][MachineNext]_<<part, vars, vector_vars, paths_vars, jit_vars, exec_vars, text_vars>>
------------------------------------------------------------------------------
\* Address spaces (kernel/memory.c, kernel/mmap.c, emu/tlb.c): data is freed with
\* its last page table entry; an address space holds what its own threads put
\* there, however forks, faults and changes of the mapping interleave; a pointer
\* used under the lock is the page's current one.
AddressSpaces == part = "memory" => PagesSound
\* The count of anonymous pages (kernel/mmap.c) changes by as many as a step maps
\* and unmaps.
AnonCounted == [][part = "memory" => AnonStep]_vars
\* Translated code (asbestos/asbestos.c): a thread in the code cache meets no
\* freed block, jumps are chained to the live block for their target, and code
\* that can be found was made from what its pages hold, but for missed writes.
CodeSound == part = "jit" => J!CodeSound
\* execve (kernel/exec.c): wherever it fails, it cleans up and has changed
\* nothing or everything, and it injects arguments and environment once.
ExecSound == part = "exec" => X!ExecSound
\* Instructions (asbestos/guest-arm64): what a block of translated code leaves,
\* at its end, at a branch out of it and at a fault inside it, is what the
\* instructions say one by one; and in every encoding a vector instruction
\* leaves what the architecture says, but for the known differences.
InstructionResults ==
    /\ part = "text" => T!BlocksSound
    /\ part = "vectors" => VectorsSound
\* Path names (fs/path.c): a lookup finds what Linux finds, up to the known
\* differences, and links and directories lead where they should.
PathsFound == part = "paths" => P!PathSound
==============================================================================
