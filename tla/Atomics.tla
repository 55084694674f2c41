-------------------------------- MODULE Atomics --------------------------------
(***************************************************************************)
(* The atomic instructions of the guest (emu/tlb.c, their decoding in      *)
(* gen_ldst, the monitors in the gadgets): LSE read-modify-write and       *)
(* compare-and-swap, of one word with the host's atomics and of a pair     *)
(* under pair_atomic_lock, and exclusive loads and stores, which compare   *)
(* values where the architecture watches the address.  Threads share two   *)
(* neighbouring words; a word has Width bits.                              *)
(***************************************************************************)
EXTENDS Integers, Sequences, SequencesExt, FiniteSets

CONSTANTS Cpus, NULL,
          Width,        \* bits of a word
          AtomicLoads   \* programs of the threads, and the holes they meet

Mod == 2 ^ Width
Words == {0, 1}
Fns == <<"LDADD", "LDCLR", "LDEOR", "LDSET", "LDSMAX", "LDSMIN", "LDUMAX", "LDUMIN", "SWP">>

VARIABLES aload,    \* never changes
          mem,      \* by word: value
          written,  \* history, by word: number of writes
          added,    \* history, by word: sum of what was added
          cpu,      \* by thread: pc, step of the instruction, what it has read, monitors, result
          pair_atomic_lock,  \* holder or NULL
          aholes    \* history: what was not atomic

vars == <<aload, mem, written, added, cpu, pair_atomic_lock, aholes>>

NoMonitor == [addr |-> NULL, val |-> <<0, 0>>, at |-> <<0, 0>>]
Init ==
    /\ aload \in AtomicLoads
    /\ mem = aload.mem /\ written = [w \in Words |-> 0] /\ added = [w \in Words |-> 0]
    /\ cpu = [t \in Cpus |-> [pc |-> 1, step |-> "fetch", seen |-> <<0, 0>>, at |-> <<0, 0>>,
                              excl |-> NoMonitor, pair |-> NoMonitor, ok |-> FALSE]]
    /\ pair_atomic_lock = NULL /\ aholes = {}

Insn(t) == aload.prog[t][cpu[t].pc]
\* Decoding: the bits o2, L, o1 (23 to 21), the size (31, 30) and low2, the two
\* lower bits of Rt2 (11, 10), tell the instructions apart.
gen_exclusive(i) ==
    CASE i.o2 = 0 /\ i.o1 = 1 -> IF i.L = 0 THEN "STXP" ELSE IF i.size \in {2, 3} THEN "LDXP" ELSE "UNDEFINED"
      [] i.o2 = 1 -> IF i.L = 1 THEN "LDAR" ELSE "STLR"
      [] OTHER -> IF i.L = 1 THEN "LDXR" ELSE "STXR"
gen_ldst(i) ==
    IF i.lse THEN IF i.opc <= 8 THEN "RMW" ELSE "UNDEFINED"
    ELSE IF i.o1 = 1 /\ i.low2 = 3 /\ i.o2 = 0 /\ i.size <= 1 THEN "CASP"
    ELSE IF i.o1 = 1 /\ i.low2 = 3 /\ i.o2 = 1 THEN "CAS"
    ELSE gen_exclusive(i)
Running(t, op, step) ==
    cpu[t].pc <= Len(aload.prog[t]) /\ gen_ldst(Insn(t)) = op /\ cpu[t].step = step
\* The instruction is done.  A branch after a store that failed goes back.
Done(t, c) == [c EXCEPT !.step = "fetch",
                        !.pc = IF gen_ldst(Insn(t)) \in {"STXR", "STXP"} /\ ~c.ok /\ Insn(t).retry THEN 1 ELSE @ + 1]
Set(t, c) == cpu' = [cpu EXCEPT ![t] = c]
Next_(t, c) == Set(t, Done(t, c))
\* A write of new to w by something that takes it that w holds old.
Put(w, old, new, plus) ==
    /\ mem' = [mem EXCEPT ![w] = new]
    /\ written' = [written EXCEPT ![w] = @ + 1]
    /\ added' = [added EXCEPT ![w] = (@ + plus) % Mod]
    /\ aholes' = IF old # mem[w] THEN aholes \cup {"lost"} ELSE aholes
Quiet == UNCHANGED <<mem, written, added, aholes>>
Keep == UNCHANGED <<aload, pair_atomic_lock>>
------------------------------------------------------------------------------
Signed(v) == IF v >= Mod \div 2 THEN v - Mod ELSE v
Bit(v, n) == (v \div 2 ^ n) % 2
Bitwise(a, b, F(_, _)) ==
    FoldLeft(LAMBDA sum, n : sum + 2 ^ (n - 1) * F(Bit(a, n - 1), Bit(b, n - 1)), 0, [n \in 1 .. Width |-> n])
Result(fn, old, val) ==
    CASE fn = "LDADD" -> (old + val) % Mod
      [] fn = "LDCLR" -> Bitwise(old, val, LAMBDA a, b : a * (1 - b))
      [] fn = "LDEOR" -> Bitwise(old, val, LAMBDA a, b : (a + b) % 2)
      [] fn = "LDSET" -> Bitwise(old, val, LAMBDA a, b : a + b - a * b)
      [] fn = "LDSMAX" -> IF Signed(old) > Signed(val) THEN old ELSE val
      [] fn = "LDSMIN" -> IF Signed(old) < Signed(val) THEN old ELSE val
      [] fn = "LDUMAX" -> IF old > val THEN old ELSE val
      [] fn = "LDUMIN" -> IF old < val THEN old ELSE val
      [] fn = "SWP" -> val
Looped == {"LDSMAX", "LDSMIN", "LDUMAX", "LDUMIN"}
\* c_atomic_rmw: one operation of the host, or for the four that it lacks a
\* load and then compare-and-exchange until nothing came between (that a weak
\* exchange may fail without reason only repeats the step).
c_atomic_rmw(t) ==
    /\ Running(t, "RMW", "fetch") /\ Fns[Insn(t).opc + 1] \notin Looped
    /\ LET i == Insn(t)
           fn == Fns[i.opc + 1]
       IN
         /\ Put(i.w, mem[i.w], Result(fn, mem[i.w], i.val), IF fn = "LDADD" THEN i.val ELSE 0)
         /\ Next_(t, [cpu[t] EXCEPT !.seen = <<mem[i.w], 0>>])
    /\ Keep
rmw_load(t) ==
    /\ Running(t, "RMW", "fetch") /\ Fns[Insn(t).opc + 1] \in Looped
    /\ Set(t, [cpu[t] EXCEPT !.step = "exchange", !.seen = <<mem[Insn(t).w], 0>>])
    /\ Quiet /\ Keep
Exchanges(t) == mem[Insn(t).w] = cpu[t].seen[1]
rmw_exchange(t) ==
    /\ Running(t, "RMW", "exchange")
    /\ LET i == Insn(t)
           old == cpu[t].seen[1]
       IN  \/ Exchanges(t) /\ Put(i.w, old, Result(Fns[i.opc + 1], old, i.val), 0) /\ Next_(t, cpu[t])
           \/ Set(t, [cpu[t] EXCEPT !.seen = <<mem[i.w], 0>>]) /\ cpu[t].seen[1] # mem[i.w] /\ Quiet
    /\ Keep
c_atomic_cas(t) ==
    /\ Running(t, "CAS", "fetch")
    /\ LET i == Insn(t) IN
         /\ IF mem[i.w] = i.exp THEN Put(i.w, i.exp, i.new, 0) ELSE Quiet
         /\ Next_(t, [cpu[t] EXCEPT !.seen = <<mem[i.w], 0>>, !.ok = (mem[i.w] = i.exp)])
    /\ Keep
\* A plain store, and STLR.
store(t) ==
    /\ Running(t, "STLR", "fetch")
    /\ Put(Insn(t).w, mem[Insn(t).w], Insn(t).val, 0) /\ Next_(t, cpu[t])
    /\ Keep
------------------------------------------------------------------------------
\* LDXR: the value and the address are remembered; a pair no longer is.
ldxr(t) ==
    /\ Running(t, "LDXR", "fetch")
    /\ LET w == Insn(t).w IN
         Next_(t, [cpu[t] EXCEPT !.excl = [addr |-> w, val |-> <<mem[w], 0>>, at |-> <<written[w], 0>>],
                                 !.pair = NoMonitor])
    /\ Quiet /\ Keep
\* Mutant: only the address is compared.
c_stxr_cas_blind(w, exp) == TRUE
\* c_stxr_cas: the word holds what LDXR loaded.
c_stxr_cas(w, exp) == mem[w] = exp
\* STXR stores what LDXR loaded, plus one.  The monitor is cleared either way.
stxr(t) ==
    /\ Running(t, "STXR", "fetch")
    /\ LET w == Insn(t).w
           m == cpu[t].excl
           ok == m.addr = w /\ c_stxr_cas(w, m.val[1])
       IN  /\ IF ok THEN /\ mem' = [mem EXCEPT ![w] = (m.val[1] + 1) % Mod]
                         /\ written' = [written EXCEPT ![w] = @ + 1]
                         /\ added' = [added EXCEPT ![w] = (@ + 1) % Mod]
                         /\ aholes' = aholes \cup (IF m.at[1] # written[w] THEN {"aba"} ELSE {})
              ELSE Quiet
           /\ Next_(t, [cpu[t] EXCEPT !.ok = ok, !.excl = NoMonitor])
    /\ Keep
clrex(t) ==
    /\ cpu[t].pc <= Len(aload.prog[t]) /\ Insn(t).op = "CLREX"
    /\ Next_(t, [cpu[t] EXCEPT !.excl = NoMonitor, !.pair = NoMonitor])
    /\ Quiet /\ Keep
\* LDXP reads one word after the other, without the lock.
ldxp_lo(t) ==
    /\ Running(t, "LDXP", "fetch")
    /\ Set(t, [cpu[t] EXCEPT !.step = "hi", !.seen = <<mem[0], 0>>, !.at = <<written[0], 0>>])
    /\ Quiet /\ Keep
ldxp_hi(t) ==
    /\ Running(t, "LDXP", "hi")
    /\ Next_(t, [cpu[t] EXCEPT !.pair = [addr |-> 0, val |-> <<cpu[t].seen[1], mem[1]>>, at |-> <<cpu[t].at[1], written[1]>>],
                               !.excl = NoMonitor])
    /\ aholes' = IF cpu[t].at[1] # written[0] THEN aholes \cup {"torn"} ELSE aholes
    /\ UNCHANGED <<mem, written, added>> /\ Keep

\* c_stxp_pair and c_casp_pair: compare and store under a lock that only they take.
Op(t) == gen_ldst(Insn(t))
Expected(t) == IF Op(t) = "STXP" THEN cpu[t].pair.val ELSE Insn(t).exp
NewPair(t) == IF Op(t) = "STXP" THEN [k \in 1 .. 2 |-> (cpu[t].pair.val[k] + 1) % Mod] ELSE Insn(t).new
At(t, step) == cpu[t].pc <= Len(aload.prog[t]) /\ Op(t) \in {"STXP", "CASP"} /\ cpu[t].step = step
stxp_fail(t) ==
    /\ At(t, "fetch") /\ Op(t) = "STXP" /\ cpu[t].pair.addr = NULL
    /\ Next_(t, [cpu[t] EXCEPT !.ok = FALSE])
    /\ Quiet /\ Keep
Free(t) == pair_atomic_lock = NULL
pair_lock(t) ==
    /\ At(t, "fetch") /\ (Op(t) = "STXP" => cpu[t].pair.addr = 0)
    /\ Free(t) /\ pair_atomic_lock' = t
    /\ Set(t, [cpu[t] EXCEPT !.step = "lo"])
    /\ Quiet /\ UNCHANGED aload
pair_lo(t) ==
    /\ At(t, "lo") /\ Set(t, [cpu[t] EXCEPT !.step = "hi", !.seen = <<mem[0], 0>>])
    /\ Quiet /\ Keep
\* *old_lo and *old_hi of CASP get what was read.
pair_hi(t) ==
    /\ At(t, "hi")
    /\ LET seen == <<cpu[t].seen[1], mem[1]>>
           same == seen = Expected(t)
       IN  Set(t, [cpu[t] EXCEPT !.seen = seen, !.ok = same, !.step = IF same THEN "set_lo" ELSE "unlock"])
    /\ Quiet /\ Keep
Plus(t) == IF Op(t) = "STXP" THEN 1 ELSE 0
pair_set_lo(t) ==
    /\ At(t, "set_lo") /\ Put(0, cpu[t].seen[1], NewPair(t)[1], Plus(t))
    /\ Set(t, [cpu[t] EXCEPT !.step = "set_hi"])
    /\ Keep
pair_set_hi(t) ==
    /\ At(t, "set_hi") /\ Put(1, cpu[t].seen[2], NewPair(t)[2], Plus(t))
    /\ Set(t, [cpu[t] EXCEPT !.step = "unlock"])
    /\ Keep
pair_unlock(t) ==
    /\ At(t, "unlock") /\ pair_atomic_lock' = NULL
    /\ Next_(t, [cpu[t] EXCEPT !.pair = IF Op(t) = "STXP" THEN NoMonitor ELSE @])
    /\ Quiet /\ UNCHANGED aload

Next == \E t \in Cpus :
    \/ c_atomic_rmw(t) \/ rmw_load(t) \/ rmw_exchange(t) \/ c_atomic_cas(t) \/ store(t)
    \/ ldxr(t) \/ stxr(t) \/ clrex(t) \/ ldxp_lo(t) \/ ldxp_hi(t)
    \/ stxp_fail(t) \/ pair_lock(t) \/ pair_lo(t) \/ pair_hi(t)
    \/ pair_set_lo(t) \/ pair_set_hi(t) \/ pair_unlock(t)
Spec == Init /\ [][Next]_vars
------------------------------------------------------------------------------
\* Threads that add to the words, each with an instruction of its own or with
\* an exclusive load and store in a loop, lose no addition; but a pair is not
\* safe from what is done to one of its words alone.
SumExact ==
    aload.adds /\ "lost" \notin aholes => \A w \in Words : mem[w] = (aload.mem[w] + added[w]) % Mod
\* Minima and maxima from several threads: the word holds one that is as far
\* out as every value given by an instruction that is done.
ExtremeExact ==
    \A t \in Cpus : \A k \in 1 .. cpu[t].pc - 1 :
      LET i == aload.prog[t][k]
      IN  aload.extreme /\ i.op = "RMW" => Result(Fns[i.opc + 1], mem[i.w], i.val) = mem[i.w]
\* A store after CLREX or without a load before it fails.
ExclusiveNeeded ==
    \A t \in Cpus : cpu[t].pc > 1 /\ cpu[t].step = "fetch" =>
      LET k == cpu[t].pc - 1
          i == aload.prog[t][k]
      IN  i.op \in {"STXR", "STXP"} /\ cpu[t].ok =>
            k > 1 /\ aload.prog[t][k - 1].op = (IF i.op = "STXR" THEN "LDXR" ELSE "LDXP")
\* Every instruction is decoded as what it is.
Decoded ==
    \A t \in Cpus : cpu[t].pc <= Len(aload.prog[t]) /\ Insn(t).op # "CLREX" => gen_ldst(Insn(t)) = Insn(t).op
\* The ways in which an instruction is not atomic: a word of a pair is changed
\* between its comparison and its store, a pair is loaded while it is stored,
\* and a word that changed and changed back passes for one that did not.
AtomicsSound == Decoded /\ SumExact /\ ExtremeExact /\ ExclusiveNeeded /\ aholes \subseteq aload.known
=============================================================================
