------------------------------- MODULE Vectors -------------------------------
(***************************************************************************)
(* Vector instructions that the emulator computes in C: their decoding     *)
(* (asbestos/guest-arm64/gen.c) and the helpers that the gadgets call      *)
(* (crypto_helpers.c), at the real widths.  A word is the set of the       *)
(* positions of its one bits, a register a word of 128 bits.  The helpers  *)
(* for which the gadgets use the host's own instruction are left out.      *)
(***************************************************************************)
EXTENDS Integers, Sequences, SequencesExt, FiniteSets, FiniteSetsExt

CONSTANTS NREGS,        \* registers V0 .. V(NREGS - 1), where the numbers wrap
          VectorLoads   \* instructions and contents of the registers

VARIABLES vregs,   \* history: the registers before the instruction
          insn,    \* the instruction
          v,       \* cpu->fp
          vmem,    \* the 64 bytes of memory at the address, and what is added to its register
          vpc      \* "fetched", "done" or "undefined"

vector_vars == <<vregs, insn, v, vmem, vpc>>

Bits(w) == 0 .. w - 1
Xor(x, y) == (x \ y) \cup (y \ x)
Shl(x, n, w) == {b + n : b \in x} \cap Bits(w)
Shr(x, n) == {b - n : b \in {c \in x : c >= n}}
Rol(x, n, w) == {(b + n) % w : b \in x}
Sign(x, n, w) == IF w - 1 \in x THEN {b \in Bits(w) : b >= w - n} ELSE {}
\* Position i has a carry when some lower one generates it and all between
\* them pass it on.
Plus(x, y, w) ==
    LET carry == {i \in Bits(w) : \E j \in x \cap y : j < i /\ (j + 1 .. i - 1) \subseteq (x \cup y)}
    IN  Xor(Xor(x, y), carry)
Value(x) == MapThenSumSet(LAMBDA b : 2^b, x)
BitsOf(n) == {b \in Bits(8) : (n \div 2^b) % 2 = 1}

Lane(r, w, i) == {b - w * i : b \in {c \in r : c \div w = i}}
Vec(lane(_), w, count) == UNION {{b + w * i : b \in lane(i)} : i \in 0 .. count - 1}
Width(esize) == 8 * 2^esize
Size(Q) == IF Q = 1 THEN 128 ELSE 64
Upper(r, Q) == {b \in r : b >= Size(Q)}
------------------------------------------------------------------------------
\* gen.c: what immh:immb say of a shift.
esize_of(i) == CHOOSE e \in 0 .. 3 : 2^e <= i.immh /\ i.immh < 2^(e + 1)
shift_right(i) == 2 * Width(esize_of(i)) - (8 * i.immh + i.immb)
shift_left(i) == 8 * i.immh + i.immb - Width(esize_of(i))

\* C's shifts by n of a lane that n may fill: the narrow ones are promoted to
\* int; for the wide ones the build may mask n or shift everything out.
CShr(x, n, w, masked) == IF n = w /\ w >= 32 /\ masked THEN x ELSE Shr(x, n)
CSar(x, n, w, masked) == IF n = w /\ w >= 32 /\ masked THEN x ELSE Shr(x, n) \cup Sign(x, n, w)

\* Every lane of the source, with that of the destination, goes through F.
Lanes(F(_, _), d, n, esize, Q) ==
    LET w == Width(esize) IN
    Vec(LAMBDA k : F(Lane(d, w, k), Lane(n, w, k)), w, Size(Q) \div w)

shl_imm_helper(d, n, shift, e, Q) == Lanes(LAMBDA x, y : Shl(y, shift, Width(e)), d, n, e, Q)
ushr_imm_helper(d, n, shift, e, Q, masked) ==
    Lanes(LAMBDA x, y : CShr(y, shift, Width(e), masked), d, n, e, Q)
sshr_imm_helper(d, n, shift, e, Q, masked) ==
    Lanes(LAMBDA x, y : CSar(y, shift, Width(e), masked), d, n, e, Q)
\* The four that combine with the destination leave its upper half.
usra_imm_helper(d, n, shift, e, Q, masked) == Upper(d, Q) \cup
    Lanes(LAMBDA x, y : Plus(x, CShr(y, shift, Width(e), masked), Width(e)), d, n, e, Q)
ssra_imm_helper(d, n, shift, e, Q, masked) == Upper(d, Q) \cup
    Lanes(LAMBDA x, y : Plus(x, CSar(y, shift, Width(e), masked), Width(e)), d, n, e, Q)
sri_imm_helper(d, n, shift, e, Q, masked) == Upper(d, Q) \cup
    LET mask == Bits(Width(e) - shift) IN
    Lanes(LAMBDA x, y : (x \ mask) \cup (CShr(y, shift, Width(e), masked) \cap mask), d, n, e, Q)
sli_imm_helper(d, n, shift, e, Q) == Upper(d, Q) \cup
    LET mask == Bits(Width(e)) \ Bits(shift) IN
    Lanes(LAMBDA x, y : (x \ mask) \cup (Shl(y, shift, Width(e)) \cap mask), d, n, e, Q)

\* The decoding of each, and the call of its helper.
gen_shl(i) == shl_imm_helper(v[i.rd], v[i.rn], shift_left(i), esize_of(i), i.Q)
gen_sli(i) == sli_imm_helper(v[i.rd], v[i.rn], shift_left(i), esize_of(i), i.Q)
gen_ushr(i, masked) == ushr_imm_helper(v[i.rd], v[i.rn], shift_right(i), esize_of(i), i.Q, masked)
gen_sshr(i, masked) == sshr_imm_helper(v[i.rd], v[i.rn], shift_right(i), esize_of(i), i.Q, masked)
gen_usra(i, masked) == usra_imm_helper(v[i.rd], v[i.rn], shift_right(i), esize_of(i), i.Q, masked)
gen_ssra(i, masked) == ssra_imm_helper(v[i.rd], v[i.rn], shift_right(i), esize_of(i), i.Q, masked)
gen_sri(i, masked) == sri_imm_helper(v[i.rd], v[i.rn], shift_right(i), esize_of(i), i.Q, masked)
------------------------------------------------------------------------------
\* The modified immediates: a pattern of 64 bits, or "undefined".
simd_modimm_pattern(cmode, imm) ==
    LET Rep(elem, w) == Vec(LAMBDA k : elem, w, 64 \div w) IN
    IF cmode \in {0, 2, 4, 6} THEN Rep(Shl(imm, 4 * cmode, 32), 32)
    ELSE IF cmode \in {8, 10} THEN Rep(Shl(imm, 4 * (cmode - 8), 16), 16)
    ELSE Rep(imm, 8)
fmov_single(imm) ==
    LET b == 6 \in imm
        exp == (IF b THEN 2 .. 6 ELSE {7}) \cup (Shr(imm, 4) \cap Bits(2))
        fp32 == (IF 7 \in imm THEN {31} ELSE {}) \cup Shl(exp, 23, 32) \cup Shl(imm \cap Bits(4), 19, 32)
    IN  fp32 \cup Shl(fp32, 32, 64)
fmov_double(imm) ==
    LET b == 6 \in imm
        exp == (IF b THEN 2 .. 9 ELSE {10}) \cup (Shr(imm, 4) \cap Bits(2))
    IN  (IF 7 \in imm THEN {63} ELSE {}) \cup Shl(exp, 52, 64) \cup Shl(imm \cap Bits(4), 48, 64)
gen_modimm(i) ==
    LET Both(lo) == IF i.Q = 1 THEN lo \cup Shl(lo, 64, 128) ELSE lo
        odd == i.cmode % 2 = 1 /\ i.cmode # 13
        pattern == IF i.cmode = 12 THEN Vec(LAMBDA k : Shl(i.imm, 8, 32) \cup Bits(8), 32, 2)
                   ELSE IF i.cmode = 13 THEN Vec(LAMBDA k : Shl(i.imm, 16, 32) \cup Bits(16), 32, 2)
                   ELSE simd_modimm_pattern(IF odd THEN i.cmode - 1 ELSE i.cmode, i.imm)
    IN  CASE i.cmode = 14 /\ i.u = 1 -> Both(UNION {8 * k .. 8 * k + 7 : k \in i.imm})
          [] i.cmode = 15 /\ i.u = 0 -> Both(fmov_single(i.imm))
          [] i.cmode = 15 /\ i.u = 1 -> Both(fmov_double(i.imm))
          [] ~odd -> Both(IF i.u = 1 THEN Bits(64) \ pattern ELSE pattern)
          [] odd /\ i.cmode # 15 /\ i.u = 0 -> (v[i.rd] \cap Bits(Size(i.Q))) \cup Both(pattern)
          [] odd /\ i.cmode # 15 /\ i.u = 1 -> (v[i.rd] \cap Bits(Size(i.Q))) \ Both(pattern)
modimm_undefined(i) == i.op = "MODIMM" /\ i.cmode = 15 /\ i.u = 1 /\ i.Q = 0

\* The immediate of the logical instructions: the highest bit of n:~imms gives
\* the size of the element; "undefined" as the set {-1}.
bitmask_len(i) == LET c == ((Bits(6) \ i.imms) \cup (IF i.n = 1 THEN {6} ELSE {}))
                  IN  IF c = {} THEN 0 ELSE Max(c)
bitmask_undefined(i) ==
    LET len == bitmask_len(i) IN len < 1 \/ Bits(len) \subseteq i.imms
decode_bitmask_imm(i) ==
    LET size == 2^bitmask_len(i)
        s == Value(i.imms \cap Bits(bitmask_len(i)))
        r == Value(i.immr \cap Bits(bitmask_len(i)))
        base == Bits(s + 1)
        pattern == IF r > 0 THEN (Shr(base, r) \cup Shl(base, size - r, size)) ELSE base
        result == Vec(LAMBDA k : pattern, size, 64 \div size)
    IN  IF i.sf = 1 THEN result ELSE result \cap Bits(32)
------------------------------------------------------------------------------
eor3_helper(n, m, a) == Xor(Xor(n, m), a)
\* XAR's rotation, from the five bits of rm and bit 22.
xar_imm(i) == (IF i.rm5 = 0 THEN 32 ELSE 32 - i.rm5) + (IF i.b22 = 1 THEN 0 ELSE 32)
sve_xar_d_helper(n, m, imm) ==
    Vec(LAMBDA k : Rol(Xor(Lane(n, 64, k), Lane(m, 64, k)), 64 - (imm % 64), 64), 64, 2)

sm3partw1_helper(d, n, m) ==
    LET t(k) == Xor(Lane(d, 32, k), Lane(n, 32, k))
        r[k \in 0 .. 3] == Xor(t(k), Rol(IF k < 3 THEN Lane(m, 32, k + 1) ELSE r[0], 15, 32))
    IN  Vec(LAMBDA k : Xor(Xor(r[k], Rol(r[k], 15, 32)), Rol(r[k], 23, 32)), 32, 4)
sm4_sbox ==
   << 214, 144, 233, 254, 204, 225, 61, 183, 22, 182, 20, 194, 40, 251, 44, 5, 43, 103, 154, 118,
      42, 190, 4, 195, 170, 68, 19, 38, 73, 134, 6, 153, 156, 66, 80, 244, 145, 239, 152, 122,
      51, 84, 11, 67, 237, 207, 172, 98, 228, 179, 28, 169, 201, 8, 232, 149, 128, 223, 148, 250,
      117, 143, 63, 166, 71, 7, 167, 252, 243, 115, 23, 186, 131, 89, 60, 25, 230, 133, 79, 168,
      104, 107, 129, 178, 113, 100, 218, 139, 248, 235, 15, 75, 112, 86, 157, 53, 30, 36, 14, 94,
      99, 88, 209, 162, 37, 34, 124, 59, 1, 33, 120, 135, 212, 0, 70, 87, 159, 211, 39, 82,
      76, 54, 2, 231, 160, 196, 200, 158, 234, 191, 138, 210, 64, 199, 56, 181, 163, 247, 242, 206,
      249, 97, 21, 161, 224, 174, 93, 164, 155, 52, 26, 85, 173, 147, 50, 48, 245, 140, 177, 227,
      29, 246, 226, 46, 130, 102, 202, 96, 192, 41, 35, 171, 13, 83, 78, 111, 213, 219, 55, 69,
      222, 253, 142, 47, 3, 255, 106, 114, 109, 108, 91, 81, 141, 27, 175, 146, 187, 221, 188, 127,
      17, 217, 92, 65, 31, 16, 90, 216, 10, 193, 49, 136, 165, 205, 123, 189, 45, 116, 208, 18,
      184, 229, 180, 176, 137, 105, 151, 74, 12, 150, 119, 126, 101, 185, 241, 9, 197, 110, 198, 132,
      24, 240, 125, 236, 58, 220, 77, 32, 121, 238, 95, 62, 215, 203, 57, 72 >>
sm4_sbox_sub(x) == Vec(LAMBDA k : BitsOf(sm4_sbox[Value(Lane(x, 8, k)) + 1]), 8, 4)
sm4_linear(x) == Xor(Xor(x, Rol(x, 2, 32)), Xor(Rol(x, 10, 32), Xor(Rol(x, 18, 32), Rol(x, 24, 32))))
sm4e_helper(d, n) ==
    LET Round(r, k) == <<r[2], r[3], r[4],
            Xor(r[1], sm4_linear(sm4_sbox_sub(Xor(Xor(r[2], r[3]), Xor(r[4], Lane(n, 32, k))))))>>
        r == Round(Round(Round(Round([k \in 1 .. 4 |-> Lane(d, 32, k - 1)], 0), 1), 2), 3)
    IN  Vec(LAMBDA k : r[k + 1], 32, 4)

pmull64_full(a, b) == FoldSet(LAMBDA j, acc : Xor(acc, Shl(a, j, 128)), {}, b)
\* The products of bytes are stored one by one, and a source that is also the
\* destination is read from what has been stored by then.
pmull_bytes(i) ==
    LET Store(out, k) ==
          LET Src(r) == Lane(IF r = i.rd THEN out ELSE v[r], 8, k + 8 * i.Q)
              p == FoldSet(LAMBDA j, acc : Xor(acc, Shl(Src(i.rn), j, 16)), {}, Src(i.rm))
          IN  {b \in out : b \div 16 # k} \cup {b + 16 * k : b \in p}
    IN  FoldLeft(Store, v[i.rd], <<0, 1, 2, 3, 4, 5, 6, 7>>)
\* The sizes that are neither bytes nor doublewords are accepted and do nothing.
pmull_helper(i) ==
    IF i.size = 0 THEN pmull_bytes(i)
    ELSE IF i.size = 3 THEN pmull64_full(Lane(v[i.rn], 64, i.Q), Lane(v[i.rm], 64, i.Q))
    ELSE v[i.rd]

\* Mutant: the registers do not wrap around.
table_reg_last(i, index) == IF i.rn + (index \div 16) >= NREGS THEN NREGS - 1 ELSE i.rn + (index \div 16)
table_reg(i, index) ==
    LET r == i.rn + (index \div 16) IN IF r >= NREGS THEN r - NREGS ELSE r
\* An index outside the table leaves the lane of rest.
table_lookup(i, rest) ==
    Vec(LAMBDA k : LET index == Value(Lane(v[i.rm], 8, k)) IN
                   IF index < (i.len + 1) * 16 THEN Lane(v[table_reg(i, index)], 8, index % 16)
                   ELSE Lane(rest, 8, k),
        8, Size(i.Q) \div 8)
tbl_helper(i) == table_lookup(i, {})
tbx_helper(i) == table_lookup(i, v[i.rd])
gen_tbl(i) == IF i.op = "TBX" THEN tbx_helper(i) ELSE tbl_helper(i)
------------------------------------------------------------------------------
\* LD1 to LD4 and ST1 to ST4 of whole registers (gen_ldst).
num_regs(i) == CASE i.opcode = 7 -> 1 [] i.opcode = 10 -> 2 [] i.opcode = 6 -> 3 [] i.opcode = 2 -> 4 [] OTHER -> 0
interleave_regs(i) == CASE i.opcode = 8 -> 2 [] i.opcode = 4 -> 3 [] i.opcode = 0 -> 4 [] OTHER -> 0
effective_regs(i) == num_regs(i) + interleave_regs(i)
Target(i, r) == (i.rd + r) % NREGS
Elements(i) == Size(i.Q) \div Width(i.size)
\* Where element e of the r-th register is in memory.
ElementAt(i, r, e) == e * interleave_regs(i) + r
c_simd_load_interleaved(i) ==
    [x \in DOMAIN v |->
       IF \E r \in 0 .. interleave_regs(i) - 1 : x = Target(i, r)
       THEN LET r == CHOOSE r \in 0 .. interleave_regs(i) - 1 : x = Target(i, r)
            IN  Vec(LAMBDA e : Lane(vmem.bits, Width(i.size), ElementAt(i, r, e)), Width(i.size), Elements(i))
       ELSE v[x]]
c_simd_store_interleaved(i) ==
    LET w == Width(i.size)
        total == Size(i.Q) * interleave_regs(i)
    IN  {b \in vmem.bits : b >= total} \cup
        UNION {{b + w * ElementAt(i, r, e) : b \in Lane(v[Target(i, r)], w, e)} :
               r \in 0 .. interleave_regs(i) - 1, e \in 0 .. Elements(i) - 1}
\* LD1 and ST1 move one register after the other.
load_each(i) ==
    [x \in DOMAIN v |->
       IF \E r \in 0 .. num_regs(i) - 1 : x = Target(i, r)
       THEN LET r == CHOOSE r \in 0 .. num_regs(i) - 1 : x = Target(i, r) IN Lane(vmem.bits, Size(i.Q), r)
       ELSE v[x]]
store_each(i) ==
    {b \in vmem.bits : b >= Size(i.Q) * num_regs(i)} \cup
    UNION {{b + Size(i.Q) * r : b \in Lane(v[Target(i, r)], Size(i.Q), 0)} : r \in 0 .. num_regs(i) - 1}
update_base(i) == IF ~i.post THEN 0 ELSE IF i.rm = 31 THEN (Size(i.Q) \div 8) * effective_regs(i) ELSE i.rm
Multiple(i) == i.op \in {"LD", "ST"}
------------------------------------------------------------------------------
Shifts == {"SHL", "SLI", "USHR", "SSHR", "USRA", "SSRA", "SRI"}
\* The logical instruction is ORR of the zero register.
Result(i, masked) ==
    CASE i.op = "SHL" -> gen_shl(i)
      [] i.op = "SLI" -> gen_sli(i)
      [] i.op = "USHR" -> gen_ushr(i, masked)
      [] i.op = "SSHR" -> gen_sshr(i, masked)
      [] i.op = "USRA" -> gen_usra(i, masked)
      [] i.op = "SSRA" -> gen_ssra(i, masked)
      [] i.op = "SRI" -> gen_sri(i, masked)
      [] i.op = "MODIMM" -> gen_modimm(i)
      [] i.op = "LOGIC" -> decode_bitmask_imm(i)
      [] i.op = "EOR3" -> eor3_helper(v[i.rn], v[i.rm], v[i.ra])
      [] i.op = "XAR" -> sve_xar_d_helper(v[i.rd], v[i.rm], xar_imm(i))
      [] i.op = "SM3PARTW1" -> sm3partw1_helper(v[i.rd], v[i.rn], v[i.rm])
      [] i.op = "SM4E" -> sm4e_helper(v[i.rd], v[i.rn])
      [] i.op = "PMULL" -> pmull_helper(i)
      [] i.op \in {"TBL", "TBX"} -> gen_tbl(i)
Undefined(i) ==
    \/ i.op = "MODIMM" /\ modimm_undefined(i)
    \/ i.op = "LOGIC" /\ bitmask_undefined(i)
    \/ Multiple(i) /\ effective_regs(i) = 0

VectorInit ==
    /\ \E load \in VectorLoads : insn \in load.insns /\ vregs = load.regs /\ vmem = [bits |-> load.mem, base |-> 0]
    /\ v = vregs /\ vpc = "fetched"
gen_step ==
    /\ vpc = "fetched" /\ Undefined(insn)
    /\ vpc' = "undefined" /\ UNCHANGED <<vregs, insn, v, vmem>>
gadget ==
    /\ vpc = "fetched" /\ ~Undefined(insn) /\ ~Multiple(insn)
    /\ \E masked \in BOOLEAN : v' = [v EXCEPT ![insn.rd] = Result(insn, masked)]
    /\ vpc' = "done" /\ UNCHANGED <<vregs, insn, vmem>>
ldst_multiple ==
    /\ vpc = "fetched" /\ ~Undefined(insn) /\ Multiple(insn)
    /\ v' = IF insn.op = "ST" THEN v
            ELSE IF num_regs(insn) > 0 THEN load_each(insn) ELSE c_simd_load_interleaved(insn)
    /\ vmem' = [bits |-> IF insn.op = "LD" THEN vmem.bits
                         ELSE IF num_regs(insn) > 0 THEN store_each(insn) ELSE c_simd_store_interleaved(insn),
                base |-> update_base(insn)]
    /\ vpc' = "done" /\ UNCHANGED <<vregs, insn>>
VectorNext == gen_step \/ gadget \/ ldst_multiple
VectorSpec == VectorInit /\ [][VectorNext]_vector_vars
------------------------------------------------------------------------------
\* What the architecture says, bit by bit, of the registers before the step.
\* A lane of w bits: which bits the result y of a shift has, given x and d.
Shifted(op, d, x, n, w) ==
    CASE op = "SHL" -> {j \in Bits(w) : j - n \in x}
      [] op = "SLI" -> {j \in Bits(w) : IF j < n THEN j \in d ELSE j - n \in x}
      [] op = "USHR" -> {j \in Bits(w) : j + n \in x}
      [] op = "SSHR" -> {j \in Bits(w) : Min({j + n, w - 1}) \in x}
      [] op = "USRA" -> Plus(d, {j \in Bits(w) : j + n \in x}, w)
      [] op = "SSRA" -> Plus(d, {j \in Bits(w) : Min({j + n, w - 1}) \in x}, w)
      [] op = "SRI" -> {j \in Bits(w) : IF j >= w - n THEN j \in d ELSE j + n \in x}
Amount(i, w) == IF i.op \in {"SHL", "SLI"} THEN 8 * i.immh + i.immb - w ELSE 2 * w - 8 * i.immh - i.immb
ShiftRef(i, f) ==
    LET w == CHOOSE x \in {8, 16, 32, 64} : i.immh \in (x \div 8) .. (x \div 4 - 1) IN
    UNION {{b + w * k : b \in Shifted(i.op, Lane(f[i.rd], w, k), Lane(f[i.rn], w, k), Amount(i, w), w)} :
           k \in 0 .. (Size(i.Q) \div w - 1)}

\* The product of polynomials.
Poly(a, b) == {k \in 0 .. 127 : Cardinality({i \in a : k - i \in b}) % 2 = 1}
Sm4Ref(d, n) ==
    LET Word(x) == LET y == sm4_sbox_sub(x) IN
          {j \in Bits(32) : Cardinality({s \in {0, 2, 10, 18, 24} : (j + 32 - s) % 32 \in y}) % 2 = 1}
        x[k \in 0 .. 7] ==
            IF k < 4 THEN Lane(d, 32, k)
            ELSE Xor(x[k - 4], Word(Xor(Xor(x[k - 3], x[k - 2]), Xor(x[k - 1], Lane(n, 32, k - 4)))))
    IN  UNION {{b + 32 * k : b \in x[k + 4]} : k \in 0 .. 3}
\* The words of SM3's schedule that SM3PARTW1 starts: each is P1 of its sum,
\* and the last one is made with the first.
Sm3Ref(d, n, m) ==
    LET P1(x) == {j \in Bits(32) : Cardinality({s \in {0, 15, 23} : (j + 32 - s) % 32 \in x}) % 2 = 1}
        y[k \in 0 .. 3] == P1(Xor(Xor(Lane(d, 32, k), Lane(n, 32, k)),
                                  Rol(IF k < 3 THEN Lane(m, 32, k + 1) ELSE y[0], 15, 32)))
    IN  UNION {{b + 32 * k : b \in y[k]} : k \in 0 .. 3}
TableRef(i, f) ==
    LET table == UNION {{b + 128 * k : b \in f[(i.rn + k) % NREGS]} : k \in 0 .. i.len}
        Index(k) == Value(Lane(f[i.rm], 8, k))
    IN  {b \in Bits(Size(i.Q)) :
           IF Index(b \div 8) \div 16 > i.len THEN i.op = "TBX" /\ b \in f[i.rd]
           ELSE 8 * Index(b \div 8) + (b % 8) \in table}
PmullRef(i, f) ==
    LET w == IF i.size = 0 THEN 8 ELSE 64 IN
    UNION {{b + 2 * w * k : b \in Poly(Lane(f[i.rn], w, k + i.Q * (64 \div w)), Lane(f[i.rm], w, k + i.Q * (64 \div w)))} :
           k \in 0 .. (64 \div w - 1)}
\* The modified immediate's bit j, and the instructions it is used by.
ImmBit(i, j) ==
    LET c == i.cmode \div 2  o == i.cmode % 2  imm == i.imm IN
    CASE c < 4 -> (j % 32) - 8 * c \in imm
      [] c \in {4, 5} -> (j % 16) - 8 * (c - 4) \in imm
      [] c = 6 -> j % 32 < 8 + 8 * o \/ (j % 32) - 8 - 8 * o \in imm
      [] c = 7 /\ o = 0 -> IF i.u = 0 THEN j % 8 \in imm ELSE j \div 8 \in imm
      [] c = 7 /\ o = 1 ->
           LET top == IF i.u = 0 THEN 31 ELSE 63  low == IF i.u = 0 THEN 19 ELSE 48
               p == j % (top + 1)
           IN  \/ p = top /\ 7 \in imm
               \/ p = top - 1 /\ 6 \notin imm
               \/ p < top - 1 /\ p >= low + 6 /\ 6 \in imm
               \/ p < low + 6 /\ p - low \in imm
ModimmRef(i, f) ==
    {b \in Bits(Size(i.Q)) :
       LET imm == ImmBit(i, b % 64) IN
       IF i.cmode \in {1, 3, 5, 7, 9, 11}
       THEN IF i.u = 0 THEN b \in f[i.rd] \/ imm ELSE b \in f[i.rd] /\ ~imm
       ELSE IF i.u = 1 /\ i.cmode < 14 THEN ~imm ELSE imm}
\* The element's size is read off the leading ones of imms.
LogicSize(i) ==
    IF i.n = 1 THEN 64
    ELSE IF 1 .. 5 \subseteq i.imms THEN 0
    ELSE 2^Max({k \in 1 .. 5 : k \notin i.imms})
LogicUndefined(i) ==
    LET size == LogicSize(i) IN
    \/ size = 0 \/ (i.sf = 0 /\ i.n = 1)
    \/ Value(i.imms) % size = size - 1
LogicRef(i) ==
    LET size == LogicSize(i) IN
    {j \in Bits(IF i.sf = 1 THEN 64 ELSE 32) :
       (j + Value(i.immr)) % size <= Value(i.imms) % size}

Ref(i, f) ==
    CASE i.op \in Shifts -> ShiftRef(i, f)
      [] i.op = "MODIMM" -> ModimmRef(i, f)
      [] i.op = "LOGIC" -> LogicRef(i)
      [] i.op = "EOR3" -> {b \in Bits(128) : Cardinality({r \in {i.rn, i.rm, i.ra} : b \in f[r]}) % 2 = 1}
      [] i.op = "XAR" -> {b \in Bits(128) :
           LET c == 64 * (b \div 64) + ((b + 64 - 32 * i.b22 - i.rm5) % 64) IN (c \in f[i.rd]) # (c \in f[i.rm])}
      [] i.op = "SM3PARTW1" -> Sm3Ref(f[i.rd], f[i.rn], f[i.rm])
      [] i.op = "SM4E" -> Sm4Ref(f[i.rd], f[i.rn])
      [] i.op = "PMULL" -> PmullRef(i, f)
      [] i.op \in {"TBL", "TBX"} -> TableRef(i, f)

\* Where the emulator differs from the architecture:
\* a right shift by all of a lane of 32 or 64 bits is undefined in C;
WholeLane(i) == i.op \in {"USHR", "SSHR", "USRA", "SSRA"} /\ i.immh \in {4, 8} /\ i.immb = 0
\* the shifts that combine do not clear the upper half for an 8 byte operation;
UpperKept(i) == i.op \in {"USRA", "SSRA", "SRI", "SLI"} /\ i.Q = 0
\* the products of bytes overwrite a source that is the destination;
Overwritten(i) == i.op = "PMULL" /\ i.size = 0 /\ i.Q = 0 /\ i.rd \in {i.rn, i.rm}
\* the last word of SM3PARTW1 is made with the first one before P1.
Sm3Last(i) == i.op = "SM3PARTW1"

\* Every vector instruction of these groups, in every encoding, leaves in its
\* destination what the architecture says and changes no other register, and
\* the reserved encodings are refused, but for the cases above; there the lower
\* half, or the words but the last, are still right.
ResultExact ==
    LET i == insn  f == vregs IN
    /\ vpc = "done" /\ ~Multiple(i) => \A r \in DOMAIN v : r # i.rd => v[r] = f[r]
    /\ vpc = "done" /\ ~Multiple(i) /\ ~WholeLane(i) /\ ~Overwritten(i) /\ ~(i.op = "LOGIC" /\ i.sf = 0 /\ i.n = 1) =>
         LET right == CASE UpperKept(i) -> Bits(64) [] Sm3Last(i) -> Bits(96) [] OTHER -> Bits(128)
         IN  v[i.rd] \cap right = Ref(i, f) \cap right
    /\ vpc = "undefined" =>
         IF i.op = "LOGIC" THEN LogicUndefined(i)
         ELSE IF Multiple(i) THEN i.opcode \notin {0, 2, 4, 6, 7, 8, 10} ELSE i.cmode = 15 /\ i.u = 1 /\ i.Q = 0
    /\ vpc = "done" /\ i.op = "LOGIC" /\ (i.sf = 1 \/ i.n = 0) => ~LogicUndefined(i)

\* Loads and stores of several registers, in every encoding, also when their
\* numbers wrap: memory bit by bit holds the elements of the structures in turn,
\* or one register after the other; nothing behind it and no other register
\* changes, and the address register moves by what was accessed.
StructuresExact ==
    vpc = "done" /\ Multiple(insn) =>
      LET i == insn
          n == effective_regs(i)
          w == IF i.opcode \in {0, 4, 8} THEN 8 * 2^i.size ELSE Size(i.Q)
          Reg(b) == (i.rd + ((b \div w) % n)) % NREGS
          Place(b) == w * ((b \div w) \div n) + (b % w)
          all == Bits(Size(i.Q) * n)
      IN  /\ \A b \in all : (b \in vmem.bits) = (Place(b) \in v[Reg(b)])
          /\ i.op = "ST" => v = vregs
          /\ i.op = "LD" => \A r \in DOMAIN v : IF \E b \in all : Reg(b) = r THEN v[r] \subseteq Bits(Size(i.Q)) ELSE v[r] = vregs[r]
          /\ i.post /\ i.rm = 31 => 8 * vmem.base = Cardinality(all)

\* SM4's table is made of inversion in a field of 256 elements between affine
\* maps, S(x) = A(1 / (A(x) + c)) + c: the bytes that the first round looks up.
FieldMul(a, b) ==
    FoldLeft(LAMBDA p, k : IF k \in p THEN Xor(p, {k - 8 + j : j \in {0, 2, 4, 5, 6, 7, 8}}) ELSE p,
             Poly(a, b), <<14, 13, 12, 11, 10, 9, 8>>)
Circulant(row, x) == {j \in Bits(8) : Cardinality({k \in row : (k + j) % 8 \in x}) % 2 = 1}
Sm4Table ==
    vpc = "done" /\ insn.op = "SM4E" =>
      \A k \in 0 .. 3 :
        LET c == {0, 1, 4, 6, 7}
            f == vregs
            x == Xor(Xor(Lane(f[insn.rd], 8, 4 + k), Lane(f[insn.rd], 8, 8 + k)),
                     Xor(Lane(f[insn.rd], 8, 12 + k), Lane(f[insn.rn], 8, k)))
            y == BitsOf(sm4_sbox[Value(x) + 1])
            a == Xor(Circulant({0, 1, 2, 5, 7}, x), c)
            b == Circulant({0, 1, 6}, Xor(y, c))
        IN  IF a = {} THEN b = {} ELSE FieldMul(a, b) = {0}

\* Four rounds of SM4E on the words in reverse order with the keys in reverse
\* order undo four rounds, which is how the guest decrypts.
Sm4Inverts ==
    vpc = "done" /\ insn.op = "SM4E" =>
      LET Reversed(r) == UNION {{b + 32 * (3 - k) : b \in Lane(r, 32, k)} : k \in 0 .. 3}
      IN  sm4e_helper(Reversed(v[insn.rd]), Reversed(v[insn.rn])) = Reversed(vregs[insn.rd])

\* The four together, for every instruction of the run.
VectorsSound == ResultExact /\ StructuresExact /\ Sm4Table /\ Sm4Inverts
=============================================================================
