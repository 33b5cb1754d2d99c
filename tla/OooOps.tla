------------------------------- MODULE OooOps -------------------------------
(***************************************************************************)
(* The vocabulary of the earlier out-of-order core                         *)
(* (RV32IMFC_hls/rv32_ooo.cpp) and of the machine it implements: vectors   *)
(* of words in one configuration (SEW = 32, LMUL = 1), and CSRs that are   *)
(* plain storage.  Scalar instructions are those of SocIsa; a vector       *)
(* instruction has the fields vd (vs3 of a store), vs1 and vs2 as well.    *)
(***************************************************************************)
EXTENDS SocIsa

CONSTANTS
  VRegs,       \* vector registers
  LANES        \* words of a vector register, OOO_VEC_LANES

ASSUME LanesAssumption == LANES \in Nat \ {0} /\ LANES < WORD

Lanes     == 0 .. LANES - 1
VLMAX     == LANES
VecFile   == [VRegs -> [Lanes -> Word]]
VSetOps   == {"vsetvli", "vsetivli", "vsetvl"}
VArithOps == {"vadd", "vsub", "vmul"}
VMemOps   == {"vle32", "vse32"}
NoOps     == {"fence", "mret", "illegal", "vreserved"}
HaltOps   == {"ecall", "ebreak"}
MCsrs     == {"mstatus", "mie", "mtvec", "mscratch", "mepc", "mcause", "mtval", "mip"}

\* A decoded instruction: every field it has is of its kind.
OooInstr(i) ==
  /\ {i.rd, i.rs1, i.rs2, i.rs3} \subseteq Regs /\ i.imm \in Word
  /\ i.op \in VArithOps \cup VMemOps => {i.vd, i.vs1, i.vs2} \subseteq VRegs
  /\ i.op = "vsetivli" => i.vs1 \in Nat

\* vtype: vill is the top bit; the low bits of a request select SEW and LMUL,
\* and the bits above them (vta, vma) are kept but not looked at.
VILL         == WORD \div 2
Supported(v) == v % 4 = 2

\* The configuration a vset* grants, from x[rs1] and x[rs2] and the present vl.
VsetType(i, x2) ==
  LET req == IF i.op = "vsetvl" THEN x2 ELSE i.imm
  IN IF Supported(req) THEN req ELSE VILL

VsetLength(i, vt, x1, old) ==
  LET avl == IF i.op = "vsetivli" THEN i.vs1 ELSE x1 IN
  CASE vt = VILL                                                -> 0
    [] vt # VILL /\ i.op # "vsetivli" /\ i.rs1 = X0 /\ i.rd = X0 -> old
    [] vt # VILL /\ i.op # "vsetivli" /\ i.rs1 = X0 /\ i.rd # X0 -> VLMAX
    [] OTHER                                                    -> IF avl < VLMAX THEN avl ELSE VLMAX

\* Vector instructions touch the first n elements and leave the tail alone.
vec_arith_compute(i, vr, n) ==
  [vr EXCEPT ![i.vd] = [l \in Lanes |->
    IF l >= n THEN vr[i.vd][l]
    ELSE CASE i.op = "vadd" -> Plus(vr[i.vs2][l], vr[i.vs1][l])
           [] i.op = "vsub" -> (vr[i.vs2][l] - vr[i.vs1][l]) % WORD
           [] i.op = "vmul" -> (vr[i.vs2][l] * vr[i.vs1][l]) % WORD]]

VectorLoaded(i, vr, m, base, n) ==
  [vr EXCEPT ![i.vd] = [l \in Lanes |-> IF l < n THEN m[MemIndex(Plus(base, l))] ELSE @[l]]]

VectorStored(i, vr, m, base, n) ==
  [a \in DOMAIN m |->
    IF \E l \in 0 .. n - 1 : MemIndex(Plus(base, l)) = a
    THEN vr[i.vd][CHOOSE l \in 0 .. n - 1 :
                    /\ MemIndex(Plus(base, l)) = a
                    /\ \A k \in l + 1 .. n - 1 : MemIndex(Plus(base, k)) # a]
    ELSE m[a]]

\* The CSRs are plain storage; vl and vtype are read-only, misa and vlenb
\* constants, of which a word keeps the low bits, and the others read zero.
MISA == 1073746180    \* 0x40001104, RV32 IMFC
ReadCsr(c, vl, vtype, name) ==
  CASE name \in MCsrs   -> c[name]
    [] name = "vl"      -> vl
    [] name = "vtype"   -> vtype
    [] name = "misa"    -> MISA % WORD
    [] name = "vlenb"   -> (4 * LANES) % WORD
    [] OTHER            -> 0
WriteCsr(c, name, v) == IF name \in MCsrs THEN [c EXCEPT ![name] = v] ELSE c
=============================================================================
