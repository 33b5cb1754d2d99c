------------------------------- MODULE VecIsa -------------------------------
(***************************************************************************)
(* The vocabulary of the vector extension, shared by the architectural     *)
(* machine (IsaVector) and the coprocessor (SocVector): vector             *)
(* instructions, the configuration vtype/vl/vstart, the register file and  *)
(* what an instruction does to it.  No state of its own.                   *)
(*                                                                         *)
(* The register file is flat, as vregs[] in the code: CELLS cells for each *)
(* register, of CELL_BITS bits each.  An element is one cell (the code's   *)
(* narrow SEWs) or two, which make a machine word (SEW = 32).              *)
(***************************************************************************)
EXTENDS SocIsa, FiniteSetsExt

CONSTANTS
  NVREGS,      \* vector registers, 32 in the code; v0 is the mask
  CELLS,       \* cells of a register
  CELL_BITS    \* bits of a cell

CELL == 2 ^ CELL_BITS

ASSUME VecAssumption ==
  /\ NVREGS \in Nat \ {0} /\ CELLS \in Nat \ {0} /\ CELLS % 2 = 0 /\ CELLS < WORD
  /\ CELL_BITS \in Nat \ {0} /\ WORD = CELL * CELL

VRegs    == 0 .. NVREGS - 1
Cells    == 0 .. NVREGS * CELLS - 1
VRegFile == [Cells -> 0 .. CELL - 1]
Sews     == {1, 2}

-----------------------------------------------------------------------------
(* Vector instructions.                                                    *)

VSetOps  == {"vsetvli", "vsetivli", "vsetvl"}
VAluOps  == {"vadd", "vmul"}
VArithOps == VAluOps \cup {"vmseq", "vmerge", "vwmacc", "vredsum", "vslide1down",
                           "vrgather", "vmand", "vid", "vcpop"}
VMemOps  == {"vload", "vstore"}
VCsrOps  == {"csrr_vl", "csrrw_vstart"}
VecOps   == VSetOps \cup VArithOps \cup VMemOps \cup {"vreserved"}

VInstr == [op : VecOps \cup VCsrOps, rd : XRegs, rs1 : XRegs, rs2 : XRegs,
           vd : VRegs, vs1 : VRegs, vs2 : VRegs, vm : BOOLEAN, form : {"vv", "vx", "vi"},
           imm : Word, mop : {"unit", "strided", "indexed"},
           lsmode : {"normal", "fof", "whole"}, nf : 0 .. 1]

\* The categories of dispatch_rvv: they decide what is written and by which unit.
VCat(i) ==
  CASE i.op \in VAluOps                      -> "alu"
    [] i.op = "vmseq"                        -> "cmp"
    [] i.op = "vmerge"                       -> "merge"
    [] i.op = "vwmacc"                       -> "wide"
    [] i.op = "vredsum"                      -> "red"
    [] i.op \in {"vslide1down", "vrgather"}  -> "perm"
    [] i.op = "vmand"                        -> "mlog"
    [] i.op = "vid"                          -> "vid"
    [] i.op = "vcpop"                        -> "xres"

\* Executed atomically, so that vstart can never be inside them.
AtomicCats == {"red", "perm", "mlog", "xres", "vid"}

-----------------------------------------------------------------------------
(* The configuration.                                                      *)

VType == [vill : BOOLEAN, sew : Sews]
NoConfig == [vill |-> TRUE, sew |-> 1]

\* A vtype value: 0 and 1 select the element width, nothing else is supported.
DecodeVType(v) == IF v \in {0, 1} THEN [vill |-> FALSE, sew |-> v + 1] ELSE NoConfig

VLMAX(vt) == IF vt.vill THEN 0 ELSE CELLS \div vt.sew

\* The configuration a vset* grants, given x[rs1], x[rs2] and the present vl.
VSetType(i, x2) == DecodeVType(IF i.op = "vsetvl" THEN x2 ELSE i.imm)
VSetLength(i, vt, x1, vl) ==
  LET max == VLMAX(vt)
      avl == IF i.op = "vsetivli" THEN i.vs1 ELSE x1
  IN IF vt.vill THEN 0
     ELSE IF i.op # "vsetivli" /\ i.rs1 = X0
          THEN IF i.rd = X0 THEN vl ELSE max
     ELSE IF avl < max THEN avl ELSE max

\* Is the instruction legal in this configuration?
VLegal(i, vt, vstart) ==
  /\ i.op # "vreserved"
  /\ i.op = "vwmacc" => vt.sew = 1 /\ i.vd % 2 = 0
  /\ i.op \in VArithOps /\ vstart # 0 => VCat(i) \notin AtomicCats

-----------------------------------------------------------------------------
(* Elements and mask bits of the register file.                            *)

Size(sew) == IF sew = 1 THEN CELL ELSE WORD

\* A group of two registers needs nothing more: the file is flat.
vreg_get(vr, r, e, sew) ==
  LET c == r * CELLS + e * sew IN IF sew = 1 THEN vr[c] ELSE vr[c] + CELL * vr[c + 1]

\* Elements E of register r get the values val.
vreg_set(vr, r, sew, E, val(_)) ==
  [c \in DOMAIN vr |->
    LET k == c - r * CELLS
        e == k \div sew
    IN IF k >= 0 /\ e \in E THEN (val(e) \div CELL ^ (k % sew)) % CELL ELSE vr[c]]

vmask_get(vr, r, e) == Bit(vr[r * CELLS + e \div CELL_BITS], 2 ^ (e % CELL_BITS))

vmask_set(vr, r, E, bit(_)) ==
  [c \in DOMAIN vr |->
    LET first == (c - r * CELLS) * CELL_BITS
        Set(e) == IF e \in E THEN bit(e) ELSE vmask_get(vr, r, e)
    IN IF c - r * CELLS \in 0 .. CELLS - 1
       THEN MapThenSumSet(LAMBDA k : IF Set(first + k) THEN 2 ^ k ELSE 0, 0 .. CELL_BITS - 1)
       ELSE vr[c]]

vec_elem_active(i, e, vr) == i.vm \/ vmask_get(vr, 0, e)

-----------------------------------------------------------------------------
(* Vector arithmetic: what instruction i does to the register file vr when *)
(* it runs with the given vl, vstart and element width, and x as scalar    *)
(* operand.  Tail and inactive elements keep their values.                 *)

vec_alu(i, a, b, sew) == (IF i.op = "vmul" THEN a * b ELSE a + b) % Size(sew)

vec_arith_compute(i, vr, vl, vstart, sew, x) ==
  LET body      == vstart .. vl - 1
      active    == {e \in body : vec_elem_active(i, e, vr)}
      A(e)      == vreg_get(vr, i.vs2, e, sew)
      B(e)      == IF i.form = "vv" THEN vreg_get(vr, i.vs1, e, sew) ELSE x % Size(sew)
      Gather(e) == IF B(e) < CELLS \div sew THEN A(B(e)) ELSE 0
      Slide(e)  == IF e = vl - 1 THEN x % Size(sew) ELSE A(e + 1)
      cat       == VCat(i)
  IN CASE cat = "alu"   -> vreg_set(vr, i.vd, sew, active, LAMBDA e : vec_alu(i, A(e), B(e), sew))
       [] cat = "cmp"   -> vmask_set(vr, i.vd, active, LAMBDA e : A(e) = B(e))
       [] cat = "merge" -> vreg_set(vr, i.vd, sew, body,
                                    LAMBDA e : IF i.vm \/ vmask_get(vr, 0, e) THEN B(e) ELSE A(e))
       [] cat = "wide"  -> vreg_set(vr, i.vd, 2 * sew, active,
                                    LAMBDA e : (vreg_get(vr, i.vd, e, 2 * sew) + A(e) * B(e)) % WORD)
       [] cat = "red"   -> vreg_set(vr, i.vd, sew, IF vl > 0 THEN {0} ELSE {},
                                    LAMBDA e : (vreg_get(vr, i.vs1, 0, sew)
                                                + MapThenSumSet(A, active)) % Size(sew))
       [] cat = "perm"  -> vreg_set(vr, i.vd, sew, active,
                                    LAMBDA e : IF i.op = "vrgather" THEN Gather(e) ELSE Slide(e))
       [] cat = "mlog"  -> vmask_set(vr, i.vd, body,
                                     LAMBDA e : vmask_get(vr, i.vs2, e) /\ vmask_get(vr, i.vs1, e))
       [] cat = "vid"   -> vreg_set(vr, i.vd, sew, active, LAMBDA e : e)
       [] cat = "xres"  -> vr

\* The integer result of vcpop.m.
VXResult(i, vr, vl) ==
  Cardinality({e \in 0 .. vl - 1 : vec_elem_active(i, e, vr) /\ vmask_get(vr, i.vs2, e)})

-----------------------------------------------------------------------------
(* Vector memory accesses move words.                                      *)

WordsPerReg == CELLS \div 2

\* The address generator of the VLSU: field f of element e.
VAddr(i, base, stride, e, f, vr) ==
  LET off == CASE i.mop = "indexed" -> vreg_get(vr, i.vs2, e, 2)
               [] i.mop = "strided" -> e * stride
               [] OTHER             -> e * (i.nf + 1)
  IN (base + off + f) % WORD

VField(i, f) == (i.vd + f) % NVREGS

\* A fault-only-first load stops before the first element outside memory.
FofTrim(base, vl) ==
  LET bad == {k \in 0 .. vl - 1 : Plus(base, k) >= MemWords}
  IN IF bad = {} THEN vl ELSE Min(bad)

CAUSE_LOAD_FAULT == 6   \* 5 in the code
=============================================================================
