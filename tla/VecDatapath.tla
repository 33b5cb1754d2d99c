---------------------------- MODULE VecDatapath ----------------------------
(***************************************************************************)
(* The datapath of the vector coprocessor, element by element              *)
(* (vec_arith_compute): one instruction, on a register file of words, one  *)
(* action per iteration of the loop its category runs.  The sources are    *)
(* read from the same file the results go to, which is what makes the      *)
(* order of reads and writes matter when registers overlap.                *)
(*                                                                         *)
(* SocVector executes an instruction in one step and only a few of them;   *)
(* this module has all of them and shows that the loops compute what that  *)
(* step assumes.                                                           *)
(***************************************************************************)
EXTENDS VecAlu, FiniteSetsExt

CONSTANTS
  NVREGS,    \* vector registers, 32 in the code; v0 is the mask
  LANES,     \* words of a register
  Cases      \* <<instruction, register file>> to execute

ASSUME DatapathAssumption == NVREGS \in Nat \ {0} /\ LANES \in Nat \ {0}

VARIABLES
  u,         \* the instruction, as captured by dispatch
  vregs,     \* the register file
  e,         \* the element the loop is at
  src,       \* the source a permutation has read, or <<>>
  acc,       \* what the loop accumulates: running, acc, count or dst
  first,     \* the first set bit found by vfirst.m
  done,      \* the instruction has completed
  old        \* history: the register file before the instruction

vars == <<u, vregs, e, src, acc, first, done, old>>

Word  == 0 .. Values(4) - 1
VRegs == 0 .. NVREGS - 1
VFile == [0 .. NVREGS * LANES - 1 -> Word]

MergeOps == {"vmerge"}
VidOps   == {"vid", "viota"}
XresOps  == {"vcpop", "vfirst"}
MemOps   == {"vload", "vstore"}   \* see VecMemory
PermOps  == {"vrgather", "vslideup", "vslidedown", "vslide1up", "vslide1down", "vcompress"}

\* The category decides what is written and which loop runs.
Cat(op) ==
  CASE op \in AluOps    -> "alu"
    [] op \in CmpOps    -> "cmp"
    [] op \in MergeOps  -> "merge"
    [] op \in WideOps   -> "wide"
    [] op \in NarrowOps -> "narrow"
    [] op \in MaskOps   -> "mlog"
    [] op \in VidOps    -> "vid"
    [] op \in RedOps    -> "red"
    [] op \in PermOps   -> "perm"
    [] op \in XresOps   -> "xres"
    [] op \in MemOps    -> "mem"

\* The forms of an operation that dispatch accepts.
Forms(op) ==
  CASE op \in {"vsub", "vssubu", "vssub"}                -> {"vv", "vx"}
    [] op \in {"vrsub", "vmsgtu", "vmsgt", "vslideup", "vslidedown"} -> {"vx", "vi"}
    [] op \in {"vmsltu", "vmslt"} \cup AvgOps \cup MulOps \cup DivOps -> {"vv", "vx"}
    [] op \in {"vwmaccus", "vslide1up", "vslide1down"}   -> {"vx"}
    [] op \in WideOps \ {"vwmaccus"}                     -> {"vv", "vx"}
    [] op \in RedOps \cup MaskOps \cup VidOps \cup XresOps \cup {"vcompress"} -> {"vv"}
    [] OTHER                                             -> {"vv", "vx", "vi"}

VLENB     == 4 * LANES
NElems(w) == VLENB \div w

VecRs == [op : {"vmerge"} \cup AluOps \cup CmpOps \cup WideOps \cup NarrowOps \cup MaskOps
               \cup VidOps \cup RedOps \cup PermOps \cup XresOps \cup MemOps,
          form : {"vv", "vx", "vi"}, vd : VRegs, vs1 : VRegs, vs2 : VRegs, vm : BOOLEAN,
          s1 : Word, vl : 0 .. VLENB, vstart : 0 .. VLENB - 1, w : {1, 2, 4}]

-----------------------------------------------------------------------------
(* Access to the register file.                                            *)

\* Element i of register r lies at byte i * w and never crosses a word.
WordOf(r, i, w)  == r * LANES + (i * w) \div 4
Shift(i, w)      == 2 ^ Bits((i * w) % 4)

\* Fault: a value wider than the element spills into its neighbours.
vreg_set_untrimmed(v, r, i, w, x) ==
  [v EXCEPT ![WordOf(r, i, w)] =
     @ + (x - Trunc(v[WordOf(r, i, w)] \div Shift(i, w), w)) * Shift(i, w)]

vreg_get(v, r, i, w) == Trunc(v[WordOf(r, i, w)] \div Shift(i, w), w)
vreg_set(v, r, i, w, x) ==
  [v EXCEPT ![WordOf(r, i, w)] = @ + (Trunc(x, w) - vreg_get(v, r, i, w)) * Shift(i, w)]

\* A group of two registers holds elements of width w: the register is chosen first.
InGroup(r, i, w) == (r + i \div NElems(w)) % NVREGS
vreg_get_pair(v, r, i, w)    == vreg_get(v, InGroup(r, i, w), i % NElems(w), w)
vreg_set_pair(v, r, i, w, x) == vreg_set(v, InGroup(r, i, w), i % NElems(w), w, x)

\* One bit per element, whatever its width.
vmask_get(v, r, i) == (v[r * LANES + i \div Bits(4)] \div 2 ^ (i % Bits(4))) % 2 = 1
vmask_set(v, r, i, b) ==
  [v EXCEPT ![r * LANES + i \div Bits(4)] =
     @ + ((IF b THEN 1 ELSE 0) - (IF vmask_get(v, r, i) THEN 1 ELSE 0)) * 2 ^ (i % Bits(4))]

vec_elem_active(i) == u.vm \/ vmask_get(vregs, 0, i)

-----------------------------------------------------------------------------
\* Element-wise loops can be resumed at vstart; the others run whole.
ResumableCats == {"alu", "cmp", "merge", "wide", "narrow"}

\* Fault: vstart forgotten.
FirstElement_zero(i) == 0

\* What dispatch lets through: groups start at an even register, there are
\* no elements of twice a word, and only resumable loops start at a vstart.
Supported(i) ==
  /\ i.form \in Forms(i.op)
  /\ Cat(i.op) = "wide" => i.w <= 2 /\ i.vd % 2 = 0
  /\ Cat(i.op) = "narrow" => i.w <= 2 /\ i.vs2 % 2 = 0
  /\ i.vstart # 0 => Cat(i.op) \in ResumableCats

ASSUME CasesAssumption == \A c \in Cases : c[1] \in VecRs /\ c[2] \in VFile /\ Supported(c[1])

FirstElement(i) == IF Cat(i.op) \in ResumableCats THEN i.vstart ELSE 0

Init ==
  /\ \E c \in Cases :
       /\ u = c[1] /\ vregs = c[2] /\ old = c[2]
       /\ e = FirstElement(c[1])
       /\ acc = IF Cat(c[1].op) = "red" THEN vreg_get(c[2], c[1].vs1, 0, c[1].w) ELSE 0
  /\ src = <<>>
  /\ first = Values(4) - 1
  /\ done = FALSE

\* The loop of category cat is at an element below vl.
At(cat) == ~done /\ Cat(u.op) = cat /\ e < u.vl

\* The second operand: vs1[i], or the scalar cut to the width.
Scalar == u.form \in {"vx", "vi"}
Operand(i) == IF Scalar THEN Trunc(u.s1, u.w) ELSE vreg_get(vregs, u.vs1, i, u.w)

Write(x)      == vregs' = vreg_set(vregs, u.vd, e, u.w, x)
WritePair(x)  == vregs' = vreg_set_pair(vregs, u.vd, e, 2 * u.w, x)
WriteMask(b)  == vregs' = vmask_set(vregs, u.vd, e, b)
NextElement   == e' = e + 1 /\ UNCHANGED <<u, done, old>>

\* An inactive element keeps its value.
SkipInactive ==
  /\ \E cat \in {"alu", "cmp", "wide", "narrow", "red", "xres"} : At(cat)
  /\ ~vec_elem_active(e)
  /\ NextElement /\ UNCHANGED <<vregs, src, acc, first>>

\* vmerge is not predicated: the mask chooses the source.
ElementWise ==
  /\ LET a == vreg_get(vregs, u.vs2, e, u.w)
         b == Operand(e)
     IN \/ At("alu") /\ vec_elem_active(e) /\ Write(vec_alu(u.op, a, b, u.w))
        \/ At("cmp") /\ vec_elem_active(e) /\ WriteMask(vec_cmp(u.op, a, b, u.w))
        \/ At("merge") /\ Write(IF u.vm \/ vmask_get(vregs, 0, e) THEN b ELSE a)
  /\ NextElement /\ UNCHANGED <<src, acc, first>>

\* The destination of a widening operation and, in the forms .w, its first
\* source are groups of two registers.
Widen ==
  /\ At("wide") /\ vec_elem_active(e)
  /\ LET a == IF u.op \in WideSrcOps THEN vreg_get_pair(vregs, u.vs2, e, 2 * u.w)
                                     ELSE vreg_get(vregs, u.vs2, e, u.w)
         dw == vreg_get_pair(vregs, u.vd, e, 2 * u.w)
     IN WritePair(vec_wide_alu(u.op, a, Operand(e), u.w, dw))
  /\ NextElement /\ UNCHANGED <<src, acc, first>>

Narrow ==
  /\ At("narrow") /\ vec_elem_active(e)
  /\ Write(vec_narrow_alu(u.op, vreg_get_pair(vregs, u.vs2, e, 2 * u.w), Operand(e), u.w))
  /\ NextElement /\ UNCHANGED <<src, acc, first>>

MaskLogic ==
  /\ At("mlog")
  /\ WriteMask(vec_mask_logic(u.op, vmask_get(vregs, u.vs2, e), vmask_get(vregs, u.vs1, e)))
  /\ NextElement /\ UNCHANGED <<src, acc, first>>

\* The index of the element, or how many bits are set before it.
Index ==
  /\ At("vid")
  /\ IF vec_elem_active(e) THEN Write(IF u.op = "vid" THEN e ELSE acc) ELSE UNCHANGED vregs
  /\ acc' = IF u.op = "viota" /\ vmask_get(vregs, u.vs2, e) THEN acc + 1 ELSE acc
  /\ NextElement /\ UNCHANGED <<src, first>>

Reduce ==
  /\ At("red") /\ vec_elem_active(e)
  /\ acc' = vec_red_step(u.op, acc, vreg_get(vregs, u.vs2, e, u.w), u.w)
  /\ NextElement /\ UNCHANGED <<vregs, src, first>>

\* A permutation reads the whole source register before it writes.
ReadSource ==
  /\ ~done /\ Cat(u.op) = "perm" /\ src = <<>>
  /\ src' = [i \in 0 .. VLENB - 1 |-> IF i < NElems(u.w) THEN vreg_get(vregs, u.vs2, i, u.w) ELSE 0]
  /\ UNCHANGED <<u, vregs, e, acc, first, done, old>>

\* Fault: elements are read when they are needed.
Source_in_place(i) == IF i < NElems(u.w) THEN vreg_get(vregs, u.vs2, i, u.w) ELSE 0

Source(i) == src[i]

\* The elements of vs2 whose bit in vs1 is set, packed; acc is the next place.
Compress ==
  /\ At("perm") /\ src # <<>> /\ u.op = "vcompress"
  /\ IF vmask_get(vregs, u.vs1, e)
     THEN acc' = acc + 1 /\ vregs' = vreg_set(vregs, u.vd, acc, u.w, Source(e))
     ELSE UNCHANGED <<acc, vregs>>
  /\ NextElement /\ UNCHANGED <<src, first>>

\* Where a slide down takes element e from: the sum is a machine word.
DownFrom == (e + u.s1) % Values(4)

Moved ==
  LET n   == NElems(u.w)
      idx == IF Scalar THEN u.s1 ELSE vreg_get(vregs, u.vs1, e, u.w)
  IN CASE u.op = "vrgather"    -> IF idx < n THEN Source(idx) ELSE 0
       [] u.op = "vslide1up"   -> IF e = 0 THEN u.s1 ELSE Source(e - 1)
       [] u.op = "vslideup"    -> Source(e - u.s1)
       [] u.op = "vslide1down" -> IF e = u.vl - 1 THEN u.s1 ELSE Source(e + 1)
       [] u.op = "vslidedown"  -> IF DownFrom < n THEN Source(DownFrom) ELSE 0

Permute ==
  /\ At("perm") /\ src # <<>> /\ u.op # "vcompress"
  /\ IF vec_elem_active(e) /\ ~(u.op = "vslideup" /\ e < u.s1) THEN Write(Moved) ELSE UNCHANGED vregs
  /\ NextElement /\ UNCHANGED <<src, acc, first>>

\* vcpop.m and vfirst.m: all ones when there is no bit.
CountBits ==
  /\ At("xres") /\ vec_elem_active(e)
  /\ IF vmask_get(vregs, u.vs2, e)
     THEN acc' = acc + 1 /\ first' = IF acc = 0 THEN e ELSE first
     ELSE UNCHANGED <<acc, first>>
  /\ NextElement /\ UNCHANGED <<vregs, src>>

\* A reduction writes only element 0, and only if there are elements.
Complete ==
  /\ ~done /\ e >= u.vl /\ (Cat(u.op) = "perm" => src # <<>>)
  /\ vregs' = IF Cat(u.op) = "red" /\ u.vl > 0 THEN vreg_set(vregs, u.vd, 0, u.w, acc) ELSE vregs
  /\ done' = TRUE
  /\ UNCHANGED <<u, e, src, acc, first, old>>

Next ==
  \/ SkipInactive \/ ElementWise \/ Widen \/ Narrow \/ MaskLogic \/ Index \/ Reduce
  \/ ReadSource \/ Compress \/ Permute \/ CountBits \/ Complete

Spec == Init /\ [][Next]_vars

\* Types: the instruction, the register file, and what the loops carry (VecRs, soc_state.h).
DatapathTypeOK ==
  /\ u \in VecRs /\ vregs \in VFile /\ old \in VFile /\ done \in BOOLEAN
  /\ e \in 0 .. VLENB /\ acc \in Word /\ first \in Word
  /\ src = <<>> \/ src \in [0 .. VLENB - 1 -> Word]
=============================================================================
