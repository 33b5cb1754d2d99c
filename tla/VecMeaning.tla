----------------------------- MODULE VecMeaning -----------------------------
(***************************************************************************)
(* What the datapath promises: the result of each element, in terms of the *)
(* integers its operands stand for, and the effect of a whole instruction  *)
(* as one simultaneous assignment of the register file it started from.    *)
(***************************************************************************)
EXTENDS VecDatapath

-----------------------------------------------------------------------------
(* One element.  Two tables say which operands are signed and what is      *)
(* computed from them exactly; a result is then modular, saturated,        *)
(* averaged, the high half...                                              *)

SignedFirst == {"vmin", "vmax", "vsra", "vsadd", "vssub", "vaadd", "vasub", "vmulh", "vmulhsu",
                "vdiv", "vrem", "vwadd", "vwsub", "vwadd_w", "vwsub_w", "vwmul", "vwmulsu",
                "vwmacc", "vwmaccsu", "vnsra", "vnclip", "vmslt", "vmsle", "vmsgt"}
SignedSecond == {"vmin", "vmax", "vsadd", "vssub", "vaadd", "vasub", "vmulh", "vdiv", "vrem",
                 "vwadd", "vwsub", "vwadd_w", "vwsub_w", "vwmul", "vwmacc", "vwmaccus",
                 "vmslt", "vmsle", "vmsgt"}
Sums        == {"vadd", "vsaddu", "vsadd", "vaaddu", "vaadd", "vwaddu", "vwadd", "vwaddu_w", "vwadd_w"}
Differences == {"vsub", "vrsub", "vssubu", "vssub", "vasubu", "vasub",
                "vwsubu", "vwsub", "vwsubu_w", "vwsub_w"}
Modular     == {"vadd", "vsub", "vmul"} \cup (WideOps \ MaccOps)

IntOf(v, w, signed) == IF signed THEN vsext(v, w) ELSE v
BitOf(v, k) == (v \div 2 ^ k) % 2

\* v is the representable value nearest to x.
Nearest(v, x, lo, hi) ==
  \/ v = x
  \/ v = hi /\ x > hi
  \/ v = lo /\ x < lo

NearestAtWidth(v, x, w, signed) ==
  IF signed THEN Nearest(v, x, MinS(w), MaxS(w)) ELSE Nearest(v, x, 0, Values(w) - 1)

\* r is a result of operation op on a and b (and the old destination dw).
Means(op, a, b, dw, r, w) ==
  LET x     == IntOf(a, IF op \in WideSrcOps \cup NarrowOps THEN 2 * w ELSE w, op \in SignedFirst)
      y     == IntOf(b, w, op \in SignedSecond)
      exact == IF op \in Sums THEN x + y ELSE IF op \in Differences THEN x - y ELSE x * y
      wr    == IF op \in WideOps THEN 2 * w ELSE w
      z     == IntOf(r, wr, op \in SignedFirst)
      same(v) == (r - v) % Values(wr) = 0
      shift == 2 ^ (b % Bits(IF op \in NarrowOps THEN 2 * w ELSE w))
      bits(rel(_, _)) == \A k \in 0 .. Bits(w) - 1 : BitOf(r, k) = 1 <=> rel(BitOf(a, k), BitOf(b, k))
  IN CASE op \in Modular -> same(exact)
       [] op = "vrsub"   -> same(0 - exact)
       [] op \in MaccOps -> same(dw + exact)
       [] op \in SatOps  -> NearestAtWidth(z, exact, w, op \in SignedFirst)
       [] op \in AvgOps  -> (2 * r - exact) % (2 * Values(w)) \in {0, 1}
       [] op \in {"vmulh", "vmulhu", "vmulhsu"} -> same(exact \div Values(w))
       [] op \in {"vminu", "vmin"} -> z \in {x, y} /\ z <= x /\ z <= y
       [] op \in {"vmaxu", "vmax"} -> z \in {x, y} /\ z >= x /\ z >= y
       [] op = "vand" -> bits(LAMBDA p, q : p = 1 /\ q = 1)
       [] op = "vor"  -> bits(LAMBDA p, q : p = 1 \/ q = 1)
       [] op = "vxor" -> bits(LAMBDA p, q : p # q)
       [] op = "vsll" -> same(a * shift)
       [] op \in {"vsrl", "vsra", "vnsrl", "vnsra"} -> same(x \div shift)
       [] op \in {"vnclipu", "vnclip"} ->
            NearestAtWidth(z, (2 * x + shift) \div (2 * shift), w, op \in SignedFirst)
       [] op \in {"vdivu", "vdiv"} ->
            IF b = 0 THEN same(0 - 1)
            ELSE \E q \in {z, z + Values(w)} : Abs(x - q * y) < Abs(y) /\ (x - q * y) * x >= 0
       [] op \in {"vremu", "vrem"} ->
            IF b = 0 THEN z = x ELSE Abs(z) < Abs(y) /\ z * x >= 0 /\ (x - z) % Abs(y) = 0

Compares(op, a, b, w) ==
  LET x == IntOf(a, w, op \in SignedFirst)
      y == IntOf(b, w, op \in SignedSecond)
  IN \/ x = y /\ op \in {"vmseq", "vmsleu", "vmsle"}
     \/ x < y /\ op \in {"vmsne", "vmsltu", "vmslt", "vmsleu", "vmsle"}
     \/ x > y /\ op \in {"vmsne", "vmsgtu", "vmsgt"}

-----------------------------------------------------------------------------
(* A whole instruction i on register file f.                               *)

Bits1(i, f, r)  == {k \in 0 .. i.vl - 1 : vmask_get(f, r, k)}
Active(i, f)    == {k \in i.vstart .. i.vl - 1 : i.vm \/ vmask_get(f, 0, k)}

OperandA(i, f, k) == IF i.op \in WideSrcOps \cup NarrowOps THEN vreg_get_pair(f, i.vs2, k, 2 * i.w)
                                                           ELSE vreg_get(f, i.vs2, k, i.w)
OperandB(i, f, k) == IF i.form = "vv" THEN vreg_get(f, i.vs1, k, i.w) ELSE Trunc(i.s1, i.w)

\* Elements, pairs or mask bits K of the destination get the values val.
Assign(i, f, K, val(_))      == FoldSet(LAMBDA k, g : vreg_set(g, i.vd, k, i.w, val(k)), f, K)
AssignPairs(i, f, K, val(_)) == FoldSet(LAMBDA k, g : vreg_set_pair(g, i.vd, k, 2 * i.w, val(k)), f, K)
AssignBits(i, f, K, val(_))  == FoldSet(LAMBDA k, g : vmask_set(g, i.vd, k, val(k)), f, K)

\* The fold of a reduction, in no particular order.
Reduction(i, f) ==
  LET E        == Active(i, f)
      start    == vreg_get(f, i.vs1, 0, i.w)
      el(k)    == vreg_get(f, i.vs2, k, i.w)
      V        == {start} \cup {el(k) : k \in E}
      int(v)   == vsext(v, i.w)
      parity(k) == (BitOf(start, k) + Cardinality({j \in E : BitOf(el(j), k) = 1})) % 2
      bitsum(bit(_)) == MapThenSumSet(LAMBDA k : IF bit(k) THEN 2 ^ k ELSE 0, 0 .. Bits(i.w) - 1)
  IN CASE i.op = "vredsum"  -> Trunc(start + MapThenSumSet(el, E), i.w)
       [] i.op = "vredand"  -> bitsum(LAMBDA k : \A v \in V : BitOf(v, k) = 1)
       [] i.op = "vredor"   -> bitsum(LAMBDA k : \E v \in V : BitOf(v, k) = 1)
       [] i.op = "vredxor"  -> bitsum(LAMBDA k : parity(k) = 1)
       [] i.op = "vredminu" -> CHOOSE v \in V : \A x \in V : v <= x
       [] i.op = "vredmaxu" -> CHOOSE v \in V : \A x \in V : v >= x
       [] i.op = "vredmin"  -> CHOOSE v \in V : \A x \in V : int(v) <= int(x)
       [] i.op = "vredmax"  -> CHOOSE v \in V : \A x \in V : int(v) >= int(x)

\* Every permutation takes its elements from the register as it was.
Permuted(i, f) ==
  LET n     == NElems(i.w)
      el(k) == vreg_get(f, i.vs2, k, i.w)
      E     == Active(i, f)
      idx(k) == IF i.form = "vv" THEN vreg_get(f, i.vs1, k, i.w) ELSE i.s1
      kept  == Bits1(i, f, i.vs1)
      place(j) == CHOOSE k \in kept : Cardinality({m \in kept : m < k}) = j
  IN CASE i.op = "vrgather"    -> Assign(i, f, E, LAMBDA k : IF idx(k) < n THEN el(idx(k)) ELSE 0)
       [] i.op = "vslideup"    -> Assign(i, f, {k \in E : k >= i.s1}, LAMBDA k : el(k - i.s1))
       [] i.op = "vslidedown"  -> Assign(i, f, E, LAMBDA k : IF k + i.s1 < n THEN el(k + i.s1) ELSE 0)
       [] i.op = "vslide1up"   -> Assign(i, f, E, LAMBDA k : IF k = 0 THEN i.s1 ELSE el(k - 1))
       [] i.op = "vslide1down" -> Assign(i, f, E, LAMBDA k : IF k = i.vl - 1 THEN i.s1 ELSE el(k + 1))
       [] i.op = "vcompress"   -> Assign(i, f, 0 .. Cardinality(kept) - 1, LAMBDA j : el(place(j)))

Whole(i, f) ==
  LET E    == Active(i, f)
      a(k) == OperandA(i, f, k)
      b(k) == OperandB(i, f, k)
      cat  == Cat(i.op)
      bit(k) == vmask_get(f, 0, k)
  IN CASE cat = "alu"    -> Assign(i, f, E, LAMBDA k : vec_alu(i.op, a(k), b(k), i.w))
       [] cat = "cmp"    -> AssignBits(i, f, E, LAMBDA k : Compares(i.op, a(k), b(k), i.w))
       [] cat = "merge"  -> Assign(i, f, i.vstart .. i.vl - 1,
                                   LAMBDA k : IF i.vm \/ bit(k) THEN b(k) ELSE a(k))
       [] cat = "wide"   -> AssignPairs(i, f, E, LAMBDA k :
                                vec_wide_alu(i.op, a(k), b(k), i.w, vreg_get_pair(f, i.vd, k, 2 * i.w)))
       [] cat = "narrow" -> Assign(i, f, E, LAMBDA k : vec_narrow_alu(i.op, a(k), b(k), i.w))
       [] cat = "mlog"   -> AssignBits(i, f, 0 .. i.vl - 1, LAMBDA k :
                                vec_mask_logic(i.op, vmask_get(f, i.vs2, k), vmask_get(f, i.vs1, k)))
       [] i.op = "vid"   -> Assign(i, f, E, LAMBDA k : k)
       [] i.op = "viota" -> Assign(i, f, E, LAMBDA k : Cardinality({m \in Bits1(i, f, i.vs2) : m < k}))
       [] cat = "red"    -> IF i.vl = 0 THEN f ELSE vreg_set(f, i.vd, 0, i.w, Reduction(i, f))
       [] cat = "perm"   -> Permuted(i, f)
       [] cat = "xres"   -> f

\* The integer result.
Counted(i, f) == Bits1(i, f, i.vs2) \cap Active(i, f)

-----------------------------------------------------------------------------
(* Every element written so far is what the operation means for the        *)
(* operands that were there before the instruction, even where the         *)
(* destination overlaps a source: the right sign extension of each         *)
(* operand, the carry, the rounding, the bounds (vec_alu and its kin,      *)
(* exec_vector.h).                                                         *)
ElementsExact ==
  \A k \in {m \in Active(u, old) : m < e} :
    LET a  == OperandA(u, old, k)
        b  == OperandB(u, old, k)
        dw == vreg_get_pair(old, u.vd, k, 2 * u.w)
    IN CASE Cat(u.op) = "wide" -> Means(u.op, a, b, dw, vreg_get_pair(vregs, u.vd, k, 2 * u.w), u.w)
         [] Cat(u.op) \in {"alu", "narrow"} -> Means(u.op, a, b, 0, vreg_get(vregs, u.vd, k, u.w), u.w)
         [] Cat(u.op) = "cmp" -> vmask_get(vregs, u.vd, k) = Compares(u.op, a, b, u.w)
         [] OTHER -> TRUE

(* An element-wise instruction stopped before any element and started      *)
(* again there with vstart ends as if it had not been stopped: what is     *)
(* left to do, done at once from the present registers, gives what the     *)
(* whole gives from the old ones (exec_vector.h:263, "es lo que permite    *)
(* reanudar una instruccion a mitad de camino").                           *)
Resumable ==
  Cat(u.op) \in ResumableCats => Whole([u EXCEPT !.vstart = e], vregs) = Whole(u, old)

(* A completed instruction has done to the registers, and returned as      *)
(* integer, what one simultaneous assignment would have: no loop reads     *)
(* what it has itself overwritten (exec_vector.h:387).                     *)
LikeSimultaneous ==
  done /\ Cat(u.op) # "mem" =>
          /\ vregs = Whole(u, old)
          /\ u.op = "vcpop" => acc = Cardinality(Counted(u, old))
          /\ u.op = "vfirst" => first = IF Counted(u, old) = {} THEN Values(4) - 1
                                        ELSE Min(Counted(u, old))

-----------------------------------------------------------------------------
(* Saturating sums stick to the end of the range at every width            *)
(* (exec_vector.h:85, "se pegan al extremo representable de SEW").         *)
SaturatesAtEveryWidth ==
  done /\ u.op \in SatOps =>
    \A k \in Active(u, old) :
      Means(u.op, OperandA(u, old, k), OperandB(u, old, k), 0, vreg_get(vregs, u.vd, k, u.w), u.w)

(* A slide down brings zeros in from beyond the register, however far      *)
(* (soc_tb.cpp:162, "vslidedown.vi: mas alla del vector -> 0").            *)
SlidesInZeros ==
  done /\ u.op = "vslidedown" =>
    \A k \in Active(u, old) :
      k + u.s1 >= NElems(u.w) => vreg_get(vregs, u.vd, k, u.w) = 0
=============================================================================
