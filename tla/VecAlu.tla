------------------------------- MODULE VecAlu -------------------------------
(***************************************************************************)
(* The arithmetic of one vector element (vector_alu.h): pure functions of  *)
(* its operands and of the element width, and what their results mean.     *)
(*                                                                         *)
(* A width w is a number of bytes: 1, 2 or 4, and a machine word is four   *)
(* bytes.  Operands are unsigned; a result is truncated to the width, as   *)
(* the write to the register file does.  The operations keep the names of  *)
(* the instructions; op is enough, for the code's funct3 only tells apart  *)
(* the two tables of funct6.                                               *)
(***************************************************************************)
EXTENDS Integers, Bitwise

CONSTANT BYTE    \* bits of a byte, 8 in the code

ASSUME ByteAssumption == BYTE \in {1, 2, 4, 8}

Bits(w)     == BYTE * w
Values(w)   == 2 ^ Bits(w)
Trunc(v, w) == v % Values(w)

\* The signed value of v; what an int32_t holds of v; both as in C.
vsext(v, w) == IF v >= Values(w) \div 2 THEN v - Values(w) ELSE v
Int32(v)    == vsext(Trunc(v, 4), 4)

MaxS(w) == Values(w) \div 2 - 1
MinS(w) == -(Values(w) \div 2)

Saturate(v, lo, hi) == IF v > hi THEN hi ELSE IF v < lo THEN lo ELSE v

\* Half of t, the discarded bit added.
HalfUp(t) == (t \div 2) + (t % 2)

\* Division as in C, towards zero.
Abs(v)     == IF v < 0 THEN -v ELSE v
Quot(a, b) == IF (a < 0) = (b < 0) THEN Abs(a) \div Abs(b) ELSE -(Abs(a) \div Abs(b))

SatOps == {"vsaddu", "vsadd", "vssubu", "vssub"}
AvgOps == {"vaaddu", "vaadd", "vasubu", "vasub"}
MulOps == {"vmul", "vmulh", "vmulhu", "vmulhsu"}
DivOps == {"vdivu", "vdiv", "vremu", "vrem"}
ShiftOps == {"vsll", "vsrl", "vsra"}
AluOps == {"vadd", "vsub", "vrsub", "vminu", "vmin", "vmaxu", "vmax", "vand", "vor", "vxor"}
            \cup ShiftOps \cup SatOps \cup AvgOps \cup MulOps \cup DivOps
CmpOps == {"vmseq", "vmsne", "vmsltu", "vmslt", "vmsleu", "vmsle", "vmsgtu", "vmsgt"}
MaskOps == {"vmandnot", "vmand", "vmor", "vmxor", "vmornot", "vmnand", "vmnor", "vmxnor"}
RedOps == {"vredsum", "vredand", "vredor", "vredxor", "vredminu", "vredmin", "vredmaxu", "vredmax"}
WideSrcOps == {"vwaddu_w", "vwadd_w", "vwsubu_w", "vwsub_w"}   \* vs2 is wide already
MaccOps == {"vwmaccu", "vwmacc", "vwmaccsu", "vwmaccus"}       \* vd is an operand
WideOps == {"vwaddu", "vwadd", "vwsubu", "vwsub", "vwmulu", "vwmul", "vwmulsu"}
             \cup WideSrcOps \cup MaccOps
NarrowOps == {"vnsrl", "vnsra", "vnclipu", "vnclip"}

-----------------------------------------------------------------------------
\* Saturation happens in an int32_t: at the width of a word, where the sum
\* itself wraps, there is nothing left to saturate.
vec_sat(op, a, b, w) ==
  LET sa == vsext(a, w)
      sb == vsext(b, w)
  IN CASE op = "vsaddu" -> IF Trunc(a + b, w) < a THEN Values(w) - 1 ELSE Trunc(a + b, w)
       [] op = "vsadd"  -> Saturate(Int32(sa + sb), MinS(w), MaxS(w))
       [] op = "vssubu" -> IF a < b THEN 0 ELSE a - b
       [] op = "vssub"  -> Saturate(Int32(sa - sb), MinS(w), MaxS(w))

\* Averages and high halves are computed in 64 bits.
vec_avg(op, a, b, w) ==
  LET sa == vsext(a, w)
      sb == vsext(b, w)
  IN HalfUp(CASE op = "vaaddu" -> a + b
              [] op = "vaadd"  -> sa + sb
              [] op = "vasubu" -> a - b
              [] op = "vasub"  -> sa - sb)

vec_mul(op, a, b, w) ==
  LET sa == vsext(a, w)
      sb == vsext(b, w)
  IN CASE op = "vmul"    -> a * b
       [] op = "vmulh"   -> (sa * sb) \div Values(w)
       [] op = "vmulhu"  -> (a * b) \div Values(w)
       [] op = "vmulhsu" -> (sa * b) \div Values(w)

\* The corner cases of the M extension, at the width of the element.
vec_div(op, a, b, w) ==
  LET sa == vsext(a, w)
      sb == vsext(b, w)
      overflow == sa = MinS(w) /\ sb = -1
  IN CASE op = "vdivu" -> IF b = 0 THEN Values(w) - 1 ELSE a \div b
       [] op = "vdiv"  -> IF b = 0 THEN Values(w) - 1 ELSE IF overflow THEN a ELSE Quot(sa, sb)
       [] op = "vremu" -> IF b = 0 THEN a ELSE a % b
       [] op = "vrem"  -> IF b = 0 THEN a ELSE IF overflow THEN 0 ELSE sa - sb * Quot(sa, sb)

\* The shift amount is bounded to the width of the element.
vec_shift(op, a, b, w) ==
  LET sh == 2 ^ (b % Bits(w))
  IN CASE op = "vsll" -> a * sh
       [] op = "vsrl" -> a \div sh
       [] op = "vsra" -> vsext(a, w) \div sh

vec_alu(op, a, b, w) ==
  LET sa == vsext(a, w)
      sb == vsext(b, w)
  IN Trunc(CASE op = "vadd"  -> a + b
             [] op = "vsub"  -> a - b
             [] op = "vrsub" -> b - a
             [] op = "vminu" -> IF a < b THEN a ELSE b
             [] op = "vmin"  -> IF sa < sb THEN a ELSE b
             [] op = "vmaxu" -> IF a > b THEN a ELSE b
             [] op = "vmax"  -> IF sa > sb THEN a ELSE b
             [] op = "vand"  -> a & b
             [] op = "vor"   -> a | b
             [] op = "vxor"  -> a ^^ b
             [] op \in ShiftOps -> vec_shift(op, a, b, w)
             [] op \in SatOps   -> vec_sat(op, a, b, w)
             [] op \in AvgOps   -> vec_avg(op, a, b, w)
             [] op \in MulOps   -> vec_mul(op, a, b, w)
             [] op \in DivOps   -> vec_div(op, a, b, w), w)

vec_cmp(op, a, b, w) ==
  LET sa == vsext(a, w)
      sb == vsext(b, w)
  IN CASE op = "vmseq"  -> a = b
       [] op = "vmsne"  -> a # b
       [] op = "vmsltu" -> a < b
       [] op = "vmslt"  -> sa < sb
       [] op = "vmsleu" -> a <= b
       [] op = "vmsle"  -> sa <= sb
       [] op = "vmsgtu" -> a > b
       [] op = "vmsgt"  -> sa > sb

\* One step of a reduction.
vec_red_step(op, acc, x, w) ==
  Trunc(CASE op = "vredsum"  -> acc + x
          [] op = "vredand"  -> acc & x
          [] op = "vredor"   -> acc | x
          [] op = "vredxor"  -> acc ^^ x
          [] op = "vredminu" -> IF x < acc THEN x ELSE acc
          [] op = "vredmin"  -> IF vsext(x, w) < vsext(acc, w) THEN x ELSE acc
          [] op = "vredmaxu" -> IF x > acc THEN x ELSE acc
          [] op = "vredmax"  -> IF vsext(x, w) > vsext(acc, w) THEN x ELSE acc, w)

\* Fault: a source of the mixed-sign product extended with the wrong sign.
vec_wide_alu_signs(op, a, b, w, dw) ==
  LET sa == vsext(a, w)
      sb == vsext(b, w)
  IN Trunc(CASE op \in {"vwaddu", "vwaddu_w"} -> a + b
             [] op = "vwadd"    -> sa + sb
             [] op \in {"vwsubu", "vwsubu_w"} -> a - b
             [] op = "vwsub"    -> sa - sb
             [] op = "vwadd_w"  -> vsext(a, 2 * w) + sb
             [] op = "vwsub_w"  -> vsext(a, 2 * w) - sb
             [] op = "vwmulu"   -> a * b
             [] op = "vwmul"    -> sa * sb
             [] op = "vwmulsu"  -> a * sb
             [] op = "vwmaccu"  -> dw + a * b
             [] op = "vwmacc"   -> vsext(dw, 2 * w) + sa * sb
             [] op = "vwmaccsu" -> vsext(dw, 2 * w) + a * sb
             [] op = "vwmaccus" -> vsext(dw, 2 * w) + a * sb, 2 * w)

\* Widening: twice the width, from two narrow sources (or a wide first one,
\* in the forms .w) and, for the accumulating ones, the wide destination.
vec_wide_alu(op, a, b, w, dw) ==
  LET sa == vsext(a, w)
      sb == vsext(b, w)
  IN Trunc(CASE op \in {"vwaddu", "vwaddu_w"} -> a + b
             [] op = "vwadd"    -> sa + sb
             [] op \in {"vwsubu", "vwsubu_w"} -> a - b
             [] op = "vwsub"    -> sa - sb
             [] op = "vwadd_w"  -> vsext(a, 2 * w) + sb
             [] op = "vwsub_w"  -> vsext(a, 2 * w) - sb
             [] op = "vwmulu"   -> a * b
             [] op = "vwmul"    -> sa * sb
             [] op = "vwmulsu"  -> sa * b
             [] op = "vwmaccu"  -> dw + a * b
             [] op = "vwmacc"   -> vsext(dw, 2 * w) + sa * sb
             [] op = "vwmaccsu" -> vsext(dw, 2 * w) + sa * b
             [] op = "vwmaccus" -> vsext(dw, 2 * w) + a * sb, 2 * w)

\* Narrowing: half the width.  The clips add the last bit shifted out, then saturate.
vec_narrow_alu(op, aw, b, w) ==
  LET sh == b % Bits(2 * w)
      sa == vsext(aw, 2 * w)
      Rounded(v) == IF sh = 0 THEN v ELSE (v \div 2 ^ sh) + ((v \div 2 ^ (sh - 1)) % 2)
  IN Trunc(CASE op = "vnsrl"   -> aw \div 2 ^ sh
             [] op = "vnsra"   -> sa \div 2 ^ sh
             [] op = "vnclipu" -> Saturate(Rounded(aw), 0, Values(w) - 1)
             [] op = "vnclip"  -> Saturate(Rounded(sa), MinS(w), MaxS(w)), w)

vec_mask_logic(op, a, b) ==
  CASE op = "vmandnot" -> a /\ ~b
    [] op = "vmand"    -> a /\ b
    [] op = "vmor"     -> a \/ b
    [] op = "vmxor"    -> a # b
    [] op = "vmornot"  -> a \/ ~b
    [] op = "vmnand"   -> ~(a /\ b)
    [] op = "vmnor"    -> ~(a \/ b)
    [] op = "vmxnor"   -> a = b
=============================================================================
