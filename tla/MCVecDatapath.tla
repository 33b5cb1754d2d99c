--------------------------- MODULE MCVecDatapath ---------------------------
(***************************************************************************)
(* Instances of VecMemory, and so of VecDatapath, for TLC: bytes of two bits, so that elements   *)
(* have 2, 4 or 8; registers of two words, so that they hold 8, 4 or 2     *)
(* elements; six registers.  Immediates have one bit more than the index   *)
(* of an element, and are sign-extended, as in the code.                   *)
(***************************************************************************)
EXTENDS VecMemory, SequencesExt

Instruction(op, form, vd, vs1, vs2) ==
  [op |-> op, form |-> form, vd |-> vd, vs1 |-> vs1, vs2 |-> vs2, vm |-> TRUE, s1 |-> 0,
   vl |-> 0, vstart |-> 0, w |-> 1]

\* A register file from the pairs of words of its registers.
File(r0, r1, r2, r3, r4, r5) == [k \in 0 .. 11 |-> (r0 \o r1 \o r2 \o r3 \o r4 \o r5)[k + 1]]

\* The word whose elements of width w are the numbers s.
Packed(s, w) == FoldLeftDomain(LAMBDA v, k : v + Trunc(s[k], w) * 2 ^ Bits((k - 1) * w), 0, s)

Extremes(n) == {0, 1, n \div 2 - 1, n \div 2, n \div 2 + 1, n - 1}

-----------------------------------------------------------------------------
(* Arithmetic: every operation at every width, each element of vs2 against *)
(* a scalar.  Elements of one and two bytes take every value; words and    *)
(* wide operands, the values next to a bound.                              *)

ScalarOps(w) ==
  AluOps \cup CmpOps \cup (IF w = 4 THEN {} ELSE WideOps \cup NarrowOps)

Sources(w) ==
  CASE w = 1 -> {<<228, 228>>}
    [] w = 2 -> {<<Packed(<<k, k + 1>>, 2), Packed(<<k + 2, k + 3>>, 2)>> : k \in {0, 4, 8, 12}}
    [] w = 4 -> {<<k, l>> : k \in {0, 127, 255}, l \in {1, 128, 129, 254}}

\* Sources of width 2 * w: in 2, 3 their group.
WideSources(w) ==
  IF w = 1 THEN {<<<<16, 84>>, <<186, 254>>>>, <<<<118, 152>>, <<220, 50>>>>}
           ELSE {<<<<0, 127>>, <<128, 255>>>>, <<<<7, 8>>, <<120, 136>>>>, <<<<247, 248>>, <<15, 16>>>>}

Scalars(w) == IF w = 4 THEN Extremes(256) \cup {2, 5, 250} ELSE 0 .. Values(w) - 1

\* Saturating sums of words wrap around in the code: they are left to a run of their own.
WordSumOverflows(op, k, b) ==
  LET x == vsext(k, 4)
      y == vsext(b, 4)
  IN (op = "vsadd" /\ x + y \notin MinS(4) .. MaxS(4)) \/ (op = "vssub" /\ x - y \notin MinS(4) .. MaxS(4))

TakesPair(op) == op \in WideSrcOps \cup NarrowOps

ScalarCase(op, w, b, v2, v3) ==
  <<[Instruction(op, "vx", 4, 0, 2) EXCEPT !.w = w, !.s1 = b, !.vl = NElems(w)],
    File(<<0, 0>>, <<0, 0>>, v2, v3, <<156, 37>>, <<201, 78>>)>>

ArithmeticCases ==
  UNION {
    {ScalarCase(op, w, b, v, <<0, 0>>) :
       op \in {o \in ScalarOps(w) : ~TakesPair(o)}, b \in Scalars(w), v \in Sources(w)}
    \cup
    {ScalarCase(op, w, b, p[1], p[2]) :
       op \in {o \in ScalarOps(w) : TakesPair(o)}, b \in Scalars(w), p \in WideSources(w)}
    : w \in {1, 2, 4}}

WrapsWord(c) ==
  c[1].w = 4 /\ \E k \in 0 .. 1 : WordSumOverflows(c[1].op, c[2][4 + k], c[1].s1)

SaturatingWords == {c \in ArithmeticCases : WrapsWord(c)}

-----------------------------------------------------------------------------
(* Loops: each kind of instruction on registers that may overlap, masked   *)
(* or not, with short and empty vectors and a start other than zero.       *)

LoopFiles ==
  { File(<<173, 90>>, <<54, 201>>, <<228, 147>>, <<27, 108>>, <<178, 61>>, <<99, 200>>),
    File(<<82, 255>>, <<129, 16>>, <<7, 248>>, <<240, 85>>, <<0, 255>>, <<170, 3>>) }

Vv == {"vsub", "vmslt", "vmerge", "vwaddu", "vwadd_w", "vwmacc", "vnsrl"} \cup RedOps
        \cup {"vrgather", "vcompress", "vmandnot", "vmxnor"}
Vx == {"vadd", "vmerge", "vwmaccus", "vnclip", "vrgather", "vslideup", "vslidedown",
       "vslide1up", "vslide1down"}
Vi == {"vmerge", "vrgather", "vslideup", "vslidedown"}
NoOperand == VidOps \cup XresOps

\* Overlaps whose result nothing defines; the code does not refuse them.
Reserved(i) ==
  LET cat == Cat(i.op)
  IN \/ ~i.vm /\ i.vd = 0 /\ cat \notin {"cmp", "red"}
     \/ cat = "wide" /\ i.vs2 = IF i.op \in WideSrcOps THEN i.vd + 1 ELSE i.vd
     \/ cat = "wide" /\ i.op \in WideSrcOps /\ i.vs2 % 2 = 1
     \/ cat = "wide" /\ i.form = "vv" /\ i.vs1 = i.vd
     \/ cat = "narrow" /\ i.vd = i.vs2 + 1
     \/ i.op = "vcompress" /\ i.vd = i.vs1
     \/ i.op = "viota" /\ i.vd = i.vs2

\* vcompress and the mask logic have no masked form.
NoMask == {"vcompress", "vmandnot", "vmxnor"}

\* Registers: apart from each other, or the same, or the second of a group.
Places == {<<2, 1, 4>>, <<2, 1, 2>>, <<2, 2, 1>>, <<2, 1, 3>>, <<2, 3, 4>>, <<3, 1, 2>>, <<0, 1, 2>>}

Spans(w) == {<<0, NElems(w)>>, <<1, NElems(w)>>, <<0, NElems(w) - 1>>, <<1, 0>>}

Shapes ==
  {<<op, "vv", 0>> : op \in Vv \cup NoOperand} \cup (Vx \X {"vx"} \X {0, 1, 3, 30, 200})
    \cup (Vi \X {"vi"} \X {2, 7, 249})

\* The sum of a slide down's offset and an element wraps around in the code:
\* left to a run of its own.
SlideWraps(i) == i.op = "vslidedown" /\ i.s1 > Values(4) - VLENB

LoopInstructions ==
  {[Instruction(s[1], s[2], p[1], p[2], p[3]) EXCEPT
      !.s1 = s[3], !.w = w, !.vm = vm, !.vstart = v[1], !.vl = v[2]]
   : <<s, p, vm, w, v>> \in Shapes \X Places \X BOOLEAN \X {1} \X Spans(1)
                             \cup Shapes \X Places \X BOOLEAN \X {2} \X Spans(2)}

LoopCases ==
  {j \in LoopInstructions : Supported(j) /\ ~Reserved(j) /\ (j.op \in NoMask => j.vm)} \X LoopFiles

DatapathCases ==
  {c \in ArithmeticCases : ~WrapsWord(c)} \cup {c \in LoopCases : ~SlideWraps(c[1])}

WrappingSlides == {c \in LoopCases : SlideWraps(c[1])}

-----------------------------------------------------------------------------
(* Accesses to memory: every mode and width, segments of up to three       *)
(* fields, masks, short vectors, strides of both signs and of zero.        *)

MemRegs == File(<<173, 90>>, <<54, 201>>, <<228, 147>>, <<27, 108>>, <<178, 61>>, <<99, 200>>)
EvenRegs == File(<<82, 255>>, <<129, 16>>, <<136, 4>>, <<0, 12>>, <<0, 255>>, <<170, 3>>)
MemWords == [k \in 0 .. 3 |-> <<27, 198, 141, 114>>[k + 1]]

MemInstruction(op, vd, w, vm, s1, v) ==
  [Instruction(op, "vx", vd, 0, 2) EXCEPT
     !.w = w, !.vm = vm, !.s1 = s1, !.vstart = v[1], !.vl = v[2]]

\* Elements of width w: <<mop, iw, stride>>.
Addressings(w) ==
  {<<"unit", 1, 0>>} \cup {<<"strided", 1, d>> : d \in {0, w, 3 * w, 256 - w}}
    \cup {<<"indexed", iw, 0>> : iw \in {1, 2, 4}}

MemSpans == {<<0, 8>>, <<1, 4>>, <<0, 2>>, <<0, 0>>}

ElementAccesses ==
  UNION {
    {<<MemInstruction(op, vd, w, vm, s1, v),
       [mode |-> "normal", mop |-> a[1], nf |-> nf, iw |-> a[2], stride |-> a[3]], r>>
     : <<op, vd, vm, s1, v, a, nf, r>> \in
         MemOps \X {2, 5} \X BOOLEAN \X {w, 12} \X MemSpans \X Addressings(w) \X {0, 2}
           \X {MemRegs, EvenRegs}}
    : w \in {1, 2, 4}}

\* Words are aligned, and no element crosses a word of memory.
Aligned(x) ==
  \A k \in 0 .. x[1].vl - 1 :
    LET a == x[1].s1 + Offset(x[1], x[2], x[3], k)
    IN IF x[1].w = 4 THEN a % 4 = 0 ELSE \A f \in 0 .. x[2].nf : WithinWord(a + f * x[1].w, x[1].w)

\* The registers exist and are apart: elements may fill several, but not those of
\* another field, nor the mask; a load may overwrite its indices only in place.
Apart(x) ==
  LET i      == x[1]
      fields == {(i.vd + f) % NVREGS : f \in 0 .. x[2].nf}
      long   == i.vl * i.w > VLENB
      used   == IF long THEN i.vd .. i.vd + (i.vl * i.w - 1) \div VLENB ELSE fields
  IN /\ used \subseteq VRegs
     /\ long => x[2].nf = 0
     /\ i.vm \/ 0 \notin used
     /\ x[2].mop = "indexed" => /\ i.vl * x[2].iw <= (NVREGS - i.vs2) * VLENB
                               /\ \/ used \cap (i.vs2 .. i.vs2 + (i.vl * x[2].iw - 1) \div VLENB) = {}
                                  \/ x[2].iw = i.w /\ i.vd = i.vs2 /\ x[2].nf = 0

OtherAccesses ==
  {<<MemInstruction(op, vd, 1, TRUE, s1, v),
     [mode |-> mode, mop |-> "unit", nf |-> nf, iw |-> 1, stride |-> 0], r>>
   : <<op, vd, mode, s1, v, nf, r>> \in
       MemOps \X {0, 5} \X {"mask", "whole"} \X {4, 7, 12} \X {<<0, 8>>, <<0, 5>>, <<0, 0>>} \X (0 .. 1)
         \X {MemRegs}}

MemoryAccesses ==
  {x \o <<MemWords>> :
     x \in {y \in ElementAccesses : Aligned(y) /\ Apart(y)}
           \cup {y \in OtherAccesses : IF y[2].mode = "whole" THEN y[1].s1 # 7 ELSE y[2].nf = 0}}
NoAccesses == {}
=============================================================================
