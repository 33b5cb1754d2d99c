----------------------------- MODULE VecMemory -----------------------------
(***************************************************************************)
(* The way of data between the registers and a memory of words: byte lanes *)
(* of the scalar accesses, and the loops of the vector LSU on elements of  *)
(* any width (soc: axi_interconnect.h, vector_coprocessor.h).  A narrow    *)
(* store reads the word and writes it back.                                *)
(*                                                                         *)
(* The unit executes arithmetic (VecDatapath) or an access to memory, one  *)
(* element in each step; the port and the head of the ROB, which only      *)
(* decide when, are the subject of SocVector, and so is the trim of the    *)
(* fault-only-first loads.                                                 *)
(***************************************************************************)
EXTENDS VecMeaning

CONSTANTS
  MEM_WORDS,   \* words of data memory
  Accesses     \* accesses to memory: the unit, its memory fields, registers, memory

ASSUME MemoryAssumption == MEM_WORDS \in Nat \ {0}

VARIABLES
  dmem,      \* data memory
  lsu,       \* the fields of the unit that only accesses to memory use
  fld,       \* the field of the segment in course
  dmem_old   \* history: the memory before the instruction

memory == <<dmem, lsu, fld, dmem_old>>
mvars  == <<vars, memory>>

Memory == [0 .. MEM_WORDS - 1 -> Word]
MemBytes == 4 * MEM_WORDS

\* mode: elements, the bytes of a mask, or whole registers; nf: fields but one;
\* iw: width of an index; stride: in bytes.  The base address is u.s1.
LsuRs == [mode : {"normal", "mask", "whole"}, mop : {"unit", "strided", "indexed"},
          nf : 0 .. 7, iw : {1, 2, 4}, stride : Word]
NoAccess == [mode |-> "normal", mop |-> "unit", nf |-> 0, iw |-> 1, stride |-> 0]

ASSUME AccessesAssumption ==
  \A x \in Accesses : /\ x[1] \in VecRs /\ x[1].op \in MemOps /\ x[2] \in LsuRs
                      /\ x[3] \in VFile /\ x[4] \in Memory

-----------------------------------------------------------------------------
(* Byte lanes.  Addresses wrap around at the end of memory.                *)

WordIndex(ba) == (ba \div 4) % MEM_WORDS

\* The w bytes at address ba of one word of d.
Lane(d, ba, w) == Trunc(d[WordIndex(ba)] \div Shift(ba, 1), w)

\* Fault: the other bytes of the word are cleared.
Merged_clears(d, ba, w, x) == [d EXCEPT ![WordIndex(ba)] = Trunc(Trunc(x, w) * Shift(ba, 1), 4)]

\* The word with the w bytes at ba replaced; a part beyond its end is lost.
Merged(d, ba, w, x) ==
  [d EXCEPT ![WordIndex(ba)] = Trunc(@ + (Trunc(x, w) - Lane(d, ba, w)) * Shift(ba, 1), 4)]

\* Fault: no sign.
dmem_load_unsigned(d, addr, f3) ==
  CASE f3 \in {"lb", "lbu"} -> Lane(d, addr, 1)
    [] f3 \in {"lh", "lhu"} -> Lane(d, addr, 2)
    [] f3 = "lw"            -> d[WordIndex(addr)]

dmem_load(d, addr, f3) ==
  CASE f3 = "lb"  -> Trunc(vsext(Lane(d, addr, 1), 1), 4)
    [] f3 = "lh"  -> Trunc(vsext(Lane(d, addr, 2), 2), 4)
    [] f3 = "lw"  -> d[WordIndex(addr)]
    [] f3 = "lbu" -> Lane(d, addr, 1)
    [] f3 = "lhu" -> Lane(d, addr, 2)

dmem_store(d, addr, x, f3) ==
  CASE f3 = "sw" -> [d EXCEPT ![WordIndex(addr)] = x]
    [] f3 = "sh" -> Merged(d, addr, 2, x)
    [] f3 = "sb" -> Merged(d, addr, 1, x)

-----------------------------------------------------------------------------
(* The loops of the vector LSU.                                            *)

IsMem    == u.op \in MemOps
Field    == (u.vd + fld) % NVREGS
Mode(md) == ~done /\ IsMem /\ lsu.mode = md

\* Data from address ba to element i of width w of register r, or back.
Transfer(r, i, w, ba) ==
  IF u.op = "vload"
  THEN vregs' = vreg_set(vregs, r, i, w, Lane(dmem, ba, w)) /\ UNCHANGED dmem
  ELSE /\ dmem' = IF w = 4 THEN [dmem EXCEPT ![WordIndex(ba)] = vreg_get(vregs, r, i, w)]
                  ELSE Merged(dmem, ba, w, vreg_get(vregs, r, i, w))
       /\ UNCHANGED vregs

LsuFrame == UNCHANGED <<u, src, acc, first, old, lsu, dmem_old>>

\* Where element e goes on: the next one, the next field or the end.
Advance(last) ==
  IF ~last            THEN e' = e + 1 /\ UNCHANGED <<fld, done>>
  ELSE IF fld < lsu.nf THEN e' = 0 /\ fld' = fld + 1 /\ UNCHANGED done
  ELSE                      done' = TRUE /\ UNCHANGED <<e, fld>>

\* Whole registers: word by word, whatever vl, mask and width are.
MoveWord ==
  /\ Mode("whole")
  /\ LET ba == Trunc(u.s1 + (fld * LANES + e) * 4, 4)
     IN IF u.op = "vload"
        THEN vregs' = [vregs EXCEPT ![Field * LANES + e] = dmem[WordIndex(ba)]] /\ UNCHANGED dmem
        ELSE dmem' = [dmem EXCEPT ![WordIndex(ba)] = vregs[Field * LANES + e]] /\ UNCHANGED vregs
  /\ Advance(e + 1 = LANES)
  /\ LsuFrame

\* The bytes that hold the mask of vl elements.
MaskBytes == (u.vl + BYTE - 1) \div BYTE

MoveMaskByte ==
  /\ Mode("mask") /\ e < MaskBytes
  /\ Transfer(u.vd, e, 1, Trunc(u.s1 + e, 4))
  /\ IF e + 1 < MaskBytes THEN e' = e + 1 /\ UNCHANGED done ELSE done' = TRUE /\ UNCHANGED e
  /\ UNCHANGED fld /\ LsuFrame

NoMaskBytes ==
  /\ Mode("mask") /\ e >= MaskBytes
  /\ done' = TRUE
  /\ UNCHANGED <<vregs, dmem, e, fld>> /\ LsuFrame

\* Fault: a segment is as long as an element.
Offset_element(i, l, r, k) == k * i.w

\* Where segment k starts, from the base, for access i, l with registers r.
Offset(i, l, r, k) ==
  CASE l.mop = "indexed" -> vreg_get(r, i.vs2, k, l.iw)
    [] l.mop = "strided" -> k * l.stride
    [] l.mop = "unit"    -> k * (l.nf + 1) * i.w

ElementMoves == e >= u.vstart /\ vec_elem_active(e)

MoveElement ==
  /\ Mode("normal") /\ e < u.vl /\ ElementMoves
  /\ Transfer(Field, e, u.w, Trunc(u.s1 + Offset(u, lsu, vregs, e) + fld * u.w, 4))
  /\ e' = e + 1
  /\ UNCHANGED <<fld, done>> /\ LsuFrame

PassElement ==
  /\ Mode("normal") /\ e < u.vl /\ ~ElementMoves
  /\ e' = e + 1
  /\ UNCHANGED <<vregs, dmem, fld, done>> /\ LsuFrame

EndOfField ==
  /\ Mode("normal") /\ e >= u.vl
  /\ Advance(TRUE)
  /\ UNCHANGED <<vregs, dmem>> /\ LsuFrame

Access == MoveWord \/ MoveMaskByte \/ NoMaskBytes \/ MoveElement \/ PassElement \/ EndOfField

-----------------------------------------------------------------------------
MInit ==
  \/ /\ Init
     /\ lsu = NoAccess /\ fld = 0
     /\ dmem = [k \in 0 .. MEM_WORDS - 1 |-> 0] /\ dmem_old = dmem
  \/ \E x \in Accesses :
       /\ u = x[1] /\ lsu = x[2]
       /\ vregs = x[3] /\ old = x[3] /\ dmem = x[4] /\ dmem_old = x[4]
       /\ e = 0 /\ fld = 0 /\ src = <<>> /\ acc = 0 /\ first = Values(4) - 1 /\ done = FALSE

MNext ==
  \/ ~IsMem /\ Next /\ UNCHANGED memory
  \/ Access

MSpec == MInit /\ [][MNext]_mvars

\* Types: the unit, its registers, and memory (VecRs, soc_state.h).
MemoryTypeOK == DatapathTypeOK /\ dmem \in Memory /\ lsu \in LsuRs /\ fld \in 0 .. lsu.nf

-----------------------------------------------------------------------------
(* What it promises: memory is an array of bytes, as the one that the      *)
(* SystemC description really has (memory.h).                              *)

Bytes(d) == [b \in 0 .. MemBytes - 1 |-> Lane(d, b, 1)]
RegBytes(r) == [b \in 0 .. NVREGS * VLENB - 1 |-> vreg_get(r, b \div VLENB, b % VLENB, 1)]

\* A read and a write of n bytes, little-endian.
BytesRead(m, addr, n) == MapThenSumSet(LAMBDA k : m[addr + k] * 2 ^ Bits(k), 0 .. n - 1)
BytesWritten(m, addr, x, n) ==
  [b \in DOMAIN m |-> IF b \in addr .. addr + n - 1 THEN Trunc(x \div 2 ^ Bits(b - addr), 1) ELSE m[b]]

Width(f3) == CASE f3 \in {"lb", "lbu", "sb"} -> 1 [] f3 \in {"lh", "lhu", "sh"} -> 2 [] OTHER -> 4
WithinWord(addr, n) == (addr % 4) + n <= 4

\* Scalar accesses of every width, at every address where they do not cross a
\* word: a load extends the bytes that are there, and a store changes its own
\* and no other (dmem_load and dmem_store, read-modify-write of a word).
ScalarLanes ==
  done /\ IsMem =>
    \A addr \in 0 .. MemBytes - 1 :
      /\ \A f3 \in {"lb", "lh", "lw", "lbu", "lhu"} : WithinWord(addr, Width(f3)) =>
           LET x == BytesRead(Bytes(dmem), addr, Width(f3))
           IN dmem_load(dmem, addr, f3) =
                IF f3 \in {"lb", "lh"} THEN Trunc(vsext(x, Width(f3)), 4) ELSE x
      /\ \A f3 \in {"sb", "sh", "sw"}, x \in {0, 27, 201} : WithinWord(addr, Width(f3)) =>
           Bytes(dmem_store(dmem, addr, x, f3)) = BytesWritten(Bytes(dmem), addr, x, Width(f3))

\* The bytes an access moves: <<byte of the register file, byte of memory>>.
\* Whole registers and masks are stretches of bytes; element k of field f is at
\* the place k of register vd + f, and in memory after the fields before it.
MovedBytes ==
  LET place(f, k, j) == ((u.vd + f) % NVREGS) * VLENB + k * u.w + j
      start(k) == CASE lsu.mop = "unit"    -> k * (lsu.nf + 1) * u.w
                    [] lsu.mop = "strided" -> k * lsu.stride
                    [] lsu.mop = "indexed" -> BytesRead(RegBytes(old), u.vs2 * VLENB + k * lsu.iw, lsu.iw)
      at(b)    == Trunc(u.s1 + b, 4) % MemBytes
  IN CASE lsu.mode = "whole" ->
            {<<(u.vd * VLENB + b) % (NVREGS * VLENB), at(b)>> : b \in 0 .. (lsu.nf + 1) * VLENB - 1}
       [] lsu.mode = "mask" ->
            {<<u.vd * VLENB + b, at(b)>> : b \in {k \div BYTE : k \in 0 .. u.vl - 1}}
       [] lsu.mode = "normal" ->
            {<<place(f, k, j), at(start(k) + f * u.w + j)>> :
               f \in 0 .. lsu.nf, k \in Active(u, old), j \in 0 .. u.w - 1}

\* A completed access has moved these bytes and changed no other, whatever the
\* width of the elements, the fields of the segments, the mask and the start:
\* a byte that is written several times has one of the values, and what is
\* read is never changed (the loops of vector_coprocessor_tick).
MovesItsBytes ==
  done /\ IsMem =>
    LET load     == u.op = "vload"
        now      == IF load THEN RegBytes(vregs) ELSE Bytes(dmem)
        before   == IF load THEN RegBytes(old) ELSE Bytes(dmem_old)
        read     == IF load THEN Bytes(dmem_old) ELSE RegBytes(old)
        moved(b) == {read[p[IF load THEN 2 ELSE 1]] : p \in {q \in MovedBytes : q[IF load THEN 1 ELSE 2] = b}}
    IN /\ IF load THEN dmem = dmem_old ELSE vregs = old
       /\ \A b \in DOMAIN now : now[b] \in IF moved(b) = {} THEN {before[b]} ELSE moved(b)
=============================================================================
