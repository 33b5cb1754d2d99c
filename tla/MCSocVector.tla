---------------------------- MODULE MCSocVector ----------------------------
(***************************************************************************)
(* Instances of SocVector for TLC: vector registers of four cells of two   *)
(* bits, that is of four narrow or two wide elements, and the programs of  *)
(* each configuration.                                                     *)
(***************************************************************************)
EXTENDS SocVectorRefines, SocVectorTimed, MCAsm

-----------------------------------------------------------------------------
(* Assembler for vector instructions. *)

V(op, vd, vs1, vs2) ==
  [op |-> op, rd |-> "x0", rs1 |-> "x0", rs2 |-> "x0", vd |-> vd, vs1 |-> vs1, vs2 |-> vs2,
   vm |-> TRUE, form |-> "vv", imm |-> 0, mop |-> "unit", lsmode |-> "normal", nf |-> 0]
Vx(op, vd, rs1, vs2) == [V(op, vd, 0, vs2) EXCEPT !.form = "vx", !.rs1 = rs1]
Vi(op, vd, imm, vs2) == [V(op, vd, 0, vs2) EXCEPT !.form = "vi", !.imm = imm]
Masked(i) == [i EXCEPT !.vm = FALSE]

\* vset* with element width w; vtype 2 is not supported.
Vsetvli(rd, rs1, w)   == [V("vsetvli", 0, 0, 0) EXCEPT !.rd = rd, !.rs1 = rs1, !.imm = w - 1]
Vsetivli(rd, avl, w)  == [V("vsetivli", 0, avl, 0) EXCEPT !.rd = rd, !.imm = w - 1]
Vsetvl(rd, rs1, rs2)  == [V("vsetvl", 0, 0, 0) EXCEPT !.rd = rd, !.rs1 = rs1, !.rs2 = rs2]
Vcpop(rd, vs2)        == [V("vcpop", 0, 0, vs2) EXCEPT !.rd = rd]

Vle(vd, rs1)          == [V("vload", vd, 0, 0) EXCEPT !.rs1 = rs1]
Vse(vs3, rs1)         == [V("vstore", vs3, 0, 0) EXCEPT !.rs1 = rs1]
Strided(i, rs2)       == [i EXCEPT !.mop = "strided", !.rs2 = rs2]
Indexed(i, vs2)       == [i EXCEPT !.mop = "indexed", !.vs2 = vs2]
Segments(i)           == [i EXCEPT !.nf = 1]
Whole(i)              == [i EXCEPT !.lsmode = "whole"]
FaultFirst(i)         == [i EXCEPT !.lsmode = "fof"]
ReadVl(rd)            == [V("csrr_vl", 0, 0, 0) EXCEPT !.rd = rd]
WriteVstart(rd, rs1)  == [V("csrrw_vstart", 0, 0, 0) EXCEPT !.rd = rd, !.rs1 = rs1]

-----------------------------------------------------------------------------
(* Arithmetic: dependent vector instructions mixed with scalar producers   *)
(* and consumers, changes of configuration and CSR accesses.               *)

Arithmetic ==
  { V("vadd", 1, 1, 1), Vx("vadd", 0, "x2", 1), Vi("vmul", 1, 3, 1), Masked(Vi("vadd", 1, 1, 1)),
    Vx("vmseq", 0, "x1", 1), Masked(Vx("vmerge", 1, "x1", 3)), V("vwmacc", 2, 1, 1),
    V("vredsum", 3, 1, 1), Masked(Vx("vslide1down", 3, "x2", 1)), V("vrgather", 3, 1, 1),
    V("vmand", 0, 0, 1), Vcpop("x2", 1),
    I("mul", "x2", "x1", "x1", 0),
    Vsetvli("x1", "x2", 1), Vsetvl("x2", "x1", "x0"), Vsetvli("x2", "x0", 2), Vsetivli("x0", 3, 1),
    Vsetvli("x1", "x1", 3),
    ReadVl("x2"), WriteVstart("x1", "x1") }

Second == { Vx("vadd", 1, "x2", 1), Vcpop("x1", 0),
            Vsetvli("x1", "x2", 2), Vsetvli("x0", "x0", 1) }

\* After an element-wise instruction that starts at vstart, one that cannot
\* start there may trap: its check reads a vstart that is about to be cleared.
MayTrapSpuriously(p, q, r) ==
  p.op = "csrrw_vstart" /\ q.op \in VArithOps /\ VCat(q) \notin AtomicCats /\ r.op = "vcpop"

MixedVectorCode ==
  { <<Li("x1", 2), Vsetivli("x2", 3, 1), V("vid", 1, 0, 0), c[1], c[2], c[3],
          Vi("vadd", 3, 1, 1), I("add", "x2", "x2", "x1", 0)>>
      : c \in {k \in Arithmetic \X Arithmetic \X Second : ~MayTrapSpuriously(k[1], k[2], k[3])} }

-----------------------------------------------------------------------------
(* Memory: vector loads and stores in all modes next to scalar ones that   *)
(* use the same addresses and the same port, a slow producer of an address *)
(* and register contents that the loads change.                            *)

Memory ==
  { Vle(1, "x1"), Masked(Vle(1, "x0")), Strided(Vle(2, "x0"), "x2"), Indexed(Vle(2, "x1"), 1),
    Segments(Vle(2, "x0")), Whole(Segments(Vle(2, "x1"))), FaultFirst(Vle(1, "x1")),
    Vse(1, "x1"), Masked(Strided(Vse(2, "x0"), "x1")), Strided(Vse(1, "x1"), "x0"),
    Segments(Vse(1, "x1")), Indexed(Vse(2, "x0"), 1), Whole(Vse(1, "x2")),
    Vx("vadd", 1, "x2", 1), Vsetivli("x0", 1, 2), WriteVstart("x0", "x1"), ReadVl("x2"),
    I("sw", "x0", "x1", "x2", 1), I("lw", "x2", "x1", "x0", 1), I("mul", "x1", "x1", "x2", 0) }

MemoryCode ==
  { <<Li("x1", 1), Vsetvli("x2", "x0", 2), V("vid", 1, 0, 0), Vx("vmseq", 0, "x1", 1),
          I("sw", "x0", "x1", "x1", 0), c[1], c[2], c[3], I("lw", "x2", "x0", "x0", 2)>>
      : c \in Memory \X Memory \X {Vle(3, "x2"), Vse(1, "x0"), I("sw", "x0", "x2", "x1", 0)} }

-----------------------------------------------------------------------------
(* Branches: vector instructions and vset* under and after branches of     *)
(* every prediction, loops that strip-mine a vector.                       *)

Branching ==
  { V("vadd", 1, 1, 1), Vx("vmul", 1, "x2", 1), Vsetvli("x1", "x1", 1), Vsetivli("x2", 1, 2),
    Vcpop("x1", 1), Vle(1, "x0"), Vse(1, "x2"),
    I("beq", "x0", "x1", "x2", 7), I("bne", "x0", "x1", "x0", 6), I("mul", "x2", "x1", "x1", 0),
    I("jalr", "x2", "x0", "x0", 6), WriteVstart("x0", "x2") }

BranchCode ==
  { <<Li("x1", 2), Vsetivli("x0", 3, 1), V("vid", 1, 0, 0), p, q, r, V("vadd", 1, 1, 1),
          I("addi", "x1", "x1", "x0", 1), Vi("vmul", 2, 3, 1)>>
      : p, q \in Branching,
        r \in {i \in Branching : i.op \notin {"mul", "jalr", "vload", "csrrw_vstart"}} }

ProgramsWithoutTraps == { Asm(c) : c \in MixedVectorCode \cup MemoryCode \cup BranchCode }

-----------------------------------------------------------------------------
(* Exceptions among vector instructions: environment calls, unsupported    *)
(* ones, fault-only-first loads that fault or trim vl.  What follows them  *)
(* in flight is memory accesses and scalar code; arithmetic and vset*      *)
(* behind an exception are the subject of a run of their own.              *)

VecHandler == << Csr("csrrs", "x1", "mepc", "x0"), I("addi", "x1", "x1", "x0", 1),
                 Csr("csrrw", "x0", "mepc", "x1"), I("mret", "x0", "x0", "x0", 0) >>

BeforeTrap == { V("vwmacc", 2, 1, 1), Vx("vmul", 1, "x2", 1), Vse(1, "x0"), Vcpop("x2", 1),
                I("div", "x2", "x2", "x1", 0), I("beq", "x0", "x1", "x2", 7) }
TrapsVec   == { I("ecall", "x0", "x0", "x0", 0), V("vreserved", 0, 0, 0), V("vwmacc", 1, 1, 1),
                FaultFirst(Vle(1, "x1")), FaultFirst(Vle(2, "x2")) }
AfterTrap  == { Vle(1, "x0"), Masked(Vse(1, "x0")), Strided(Vse(1, "x0"), "x2"),
                FaultFirst(Vle(1, "x2")), I("sw", "x0", "x0", "x2", 1),
                ReadVl("x2"), I("mul", "x2", "x1", "x1", 0) }
LastTrap   == { Vse(1, "x0"), FaultFirst(Vle(1, "x2")) }

\* A load that trims vl, and one behind it that has captured vl.
CapturesStaleVl(p, q) ==
  p.op = "vload" /\ p.lsmode = "fof" /\ p.rs1 = "x2" /\ q.op \in VMemOps

\* mtvec v = 0: no handler is installed.
TrapProgram(v, c) ==
  AsmWithHandler(<<CsrI("x0", "mtvec", v), Vsetvli("x1", "x0", 2), Li("x1", 7), Li("x2", 3),
                   V("vid", 1, 0, 0)>> \o c, 11, VecHandler)

TrapVecPrograms ==
  { TrapProgram(IF c[3].op = "mul" THEN 0 ELSE 11, c)
      : c \in {k \in BeforeTrap \X TrapsVec \X AfterTrap \X LastTrap :
                 \A i, j \in 2 .. 4 : i < j => ~CapturesStaleVl(k[i], k[j])} }

-----------------------------------------------------------------------------
(* Whole programs.                                                         *)

\* The strip-mined loop of AXPY: as many elements per round as vset* grants.
StripMine == Asm(<<
  Li("x1", 3),
  Vsetvli("x2", "x1", 2),
  Vle(1, "x0"),
  Vi("vadd", 1, 1, 1),
  V("vmul", 2, 1, 1),
  Vse(1, "x0"),
  I("sub", "x1", "x1", "x2", 0),
  I("bne", "x0", "x1", "x0", 1),
  Vcpop("x2", 2),
  I("sw", "x0", "x0", "x2", 3) >>)

\* More vector instructions than the queue holds, behind a slow operand.
FullQueue == Asm(<<
  Li("x1", 9), Vsetvli("x2", "x0", 1),
  I("div", "x1", "x1", "x2", 0),
  V("vmul", 1, 1, 1), V("vwmacc", 2, 1, 1), Vx("vadd", 1, "x1", 1), V("vadd", 2, 1, 1),
  Vse(2, "x0"), V("vredsum", 3, 1, 2), Vcpop("x2", 1),
  I("sw", "x0", "x1", "x2", 0),
  Vle(1, "x1"), Vx("vslide1down", 3, "x2", 1) >>)

\* Branches in flight keep the vector instructions out of the queue.
GatedQueue == Asm(<<
  Li("x1", 3), Vsetivli("x2", 2, 2),
  I("mul", "x1", "x1", "x2", 0),
  I("bne", "x0", "x1", "x2", 5),
  V("vid", 1, 0, 0),
  Vsetvli("x2", "x1", 1),
  V("vadd", 1, 1, 1),
  I("bne", "x0", "x1", "x0", 9),
  Vsetvli("x1", "x0", 2),
  Vx("vadd", 1, "x1", 1),
  Vse(1, "x0"),
  I("lw", "x2", "x0", "x0", 1) >>)

\* An interrupt handler that saves and uses a vector register, over scalar code.
VectorHandler == AsmWithHandler(
  EnableTimer \o << Li("x1", 1), I("mul", "x1", "x1", "x1", 0), I("bne", "x0", "x1", "x0", 10) >>,
  11, << Whole(Vse(1, "x0")), Vsetivli("x0", 2, 2), V("vid", 1, 0, 0), CsrI("x0", "mtimecmp", 9),
         I("mret", "x0", "x0", "x0", 0) >>)

VectorKernels == {StripMine, FullQueue, GatedQueue, VectorHandler}

AllVectorPrograms == ProgramsWithoutTraps \cup TrapVecPrograms \cup VectorKernels

-----------------------------------------------------------------------------
(* The programs of the runs that refute what comments in the code say.     *)

\* Arithmetic, or a change of configuration, behind an environment call that
\* a division keeps from the head of the ROB.
BehindTrap ==
  { TrapProgram(11, << I("div", "x2", "x2", "x1", 0), I("ecall", "x0", "x0", "x0", 0), i >>)
      : i \in {Vi("vadd", 1, 1, 1), Vx("vmul", 1, "x1", 1), Vsetivli("x0", 1, 1)} }

\* A store behind a load that trims vl.
StoreBehindTrim == { TrapProgram(11, << FaultFirst(Vle(2, "x2")), Vse(1, "x0") >>) }
=============================================================================
