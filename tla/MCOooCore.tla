----------------------------- MODULE MCOooCore -----------------------------
(***************************************************************************)
(* Programs for the earlier out-of-order core.                             *)
(***************************************************************************)
EXTENDS OooCoreRefines, MCAsm, TLC

MCVRegs == 0 .. 2

\* Vector instructions, and vset* (imm: the vtype; 2 and 6 are supported).
V(op, vd, vs2, vs1) == I(op, "x0", "x0", "x0", 0) @@ [vd |-> vd, vs1 |-> vs1, vs2 |-> vs2]
Vle(vd, rs1)        == [V("vle32", vd, 0, 0) EXCEPT !.rs1 = rs1]
Vse(vs3, rs1)       == [V("vse32", vs3, 0, 0) EXCEPT !.rs1 = rs1]
Vsetvli(rd, rs1, t) == I("vsetvli", rd, rs1, "x0", t)
Vsetvl(rd, rs1, rs2) == I("vsetvl", rd, rs1, rs2, 0)
Vsetivli(rd, avl, t) == I("vsetivli", rd, "x0", "x0", t) @@ [vs1 |-> avl]
ReadCfg(rd, c)      == Csr("csrrs", rd, c, "x0")

-----------------------------------------------------------------------------
(* Every two instructions of all the units and a third that depends on     *)
(* them, behind a set-up that fills memory and a vector register.          *)

SetUp == << Li("x1", 3), I("sw", "x0", "x0", "x1", 1), Vsetivli("x0", 2, 2), Vle(1, "x0") >>

Scalars ==
  { I("addi", "x1", "x1", "x0", 1), I("div", "x2", "x1", "x2", 0), I("mul", "x1", "x1", "x2", 0),
    I("lw", "x1", "x0", "x0", 1), I("sw", "x0", "x0", "x1", 0),
    I("bne", "x0", "x1", "x2", 8), I("jalr", "x2", "x1", "x0", 6),
    Csr("csrrw", "x1", "mscratch", "x1"), I("fmv_w_x", "f0", "x1", "x0", 0) }
Vectors ==
  { V("vadd", 1, 1, 1), V("vmul", 2, 1, 1), V("vsub", 1, 2, 1), Vle(2, "x1"), Vse(1, "x1"),
    Vse(2, "x0"), Vsetvli("x2", "x1", 2), Vsetvl("x1", "x2", "x1"), Vsetvli("x1", "x0", 6),
    Vsetvli("x0", "x0", 2), ReadCfg("x2", "vl"), I("illegal", "x0", "x0", "x0", 0) }

\* A read of vl or vtype with a vset* behind it, and an effect at the head of
\* the ROB behind an environment call, are the subject of ReadsConfigInOrder
\* and of the README: the core does not implement the machine there.
ReadsConfig(i) == i.op \in CsrOps /\ i.csr \in {"vl", "vtype"}
Overtaken(p, q, r) ==
  \/ ReadsConfig(p) /\ {q.op, r.op} \cap VSetOps # {}
  \/ ReadsConfig(q) /\ r.op \in VSetOps

Dependents == { V("vmul", 2, 1, 1), V("vadd", 1, 2, 2), Vle(2, "x2"), Vse(1, "x1"),
                Vsetvl("x1", "x2", "x1"), Vsetivli("x2", 1, 1), ReadCfg("x2", "vl"),
                I("sub", "x1", "x2", "x1", 0), I("beq", "x0", "x1", "x2", 8) }

Mixed ==
  { Asm(SetUp \o c \o << Vse(2, "x0") >>) :
      c \in {k \in (Scalars \cup Vectors) \X (Scalars \cup Vectors) \X Dependents :
               ~Overtaken(k[1], k[2], k[3])} }

-----------------------------------------------------------------------------
(* Whole programs.                                                         *)

\* AXPY, strip-mined: as many words per round as vset* grants.
Axpy == Asm(<<
  Li("x1", 3), I("sw", "x0", "x0", "x1", 2),
  Vsetvli("x2", "x1", 2),
  Vle(0, "x0"), V("vmul", 1, 0, 0), V("vadd", 1, 1, 0), Vse(1, "x0"),
  I("sub", "x1", "x1", "x2", 0),
  I("bne", "x0", "x1", "x0", 2),
  ReadCfg("x2", "vtype"),
  I("fmv_w_x", "f0", "x2", "x0", 0), Fma("f0", "f0", "f0", "f0"), I("fdiv", "f0", "f0", "f0", 0),
  I("fadd", "f0", "f0", "f0", 0), I("fsw", "x0", "x0", "f0", 3) >>)

\* Calls, a return and an environment call with scalar code behind it.
CallAndHalt == Asm(<<
  Li("x1", 2), I("jal", "x2", "x0", "x0", 5),
  I("flw", "f0", "x0", "x0", 0), I("ecall", "x0", "x0", "x0", 0), I("addi", "x1", "x1", "x0", 1),
  I("div", "x1", "x1", "x1", 0), I("sw", "x0", "x0", "x1", 0), I("fence", "x0", "x0", "x0", 0),
  I("jalr", "x0", "x2", "x0", 0) >>)

\* An environment call behind a division, with vector arithmetic behind it.
HaltBehindDiv == Asm(SetUp \o <<
  I("div", "x2", "x1", "x1", 0), I("ebreak", "x0", "x0", "x0", 0), V("vadd", 1, 1, 1),
  Vsetivli("x0", 1, 2), I("lw", "x1", "x0", "x0", 1) >>)

OooPrograms == Mixed \cup {Axpy, CallAndHalt, HaltBehindDiv}

\* vl is read behind a division, with a vset* behind the read.
ReadBeforeVset ==
  { Asm(<< Vsetivli("x0", 1, 2), Li("x1", 3), I("div", "x1", "x1", "x1", 0),
           ReadCfg("x2", c), Vsetivli("x0", 2, 6) >>) : c \in {"vl", "vtype"} }
=============================================================================
