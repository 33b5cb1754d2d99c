------------------------------ MODULE IsaVector ------------------------------
(***************************************************************************)
(* The architectural machine with the vector extension: every vector       *)
(* instruction, too, is executed completely and in program order.  There   *)
(* is no queue, no element counter, no captured vl: an instruction sees    *)
(* the configuration that the instructions before it left.                 *)
(***************************************************************************)
EXTENDS IsaMachine, VecIsa

VARIABLES vregs,             \* the vector register file
          vl, vtype, vstart  \* the vector CSRs

vcsrs == <<vl, vtype, vstart>>
vvars == <<vars, vregs, vcsrs>>

VInit ==
  /\ prog \in [Word -> Instr \cup VInstr]
  /\ pc = 0
  /\ regs = [r \in Regs |-> 0]
  /\ mem = [a \in 0 .. MemWords - 1 |-> 0]
  /\ out = <<>>
  /\ csr = CsrReset
  /\ mtip = FALSE
  /\ halted = FALSE
  /\ vregs = [c \in Cells |-> 0]
  /\ vl = 0 /\ vtype = NoConfig /\ vstart = 0

-----------------------------------------------------------------------------
(* The value of x[rs1] or the immediate, for the .vx and .vi forms. *)
ScalarOperand == IF instr.form = "vx" THEN s1 ELSE instr.imm

VSet ==
  /\ instr.op \in VSetOps
  /\ vtype' = VSetType(instr, s2)
  /\ vl' = VSetLength(instr, vtype', s1, vl)
  /\ vstart' = 0
  /\ regs' = Written(instr.rd, vl')
  /\ pc' = NextPc(pc)
  /\ UNCHANGED <<mem, out, csr, mtip, halted, vregs>>

VArith ==
  /\ instr.op \in VArithOps /\ VLegal(instr, vtype, vstart)
  /\ vregs' = vec_arith_compute(instr, vregs, vl, vstart, vtype.sew, ScalarOperand)
  /\ regs' = IF VCat(instr) = "xres" THEN Written(instr.rd, VXResult(instr, vregs, vl)) ELSE regs
  /\ vstart' = 0
  /\ pc' = NextPc(pc)
  /\ UNCHANGED <<mem, out, csr, mtip, halted, vl, vtype>>

\* The elements a load or store moves, in each of its fields.
Moved(n) == {e \in vstart .. n - 1 : vec_elem_active(instr, e, vregs)}

\* The elements of a whole-register access, which knows no vl and no mask.
Elements(n) == IF instr.lsmode = "whole" THEN 0 .. WordsPerReg - 1 ELSE Moved(n)

Address(e, f) ==
  IF instr.lsmode = "whole" THEN Plus(s1, f * WordsPerReg + e)
  ELSE VAddr(instr, s1, s2, e, f, vregs)

\* How far a fault-only-first load gets.
Reach == IF instr.lsmode = "fof" THEN FofTrim(s1, vl) ELSE vl

Faults == instr.op = "vload" /\ instr.lsmode = "fof" /\ vl > 0 /\ Reach = 0

LoadField(vr, f) ==
  vreg_set(vr, VField(instr, f), 2, Elements(Reach), LAMBDA e : mem[MemIndex(Address(e, f))])

VLoad ==
  /\ instr.op = "vload" /\ ~Faults
  /\ vregs' = IF instr.nf = 0 THEN LoadField(vregs, 0) ELSE LoadField(LoadField(vregs, 0), 1)
  /\ vl' = Reach
  /\ vstart' = 0
  /\ pc' = NextPc(pc)
  /\ UNCHANGED <<regs, mem, out, csr, mtip, halted, vtype>>

\* Where several elements go to one address the last of them stays.
VStore ==
  /\ instr.op = "vstore"
  /\ LET all == {<<f, e>> : f \in 0 .. instr.nf, e \in Elements(vl)}
         To(a) == {w \in all : MemIndex(Address(w[2], w[1])) = a}
         Last(W) == CHOOSE w \in W : \A u \in W : u[1] < w[1] \/ (u[1] = w[1] /\ u[2] <= w[2])
     IN mem' = [a \in DOMAIN mem |->
                  IF To(a) = {} THEN mem[a]
                  ELSE vreg_get(vregs, VField(instr, Last(To(a))[1]), Last(To(a))[2], 2)]
  /\ vstart' = 0
  /\ pc' = NextPc(pc)
  /\ UNCHANGED <<regs, out, csr, mtip, halted, vregs, vl, vtype>>

VTrap ==
  /\ \/ instr.op \in VArithOps \cup {"vreserved"} /\ ~VLegal(instr, vtype, vstart)
     \/ Faults
  /\ Raise(IF instr.op = "vload" THEN CAUSE_LOAD_FAULT ELSE CAUSE_ILLEGAL)
  /\ UNCHANGED <<regs, mem, out, mtip, vregs, vcsrs>>

\* vl is read, vstart is swapped; only the bits a vstart can have are kept.
VCsrAccess ==
  /\ instr.op \in VCsrOps
  /\ regs' = Written(instr.rd, IF instr.op = "csrr_vl" THEN vl ELSE vstart)
  /\ vstart' = IF instr.op = "csrr_vl" THEN vstart ELSE s1 % CELLS
  /\ pc' = NextPc(pc)
  /\ UNCHANGED <<mem, out, csr, mtip, halted, vregs, vl, vtype>>

VStep == VSet \/ VArith \/ VLoad \/ VStore \/ VTrap \/ VCsrAccess

VNext ==
  /\ ~halted
  /\ \/ VStep
     \/ (Step \/ Interrupt \/ TimerFires \/ Stop) /\ UNCHANGED <<vregs, vcsrs>>
  /\ UNCHANGED prog

VSpec == VInit /\ [][VNext]_vvars
=============================================================================
