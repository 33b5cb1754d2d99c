------------------------------- MODULE OooIsa -------------------------------
(***************************************************************************)
(* What the earlier out-of-order core promises: a machine that executes    *)
(* one instruction at a time.  An environment call ends the program, there *)
(* are no traps, and what it does not know is skipped.                     *)
(***************************************************************************)
EXTENDS OooOps

CONSTANT Programs    \* the programs it may be given

VARIABLES prog, pc, regs, mem, csr, vregs, vl, vtype, halted

isaVars == <<prog, pc, regs, mem, csr, vregs, vl, vtype, halted>>
vector  == <<vregs, vl, vtype>>

Init ==
  /\ prog \in Programs
  /\ pc = 0 /\ halted = FALSE
  /\ regs = [r \in Regs |-> 0]
  /\ mem = [a \in 0 .. MemWords - 1 |-> 0]
  /\ csr = [c \in MCsrs |-> 0]
  /\ vregs = [v \in VRegs |-> [l \in Lanes |-> 0]]
  /\ vl = 0 /\ vtype = VILL

instr == prog[pc]
s1    == regs[instr.rs1]
s2    == regs[instr.rs2]

Write(r, v) == regs' = IF r = X0 THEN regs ELSE [regs EXCEPT ![r] = v]
GoOn        == pc' = NextPc(pc) /\ UNCHANGED halted

Value ==
  CASE instr.op = "lui"     -> instr.imm
    [] instr.op = "addi"    -> alu_compute(instr, s1, instr.imm)
    [] instr.op \in AluOps \ {"addi"} -> alu_compute(instr, s1, s2)
    [] instr.op \in MdOps   -> md_compute(instr, s1, s2)
    [] instr.op \in FpuOps  -> fpu_compute(instr, s1, s2, regs[instr.rs3])
    [] instr.op \in LoadOps -> mem[MemIndex(Plus(s1, instr.imm))]

Compute ==
  /\ instr.op \in AluOps \cup MdOps \cup FpuOps \cup LoadOps \cup {"lui"}
  /\ Write(instr.rd, Value)
  /\ GoOn
  /\ UNCHANGED <<mem, csr, vector>>

Jump ==
  /\ instr.op \in {"jal", "jalr"} \cup BranchOps
  /\ pc' = CASE instr.op = "jal"  -> instr.imm
             [] instr.op = "jalr" -> Plus(s1, instr.imm)
             [] OTHER -> IF branch_taken(instr, s1, s2) THEN instr.imm ELSE NextPc(pc)
  /\ IF instr.op \in BranchOps THEN UNCHANGED regs ELSE Write(instr.rd, NextPc(pc))
  /\ UNCHANGED <<mem, csr, vector, halted>>

Store ==
  /\ instr.op \in StoreOps
  /\ mem' = [mem EXCEPT ![MemIndex(Plus(s1, instr.imm))] = s2]
  /\ GoOn
  /\ UNCHANGED <<regs, csr, vector>>

CsrAccess ==
  /\ instr.op \in CsrOps
  /\ LET old == ReadCsr(csr, vl, vtype, instr.csr)
     IN /\ csr' = WriteCsr(csr, instr.csr,
                           CsrNewValue(instr, old, IF instr.op = "csrrwi" THEN instr.imm ELSE s1))
        /\ Write(instr.rd, old)
  /\ GoOn
  /\ UNCHANGED <<mem, vector>>

Skip ==
  /\ instr.op \in NoOps
  /\ GoOn
  /\ UNCHANGED <<regs, mem, csr, vector>>

VSet ==
  /\ instr.op \in VSetOps
  /\ vtype' = VsetType(instr, s2)
  /\ vl' = VsetLength(instr, vtype', s1, vl)
  /\ Write(instr.rd, vl')
  /\ GoOn
  /\ UNCHANGED <<mem, csr, vregs>>

VCompute ==
  /\ instr.op \in VArithOps \cup {"vle32"}
  /\ vregs' = IF instr.op = "vle32" THEN VectorLoaded(instr, vregs, mem, s1, vl)
              ELSE vec_arith_compute(instr, vregs, vl)
  /\ GoOn
  /\ UNCHANGED <<regs, mem, csr, vl, vtype>>

VStore ==
  /\ instr.op = "vse32"
  /\ mem' = VectorStored(instr, vregs, mem, s1, vl)
  /\ GoOn
  /\ UNCHANGED <<regs, csr, vector>>

\* An environment call, or a zero halfword, ends the program.
Stop ==
  /\ instr.op \in HaltOps \cup {"end"}
  /\ halted' = TRUE
  /\ pc' = IF instr.op = "end" THEN pc ELSE NextPc(pc)
  /\ UNCHANGED <<regs, mem, csr, vector>>

Next ==
  /\ ~halted
  /\ Compute \/ Jump \/ Store \/ CsrAccess \/ Skip \/ VSet \/ VCompute \/ VStore \/ Stop
  /\ UNCHANGED prog

Spec == Init /\ [][Next]_isaVars
=============================================================================
