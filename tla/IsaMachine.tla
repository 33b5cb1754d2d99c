----------------------------- MODULE IsaMachine -----------------------------
(***************************************************************************)
(* What the core promises: a machine that executes one instruction at a    *)
(* time, in program order, each one completely.  No pipeline, no           *)
(* renaming, no prediction.  SocCore is checked to implement it.           *)
(***************************************************************************)
EXTENDS SocIsa, Sequences

CONSTANT Programs    \* the programs (instruction memories) it may be given

VARIABLES
  prog,      \* instruction memory
  pc,        \* address of the next instruction
  regs,      \* the integer and floating-point registers
  mem,       \* data memory
  out,       \* what the UART has printed
  csr,       \* machine-mode CSRs and the current privilege
  mtip,      \* the timer interrupt is pending
  halted     \* the simulation has ended

vars == <<prog, pc, regs, mem, out, csr, mtip, halted>>

Init ==
  /\ prog \in Programs
  /\ pc = 0
  /\ regs = [r \in Regs |-> 0]
  /\ mem = [a \in 0 .. MemWords - 1 |-> 0]
  /\ out = <<>>
  /\ csr = CsrReset
  /\ mtip = FALSE
  /\ halted = FALSE

-----------------------------------------------------------------------------
instr == prog[pc]
s1 == regs[instr.rs1]
s2 == regs[instr.rs2]
s3 == regs[instr.rs3]

Written(r, v) == IF r = X0 THEN regs ELSE [regs EXCEPT ![r] = v]

Value ==
  IF instr.op = "lui" THEN instr.imm
  ELSE IF instr.op = "jal" THEN NextPc(pc)
  ELSE IF instr.op \in AluOps THEN alu_compute(instr, s1, IF instr.op = "addi" THEN instr.imm ELSE s2)
  ELSE md_compute(instr, s1, s2)

FpValue == fpu_compute(instr, s1, s2, s3)

\* Instructions that only write a register (and JAL, that also jumps).
Compute ==
  /\ instr.op \in AluOps \cup MdOps \cup {"lui", "jal"}
  /\ regs' = Written(instr.rd, Value)
  /\ pc' = IF instr.op = "jal" THEN instr.imm ELSE NextPc(pc)
  /\ UNCHANGED <<mem, out, csr, mtip, halted>>

ComputeFp ==
  /\ instr.op \in FpuOps
  /\ regs' = Written(instr.rd, FpValue)
  /\ pc' = NextPc(pc)
  /\ UNCHANGED <<mem, out, csr, mtip, halted>>

Fence ==
  /\ instr.op = "fence"
  /\ pc' = NextPc(pc)
  /\ UNCHANGED <<regs, mem, out, csr, mtip, halted>>

Load ==
  /\ instr.op \in LoadOps
  /\ regs' = Written(instr.rd, mem[MemIndex(Plus(s1, instr.imm))])
  /\ pc' = NextPc(pc)
  /\ UNCHANGED <<mem, out, csr, mtip, halted>>

Store ==
  /\ instr.op \in StoreOps
  /\ IF Plus(s1, instr.imm) = UART_TX_ADDR
     THEN out' = Append(out, s2) /\ UNCHANGED mem
     ELSE mem' = [mem EXCEPT ![MemIndex(Plus(s1, instr.imm))] = s2] /\ UNCHANGED out
  /\ pc' = NextPc(pc)
  /\ UNCHANGED <<regs, csr, mtip, halted>>

Branch ==
  /\ instr.op \in BranchOps
  /\ pc' = IF branch_taken(instr, s1, s2) THEN instr.imm ELSE NextPc(pc)
  /\ UNCHANGED <<regs, mem, out, csr, mtip, halted>>

Jalr ==
  /\ instr.op = "jalr"
  /\ regs' = Written(instr.rd, NextPc(pc))
  /\ pc' = Plus(s1, instr.imm)
  /\ UNCHANGED <<mem, out, csr, mtip, halted>>

\* Writing mtimecmp re-arms the timer: whether it is due is decided anew.
CsrAccess ==
  /\ instr.op \in CsrOps
  /\ LET old == read_csr(csr, instr.csr)
         src == IF instr.op = "csrrwi" THEN instr.imm ELSE s1
     IN /\ csr' = write_csr(csr, instr.csr, CsrNewValue(instr, old, src))
        /\ regs' = Written(instr.rd, old)
  /\ mtip' = (mtip /\ instr.csr # "mtimecmp")
  /\ pc' = NextPc(pc)
  /\ UNCHANGED <<mem, out, halted>>

\* An exception enters the handler; without one it ends the program.
Raise(cause) ==
  IF csr.mtvec # 0
  THEN /\ csr' = EnterTrap(csr, pc, TrapCause(csr, cause))
       /\ pc' = csr.mtvec
       /\ UNCHANGED halted
  ELSE halted' = TRUE /\ pc' = NextPc(pc) /\ UNCHANGED csr

Trap ==
  /\ instr.op \in TrapOps
  /\ Raise(CauseOf(instr))
  /\ UNCHANGED <<regs, mem, out, mtip>>

Mret ==
  /\ instr.op = "mret"
  /\ csr' = LeaveTrap(csr)
  /\ pc' = csr.mepc
  /\ UNCHANGED <<regs, mem, out, mtip, halted>>

\* The interrupt is taken between two instructions: mepc is the one not yet executed.
Interrupt ==
  /\ mtip /\ InterruptEnabled(csr)
  /\ csr' = EnterTrap(csr, pc, CAUSE_TIMER)
  /\ pc' = csr.mtvec
  /\ UNCHANGED <<regs, mem, out, mtip, halted>>

TimerFires ==
  /\ mtip' = TRUE
  /\ UNCHANGED <<pc, regs, mem, out, csr, halted>>

\* A zero halfword ends the program.
Stop ==
  /\ instr.op = "end"
  /\ halted' = TRUE
  /\ UNCHANGED <<pc, regs, mem, out, csr, mtip>>

Step == Compute \/ ComputeFp \/ Fence \/ Load \/ Store \/ Branch \/ Jalr \/ CsrAccess \/ Trap \/ Mret

Next ==
  /\ ~halted
  /\ Step \/ Interrupt \/ TimerFires \/ Stop
  /\ UNCHANGED prog

Spec == Init /\ [][Next]_vars
=============================================================================
