--------------------------- MODULE OooCoreRefines ---------------------------
(***************************************************************************)
(* The earlier core implements a machine that executes one instruction at  *)
(* a time.  CSR instructions and vector stores take effect at the head of  *)
(* the ROB, one tick before they retire; vector arithmetic, vector loads   *)
(* and vset* do so earlier still, and the history keeps what they leave    *)
(* until they retire.                                                      *)
(***************************************************************************)
EXTENDS OooCore

\* The head has taken effect, and has only to leave the ROB.
HeadDone == HeadReady /\ HeadIns.op \in CsrOps \cup {"vse32"}

ArchPc ==
  IF rob_count > 0 /\ ~HeadDone THEN eff[rob_head].pc
  ELSE IF rob_count > 1 THEN eff[Inc(rob_head)].pc
  ELSE fetch_pc

ArchRegs ==
  IF HeadDone /\ HeadEntry.dest # X0
  THEN [regfile EXCEPT ![HeadEntry.dest] = HeadEntry.value] ELSE regfile

Ooo == INSTANCE OooIsa WITH
  pc <- ArchPc, regs <- ArchRegs, mem <- dmem, vregs <- arch.vregs, vl <- arch.vl,
  vtype <- arch.vtype, halted <- ecall_halt \/ halted

\* Every behaviour of the pipeline is one of the sequential machine: renamed
\* registers, vector registers written out of order, a vector length captured
\* at dispatch and memory written at the head give the result of program order.
ImplementsOooIsa == Ooo!Spec

\* "El acceso al banco de CSRs [es] en orden de programa", and changing vl and
\* vtype at dispatch "es preciso": a CSR instruction that reads vl or vtype
\* gets the value of program order.
ReadsConfigInOrder ==
  [][SysExecute => /\ InsOf("sys").csr = "vl" => rob'[rob_head].value = arch.vl
                   /\ InsOf("sys").csr = "vtype" => rob'[rob_head].value = arch.vtype]_vars
=============================================================================
