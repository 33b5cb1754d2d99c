--------------------------- MODULE SocCoreRefines ---------------------------
(***************************************************************************)
(* The out-of-order core implements the architectural machine.             *)
(*                                                                         *)
(* The architectural state is the register file, the memory and the CSRs;  *)
(* the architectural pc is that of the oldest instruction in flight.  Only *)
(* a CSR instruction takes effect before it retires: it has written the    *)
(* CSR as soon as its entry is ready, at the head of the ROB.              *)
(***************************************************************************)
EXTENDS SocCore

CsrDone == HeadReady /\ prog[HeadEntry.pc].op \in CsrOps

ArchPc ==
  IF rob_count > 0 /\ ~CsrDone THEN HeadEntry.pc
  ELSE IF rob_count > 1 THEN rob[Inc(rob_head)].pc
  ELSE fetch_pc

ArchRegs ==
  IF CsrDone /\ HeadEntry.dest # X0
  THEN [regfile EXCEPT ![HeadEntry.dest] = HeadEntry.value] ELSE regfile

Arch == INSTANCE IsaMachine WITH pc <- ArchPc, regs <- ArchRegs, mem <- dmem

\* Every behaviour of the pipeline, whatever it predicts and whenever the
\* timer fires, is one of the machine that executes one instruction at a
\* time: the same registers, memory, UART output, CSRs and end.
ImplementsIsa == Arch!Spec

\* The interrupt returns to an instruction that has not been executed
\* ("mepc apunta a la instruccion que AUN NO se ejecuto", soc_top.cpp:187).
InterruptResumesUnexecuted == [][TakeInterrupt => csr'.mepc = ArchPc]_vars
=============================================================================
