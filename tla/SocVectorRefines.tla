-------------------------- MODULE SocVectorRefines --------------------------
(***************************************************************************)
(* The core with its coprocessor implements the architectural machine with *)
(* vectors.  Vector instructions take effect before they retire: the       *)
(* architectural vector state is the one before the oldest instruction in  *)
(* flight that may have touched it, which the history variable remembers.  *)
(***************************************************************************)
EXTENDS SocVector

CsrDone == HeadReady /\ prog[HeadEntry.pc].op \in CsrOps \cup VCsrOps

ArchPc ==
  IF rob_count > 0 /\ ~CsrDone THEN HeadEntry.pc
  ELSE IF rob_count > 1 THEN rob[Inc(rob_head)].pc
  ELSE fetch_pc

ArchRegs ==
  IF CsrDone /\ HeadEntry.dest # X0
  THEN [regfile EXCEPT ![HeadEntry.dest] = HeadEntry.value] ELSE regfile

\* The oldest of a set of tags in flight.
Oldest(T) == CHOOSE t \in T : \A o \in T : Age(t) <= Age(o)

\* An illegal instruction has no effect and captures nothing.
VectorInFlight == {t \in Tags : IsVector(t) /\ ~IsIllegal(t)}

\* Those that have left the queue: they may have written registers or memory.
Started == {t \in VectorInFlight :
              prog[rob[t].pc].op \in VArithOps \cup VMemOps /\ ~rob[t].takes_trap /\ ~Waits(t)}

\* The configuration before the oldest vector instruction in flight.
ArchConfig == IF VectorInFlight = {} THEN Config ELSE undo.config[Oldest(VectorInFlight)]

\* The register file before the oldest one that has started.
ArchVregs == IF Started = {} THEN vregs ELSE undo.vregs[Oldest(Started)]

\* A vector store writes memory while it is the head of the ROB.
ArchMem == IF rob_head \in Started THEN undo.mem ELSE dmem

Visa == INSTANCE IsaVector WITH
  pc <- ArchPc, regs <- ArchRegs, mem <- ArchMem, vregs <- ArchVregs,
  vl <- ArchConfig.vl, vtype <- ArchConfig.vtype, vstart <- ArchConfig.vstart

\* Every behaviour of the core with its coprocessor is one of the machine that
\* executes one instruction, scalar or vector, at a time.
ImplementsVectorIsa == Visa!VSpec

-----------------------------------------------------------------------------
(* What the code says of the points at which it is precise.                *)

AtCommit == stage = "commit" /\ HeadReady

\* soc_top.cpp: when an exception reaches the head, "nada posterior modifico
\* el estado arquitectonico todavia": neither vector arithmetic behind it has
\* written the register file, nor a vset* the configuration.
NothingPosterior ==
  AtCommit /\ HeadEntry.takes_trap => vregs = ArchVregs /\ Config = ArchConfig

\* soc_state.h: capturing vl at dispatch is precise.  Without a vset* behind a
\* load that trims vl, what is queued behind it must run with the trimmed vl.
CapturedVlPrecise ==
  [][VecUnit /\ csr_vl' # csr_vl => \A k \in DOMAIN viq' : viq'[k].vl = csr_vl']_vvars
=============================================================================
