--------------------------- MODULE SocCoreCorrect ---------------------------
(***************************************************************************)
(* The out-of-order core implements the architectural machine, proved for  *)
(* every program, ROB size, latency, register set and word size: every     *)
(* step of the pipeline is one instruction (or interrupt, or event) of     *)
(* IsaMachine or changes nothing it can see.                               *)
(*                                                                         *)
(* ValueCore says what every completed entry holds.  At the head no older  *)
(* instruction is in flight, so the operands of program order are simply   *)
(* those of the register file, and the entry that commits holds what the   *)
(* machine would compute.  The pc of the machine is that of the head; when *)
(* the head leaves, the next one is its follower on the predicted path,    *)
(* which is the right path because a misprediction would have flushed it.  *)
(***************************************************************************)
EXTENDS SocCoreValues, SocCoreRefines

-----------------------------------------------------------------------------
(* The machine has the same instructions as the core.                      *)

LEMMA SameOps ==
  /\ Arch!AluOps = AluOps /\ Arch!MdOps = MdOps /\ Arch!FpuOps = FpuOps
  /\ Arch!LoadOps = LoadOps /\ Arch!StoreOps = StoreOps /\ Arch!BranchOps = BranchOps
  /\ Arch!CsrOps = CsrOps /\ Arch!TrapOps = TrapOps
  BY DEF Arch!AluOps, AluOps, Arch!MdOps, MdOps, Arch!FpuOps, FpuOps, Arch!LoadOps, LoadOps,
         Arch!StoreOps, StoreOps, Arch!BranchOps, BranchOps, Arch!CsrOps, CsrOps,
         Arch!TrapOps, TrapOps

LEMMA SameResults ==
  /\ \A a, b : Arch!Plus(a, b) = Plus(a, b)
  /\ \A p : Arch!NextPc(p) = NextPc(p)
  /\ \A a : Arch!MemIndex(a) = MemIndex(a)
  /\ \A i, a, b : /\ Arch!branch_taken(i, a, b) <=> branch_taken(i, a, b)
                  /\ Arch!alu_compute(i, a, b) = alu_compute(i, a, b)
                  /\ Arch!md_compute(i, a, b) = md_compute(i, a, b)
  /\ \A i, a, b, c : Arch!fpu_compute(i, a, b, c) = fpu_compute(i, a, b, c)
<1>1. \A i, a, b, c : Arch!fpu_compute(i, a, b, c) = fpu_compute(i, a, b, c)
  BY Zenon DEF Arch!fpu_compute, fpu_compute, Arch!Plus, Plus
<1> QED BY <1>1 DEF Arch!NextPc, Arch!Plus, NextPc, Plus, Arch!MemIndex, MemIndex,
                    Arch!branch_taken, branch_taken, Arch!alu_compute, alu_compute,
                    Arch!md_compute, md_compute

LEMMA SameCsrs ==
  /\ \A c, name : Arch!read_csr(c, name) = read_csr(c, name)
  /\ \A c, name, v : Arch!write_csr(c, name, v) = write_csr(c, name, v)
  /\ \A i, old, src : Arch!CsrNewValue(i, old, src) = CsrNewValue(i, old, src)
<1>1. \A c, name : Arch!read_csr(c, name) = read_csr(c, name)
  BY Zenon DEF Arch!read_csr, read_csr, Arch!PRV_M, PRV_M
<1>2. \A c, name, v : Arch!write_csr(c, name, v) = write_csr(c, name, v)
  BY Zenon DEF Arch!write_csr, write_csr, Arch!PRV_M, PRV_M, Arch!PRV_U, PRV_U, Arch!Bit, Bit
<1>3. \A i, old, src : Arch!CsrNewValue(i, old, src) = CsrNewValue(i, old, src)
  BY Zenon DEF Arch!CsrNewValue, CsrNewValue
<1> QED BY <1>1, <1>2, <1>3

LEMMA SameTraps ==
  /\ \A c, p, cause : Arch!EnterTrap(c, p, cause) = EnterTrap(c, p, cause)
  /\ \A c, cause : Arch!TrapCause(c, cause) = TrapCause(c, cause)
  /\ \A c : /\ Arch!LeaveTrap(c) = LeaveTrap(c)
            /\ Arch!InterruptEnabled(c) <=> InterruptEnabled(c)
  /\ \A i : Arch!CauseOf(i) = CauseOf(i)
  /\ Arch!CAUSE_TIMER = CAUSE_TIMER
<1>1. \A i : Arch!CauseOf(i) = CauseOf(i)
  BY Zenon DEF Arch!CauseOf, CauseOf, Arch!CAUSE_ECALL_M, CAUSE_ECALL_M,
               Arch!CAUSE_BREAK, CAUSE_BREAK, Arch!CAUSE_ILLEGAL, CAUSE_ILLEGAL
<1> QED BY <1>1 DEF Arch!EnterTrap, EnterTrap, Arch!TrapCause, TrapCause, Arch!LeaveTrap, LeaveTrap,
                    Arch!InterruptEnabled, InterruptEnabled, Arch!PRV_M, PRV_M, Arch!PRV_U, PRV_U,
                    Arch!CAUSE_ECALL_M, CAUSE_ECALL_M, Arch!CAUSE_ECALL_U, CAUSE_ECALL_U,
                    Arch!CAUSE_TIMER, CAUSE_TIMER

-----------------------------------------------------------------------------
(* The head of the ROB and the architectural state.                        *)

\* Whatever runs beside the core, its CSR instructions are its own.
CsrCode == \A p \in Word : prog[p].op \in CsrOps => prog[p] \in Instr

CodePipe == ValuePipe /\ CsrCode

HeadFacts ==
  rob_count > 0 =>
    /\ rob_head \in Tags /\ InFlight(rob_head) /\ Age(rob_head) = 0
    /\ HeadEntry = rob[rob_head] /\ HeadEntry \in RobEntry
    /\ EntryDecoded(rob_head)
    /\ HeadReady <=> rob[rob_head].ready

LEMMA HeadIs == CodePipe => HeadFacts
<1> SUFFICES ASSUME CodePipe, rob_count > 0 PROVE HeadFacts
  BY DEF HeadFacts
<1>1. CoreTypeOK /\ RobWindow /\ Decoded
  BY DEF CodePipe, ValuePipe, DataInv, PathPipe, PipeCore, PipelineInv
<1>2. /\ rob_head \in Tags /\ InFlight(rob_head) /\ Age(rob_head) = 0
      /\ HeadEntry = rob[rob_head] /\ rob[rob_head] \in RobEntry
  BY <1>1, HeadInFlight, Counters, AgeBounds DEF HeadEntry
<1> QED BY <1>1, <1>2 DEF HeadFacts, Decoded, RobWindow, HeadReady

\* The machine is at the head of the ROB, or behind it if it is a CSR
\* instruction that has taken effect; with nothing in flight, at the fetch.
ArchFacts ==
  /\ rob_count = 0 => ~CsrDone /\ ArchPc = fetch_pc
  /\ CsrDone => rob_count > 0 /\ ArchPc = Follower(rob_head)
  /\ rob_count > 0 /\ ~CsrDone => ArchPc = HeadEntry.pc
  /\ ~CsrDone => ArchRegs = regfile
  /\ CsrDone => ArchRegs = IF HeadEntry.dest = X0 THEN regfile
                           ELSE [regfile EXCEPT ![HeadEntry.dest] = HeadEntry.value]

LEMMA ArchIs == CodePipe => ArchFacts
<1> SUFFICES ASSUME CodePipe PROVE ArchFacts
  OBVIOUS
<1>1. rob_count \in Nat
  BY Counters DEF CodePipe, ValuePipe, PathPipe, PipeCore
<1>2. CsrDone => rob_count > 0
  BY DEF CsrDone, HeadReady
<1>3. ASSUME CsrDone PROVE ArchPc = Follower(rob_head)
  <2>1. Age(rob_head) = 0 /\ rob_count > 0
    BY <1>2, <1>3, HeadIs DEF HeadFacts
  <2> QED BY <1>1, <1>3, <2>1 DEF ArchPc, Follower
<1>4. /\ ~CsrDone => ArchRegs = regfile
      /\ CsrDone => ArchRegs = IF HeadEntry.dest = X0 THEN regfile
                               ELSE [regfile EXCEPT ![HeadEntry.dest] = HeadEntry.value]
  BY DEF ArchRegs
<1> QED BY <1>1, <1>2, <1>3, <1>4 DEF ArchFacts, ArchPc

\* Both before and after a step.
LEMMA FactsHold ==
  ASSUME CodePipe, CodePipe'
  PROVE  HeadFacts /\ ArchFacts /\ HeadFacts' /\ ArchFacts'
  BY HeadIs, ArchIs, PTL

\* Nothing is older than the head: it reads the register file.
LEMMA HeadReads ==
  ASSUME CodePipe, rob_count > 0, NEW i, NEW k \in 1 .. 3, NEW v, Reads(i, k, rob_head, v)
  PROVE  v = IF ReadsReg(i, k) THEN regfile[SrcReg(i, k)] ELSE SrcImm(i, k)
<1>1. Age(rob_head) = 0 /\ \A t \in Tags : Age(t) \in Nat
  BY HeadIs, AgeBounds DEF HeadFacts, CodePipe, ValuePipe, PathPipe, PipeCore
<1>2. regfile[X0] = 0
  BY DEF CodePipe, ValuePipe, DataInv, ZeroRegister
<1>3. \A w \in Tags : ~LastWriter(w, SrcReg(i, k), rob_head)
  BY <1>1 DEF LastWriter
<1> QED BY <1>2, <1>3 DEF Reads, Sees

LEMMA WhatIsRead ==
  ASSUME NEW i \in Instr
  PROVE  /\ i.op \notin CsrOps => ReadsReg(i, 1)
         /\ i.op = "csrrwi" <=> ~ReadsReg(i, 1)
         /\ i.op \in {"add", "sub", "fadd", "fdiv", "fmadd"} \cup MdOps \cup StoreOps \cup BranchOps => ReadsReg(i, 2)
         /\ i.op = "addi" => ~ReadsReg(i, 2) /\ SrcImm(i, 2) = i.imm
         /\ i.op = "fmadd" => ReadsReg(i, 3)
         /\ SrcReg(i, 1) = i.rs1 /\ SrcReg(i, 2) = i.rs2 /\ SrcReg(i, 3) = i.rs3
         /\ SrcImm(i, 1) = i.imm
<1>1. ReadsReg(i, 1) <=> i.op # "csrrwi"
  BY DEF ReadsReg
<1>2. ReadsReg(i, 2) <=> i.op \in {"add", "sub", "fadd", "fdiv", "fmadd"} \cup MdOps \cup StoreOps \cup BranchOps
  BY DEF ReadsReg
<1>3. ReadsReg(i, 3) <=> i.op = "fmadd"
  BY DEF ReadsReg
<1>4. i.op = "csrrwi" => i.op \in CsrOps
  BY DEF CsrOps
<1>5. i.op = "addi" => i.op \notin {"add", "sub", "fadd", "fdiv", "fmadd"} \cup MdOps \cup StoreOps \cup BranchOps
  BY DEF MdOps, StoreOps, BranchOps
<1> QED BY <1>1, <1>2, <1>3, <1>4, <1>5 DEF SrcReg, SrcImm

\* The entry that commits holds what its instruction computes from the
\* register file.
LEMMA HeadOutcome ==
  ASSUME CodePipe, HeadReady, NEW i \in Instr, i = prog[HeadEntry.pc], i.op \notin QuickOps \cup CsrOps
  PROVE  \E b, c \in Word :
           /\ Outcome(rob_head, regfile[i.rs1], b, c)
           /\ b = IF ReadsReg(i, 2) THEN regfile[i.rs2] ELSE SrcImm(i, 2)
           /\ i.op = "fmadd" => c = regfile[i.rs3]
<1>1. /\ rob_count > 0 /\ rob_head \in Tags /\ InFlight(rob_head)
      /\ HeadEntry = rob[rob_head] /\ rob[rob_head].ready
  BY HeadIs DEF HeadFacts, HeadReady
<1>2. Explained(rob_head)
  BY <1>1 DEF CodePipe, ValuePipe, DataInv, ScalarResultsRight
<1>3. PICK a \in Word, b \in Word, c \in Word :
        Reads(i, 1, rob_head, a) /\ Reads(i, 2, rob_head, b) /\ Reads(i, 3, rob_head, c)
        /\ Outcome(rob_head, a, b, c)
  BY <1>1, <1>2 DEF Explained
<1>4. 1 \in 1 .. 3 /\ 2 \in 1 .. 3 /\ 3 \in 1 .. 3
  OBVIOUS
<1>5. /\ a = IF ReadsReg(i, 1) THEN regfile[SrcReg(i, 1)] ELSE SrcImm(i, 1)
      /\ b = IF ReadsReg(i, 2) THEN regfile[SrcReg(i, 2)] ELSE SrcImm(i, 2)
      /\ c = IF ReadsReg(i, 3) THEN regfile[SrcReg(i, 3)] ELSE SrcImm(i, 3)
  BY <1>1, <1>3, <1>4, HeadReads
<1> QED BY <1>3, <1>5, WhatIsRead

-----------------------------------------------------------------------------
(* How each kind of step moves the architectural state.                    *)

\* Units work: the machine sees nothing, unless a CSR instruction completes.
LEMMA WorkSeen ==
  ASSUME CodePipe, CodePipe', KeepsValues,
         rob_count > 0 /\ rob'[rob_head].ready =>
           rob[rob_head].ready \/ prog[rob[rob_head].pc].op \notin CsrOps,
         rob_count = 0 => UNCHANGED fetch_pc,
         rob_count > 0 /\ rob[rob_head].ready => Follower(rob_head)' = Follower(rob_head)
  PROVE  ArchPc' = ArchPc /\ ArchRegs' = ArchRegs
<1>0. HeadFacts /\ ArchFacts /\ HeadFacts' /\ ArchFacts'
  BY FactsHold
<1>1. UNCHANGED <<prog, rob_head, rob_count, regfile>> /\ rob_count \in Nat
  BY Counters DEF KeepsValues, CodePipe, ValuePipe, PathPipe, PipeCore
<1>2. CASE rob_count = 0
  BY <1>0, <1>1, <1>2 DEF ArchFacts
<1>3. CASE rob_count > 0
  <2>1. PICK h \in Tags : h = rob_head /\ h = rob_head'
    BY <1>0, <1>1, <1>3 DEF HeadFacts
  <2>2. /\ InFlight(h) /\ HeadEntry = rob[h] /\ HeadEntry' = rob'[h]
        /\ HeadReady <=> rob[h].ready
        /\ HeadReady' <=> rob'[h].ready
    BY <1>0, <1>1, <1>3, <2>1 DEF HeadFacts
  <2>3. /\ rob'[h].pc = rob[h].pc
        /\ rob[h].ready => rob'[h] = rob[h]
    BY <2>2 DEF KeepsValues
  <2>4. CsrDone' <=> CsrDone
    BY <1>1, <1>3, <2>1, <2>2, <2>3 DEF CsrDone
  <2>5. CASE CsrDone
    <3>1. rob'[h] = rob[h] /\ Follower(h)' = Follower(h)
      BY <1>3, <2>1, <2>2, <2>3, <2>5 DEF CsrDone
    <3>2. ArchPc = Follower(h) /\ ArchPc' = Follower(h)'
      BY <1>0, <2>1, <2>4, <2>5 DEF ArchFacts
    <3> QED BY <1>0, <1>1, <2>2, <2>4, <2>5, <3>1, <3>2 DEF ArchFacts
  <2>6. CASE ~CsrDone
    BY <1>0, <1>1, <1>3, <2>2, <2>3, <2>4, <2>6 DEF ArchFacts
  <2> QED BY <2>5, <2>6
<1> QED BY <1>1, <1>2, <1>3

\* The head leaves: the machine goes on behind it, and sees its register.
LEMMA RetireSeen ==
  ASSUME CodePipe, CodePipe', HeadReady, Retire, UNCHANGED <<prog, fetch_pc>>
  PROVE  ~CsrDone' /\ ArchPc' = Follower(rob_head) /\ ArchRegs' = regfile'
<1>0. HeadFacts /\ ArchFacts /\ HeadFacts' /\ ArchFacts' /\ CoreTypeOK /\ CsrCode' /\ RobWindow /\ ScalarResultsRight'
  BY FactsHold DEF CodePipe, ValuePipe, DataInv, PathPipe, PipeCore, PipelineInv
<1>1. /\ rob_count > 0 /\ rob_count \in Nat
      /\ rob_head \in Tags /\ InFlight(rob_head) /\ Age(rob_head) = 0
  BY <1>0, Counters DEF HeadFacts, HeadReady
<1>2. /\ rob_head' = Inc(rob_head) /\ rob_count' = rob_count - 1
      /\ \A t \in Tags : t # rob_head => rob'[t] = rob[t]
  BY <1>0, RetireWindow DEF Retire
<1>3. CASE rob_count = 1
  BY <1>0, <1>1, <1>2, <1>3 DEF ArchFacts, Follower
<1>4. CASE rob_count # 1
  <2>1. PICK h \in Tags : h = Inc(rob_head) /\ h = rob_head' /\ h # rob_head
    BY <1>0, <1>1, <1>2, <1>4, NextInRing
  <2>2. /\ rob_count' > 0 /\ InFlight(h)' /\ HeadEntry' = rob'[h] /\ rob'[h] = rob[h]
        /\ HeadReady' <=> rob'[h].ready
    BY <1>0, <1>1, <1>2, <1>4, <2>1 DEF HeadFacts
  <2>3. Follower(rob_head) = rob[h].pc
    BY <1>1, <1>4, <2>1 DEF Follower
  <2>4. ~CsrDone'
    <3> SUFFICES ASSUME CsrDone' PROVE FALSE
      OBVIOUS
    <3>1. rob[h].ready /\ prog[rob[h].pc].op \in CsrOps /\ InFlight(h)
      <4>1. InFlight(h)
        BY <1>0, <2>1, <2>2, RetireWindow
      <4> QED BY <2>2, <4>1 DEF CsrDone
    <3>2. Explained(h)
      <4>1. rob[h].pc \in Word
        BY <1>0, <2>1 DEF CoreTypeOK, RobEntry
      <4> QED BY <3>1, <4>1 DEF CodePipe, CsrCode, ValuePipe, DataInv, ScalarResultsRight
    <3> QED BY <2>1, <3>1, <3>2 DEF Explained
  <2> QED BY <1>0, <2>2, <2>3, <2>4 DEF ArchFacts
<1> QED BY <1>3, <1>4

\* A flush: the machine goes on where the fetch does.
LEMMA FlushSeen ==
  ASSUME CodePipe, CodePipe', NEW p, Redirect(p), UNCHANGED regfile
  PROVE  ArchPc' = p /\ ArchRegs' = regfile
<1>1. rob_count' = 0 /\ fetch_pc' = p
  BY DEF Redirect, PipelineFlush
<1> QED BY <1>1, FactsHold DEF ArchFacts

\* An instruction enters: the machine does not see it.
LEMMA EnterSeen ==
  ASSUME CodePipe, CodePipe', MayFetch, NEW e \in RobEntry, NEW p, e.valid, e.pc = fetch_pc,
         e.ready => Fetched.op \in QuickOps, Enter(e, p), UNCHANGED <<prog, regfile>>
  PROVE  ArchPc' = ArchPc /\ ArchRegs' = ArchRegs
<1>0. HeadFacts /\ ArchFacts /\ HeadFacts' /\ ArchFacts' /\ CoreTypeOK /\ RobWindow
  BY FactsHold DEF CodePipe, ValuePipe, PathPipe, PipeCore, PipelineInv
<1>1. /\ rob_head' = rob_head /\ rob_count' = rob_count + 1 /\ rob_count \in Nat
      /\ \A t \in Tags : t # rob_tail => rob'[t] = rob[t]
      /\ rob'[rob_tail] = e
  <2>1. /\ \A t \in Tags : t # rob_tail => rob'[t] = rob[t]
        /\ rob'[rob_tail] = e
    BY <1>0, EnterWindow
  <2> QED BY <1>0, <2>1, Counters DEF Enter
<1>2. PICK h \in Tags : h = rob_head /\ h = rob_head'
  BY <1>0, <1>1, Counters
<1>3. rob_count' > 0 /\ HeadEntry' = rob'[h] /\ (HeadReady' <=> rob'[h].ready)
  BY <1>0, <1>1, <1>2 DEF HeadFacts
<1>4. CASE rob_count = 0
  <2>1. h = rob_tail
    BY <1>0, <1>2, <1>4, Counters DEF RobWindow
  <2>2. ~CsrDone'
    BY <1>1, <1>3, <2>1 DEF CsrDone, Fetched, QuickOps, TrapOps, CsrOps
  <2> QED BY <1>0, <1>1, <1>3, <1>4, <2>1, <2>2 DEF ArchFacts
<1>5. CASE rob_count > 0
  <2>1. InFlight(h) /\ HeadEntry = rob[h] /\ (HeadReady <=> rob[h].ready)
    BY <1>0, <1>2, <1>5 DEF HeadFacts
  <2>2. rob'[h] = rob[h] /\ Follower(h)' = Follower(h)
    BY <1>0, <1>1, <2>1, EnterFollower, TailIsFree DEF MayFetch
  <2>3. CsrDone' <=> CsrDone
    BY <1>3, <2>1, <2>2 DEF CsrDone
  <2>4. CASE CsrDone
    <3>1. ArchPc = Follower(h) /\ ArchPc' = Follower(h)'
      BY <1>0, <1>2, <2>3, <2>4 DEF ArchFacts
    <3> QED BY <1>0, <1>3, <2>1, <2>2, <2>3, <2>4, <3>1 DEF ArchFacts
  <2>5. CASE ~CsrDone
    BY <1>0, <1>3, <1>5, <2>1, <2>2, <2>3, <2>5 DEF ArchFacts
  <2> QED BY <2>4, <2>5
<1> QED BY <1>1, <1>4, <1>5

-----------------------------------------------------------------------------
(* Every commit is the step of the machine that executes the instruction   *)
(* at the head.                                                            *)

\* The instruction of the machine is that of the head.
LEMMA HeadIsNext ==
  ASSUME CodePipe, HeadReady, NEW i, i = prog[HeadEntry.pc], i.op \notin CsrOps
  PROVE  /\ ArchPc = HeadEntry.pc /\ ArchRegs = regfile
         /\ Arch!instr = i
         /\ Arch!s1 = regfile[i.rs1] /\ Arch!s2 = regfile[i.rs2] /\ Arch!s3 = regfile[i.rs3]
<1>1. ~CsrDone /\ rob_count > 0
  BY DEF CsrDone, HeadReady
<1>2. ArchPc = HeadEntry.pc /\ ArchRegs = regfile
  BY <1>1, ArchIs DEF ArchFacts
<1>3. Arch!instr = i
  BY <1>2 DEF Arch!instr
<1> QED BY <1>2, <1>3 DEF Arch!s1, Arch!s2, Arch!s3

LEMMA NextIs ==
  ASSUME CodePipe, HeadReady, NEW i, i = prog[HeadEntry.pc], i.op # "jalr"
  PROVE  Follower(rob_head) = IF i.op = "jal" \/ (HeadEntry.is_branch /\ HeadEntry.pred_taken)
                              THEN i.imm ELSE NextPc(HeadEntry.pc)
<1>1. rob_head \in Tags /\ InFlight(rob_head) /\ HeadEntry = rob[rob_head]
  BY HeadIs DEF HeadFacts, HeadReady
<1>2. Successor(rob_head) = Follower(rob_head)
  BY <1>1 DEF CodePipe, ValuePipe, PathPipe, PathInv, OnPredictedPath
<1> QED BY <1>1, <1>2 DEF Successor

\* A committed instruction is decoded right, and the simulation goes on.
LEMMA CommitFacts ==
  ASSUME CodePipe, ~halted, Commit, prog[HeadEntry.pc] \in Instr
  PROVE  /\ HeadReady /\ ecall_halt = FALSE /\ halted = FALSE
         /\ \E i \in Instr :
              /\ i = prog[HeadEntry.pc] /\ i.op # "end" /\ HeadEntry.dest = Dest(i)
              /\ HeadEntry.is_store <=> i.op \in StoreOps
              /\ HeadEntry.is_branch <=> i.op \in BranchOps
              /\ HeadEntry.is_mret <=> i.op = "mret"
              /\ HeadEntry.takes_trap <=> i.op \in TrapOps
<1>1. HeadReady /\ rob_count > 0
  BY DEF Commit, HeadReady
<1>2. HeadEntry = rob[rob_head] /\ EntryDecoded(rob_head)
  BY <1>1, HeadIs DEF HeadFacts
<1>3. ecall_halt = FALSE /\ halted = FALSE
  BY DEF CodePipe, ValuePipe, DataInv, Halts, PathPipe, PipeCore, CoreTypeOK
<1> QED BY <1>1, <1>2, <1>3 DEF EntryDecoded

\* A branch commits with the right outcome: predicted right, the fetch has
\* already followed it; if not, it is redirected.
LEMMA BranchSeen ==
  ASSUME CodePipe, CodePipe', ~halted, CommitBranch \/ CommitMispredict,
         prog[HeadEntry.pc] \in Instr
  PROVE  Arch!Branch /\ prog' = prog
<1>1. Commit /\ HeadEntry.is_branch
  BY DEF CommitBranch, CommitMispredict
<1>2. PICK i \in Instr : i = prog[HeadEntry.pc] /\ i.op \in BranchOps
  BY <1>1, CommitFacts
<1>3. /\ HeadReady /\ ecall_halt = FALSE /\ halted = FALSE
      /\ HeadEntry = rob[rob_head]
  BY <1>1, CommitFacts DEF HeadEntry
<1>4. i.op \notin CsrOps /\ i.op \notin QuickOps /\ i.op # "jalr" /\ i.op # "jal"
  BY <1>2 DEF BranchOps, CsrOps, QuickOps, TrapOps
<1>5. /\ ArchPc = HeadEntry.pc /\ ArchRegs = regfile
      /\ Arch!instr = i /\ Arch!s1 = regfile[i.rs1] /\ Arch!s2 = regfile[i.rs2]
  BY <1>2, <1>3, <1>4, HeadIsNext
<1> DEFINE taken == branch_taken(i, regfile[i.rs1], regfile[i.rs2])
           goal == IF taken THEN i.imm ELSE NextPc(HeadEntry.pc)
<1>6. /\ HeadEntry.br_target = goal
      /\ HeadEntry.br_mispred <=> taken # HeadEntry.pred_taken
  <2>1. ReadsReg(i, 2)
    BY <1>2, WhatIsRead
  <2>2. PICK b, c : /\ Outcome(rob_head, regfile[i.rs1], b, c) /\ b = regfile[i.rs2]
    BY <1>2, <1>3, <1>4, <2>1, HeadOutcome
  <2> QED BY <1>2, <1>3, <2>2 DEF Outcome
<1>7. HeadEntry.pred_taken \in BOOLEAN /\ taken \in BOOLEAN
  BY HeadTyped DEF CodePipe, ValuePipe, PathPipe, PipeCore, RobEntry, branch_taken
<1> HIDE DEF taken
<1>8. ArchPc' = goal /\ ArchRegs' = regfile
  <2>1. CASE CommitBranch
    <3>1. Retire /\ UNCHANGED <<prog, fetch_pc, regfile>> /\ ~HeadEntry.br_mispred
      BY <2>1 DEF CommitBranch, front
    <3>2. ArchPc' = Follower(rob_head) /\ ArchRegs' = regfile
      BY <1>3, <3>1, RetireSeen
    <3>3. Follower(rob_head) = IF HeadEntry.pred_taken THEN i.imm ELSE NextPc(HeadEntry.pc)
      BY <1>1, <1>2, <1>3, <1>4, NextIs
    <3> QED BY <1>6, <1>7, <3>1, <3>2, <3>3
  <2>2. CASE CommitMispredict
    <3>1. Redirect(HeadEntry.br_target) /\ UNCHANGED regfile
      BY <2>2 DEF CommitMispredict
    <3> QED BY <1>6, <3>1, FlushSeen
  <2> QED BY <2>1, <2>2
<1>9. UNCHANGED <<prog, dmem, out, csr, mtip, halted>>
  BY <1>3 DEF CommitBranch, CommitMispredict, timer
<1>10. Arch!branch_taken(i, regfile[i.rs1], regfile[i.rs2]) <=> taken
  BY SameResults DEF taken
<1> QED BY <1>2, <1>5, <1>8, <1>9, <1>10, SameOps, SameResults DEF Arch!Branch

\* MRET and the exceptions: the machine's CSRs move with it.
LEMMA TrapSeen ==
  ASSUME CodePipe, CodePipe', ~halted, CommitMret \/ CommitTrap \/ CommitHalt,
         prog[HeadEntry.pc] \in Instr
  PROVE  (Arch!Mret \/ Arch!Trap) /\ prog' = prog
<1>1. Commit /\ ~HeadEntry.is_branch
  BY DEF CommitMret, CommitTrap, CommitHalt
<1>2. PICK i \in Instr :
        /\ i = prog[HeadEntry.pc] /\ i.op \notin BranchOps
        /\ HeadEntry.is_mret => i.op = "mret"
        /\ HeadEntry.takes_trap => i.op \in TrapOps
  BY <1>1, CommitFacts
<1>3. /\ HeadReady /\ ecall_halt = FALSE /\ halted = FALSE
      /\ HeadEntry = rob[rob_head]
  BY <1>1, CommitFacts DEF HeadEntry
<1>4. /\ HeadEntry.is_mret => i.op \notin CsrOps
      /\ HeadEntry.takes_trap => i.op \notin CsrOps /\ i.op # "jalr" /\ i.op # "jal"
  BY <1>2 DEF CsrOps, TrapOps
<1>5. HeadEntry.is_mret \/ HeadEntry.takes_trap =>
        ArchPc = HeadEntry.pc /\ ArchRegs = regfile /\ Arch!instr = i
  BY <1>2, <1>3, <1>4, HeadIsNext
<1>6. UNCHANGED <<prog, dmem, out, mtip, regfile>>
  BY DEF CommitMret, CommitTrap, CommitHalt, timer
<1>7. CASE CommitMret
  <2>1. Redirect(csr.mepc) /\ HeadEntry.is_mret /\ csr' = LeaveTrap(csr) /\ halted' = ecall_halt
    BY <1>7 DEF CommitMret
  <2>2. ArchPc' = csr.mepc /\ ArchRegs' = regfile
    BY <1>6, <2>1, FlushSeen
  <2>3. Arch!Mret
    BY <1>2, <1>3, <1>5, <1>6, <2>1, <2>2, SameTraps DEF Arch!Mret
  <2> QED BY <1>6, <2>3
<1>8. CASE CommitTrap \/ CommitHalt
  <2>1. HeadEntry.takes_trap /\ i.op \in TrapOps
    BY <1>2, <1>8 DEF CommitTrap, CommitHalt
  <2>2. HeadEntry.cause = CauseOf(i)
    <3>1. rob_head \in Tags /\ InFlight(rob_head) /\ rob[rob_head].ready
      BY <1>3, HeadIs DEF HeadFacts, HeadReady
    <3>2. Explained(rob_head)
      BY <1>2, <1>3, <3>1 DEF CodePipe, ValuePipe, DataInv, ScalarResultsRight
    <3> QED BY <1>2, <1>3, <2>1, <3>2 DEF Explained
  <2>3. /\ csr.mtvec # 0 => /\ csr' = EnterTrap(csr, HeadEntry.pc, TrapCause(csr, HeadEntry.cause))
                            /\ ArchPc' = csr.mtvec /\ halted' = halted
        /\ csr.mtvec = 0 => halted' = TRUE /\ ArchPc' = NextPc(HeadEntry.pc) /\ csr' = csr
        /\ ArchRegs' = regfile
    <3>1. CASE CommitTrap
      <4>1. /\ Redirect(csr.mtvec) /\ halted' = ecall_halt /\ csr.mtvec # 0
            /\ csr' = EnterTrap(csr, HeadEntry.pc, TrapCause(csr, HeadEntry.cause))
        BY <3>1 DEF CommitTrap
      <4> QED BY <1>3, <1>6, <4>1, FlushSeen
    <3>2. CASE CommitHalt
      <4>1. Retire /\ UNCHANGED <<fetch_pc, csr>> /\ halted' = TRUE /\ csr.mtvec = 0
        BY <3>2 DEF CommitHalt, front
      <4>2. ArchPc' = Follower(rob_head) /\ ArchRegs' = regfile
        BY <1>3, <1>6, <4>1, RetireSeen
      <4>3. Follower(rob_head) = NextPc(HeadEntry.pc)
        BY <1>1, <1>2, <1>3, <1>4, <2>1, NextIs
      <4> QED BY <4>1, <4>2, <4>3
    <3> QED BY <1>8, <3>1, <3>2
  <2>4. Arch!Raise(CauseOf(i))
    BY <1>5, <2>1, <2>2, <2>3, SameTraps, SameResults DEF Arch!Raise
  <2>5. Arch!Trap
    BY <1>5, <1>6, <2>1, <2>3, <2>4, SameOps, SameTraps DEF Arch!Trap
  <2> QED BY <1>6, <2>5
<1> QED BY <1>7, <1>8

LEMMA StoreSeen ==
  ASSUME CodePipe, CodePipe', ~halted, CommitStore,
         prog[HeadEntry.pc] \in Instr
  PROVE  Arch!Store /\ prog' = prog
<1>1. Commit /\ HeadEntry.is_store /\ ~HeadEntry.is_branch
  BY DEF CommitStore, CommitPlain
<1>2. PICK i \in Instr : i = prog[HeadEntry.pc] /\ i.op \in StoreOps /\ i.op \notin BranchOps
  BY <1>1, CommitFacts
<1>3. HeadReady /\ halted = FALSE /\ HeadEntry = rob[rob_head]
  BY <1>1, CommitFacts DEF HeadEntry
<1>4. i.op \notin CsrOps /\ i.op \notin QuickOps /\ i.op # "jalr" /\ i.op # "jal"
  BY <1>2 DEF StoreOps, CsrOps, QuickOps, TrapOps
<1>5. /\ ArchPc = HeadEntry.pc /\ ArchRegs = regfile
      /\ Arch!instr = i /\ Arch!s1 = regfile[i.rs1] /\ Arch!s2 = regfile[i.rs2]
  BY <1>2, <1>3, <1>4, HeadIsNext
<1>6. HeadEntry.addr = Plus(regfile[i.rs1], i.imm) /\ HeadEntry.sdata = regfile[i.rs2]
  <2>1. ReadsReg(i, 2)
    BY <1>2, WhatIsRead
  <2>2. PICK b, c : Outcome(rob_head, regfile[i.rs1], b, c) /\ b = regfile[i.rs2]
    BY <1>2, <1>3, <1>4, <2>1, HeadOutcome
  <2> QED BY <1>2, <1>3, <2>2 DEF Outcome
<1>7. /\ Retire /\ UNCHANGED <<prog, fetch_pc, regfile, csr, mtip, halted>>
      /\ IF HeadEntry.addr = UART_TX_ADDR
         THEN out' = Append(out, HeadEntry.sdata) /\ UNCHANGED dmem
         ELSE dmem' = [dmem EXCEPT ![MemIndex(HeadEntry.addr)] = HeadEntry.sdata] /\ UNCHANGED out
  BY DEF CommitStore, front, timer
<1>8. ArchPc' = NextPc(HeadEntry.pc) /\ ArchRegs' = regfile
  <2>1. ArchPc' = Follower(rob_head) /\ ArchRegs' = regfile
    BY <1>3, <1>7, RetireSeen
  <2>2. Follower(rob_head) = NextPc(HeadEntry.pc)
    BY <1>1, <1>2, <1>3, <1>4, NextIs
  <2> QED BY <2>1, <2>2
<1> QED BY <1>2, <1>5, <1>6, <1>7, <1>8, SameOps, SameResults DEF Arch!Store

\* What a unit computed from the operands of program order is what the
\* machine computes.
LEMMA HeadValue ==
  ASSUME CodePipe, HeadReady, NEW i \in Instr, i = prog[HeadEntry.pc]
  PROVE  LET a == regfile[i.rs1]
             b == regfile[i.rs2]
             e == HeadEntry
         IN /\ i.op = "lui" => e.value = i.imm
            /\ i.op \in {"jal", "jalr"} => e.value = NextPc(e.pc)
            /\ i.op = "jalr" => Follower(rob_head) = Plus(a, i.imm)
            /\ i.op \in AluOps => e.value = alu_compute(i, a, IF i.op = "addi" THEN i.imm ELSE b)
            /\ i.op \in MdOps => e.value = md_compute(i, a, b)
            /\ i.op \in FpuOps => e.value = fpu_compute(i, a, b, regfile[i.rs3])
            /\ i.op \in LoadOps => e.value = dmem[MemIndex(Plus(a, i.imm))]
<1> DEFINE a == regfile[i.rs1]
<1>1. /\ rob_head \in Tags /\ HeadEntry = rob[rob_head] /\ Explained(rob_head)
  <2>1. rob_head \in Tags /\ InFlight(rob_head) /\ HeadEntry = rob[rob_head] /\ rob[rob_head].ready
    BY HeadIs DEF HeadFacts, HeadReady
  <2> QED BY <2>1 DEF CodePipe, ValuePipe, DataInv, ScalarResultsRight
<1>2. CASE i.op \in QuickOps \cup CsrOps
  <2>1. i.op \notin {"jalr"} \cup AluOps \cup MdOps \cup FpuOps \cup LoadOps
    BY <1>2 DEF QuickOps, TrapOps, CsrOps, AluOps, MdOps, FpuOps, LoadOps
  <2>2. /\ i.op = "lui" => HeadEntry.value = i.imm
        /\ i.op = "jal" => HeadEntry.value = NextPc(HeadEntry.pc)
    BY <1>1 DEF Explained
  <2> QED BY <2>1, <2>2
<1>3. CASE i.op \notin QuickOps \cup CsrOps
  <2>1. i.op \notin {"lui", "jal"}
    BY <1>3 DEF QuickOps
  <2>2. PICK b \in Word, c \in Word :
          /\ Outcome(rob_head, a, b, c)
          /\ b = IF ReadsReg(i, 2) THEN regfile[i.rs2] ELSE SrcImm(i, 2)
          /\ i.op = "fmadd" => c = regfile[i.rs3]
    BY <1>3, HeadOutcome
  <2>3. /\ i.op \in AluOps   => HeadEntry.value = alu_compute(i, a, b)
        /\ i.op \in MdOps    => HeadEntry.value = md_compute(i, a, b)
        /\ i.op \in FpuOps   => HeadEntry.value = fpu_compute(i, a, b, c)
        /\ i.op \in LoadOps  => HeadEntry.value = dmem[MemIndex(Plus(a, i.imm))]
        /\ i.op = "jalr"     => HeadEntry.value = NextPc(HeadEntry.pc) /\ Follower(rob_head) = Plus(a, i.imm)
    BY <1>1, <2>2 DEF Outcome
  <2>4. /\ i.op \in AluOps => b = IF i.op = "addi" THEN i.imm ELSE regfile[i.rs2]
        /\ i.op \in MdOps => b = regfile[i.rs2]
        /\ i.op \in {"fadd", "fdiv", "fmadd"} => b = regfile[i.rs2]
    BY <2>2, WhatIsRead DEF AluOps
  <2>5. i.op \in FpuOps => fpu_compute(i, a, b, c) = fpu_compute(i, a, regfile[i.rs2], regfile[i.rs3])
    <3>1. CASE i.op \in {"fadd", "fdiv"}
      BY <2>4, <3>1 DEF fpu_compute
    <3>2. CASE i.op = "fmadd"
      BY <2>2, <2>4, <3>2 DEF fpu_compute
    <3>3. CASE i.op \notin {"fadd", "fdiv", "fmadd"}
      BY <3>3 DEF fpu_compute
    <3> QED BY <3>1, <3>2, <3>3
  <2> QED BY <2>1, <2>3, <2>4, <2>5
<1> QED BY <1>2, <1>3

\* A result moves to the register file, for the machine in one step with
\* its computation.  A CSR instruction has already been seen.
LEMMA RegisterSeen ==
  ASSUME CodePipe, CodePipe', ~halted, CommitRegister,
         prog[HeadEntry.pc] \in Instr
  PROVE  (Arch!Step \/ UNCHANGED Arch!vars) /\ prog' = prog
<1>1. /\ Commit /\ ~HeadEntry.is_branch /\ ~HeadEntry.is_mret
      /\ ~HeadEntry.takes_trap /\ ~HeadEntry.is_store
  BY DEF CommitRegister, CommitPlain
<1>2. PICK i \in Instr :
        /\ i = prog[HeadEntry.pc] /\ HeadEntry.dest = Dest(i)
        /\ i.op \notin {"end", "mret"} \cup BranchOps \cup TrapOps \cup StoreOps
  BY <1>1, CommitFacts
<1>3. HeadReady /\ halted = FALSE /\ HeadEntry = rob[rob_head]
  BY <1>1, CommitFacts DEF HeadEntry
<1>4. /\ Retire /\ UNCHANGED <<prog, fetch_pc, dmem, out, csr, mtip, halted>>
      /\ regfile' = IF HeadEntry.dest = X0 THEN regfile
                    ELSE [regfile EXCEPT ![HeadEntry.dest] = HeadEntry.value]
  BY DEF CommitRegister, front, timer
<1>5. ArchPc' = Follower(rob_head) /\ ArchRegs' = regfile'
  BY <1>3, <1>4, RetireSeen
<1>6. CASE i.op \in CsrOps
  <2>1. CsrDone
    BY <1>2, <1>3, <1>6 DEF CsrDone
  <2>2. ArchPc' = ArchPc /\ ArchRegs' = ArchRegs
    BY <1>4, <1>5, <2>1, ArchIs DEF ArchFacts
  <2> QED BY <1>4, <2>2 DEF Arch!vars
<1>7. CASE i.op \notin CsrOps
  <2>1. /\ ArchPc = HeadEntry.pc /\ ArchRegs = regfile
        /\ Arch!instr = i /\ Arch!s1 = regfile[i.rs1]
        /\ Arch!s2 = regfile[i.rs2] /\ Arch!s3 = regfile[i.rs3]
    BY <1>2, <1>3, <1>7, HeadIsNext
  <2>2. i.op # "jalr" => Follower(rob_head) = IF i.op = "jal" THEN i.imm ELSE NextPc(HeadEntry.pc)
    BY <1>1, <1>2, <1>3, NextIs
  <2>3. /\ i.op = "fence" => Dest(i) = X0
        /\ i.op # "fence" => Dest(i) = i.rd
    BY <1>2 DEF Dest
  <2>4. i.op # "fence" => regfile' = Arch!Written(i.rd, HeadEntry.value)
    BY <1>2, <1>4, <2>1, <2>3 DEF Arch!Written
  <2>5. CASE i.op \in AluOps \cup MdOps \cup {"lui", "jal"}
    <3>1. Arch!Value = HeadEntry.value
      <4>1. CASE i.op \in AluOps
        <5>1. i.op \notin {"lui", "jal"}
          BY <4>1 DEF AluOps
        <5>2. HeadEntry.value = alu_compute(i, regfile[i.rs1], IF i.op = "addi" THEN i.imm ELSE regfile[i.rs2])
          BY <1>2, <1>3, <4>1, HeadValue
        <5> QED BY <2>1, <4>1, <5>1, <5>2, SameOps, SameResults DEF Arch!Value
      <4>2. CASE i.op \in MdOps
        <5>1. i.op \notin {"lui", "jal", "addi"} /\ i.op \notin AluOps
          BY <4>2 DEF AluOps, MdOps
        <5>2. HeadEntry.value = md_compute(i, regfile[i.rs1], regfile[i.rs2])
          BY <1>2, <1>3, <4>2, HeadValue
        <5> QED BY <2>1, <4>2, <5>1, <5>2, SameOps, SameResults DEF Arch!Value
      <4>3. CASE i.op = "lui"
        <5>1. HeadEntry.value = i.imm
          BY <1>2, <1>3, <4>3, HeadValue
        <5> QED BY <2>1, <4>3, <5>1 DEF Arch!Value
      <4>4. CASE i.op = "jal"
        <5>1. HeadEntry.value = NextPc(ArchPc)
          BY <1>2, <1>3, <2>1, <4>4, HeadValue
        <5> QED BY <2>1, <4>4, <5>1, SameResults DEF Arch!Value
      <4> QED BY <2>5, <4>1, <4>2, <4>3, <4>4
    <3>2. i.op # "fence" /\ i.op # "jalr"
      BY <2>5 DEF AluOps, MdOps
    <3>3. Arch!Compute
      BY <1>4, <1>5, <2>1, <2>2, <2>4, <2>5, <3>1, <3>2, SameOps, SameResults DEF Arch!Compute
    <3> QED BY <1>4, <3>3 DEF Arch!Step
  <2>6. CASE i.op \in FpuOps
    <3>1. Arch!FpValue = HeadEntry.value
      BY <1>2, <1>3, <2>1, <2>6, HeadValue, SameResults DEF Arch!FpValue
    <3>2. i.op \notin {"fence", "jalr", "jal"}
      BY <2>6 DEF FpuOps
    <3>3. Arch!ComputeFp
      BY <1>4, <1>5, <2>1, <2>2, <2>4, <2>6, <3>1, <3>2, SameOps, SameResults DEF Arch!ComputeFp
    <3> QED BY <1>4, <3>3 DEF Arch!Step
  <2>7. CASE i.op = "fence"
    <3>1. Arch!Fence
      BY <1>2, <1>4, <1>5, <2>1, <2>2, <2>3, <2>7, SameResults DEF Arch!Fence
    <3> QED BY <1>4, <3>1 DEF Arch!Step
  <2>8. CASE i.op \in LoadOps
    <3>1. HeadEntry.value = dmem[MemIndex(Plus(regfile[i.rs1], i.imm))]
      BY <1>2, <1>3, <2>8, HeadValue
    <3>2. i.op \notin {"fence", "jalr", "jal"}
      BY <2>8 DEF LoadOps
    <3>3. Arch!Load
      BY <1>4, <1>5, <2>1, <2>2, <2>4, <2>8, <3>1, <3>2, SameOps, SameResults DEF Arch!Load
    <3> QED BY <1>4, <3>3 DEF Arch!Step
  <2>9. CASE i.op = "jalr"
    <3>1. HeadEntry.value = NextPc(HeadEntry.pc) /\ Follower(rob_head) = Plus(regfile[i.rs1], i.imm)
      BY <1>2, <1>3, <2>9, HeadValue
    <3>2. Arch!Jalr
      BY <1>4, <1>5, <2>1, <2>4, <2>9, <3>1, SameResults DEF Arch!Jalr
    <3> QED BY <1>4, <3>2 DEF Arch!Step
  <2>10. i.op \in AluOps \cup MdOps \cup {"lui", "jal"} \cup FpuOps \cup {"fence"} \cup LoadOps \cup {"jalr"}
    BY <1>2, <1>7 DEF Instr, Ops, QuickOps
  <2> QED BY <2>5, <2>6, <2>7, <2>8, <2>9, <2>10
<1> QED BY <1>6, <1>7

\* The interrupt enters the handler between two instructions of the machine,
\* unless a CSR instruction at the head has already taken effect.
LEMMA InterruptSeen ==
  ASSUME CodePipe, CodePipe', ~halted, TakeInterrupt, ~CsrDone
  PROVE  Arch!Interrupt /\ prog' = prog
<1>1. /\ mtip /\ InterruptEnabled(csr) /\ HeadReady /\ Redirect(csr.mtvec)
      /\ csr' = EnterTrap(csr, HeadEntry.pc, CAUSE_TIMER)
      /\ halted' = FALSE /\ UNCHANGED <<prog, regfile, dmem, out, mtip>>
  BY DEF TakeInterrupt, InterruptTaken, timer
<1>2. halted = FALSE
  BY DEF CodePipe, ValuePipe, PathPipe, PipeCore, CoreTypeOK
<1>3. ArchPc = HeadEntry.pc /\ ArchRegs = regfile
  BY <1>1, ArchIs DEF ArchFacts, HeadReady
<1>4. ArchPc' = csr.mtvec /\ ArchRegs' = regfile
  BY <1>1, FlushSeen
<1> QED BY <1>1, <1>2, <1>3, <1>4, SameTraps DEF Arch!Interrupt

\* In that case mepc is that of the CSR instruction, and MRET executes it again.
LEMMA ReplaySeen ==
  ASSUME CodePipe, TakeInterrupt, CsrDone PROVE csr'.mepc # ArchPc
<1>1. HeadReady /\ csr' = EnterTrap(csr, HeadEntry.pc, CAUSE_TIMER)
  BY DEF TakeInterrupt, InterruptTaken
<1>2. csr \in CsrFile /\ HeadEntry \in RobEntry
  BY HeadTyped DEF CodePipe, ValuePipe, PathPipe, PipeCore, CoreTypeOK
<1>3. csr'.mepc = HeadEntry.pc
  BY <1>1, <1>2 DEF EnterTrap, CsrFile
<1>4. PICK i : i = prog[HeadEntry.pc] /\ i.op \in CsrOps
  BY DEF CsrDone
<1>5. i.op # "jal" /\ i.op # "jalr" /\ ~HeadEntry.is_branch
  <2>1. HeadEntry = rob[rob_head] /\ EntryDecoded(rob_head)
    BY <1>1, HeadIs DEF HeadFacts, HeadReady
  <2> QED BY <1>4, <2>1 DEF EntryDecoded, CsrOps, BranchOps
<1>6. ArchPc = NextPc(HeadEntry.pc)
  <2>1. ArchPc = Follower(rob_head)
    BY ArchIs DEF ArchFacts
  <2> QED BY <1>1, <1>4, <1>5, <2>1, NextIs
<1>7. PICK p \in Word : p = HeadEntry.pc
  BY <1>2 DEF RobEntry
<1>8. NextPc(p) # p
  BY WordAssumption DEF NextPc, Plus, Word
<1> QED BY <1>3, <1>6, <1>7, <1>8

-----------------------------------------------------------------------------
(* The units work unseen, but for the CSR instruction at the head.         *)

LEMMA Unseen ==
  ASSUME ArchPc' = ArchPc, ArchRegs' = ArchRegs, UNCHANGED <<prog, dmem, out, csr, mtip, halted>>
  PROVE  UNCHANGED Arch!vars
  BY DEF Arch!vars

\* An entry that a unit other than "sys" completes is not a CSR instruction.
LEMMA UnitsSpareCsrs ==
  ASSUME CodePipe, NEW u \in Units \ {"sys"}, rs[u].busy
  PROVE  /\ rs[u].rob_tag \in Tags /\ InFlight(rs[u].rob_tag)
         /\ prog[rob[rs[u].rob_tag].pc].op \notin CsrOps
<1>0. CoreTypeOK /\ StationsOwn /\ Decoded /\ CsrCode
  BY DEF CodePipe, ValuePipe, DataInv, PathPipe, PipeCore, PipelineInv
<1>1. rs[u].rob_tag \in Tags /\ InFlight(rs[u].rob_tag) /\ rob[rs[u].rob_tag].pc = rs[u].pc
  BY <1>0, TagsTyped DEF StationsOwn
<1>2. InsOf(u) \in Instr => InsOf(u).op \in UnitOps(u)
  BY <1>0 DEF Decoded, StationDecoded
<1>3. u \in AluUnits \/ u \in {"md", "fpu", "br", "lsu"}
  BY DEF Units, TimedUnits
<1>4. UnitOps(u) \cap CsrOps = {}
  BY <1>3 DEF UnitOps, AluUnits, AluOps, MdOps, FpuOps, BranchOps, LoadOps, StoreOps, CsrOps
<1>5. InsOf(u).op \in CsrOps => InsOf(u) \in Instr
  BY <1>0, StationTyped DEF CsrCode, InsOf
<1> QED BY <1>1, <1>2, <1>4, <1>5 DEF InsOf

LEMMA ExecuteSeen == ASSUME CodePipe, CodePipe', Execute PROVE UNCHANGED Arch!vars
<1>0. CoreTypeOK /\ rob_count \in Nat
  BY Counters DEF CodePipe, ValuePipe, PathPipe, PipeCore, PipelineInv
<1>1. /\ KeepsValues
      /\ \A t \in Tags : InFlight(t) /\ rob[t].ready => Follower(t)' = Follower(t)
  BY ExecuteWork DEF CodePipe
<1>2. ASSUME rob_count > 0
      PROVE  /\ rob_head \in Tags /\ InFlight(rob_head)
             /\ rob'[rob_head].ready => rob[rob_head].ready \/ prog[rob[rob_head].pc].op \notin CsrOps
  <2>1. rob_head \in Tags /\ InFlight(rob_head)
    BY <1>2, HeadIs DEF HeadFacts
  <2>2. CASE rob_head \notin DOMAIN Results
    BY <1>0, <2>1, <2>2, ExecuteEntry
  <2>3. CASE rob_head \in DOMAIN Results
    <3>1. PICK u \in Done : rs[u].rob_tag = rob_head
      BY <2>3 DEF Results
    <3>2. u \in Units \ {"sys"} /\ rs[u].busy
      BY DEF Done, Units, TimedUnits, AluUnits
    <3> QED BY <2>1, <3>1, <3>2, UnitsSpareCsrs
  <2> QED BY <2>1, <2>2, <2>3
<1>3. ASSUME rob_count = 0 PROVE UNCHANGED fetch_pc
  <2>1. ~rs["br"].busy
    <3> SUFFICES ASSUME rs["br"].busy PROVE FALSE
      OBVIOUS
    <3>1. "br" \in Units /\ rs["br"].rob_tag \in Tags /\ InFlight(rs["br"].rob_tag)
      BY UnitsSpareCsrs DEF Units, TimedUnits
    <3> QED BY <1>0, <1>3, <3>1, AgeBounds DEF InFlight
  <2> QED BY <2>1 DEF Execute, JalrDone, Done
<1>4. /\ rob_count > 0 /\ rob'[rob_head].ready =>
           rob[rob_head].ready \/ prog[rob[rob_head].pc].op \notin CsrOps
      /\ rob_count = 0 => UNCHANGED fetch_pc
      /\ rob_count > 0 /\ rob[rob_head].ready => Follower(rob_head)' = Follower(rob_head)
  <2>1. rob_head' = rob_head
    BY DEF Execute
  <2> QED BY <1>1, <1>2, <1>3, <2>1
<1>5. ArchPc' = ArchPc /\ ArchRegs' = ArchRegs
  BY <1>1, <1>4, WorkSeen
<1> QED BY <1>5, Unseen DEF Execute, timer

LEMMA LsuSeen ==
  ASSUME CodePipe, CodePipe', LsuStore \/ LsuLoad PROVE UNCHANGED Arch!vars
<1>0. CoreTypeOK /\ "lsu" \in Units /\ ~SysExecute
  BY DEF CodePipe, ValuePipe, PathPipe, PipeCore, Units, LsuStore, LsuLoad, SysExecute, SysMayExecute
<1>1. UNCHANGED <<prog, rob_head, rob_tail, rob_count, regfile, dmem, fetch_pc, out, csr, mtip, halted>>
  BY DEF LsuStore, LsuLoad, front, timer
<1>2. /\ KeepsValues /\ rs["lsu"].busy
      /\ \A t \in Tags : InFlight(t) => Follower(t)' = Follower(t)
      /\ \A t \in Tags : t # rs["lsu"].rob_tag => rob'[t] = rob[t]
  <2>1. CASE LsuStore
    BY <1>0, <2>1, LsuStoreWork, LsuStoreEffect DEF CodePipe
  <2>2. CASE LsuLoad
    <3>1. PICK v \in Word : v = dmem[MemIndex(LsuAddr)]
      BY <1>0, <2>2, HeadUnitsDeliver
    <3>2. rs["lsu"].busy /\ Delivers("lsu", v)
      BY <1>0, <2>2, <3>1, HeadUnitsDeliver
    <3> QED BY <1>0, <1>1, <3>2, DeliverWork, DeliverEntry DEF CodePipe
  <2> QED BY <2>1, <2>2
<1>3. prog[rob[rs["lsu"].rob_tag].pc].op \notin CsrOps
  BY <1>0, <1>2, UnitsSpareCsrs
<1>4. rob_count > 0 => rob_head \in Tags /\ InFlight(rob_head)
  BY HeadIs DEF HeadFacts
<1>5. ArchPc' = ArchPc /\ ArchRegs' = ArchRegs
  BY <1>1, <1>2, <1>3, <1>4, WorkSeen
<1> QED BY <1>1, <1>5, Unseen

\* A CSR instruction acts at the head: for the machine it is executed here,
\* and its register written, long before it retires.
LEMMA CsrSeen ==
  ASSUME CodePipe, CodePipe', SysExecute, InsOf("sys") \in Instr PROVE Arch!CsrAccess /\ prog' = prog
<1>0. /\ CoreTypeOK /\ RobWindow /\ StationsOwn /\ Decoded /\ OperandsRight
      /\ HeadFacts /\ ArchFacts /\ HeadFacts' /\ ArchFacts' /\ "sys" \in Units
  BY FactsHold DEF CodePipe, ValuePipe, DataInv, PathPipe, PipeCore, PipelineInv, Units
<1>1. PICK v \in Word : v = read_csr(csr, InsOf("sys").csr)
  BY <1>0, HeadUnitsDeliver
<1>2. rs["sys"].busy /\ Delivers("sys", v)
  BY <1>0, <1>1, HeadUnitsDeliver
<1>3. PICK h \in Tags : h = rs["sys"].rob_tag /\ h = rob_head /\ h = rob_head'
  BY <1>0, <1>2, TagsTyped DEF SysExecute, SysMayExecute, AtHead
<1>4. /\ InFlight(h) /\ ~rob[h].ready /\ rob[h].pc = rs["sys"].pc
      /\ rob_count > 0 /\ rob_count' = rob_count
  <2>1. InFlight(h) /\ ~rob[h].ready /\ rob[h].pc = rs["sys"].pc
    BY <1>0, <1>2, <1>3 DEF StationsOwn
  <2>2. Age(h) \in Nat /\ rob_count \in Nat
    BY <1>0, <1>3, AgeBounds, Counters
  <2> QED BY <2>1, <2>2 DEF InFlight, SysExecute
<1>5. PICK i \in Instr : i = InsOf("sys") /\ i = prog[rob[h].pc] /\ i.op \in CsrOps
  <2>1. InsOf("sys").op \in CsrOps
    BY <1>0, <1>2 DEF Decoded, StationDecoded, UnitOps, AluUnits
  <2> QED BY <1>4, <2>1 DEF InsOf
<1>6. UNCHANGED <<prog, rob_head, rob_tail, rob_count, regfile, fetch_pc, dmem, out, halted>>
  BY DEF SysExecute, front
<1>7. rob'[h].ready /\ rob'[h].value = v /\ rob'[h].pc = rob[h].pc /\ rob'[h].dest = rob[h].dest
  BY <1>0, <1>2, <1>3, DeliverEntry
<1>8. HeadEntry = rob[h] /\ HeadEntry' = rob'[h] /\ HeadReady' /\ ~CsrDone /\ CsrDone'
  <2>1. HeadEntry = rob[h] /\ HeadEntry' = rob'[h] /\ HeadReady' /\ ~HeadReady
    BY <1>0, <1>3, <1>4, <1>7 DEF HeadFacts
  <2> QED BY <1>5, <1>6, <1>7, <2>1 DEF CsrDone
<1>9. ArchPc = rob[h].pc /\ ArchRegs = regfile /\ Arch!instr = i /\ Arch!s1 = regfile[i.rs1]
  <2>1. ArchPc = rob[h].pc /\ ArchRegs = regfile
    BY <1>0, <1>4, <1>8 DEF ArchFacts
  <2> QED BY <1>5, <2>1 DEF Arch!instr, Arch!s1
<1>10. ArchPc' = NextPc(rob[h].pc)
  <2>1. ArchPc' = Follower(h)'
    BY <1>0, <1>3, <1>8 DEF ArchFacts
  <2>2. Follower(h)' = Follower(h)
    BY <1>0, <1>2, <1>4, <1>6, DeliverWork DEF CodePipe
  <2>3. EntryDecoded(h) /\ i.op # "jal" /\ i.op # "jalr" /\ i.op \notin BranchOps
    BY <1>0, <1>4, <1>5 DEF Decoded, CsrOps, BranchOps
  <2>4. Successor(h) = Follower(h)
    BY <1>4, <1>5, <2>3 DEF CodePipe, ValuePipe, PathPipe, PathInv, OnPredictedPath
  <2> QED BY <1>5, <2>1, <2>2, <2>3, <2>4 DEF Successor, EntryDecoded
<1>11. ArchRegs' = Arch!Written(i.rd, v)
  <2>1. Dest(i) = i.rd
    BY <1>5 DEF Dest, CsrOps, StoreOps, BranchOps, TrapOps
  <2>2. rob'[h].dest = i.rd
    BY <1>0, <1>4, <1>5, <1>7, <2>1 DEF Decoded, EntryDecoded
  <2> QED BY <1>0, <1>6, <1>7, <1>8, <1>9, <2>2 DEF ArchFacts, Arch!Written
<1>12. Val("sys", 1) = IF i.op = "csrrwi" THEN i.imm ELSE regfile[i.rs1]
  <2>1. Reads(i, 1, h, Val("sys", 1))
    <3>1. rs["sys"].src[1].ready
      BY DEF SysExecute, SysMayExecute
    <3>2. OperandRight("sys", 1)
      BY <1>0, <1>2 DEF OperandsRight
    <3> QED BY <1>3, <1>5, <3>1, <3>2 DEF OperandRight, Val
  <2>2. PICK x : x = Val("sys", 1)
    OBVIOUS
  <2>3. x = IF ReadsReg(i, 1) THEN regfile[SrcReg(i, 1)] ELSE SrcImm(i, 1)
    BY <1>3, <1>4, <2>1, <2>2, HeadReads
  <2> QED BY <2>2, <2>3, WhatIsRead
<1>13. /\ csr' = write_csr(csr, i.csr, CsrNewValue(i, v, Val("sys", 1)))
       /\ mtip' = (mtip /\ i.csr # "mtimecmp")
  BY <1>1, <1>5 DEF SysExecute
<1> QED BY <1>1, <1>5, <1>6, <1>9, <1>10, <1>11, <1>12, <1>13, SameOps, SameCsrs, SameResults
        DEF Arch!CsrAccess

\* A block of the tick that finds nothing to do, or only starts a countdown.
LEMMA QuietSeen ==
  ASSUME UNCHANGED <<prog, fetch_pc, robs, regfile>> PROVE ArchPc' = ArchPc /\ ArchRegs' = ArchRegs
  BY DEF ArchPc, ArchRegs, CsrDone, HeadReady, HeadEntry, Inc, robs

-----------------------------------------------------------------------------
(* Fetch and dispatch are ahead of the machine: all it sees of them is the *)
(* end of the program.                                                     *)

LEMMA DispatchEnters ==
  ASSUME CoreTypeOK, Fetched \in Instr, DispatchQuick \/ DispatchToUnit \/ DispatchJalr \/ DispatchBranch
  PROVE  /\ MayFetch /\ EndOfTick
         /\ \E e \in RobEntry : /\ e.valid /\ e.pc = fetch_pc
                                /\ e.ready => Fetched.op \in QuickOps
                                /\ \E p : Enter(e, p)
<1>1. CASE DispatchQuick
  <2>1. /\ Enter(QuickEntry(Fetched), QuickNext(Fetched)) /\ MayFetch /\ EndOfTick
        /\ Fetched.op \in QuickOps
    BY <1>1 DEF DispatchQuick, Dispatch, QuickEntry, QuickNext
  <2> QED BY <2>1, QuickFacts
<1>2. CASE DispatchToUnit \/ DispatchJalr \/ DispatchBranch
  <2> DEFINE e == PendingEntry(Fetched)
  <2>1. MayFetch /\ EndOfTick /\ Fetched.op \notin QuickOps \cup {"end"}
    BY <1>2 DEF DispatchToUnit, DispatchJalr, DispatchBranch, Dispatch, QuickOps, TrapOps,
                AluOps, MdOps, FpuOps, LoadOps, StoreOps, BranchOps, CsrOps
  <2>2. e \in RobEntry /\ e.valid /\ ~e.ready /\ e.pc = fetch_pc
    BY <2>1, PendingFits
  <2>3. CASE DispatchToUnit \/ DispatchJalr
    <3>1. Enter(e, NextPc(fetch_pc))
      BY <2>3 DEF DispatchToUnit, DispatchJalr
    <3> HIDE DEF e
    <3> QED BY <2>1, <2>2, <3>1
  <2>4. CASE DispatchBranch
    <3>1. PICK pred \in BOOLEAN :
            Enter([e EXCEPT !.is_branch = TRUE, !.pred_taken = pred],
                  IF pred THEN Fetched.imm ELSE NextPc(fetch_pc))
      BY <2>4 DEF DispatchBranch
    <3> DEFINE p == IF pred THEN Fetched.imm ELSE NextPc(fetch_pc)
    <3> HIDE DEF e
    <3> DEFINE b == [e EXCEPT !.is_branch = TRUE, !.pred_taken = pred]
    <3>2. b \in RobEntry /\ b.valid /\ ~b.ready /\ b.pc = fetch_pc
      BY <2>2 DEF RobEntry
    <3>3. Enter(b, p)
      BY <3>1
    <3> HIDE DEF b, p
    <3> QED BY <2>1, <3>2, <3>3
  <2> QED BY <1>2, <2>3, <2>4
<1> QED BY <1>1, <1>2

LEMMA DispatchSeen ==
  ASSUME CodePipe, CodePipe', ~halted, DispatchStage, FetchIdle \/ Fetched \in Instr
  PROVE  /\ Arch!Stop \/ UNCHANGED Arch!vars
         /\ prog' = prog
<1>0. /\ CoreTypeOK /\ RobWindow /\ ecall_halt = FALSE /\ halted = FALSE
      /\ halted' \in BOOLEAN /\ rob_count \in Nat
  BY Counters DEF CodePipe, ValuePipe, DataInv, Halts, PathPipe, PipeCore, PipelineInv, CoreTypeOK
<1>1. EndOfTick
  BY DEF DispatchStage, DispatchQuick, DispatchToUnit, DispatchJalr, DispatchBranch, DispatchStall,
         FetchEnd, FetchIdle
<1>2. /\ UNCHANGED <<prog, regfile, dmem, out, csr, mtip>>
      /\ halted' <=> fetch_done' /\ rob_count' = 0
  BY <1>0, <1>1 DEF EndOfTick, timer
<1>3. ASSUME ArchPc' = ArchPc, ArchRegs' = ArchRegs, ~halted' PROVE UNCHANGED Arch!vars
  <2>1. halted' = halted
    BY <1>0, <1>3
  <2> QED BY <1>2, <1>3, <2>1, Unseen
<1>4. CASE DispatchQuick \/ DispatchToUnit \/ DispatchJalr \/ DispatchBranch
  <2>0. Fetched \in Instr
    BY <1>4 DEF DispatchQuick, DispatchToUnit, DispatchJalr, DispatchBranch, Dispatch, FetchIdle, MayFetch
  <2>1. PICK e, p :
          e \in RobEntry /\ e.valid /\ e.pc = fetch_pc /\ (e.ready => Fetched.op \in QuickOps) /\ Enter(e, p)
    BY <1>0, <1>4, <2>0, DispatchEnters
  <2>2. MayFetch
    BY <1>0, <1>4, <2>0, DispatchEnters
  <2>3. ArchPc' = ArchPc /\ ArchRegs' = ArchRegs
    BY <1>2, <2>1, <2>2, EnterSeen
  <2>4. ~halted'
    BY <1>0, <1>2, <2>1 DEF Enter
  <2> QED BY <1>2, <1>3, <2>3, <2>4
<1>5. CASE DispatchStall
  <2>1. /\ UNCHANGED <<fetch_pc, fetch_done, rob_head, rob_tail, rob_count>>
        /\ ~fetch_done /\ rob_count < ROB_SZ
        /\ rob' = [rob EXCEPT ![rob_tail] = FreshEntry]
    BY <1>5 DEF DispatchStall, Dispatch, MayFetch, front
  <2>2. \A t \in Tags : InFlight(t) => rob'[t] = rob[t]
    BY <1>0, <2>1, TailIsFree DEF CoreTypeOK
  <2>3. KeepsValues /\ KeepsEntries
    BY <1>2, <2>1, <2>2 DEF KeepsValues, KeepsEntries
  <2>4. rob_count > 0 => rob_head \in Tags /\ InFlight(rob_head)
    BY HeadIs DEF HeadFacts
  <2>5. rob_count > 0 => Follower(rob_head)' = Follower(rob_head) /\ rob'[rob_head] = rob[rob_head]
    BY <1>0, <2>1, <2>2, <2>3, <2>4, KeepsFollower
  <2>6. ArchPc' = ArchPc /\ ArchRegs' = ArchRegs
    BY <2>1, <2>3, <2>5, WorkSeen
  <2> QED BY <1>2, <1>3, <2>1, <2>6
<1>6. CASE FetchEnd \/ FetchIdle
  <2>1. UNCHANGED <<fetch_pc, robs, rob_count>>
    BY <1>6 DEF FetchEnd, FetchIdle, front, robs
  <2>2. ArchPc' = ArchPc /\ ArchRegs' = ArchRegs
    BY <1>2, <2>1, QuietSeen
  <2>3. CASE ~halted'
    BY <1>2, <1>3, <2>2, <2>3
  <2>4. CASE halted'
    <3>1. Fetched.op = "end"
      <4>1. CASE FetchEnd
        BY <4>1 DEF FetchEnd, Dispatch
      <4>2. CASE FetchIdle
        BY <1>2, <2>4, <4>2 DEF FetchIdle, front, CodePipe, ValuePipe, PathPipe, PathInv, StopsAtEnd
      <4> QED BY <1>6, <4>1, <4>2
    <3>2. rob_count = 0
      BY <1>2, <2>1, <2>4
    <3>3. ArchPc = fetch_pc
      BY <1>0, <3>2, ArchIs DEF ArchFacts
    <3>4. halted' = TRUE
      BY <1>0, <2>4
    <3> QED BY <1>2, <2>2, <3>1, <3>3, <3>4 DEF Arch!Stop, Arch!instr, Fetched
  <2> QED BY <2>3, <2>4
<1> QED BY <1>4, <1>5, <1>6 DEF DispatchStage

-----------------------------------------------------------------------------
(* The refinement.                                                         *)

\* Alone, the core runs scalar code only.
LEMMA CoreIsPipe == ValueCore => CodePipe
<1> SUFFICES ASSUME ValueCore PROVE CodePipe
  OBVIOUS
<1>1. prog \in [Word -> Instr]
  BY DEF ValueCore, PathCore, CoreInv
<1> QED BY <1>1 DEF CodePipe, CsrCode, ValueCore, ValuePipe, PathCore, PathPipe, CoreInv, PipeCore

LEMMA CoreRunsScalars ==
  ASSUME ValueCore
  PROVE  /\ Fetched \in Instr
         /\ HeadReady => prog[HeadEntry.pc] \in Instr
         /\ InsOf("sys") \in Instr
<1>1. CoreTypeOK /\ prog \in [Word -> Instr] /\ "sys" \in Units
  BY DEF ValueCore, PathCore, CoreInv, Units
<1>2. HeadEntry.pc \in Word
  BY <1>1, HeadTyped DEF RobEntry
<1> QED BY <1>1, <1>2, ScalarCode

LEMMA InitSeen == Init => Arch!Init
  BY SMTT(30) DEF Init, Reset, Arch!Init, ArchPc, ArchRegs, CsrDone, HeadReady,
                  Arch!CsrReset, CsrReset, Arch!PRV_M, PRV_M, Arch!PRV_U, PRV_U, Arch!Regs, Regs

\* Every step is one of the machine, but for the interrupt that is taken on
\* a completed CSR instruction.
LEMMA StepSeen ==
  ASSUME ValueCore, ValueCore', [Next]_vars
  PROVE  [Arch!Next]_(Arch!vars) \/ (TakeInterrupt /\ CsrDone)
<1>0. CodePipe /\ CodePipe'
  BY CoreIsPipe, PTL
<1>0a. /\ Fetched \in Instr
       /\ Commit => prog[HeadEntry.pc] \in Instr
       /\ InsOf("sys") \in Instr
  BY CoreRunsScalars DEF Commit
<1>0b. /\ CommitBranch \/ CommitMispredict \/ CommitMret \/ CommitTrap \/ CommitHalt => Commit
       /\ CommitStore \/ CommitRegister => Commit
  BY DEF CommitBranch, CommitMispredict, CommitMret, CommitTrap, CommitHalt, CommitStore, CommitRegister,
         CommitPlain
<1>1. CASE UNCHANGED vars
  <2>1. UNCHANGED <<prog, fetch_pc, robs, regfile, dmem, out, csr, mtip, halted>>
    BY <1>1 DEF vars, front, timer
  <2> QED BY <2>1, QuietSeen, Unseen
<1>2. CASE ~halted /\ TimerFires
  <2>1. UNCHANGED <<prog, fetch_pc, robs, regfile, dmem, out, csr, halted>> /\ mtip' = TRUE
    BY <1>2 DEF TimerFires, front
  <2>2. Arch!TimerFires
    BY <2>1, QuietSeen DEF Arch!TimerFires
  <2> QED BY <1>2, <2>1, <2>2 DEF Arch!Next
<1>3. CASE ~halted /\ CommitStage
  <2>1. CASE TakeInterrupt
    <3>1. ~CsrDone => Arch!Interrupt /\ prog' = prog
      BY <1>0, <1>3, <2>1, InterruptSeen
    <3> QED BY <1>3, <2>1, <3>1 DEF Arch!Next
  <2>2. CASE CommitBranch \/ CommitMispredict
    BY <1>0, <1>0a, <1>0b, <1>3, <2>2, BranchSeen DEF Arch!Next, Arch!Step
  <2>3. CASE CommitMret \/ CommitTrap \/ CommitHalt
    BY <1>0, <1>0a, <1>0b, <1>3, <2>3, TrapSeen DEF Arch!Next, Arch!Step
  <2>4. CASE CommitStore
    BY <1>0, <1>0a, <1>0b, <1>3, <2>4, StoreSeen DEF Arch!Next, Arch!Step
  <2>5. CASE CommitRegister
    BY <1>0, <1>0a, <1>0b, <1>3, <2>5, RegisterSeen DEF Arch!Next
  <2>6. CASE NoCommit
    <3>1. UNCHANGED <<prog, fetch_pc, robs, regfile, dmem, out, csr, mtip, halted>>
      BY <2>6 DEF NoCommit, front, timer
    <3> QED BY <3>1, QuietSeen, Unseen
  <2> QED BY <1>3, <2>1, <2>2, <2>3, <2>4, <2>5, <2>6 DEF CommitStage
<1>4. CASE Execute
  BY <1>0, <1>4, ExecuteSeen
<1>5. CASE LsuStore \/ LsuLoad
  BY <1>0, <1>5, LsuSeen
<1>6. CASE ~halted /\ SysExecute
  BY <1>0, <1>0a, <1>6, CsrSeen DEF Arch!Next, Arch!Step
<1>7. CASE LsuIdle \/ SysIdle \/ Issue
  <2>1. UNCHANGED <<prog, fetch_pc, robs, regfile, dmem, out, csr, mtip, halted>>
    BY <1>7 DEF LsuIdle, SysIdle, Issue, front, timer
  <2> QED BY <2>1, QuietSeen, Unseen
<1>8. CASE ~halted /\ DispatchStage
  BY <1>0, <1>0a, <1>8, DispatchSeen DEF Arch!Next
<1> QED BY <1>1, <1>2, <1>3, <1>4, <1>5, <1>6, <1>7, <1>8 DEF Next, Tick, Stopped

\* The pipeline executes the program exactly as the machine that knows
\* neither speculation nor renaming does, step by step, except where the
\* timer interrupt finds a CSR instruction that has taken effect at the
\* head of the ROB: the only place where the core departs from the ISA.
THEOREM DepartsOnlyAtCsr == Spec => [][[Arch!Next]_(Arch!vars) \/ (TakeInterrupt /\ CsrDone)]_vars
<1>1. ValueCore /\ ValueCore' /\ [Next]_vars => [[Arch!Next]_(Arch!vars) \/ (TakeInterrupt /\ CsrDone)]_vars
  BY StepSeen
<1> QED BY <1>1, ValueInvariant, PTL DEF Spec

\* If the interrupt always returns to an instruction that has not been
\* executed, as the comment at soc_top.cpp:187 has it, the core implements
\* the machine.
THEOREM ImplementsIsaCorrect == Spec /\ InterruptResumesUnexecuted => ImplementsIsa
<1>1. ValueCore /\ ValueCore' /\ [Next]_vars /\ [TakeInterrupt => csr'.mepc = ArchPc]_vars
        => [Arch!Next]_(Arch!vars)
  <2> SUFFICES ASSUME ValueCore, ValueCore', [Next]_vars, [TakeInterrupt => csr'.mepc = ArchPc]_vars
               PROVE  [Arch!Next]_(Arch!vars)
    OBVIOUS
  <2>1. CASE UNCHANGED vars
    <3>1. UNCHANGED <<prog, fetch_pc, robs, regfile, dmem, out, csr, mtip, halted>>
      BY <2>1 DEF vars, front, timer
    <3> QED BY <3>1, QuietSeen, Unseen
  <2>2. CASE TakeInterrupt => csr'.mepc = ArchPc
    BY <2>2, StepSeen, ReplaySeen, CoreIsPipe
  <2> QED BY <2>1, <2>2
<1> QED BY <1>1, InitSeen, ValueInvariant, PTL
        DEF Spec, InterruptResumesUnexecuted, ImplementsIsa, Arch!Spec

\* The timer is not due and never will be.
NoTimer == timer_left = 0 /\ mtip = FALSE

\* Without timer interrupts the core implements the machine, whatever the
\* program does.
THEOREM WithoutTimerCorrect == MaxTimer = 0 /\ Spec => ImplementsIsa
<1>1. MaxTimer = 0 /\ Init => NoTimer
  BY DEF Init, Reset, NoTimer
<1>2. NoTimer /\ [Next]_vars => NoTimer'
  <2> SUFFICES ASSUME NoTimer, [Next]_vars PROVE NoTimer'
    OBVIOUS
  <2>1. CASE UNCHANGED timer
    BY <2>1 DEF NoTimer, timer
  <2>2. CASE SysExecute
    BY <2>2 DEF SysExecute, NoTimer
  <2>3. ~TimerFires
    BY DEF TimerFires, NoTimer
  <2>4. CommitStage => UNCHANGED timer
    BY DEF CommitStage, TakeInterrupt, CommitBranch, CommitMispredict, CommitMret, CommitTrap,
           CommitHalt, CommitStore, CommitRegister, NoCommit
  <2>5. Execute \/ LsuStore \/ LsuLoad \/ LsuIdle \/ SysIdle \/ Issue => UNCHANGED timer
    BY DEF Execute, LsuStore, LsuLoad, LsuIdle, SysIdle, Issue
  <2>6. DispatchStage => UNCHANGED timer
    BY DEF DispatchStage, DispatchQuick, DispatchToUnit, DispatchJalr, DispatchBranch, DispatchStall,
           FetchEnd, FetchIdle, EndOfTick
  <2> QED BY <2>1, <2>2, <2>3, <2>4, <2>5, <2>6 DEF Next, Tick, Stopped, vars
<1>3. NoTimer => ~TakeInterrupt
  BY DEF NoTimer, TakeInterrupt, InterruptTaken
<1>4. MaxTimer = 0 /\ Spec => InterruptResumesUnexecuted
  <2>1. NoTimer => [TakeInterrupt => csr'.mepc = ArchPc]_vars
    BY <1>3
  <2> QED BY <1>1, <1>2, <2>1, PTL DEF Spec, InterruptResumesUnexecuted
<1> QED BY <1>4, ImplementsIsaCorrect, PTL
=============================================================================
