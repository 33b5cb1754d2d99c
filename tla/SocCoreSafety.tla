--------------------------- MODULE SocCoreSafety ---------------------------
(***************************************************************************)
(* The safety invariants of the out-of-order core, proved for every value  *)
(* of the constants.                                                       *)
(*                                                                         *)
(* None of them is inductive alone.  That a waiting operand will be woken  *)
(* (NoLostWakeup) rests on the mapping it was read from                    *)
(* (RatNamesYoungestWriter) and on the producer still having a station     *)
(* (PendingOwnership); a mapping can be dropped safely only because        *)
(* instructions that write no register never own one (WritersOnly); and    *)
(* all of them speak of the window of entries in flight (RobWindow).       *)
(* CoreInv is their conjunction and is inductive.                          *)
(*                                                                         *)
(* A step changes the pipeline in one of four ways, and each has a lemma:  *)
(* it flushes everything, retires the head, completes some units, or       *)
(* enters an instruction.                                                  *)
(*                                                                         *)
(* The lemmas ask for scalar instructions only where the core handles one  *)
(* (CoreTypeOK for its stations, a hypothesis for the fetch), so that they *)
(* also serve a composition whose programs have other instructions.        *)
(***************************************************************************)
EXTENDS SocCore, TLAPS

USE DEF Word

-----------------------------------------------------------------------------
(* Words and what the units compute.                                       *)

\* A number reduced modulo the word size is a word.
LEMMA ModIsWord == ASSUME NEW x \in Int PROVE x % WORD \in Word
  BY WordAssumption

\* The small constants of the code are words.
LEMMA SmallWords ==
  /\ 0 \in Word /\ 1 \in Word /\ WORD - 1 \in Word
  /\ CAUSE_ILLEGAL \in Word /\ CAUSE_BREAK \in Word /\ CAUSE_ECALL_U \in Word
  /\ CAUSE_ECALL_M \in Word /\ CAUSE_TIMER \in Word
  BY WordAssumption DEF CAUSE_ILLEGAL, CAUSE_BREAK, CAUSE_ECALL_U, CAUSE_ECALL_M, CAUSE_TIMER

LEMMA PlusIsWord == ASSUME NEW a \in Word, NEW b \in Word PROVE Plus(a, b) \in Word
  BY ModIsWord, WordAssumption DEF Plus

LEMMA NextPcIsWord == ASSUME NEW p \in Word PROVE NextPc(p) \in Word
  BY PlusIsWord, SmallWords DEF NextPc

\* A quotient never exceeds the dividend.
LEMMA QuotientIsWord ==
  ASSUME NEW a \in Word, NEW b \in Word, b # 0 PROVE a \div b \in Word
<1>1. a \in Nat /\ b \in Nat /\ b >= 1 /\ a < WORD
  BY WordAssumption
<1>2. a \div b \in Nat /\ a = b * (a \div b) + (a % b) /\ a % b \in Nat
  BY <1>1
<1>3. a \div b <= b * (a \div b)
  <2> DEFINE q == a \div b
  <2>1. q \in Nat  BY <1>2
  <2> HIDE DEF q
  <2>2. q <= b * q  BY <1>1, <2>1
  <2> QED BY <2>2 DEF q
<1> DEFINE q == a \div b
           p == b * q
<1>4. q \in Nat /\ p \in Int /\ q <= p /\ p <= a
  BY <1>1, <1>2, <1>3
<1> HIDE DEF q, p
<1>5. q \in 0 .. WORD - 1
  BY <1>1, <1>4, WordAssumption
<1> QED BY <1>5 DEF q

\* Every unit returns a word.
LEMMA AluIsWord ==
  ASSUME NEW i \in Instr, NEW a \in Word, NEW b \in Word PROVE alu_compute(i, a, b) \in Word
<1>1. (a - b) % WORD \in Word  BY ModIsWord, WordAssumption
<1> QED BY <1>1, PlusIsWord DEF alu_compute

LEMMA MdIsWord ==
  ASSUME NEW i \in Instr, NEW a \in Word, NEW b \in Word PROVE md_compute(i, a, b) \in Word
<1>1. a * b \in Int  BY WordAssumption
<1>2. (a * b) % WORD \in Word  BY <1>1, ModIsWord
<1> QED BY <1>2, SmallWords, QuotientIsWord DEF md_compute

LEMMA FpuIsWord ==
  ASSUME NEW i \in Instr, NEW a \in Word, NEW b \in Word, NEW c \in Word
  PROVE  fpu_compute(i, a, b, c) \in Word
<1>1. a * b + c \in Int  BY WordAssumption
<1>2. (a * b + c) % WORD \in Word  BY <1>1, ModIsWord
<1>3. b # 0 => a \div b \in Word  BY QuotientIsWord
<1> QED BY <1>2, <1>3, SmallWords, PlusIsWord DEF fpu_compute

-----------------------------------------------------------------------------
(* The CSR file.                                                           *)

LEMMA ReadCsrIsWord ==
  ASSUME NEW c \in CsrFile, NEW name \in CsrNames PROVE read_csr(c, name) \in Word
  BY WordAssumption DEF CsrFile, CsrNames, read_csr, PRV_M, PRV_U

LEMMA WriteCsrTyped ==
  ASSUME NEW c \in CsrFile, NEW name \in CsrNames, NEW v \in Word
  PROVE  write_csr(c, name, v) \in CsrFile
<1>1. \A k : Bit(v, k) \in BOOLEAN  BY DEF Bit
<1> QED BY <1>1 DEF CsrFile, CsrNames, write_csr, PRV_M, PRV_U

LEMMA CsrNewValueIsWord ==
  ASSUME NEW i \in Instr, NEW old \in Word, NEW src \in Word
  PROVE  CsrNewValue(i, old, src) \in Word
  BY BitsAssumption DEF CsrNewValue

LEMMA EnterTrapTyped ==
  ASSUME NEW c \in CsrFile, NEW p \in Word, NEW cause \in Word
  PROVE  EnterTrap(c, p, cause) \in CsrFile
  BY DEF CsrFile, EnterTrap, PRV_M, PRV_U

LEMMA TrapCauseIsWord ==
  ASSUME NEW c \in CsrFile, NEW cause \in Word PROVE TrapCause(c, cause) \in Word
  BY SmallWords DEF TrapCause

LEMMA LeaveTrapTyped == ASSUME NEW c \in CsrFile PROVE LeaveTrap(c) \in CsrFile
  BY DEF CsrFile, LeaveTrap, PRV_M, PRV_U

LEMMA CauseIsWord == ASSUME NEW i \in Instr PROVE CauseOf(i) \in Word
  BY SmallWords DEF CauseOf

-----------------------------------------------------------------------------
(* The shape of the ring and of the stations.                              *)

LEMMA IncIsTag == ASSUME NEW t \in Tags PROVE Inc(t) \in Tags
  BY RobAssumption DEF Tags, Inc

\* A destination is a register.
LEMMA DestIsRegister == ASSUME NEW i \in Instr PROVE Dest(i) \in Regs
  BY RegAssumption DEF Instr, Dest, Regs

\* An operand that hears results stays an operand, if the results are words.
LEMMA HearTyped ==
  ASSUME NEW op \in Operand, NEW S, NEW res \in [S -> Word]
  PROVE  Hear(op, res) \in Operand
  BY DEF Operand, Hear

\* A broadcast keeps the stations well formed.
LEMMA BroadcastTyped ==
  ASSUME rs \in [Units -> Station], NEW S, NEW res \in [S -> Word]
  PROVE  cdb_broadcast(res) \in [Units -> Station]
<1> SUFFICES ASSUME NEW u \in Units
             PROVE  (IF rs[u].busy
                     THEN [rs[u] EXCEPT !.src = [k \in 1 .. 3 |-> Hear(rs[u].src[k], res)]]
                     ELSE rs[u]) \in Station
  BY DEF cdb_broadcast
<1>1. rs[u] \in Station  OBVIOUS
<1>2. \A k \in 1 .. 3 : Hear(rs[u].src[k], res) \in Operand
  <2> TAKE k \in 1 .. 3
  <2>1. rs[u].src[k] \in Operand  BY <1>1 DEF Station
  <2> QED BY <2>1, HearTyped
<1>3. [k \in 1 .. 3 |-> Hear(rs[u].src[k], res)] \in [1 .. 3 -> Operand]
  BY <1>2
<1> QED BY <1>1, <1>3 DEF Station

\* The renamed operand read yields an operand.
LEMMA ReadOperandTyped ==
  ASSUME CoreTypeOK, NEW r \in Regs PROVE read_operand(r) \in Operand
<1>1. \A v \in Word : Ready(v) \in Operand
  BY RobAssumption DEF Ready, Operand, Tags
<1>2. \A t \in Tags : Waiting(t) \in Operand
  BY SmallWords DEF Waiting, Operand
<1>3. rat[r].tag \in Tags /\ regfile[r] \in Word
  BY DEF CoreTypeOK, RatEntry
<1>4. rob[rat[r].tag].value \in Word
  BY <1>3 DEF CoreTypeOK, RobEntry
<1> QED BY <1>1, <1>2, <1>3, <1>4, SmallWords DEF read_operand


-----------------------------------------------------------------------------
(* Type correctness: the parts of the actions that are shared.             *)

LEMMA HeadTyped == ASSUME CoreTypeOK PROVE HeadEntry \in RobEntry
  BY DEF CoreTypeOK, HeadEntry

\* A flush leaves an empty, well-formed pipeline.
LEMMA FlushTyped ==
  ASSUME CoreTypeOK, PipelineFlush
  PROVE  /\ rob' \in [Tags -> RobEntry]
         /\ rob_head' \in Tags /\ rob_tail' \in Tags /\ rob_count' \in 0 .. ROB_SZ
         /\ rat' \in [Regs -> RatEntry]
         /\ rs' \in [Units -> Station]
         /\ fetch_stalled' \in BOOLEAN
         /\ branch_pending' \in Nat
         /\ \A u \in Units : ~rs'[u].busy
<1>1. ASSUME NEW t \in Tags
      PROVE  [rob[t] EXCEPT !.valid = FALSE, !.ready = FALSE] \in RobEntry
  <2>1. rob[t] \in RobEntry  BY DEF CoreTypeOK
  <2> QED BY <2>1 DEF RobEntry
<1>2. \A r \in Regs : [rat[r] EXCEPT !.has_tag = FALSE] \in RatEntry
  BY DEF CoreTypeOK, RatEntry
<1>3. \A u \in Units : [rs[u] EXCEPT !.busy = FALSE, !.executing = FALSE] \in Station
  BY DEF CoreTypeOK, Station
<1>4. 0 \in Tags /\ 0 \in 0 .. ROB_SZ
  BY RobAssumption DEF Tags
<1>5. ASSUME NEW u \in Units PROVE ~rs'[u].busy
  <2>1. rs[u] \in Station
    BY DEF CoreTypeOK
  <2>2. rs'[u] = [rs[u] EXCEPT !.busy = FALSE, !.executing = FALSE]
    BY DEF PipelineFlush
  <2> QED BY <2>1, <2>2 DEF Station
<1> QED BY <1>1, <1>2, <1>3, <1>4, <1>5 DEF PipelineFlush

LEMMA RetireTyped ==
  ASSUME CoreTypeOK, HeadReady, Retire
  PROVE  /\ rob' \in [Tags -> RobEntry]
         /\ rob_head' \in Tags /\ rob_tail' \in Tags /\ rob_count' \in 0 .. ROB_SZ
<1>1. [rob[rob_head] EXCEPT !.valid = FALSE] \in RobEntry
  <2>1. rob[rob_head] \in RobEntry  BY DEF CoreTypeOK
  <2> QED BY <2>1 DEF RobEntry
<1>2. rob' \in [Tags -> RobEntry]
  BY <1>1 DEF Retire, CoreTypeOK
<1>3. rob_head' \in Tags /\ rob_tail' \in Tags
  BY IncIsTag DEF Retire, CoreTypeOK
<1>4. rob_count' \in 0 .. ROB_SZ
  BY RobAssumption DEF Retire, CoreTypeOK, HeadReady
<1> QED BY <1>2, <1>3, <1>4

LEMMA UnmapTyped == ASSUME CoreTypeOK, UnmapHead PROVE rat' \in [Regs -> RatEntry]
<1>1. HeadEntry.dest \in Regs
  BY HeadTyped DEF RobEntry
<1>2. [rat[HeadEntry.dest] EXCEPT !.has_tag = FALSE] \in RatEntry
  BY <1>1 DEF CoreTypeOK, RatEntry
<1> QED BY <1>1, <1>2 DEF UnmapHead, CoreTypeOK

\* An instruction enters the ROB.
LEMMA EnterTyped ==
  ASSUME CoreTypeOK, MayFetch, NEW e \in RobEntry, NEW p \in Word, Enter(e, p)
  PROVE  /\ rob' \in [Tags -> RobEntry]
         /\ rat' \in [Regs -> RatEntry]
         /\ rob_head' \in Tags /\ rob_tail' \in Tags /\ rob_count' \in 0 .. ROB_SZ
         /\ fetch_pc' \in Word /\ fetch_done' \in BOOLEAN
<1>1. rob' \in [Tags -> RobEntry]
  BY DEF Enter, CoreTypeOK
<1>2. e.dest \in Regs /\ [has_tag |-> TRUE, tag |-> rob_tail] \in RatEntry
  BY DEF RobEntry, RatEntry, CoreTypeOK
<1>3. rat' \in [Regs -> RatEntry]
  BY <1>2 DEF Enter, CoreTypeOK
<1>4. rob_head' \in Tags /\ rob_tail' \in Tags /\ fetch_pc' \in Word /\ fetch_done' \in BOOLEAN
  BY IncIsTag DEF Enter, CoreTypeOK
<1>5. rob_count' \in 0 .. ROB_SZ
  BY RobAssumption DEF Enter, CoreTypeOK, MayFetch
<1> QED BY <1>1, <1>3, <1>4, <1>5

LEMMA FetchedTyped ==
  ASSUME Fetched \in Instr
  PROVE  Fetched.imm \in Word /\ Fetched.op \in Ops /\ Fetched.csr \in CsrNames
         /\ Fetched.rs1 \in Regs /\ Fetched.rs2 \in Regs /\ Fetched.rs3 \in Regs
  BY DEF Instr

\* Alone, the core fetches and decodes scalar instructions only.
LEMMA ScalarCode ==
  ASSUME CoreTypeOK, prog \in [Word -> Instr]
  PROVE  Fetched \in Instr /\ \A u \in Units : InsOf(u) \in Instr
<1>1. Fetched \in Instr
  BY DEF CoreTypeOK, Fetched
<1>2. ASSUME NEW u \in Units PROVE InsOf(u) \in Instr
  <2>1. rs[u] \in Station
    BY DEF CoreTypeOK
  <2> QED BY <2>1 DEF InsOf, Station
<1> QED BY <1>1, <1>2

LEMMA FreshEntryTyped == ASSUME CoreTypeOK PROVE FreshEntry \in RobEntry
<1>1. rob[rob_tail] \in RobEntry /\ fetch_pc \in Word
  BY DEF CoreTypeOK
<1> QED BY <1>1 DEF FreshEntry, RobEntry

LEMMA PendingEntryTyped == ASSUME CoreTypeOK, Fetched \in Instr PROVE PendingEntry(Fetched) \in RobEntry
<1>1. FreshEntry \in RobEntry /\ Dest(Fetched) \in Regs
  BY FreshEntryTyped, FetchedTyped, DestIsRegister
<1>2. (Fetched.op \in StoreOps) \in BOOLEAN
  OBVIOUS
<1> QED BY <1>1, <1>2 DEF PendingEntry, RobEntry

LEMMA FilledStationTyped ==
  ASSUME CoreTypeOK, Fetched \in Instr, NEW s \in Station PROVE FilledStation(s, Fetched) \in Station
<1>1. \A v \in Word : Ready(v) \in Operand
  BY RobAssumption DEF Ready, Operand, Tags
<1>2. /\ read_operand(Fetched.rs1) \in Operand
      /\ read_operand(Fetched.rs2) \in Operand
      /\ read_operand(Fetched.rs3) \in Operand
  BY FetchedTyped, ReadOperandTyped
<1>3. Source(Fetched, 1) \in Operand
  BY <1>1, <1>2, FetchedTyped DEF Source
<1>4. Source(Fetched, 2) \in Operand
  BY <1>1, <1>2, FetchedTyped, SmallWords DEF Source
<1>5. Source(Fetched, 3) \in Operand
  BY <1>1, <1>2, FetchedTyped, SmallWords DEF Source
<1>6. [k \in 1 .. 3 |-> Source(Fetched, k)] \in [1 .. 3 -> Operand]
  BY <1>3, <1>4, <1>5
<1>7. rob_tail \in Tags /\ fetch_pc \in Word
  BY DEF CoreTypeOK
<1> QED BY <1>6, <1>7 DEF FilledStation, Station

\* The operands of a station, and its instruction.
LEMMA StationTyped ==
  ASSUME CoreTypeOK, NEW u \in Units
  PROVE  /\ rs[u] \in Station /\ rs[u].rob_tag \in Tags /\ rs[u].pc \in Word
         /\ \A k \in 1 .. 3 : Val(u, k) \in Word
<1>1. rs[u] \in Station
  BY DEF CoreTypeOK
<1>2. rs[u].rob_tag \in Tags /\ rs[u].pc \in Word
  BY <1>1 DEF Station
<1>3. \A k \in 1 .. 3 : rs[u].src[k] \in Operand
  BY <1>1 DEF Station
<1>4. \A k \in 1 .. 3 : Val(u, k) \in Word
  BY <1>3 DEF Val, Operand
<1> QED BY <1>1, <1>2, <1>4

LEMMA InsTyped ==
  ASSUME CoreTypeOK, NEW u \in Units, rs[u].busy, u # "sys"
  PROVE  InsOf(u) \in Instr /\ InsOf(u).imm \in Word
<1>1. InsOf(u) \in Instr
  BY DEF CoreTypeOK, UnitsScalar
<1> QED BY <1>1 DEF Instr

\* Stations that only empty, or keep their instructions, hold scalar ones.
LEMMA UnitsKept ==
  ASSUME CoreTypeOK, prog' = prog,
         \A u \in Units : rs'[u].busy => rs[u].busy /\ rs'[u].pc = rs[u].pc
  PROVE  UnitsScalar'
  BY DEF CoreTypeOK, UnitsScalar, InsOf

\* The results broadcast in a tick are words, from entries of the ROB.
LEMMA ResultsTyped ==
  ASSUME CoreTypeOK
  PROVE  /\ DOMAIN Results \subseteq Tags
         /\ Results \in [DOMAIN Results -> Word]
<1>1. \A u \in Done : u \in TimedUnits /\ u \in Units /\ u # "sys" /\ rs[u].busy
  BY DEF Done, Units, TimedUnits, AluUnits
<1>2. ASSUME NEW u \in Done PROVE Result(u) \in Word
  <2>1. u \in Units /\ u \in TimedUnits
    BY <1>1
  <2>2. InsOf(u) \in Instr /\ Val(u, 1) \in Word /\ Val(u, 2) \in Word /\ Val(u, 3) \in Word
    BY <1>1, <2>1, StationTyped, InsTyped
  <2>3. NextPc(rs[u].pc) \in Word
    BY <2>1, StationTyped, NextPcIsWord
  <2> QED BY <2>1, <2>2, <2>3, AluIsWord, MdIsWord, FpuIsWord, SmallWords
          DEF Result, TimedUnits
<1> DEFINE S == {rs[u].rob_tag : u \in Done}
<1>3. S \subseteq Tags
  BY <1>1, StationTyped
<1>4. \A t \in S : Result(CHOOSE u \in Done : rs[u].rob_tag = t) \in Word
  BY <1>2
<1>5. Results = [t \in S |-> Result(CHOOSE u \in Done : rs[u].rob_tag = t)]
  BY DEF Results
<1> HIDE DEF S
<1> QED BY <1>3, <1>4, <1>5

-----------------------------------------------------------------------------
(* Type correctness: one lemma per block of the tick.                      *)

\* Commit, with its four ways to redirect the fetch.
LEMMA CommitTyped == ASSUME CoreTypeOK, CommitStage PROVE CoreTypeOK'
<1>0. UnitsScalar'
  <2>1. CASE TakeInterrupt \/ CommitMispredict \/ CommitMret \/ CommitTrap
    <3>1. PipelineFlush /\ prog' = prog
      BY <2>1 DEF TakeInterrupt, CommitMispredict, CommitMret, CommitTrap, Redirect
    <3> QED BY <3>1, FlushTyped, UnitsKept
  <2>2. CASE CommitBranch \/ CommitHalt \/ CommitStore \/ CommitRegister \/ NoCommit
    <3>1. rs' = rs /\ prog' = prog
      BY <2>2 DEF CommitBranch, CommitHalt, CommitStore, CommitRegister, NoCommit
    <3> QED BY <3>1, UnitsKept
  <2> QED BY <2>1, <2>2 DEF CommitStage
<1>1. HeadEntry \in RobEntry /\ csr \in CsrFile /\ csr.mtvec \in Word /\ csr.mepc \in Word
  BY HeadTyped DEF CoreTypeOK, CsrFile
<1>2. /\ HeadEntry.pc \in Word /\ HeadEntry.cause \in Word /\ HeadEntry.br_target \in Word
      /\ HeadEntry.value \in Word /\ HeadEntry.sdata \in Word /\ HeadEntry.dest \in Regs
  BY <1>1 DEF RobEntry
<1>3. CASE TakeInterrupt
  <2>1. csr' \in CsrFile
    BY <1>1, <1>2, <1>3, EnterTrapTyped, SmallWords DEF TakeInterrupt
  <2> QED BY <1>0, <1>1, <1>3, <2>1, FlushTyped DEF TakeInterrupt, Redirect, CoreTypeOK, timer
<1>4. CASE CommitBranch
  <2>1. HeadReady /\ Retire
    BY <1>4 DEF CommitBranch, Commit
  <2>2. branch_pending' \in Nat
    BY <1>4 DEF CommitBranch, CoreTypeOK
  <2> QED BY <1>0, <1>4, <2>1, <2>2, RetireTyped DEF CommitBranch, CoreTypeOK, front, timer
<1>5. CASE CommitMispredict
  BY <1>0, <1>2, <1>5, FlushTyped DEF CommitMispredict, Redirect, CoreTypeOK, timer
<1>6. CASE CommitMret
  <2>1. csr' \in CsrFile
    BY <1>1, <1>6, LeaveTrapTyped DEF CommitMret
  <2> QED BY <1>0, <1>1, <1>6, <2>1, FlushTyped DEF CommitMret, Redirect, CoreTypeOK, timer
<1>7. CASE CommitTrap
  <2>1. csr' \in CsrFile
    BY <1>1, <1>2, <1>7, EnterTrapTyped, TrapCauseIsWord DEF CommitTrap
  <2> QED BY <1>0, <1>1, <1>7, <2>1, FlushTyped DEF CommitTrap, Redirect, CoreTypeOK, timer
<1>8. CASE CommitHalt
  <2>1. HeadReady /\ Retire
    BY <1>8 DEF CommitHalt, Commit
  <2> QED BY <1>0, <1>8, <2>1, RetireTyped DEF CommitHalt, CoreTypeOK, front, timer
<1>9. CASE CommitStore
  <2>1. HeadReady /\ Retire /\ UnmapHead
    BY <1>9 DEF CommitStore, CommitPlain, Commit
  <2>2. MemIndex(HeadEntry.addr) \in 0 .. MemWords - 1
    BY <1>1, MemAssumption DEF MemIndex, RobEntry
  <2>3. dmem' \in [0 .. MemWords - 1 -> Word]
    BY <1>2, <1>9, <2>2 DEF CommitStore, CoreTypeOK
  <2>4. out' \in Seq(Word)
    <3>1. out \in Seq(Word)  BY DEF CoreTypeOK
    <3>2. Append(out, HeadEntry.sdata) \in Seq(Word)  BY <1>2, <3>1
    <3> QED BY <1>9, <3>1, <3>2 DEF CommitStore
  <2>5. mem_port_used' \in BOOLEAN
    BY <1>9 DEF CommitStore
  <2> QED BY <1>0, <1>9, <2>1, <2>3, <2>4, <2>5, RetireTyped, UnmapTyped
          DEF CommitStore, CoreTypeOK, Stages, front, timer
<1>10. CASE CommitRegister
  <2>1. HeadReady /\ Retire /\ UnmapHead
    BY <1>10 DEF CommitRegister, CommitPlain, Commit
  <2>2. regfile' \in [Regs -> Word]
    BY <1>2, <1>10 DEF CommitRegister, CoreTypeOK
  <2> QED BY <1>0, <1>10, <2>1, <2>2, RetireTyped, UnmapTyped
          DEF CommitRegister, CoreTypeOK, Stages, front, timer
<1>11. CASE NoCommit
  BY <1>0, <1>11 DEF NoCommit, CoreTypeOK, Stages, front, robs, timer
<1> QED BY <1>3, <1>4, <1>5, <1>6, <1>7, <1>8, <1>9, <1>10, <1>11 DEF CommitStage

\* Execution and broadcast.
LEMMA ExecuteTyped == ASSUME CoreTypeOK, Execute PROVE CoreTypeOK'
<1> DEFINE heard == cdb_broadcast(Results)
<1>1. heard \in [Units -> Station]
  BY ResultsTyped, BroadcastTyped DEF CoreTypeOK
<1>2. ASSUME NEW t \in DOMAIN Results PROVE Completed(t) \in RobEntry
  <2>1. rob[t] \in RobEntry /\ Results[t] \in Word
    BY ResultsTyped DEF CoreTypeOK
  <2> DEFINE e == [rob[t] EXCEPT !.ready = TRUE, !.value = Results[t]]
  <2>2. e \in RobEntry
    BY <2>1 DEF RobEntry
  <2> HIDE DEF e
  <2>3. ASSUME BranchDone
        PROVE  /\ (IF BranchTaken THEN InsOf("br").imm ELSE NextPc(rs["br"].pc)) \in Word
               /\ (BranchTaken # rob[t].pred_taken) \in BOOLEAN
    <3>1. "br" \in Units /\ rs["br"].busy
      BY <2>3 DEF BranchDone, Done, Units, TimedUnits
    <3> QED BY <3>1, StationTyped, InsTyped, NextPcIsWord
  <2>4. BranchDone =>
          [e EXCEPT !.br_target = IF BranchTaken THEN InsOf("br").imm ELSE NextPc(rs["br"].pc),
                    !.br_mispred = (BranchTaken # rob[t].pred_taken)] \in RobEntry
    BY <2>2, <2>3 DEF RobEntry
  <2> QED BY <2>2, <2>4 DEF Completed, e
<1>3. rob' \in [Tags -> RobEntry]
  BY <1>2 DEF Execute, CoreTypeOK
<1>4. ASSUME NEW u \in Units
      PROVE  (IF u \in Done
              THEN [heard[u] EXCEPT !.busy = FALSE, !.executing = FALSE, !.remaining = 0]
              ELSE IF u \in TimedUnits /\ heard[u].busy /\ heard[u].executing
              THEN [heard[u] EXCEPT !.remaining = heard[u].remaining - 1]
              ELSE heard[u]) \in Station
  <2>1. heard[u] \in Station /\ rs[u] \in Station
    BY <1>1 DEF CoreTypeOK
  <2>2. /\ heard[u].busy = rs[u].busy
        /\ heard[u].executing = rs[u].executing
        /\ heard[u].remaining = rs[u].remaining
    BY <2>1 DEF cdb_broadcast, Station
  <2>3. u \in TimedUnits /\ u \notin Done /\ heard[u].busy /\ heard[u].executing =>
          heard[u].remaining - 1 \in Nat
    <3>1. rs[u].remaining \in Nat
      BY <2>1 DEF Station
    <3>2. u \in TimedUnits /\ u \notin Done /\ rs[u].busy /\ rs[u].executing =>
            ~(rs[u].remaining <= 1)
      BY DEF Done
    <3> HIDE DEF heard
    <3> QED BY <2>2, <3>1, <3>2
  <2> HIDE DEF heard
  <2> QED BY <2>1, <2>3 DEF Station
<1>5. rs' \in [Units -> Station]
  BY <1>4 DEF Execute
<1>6. fetch_pc' \in Word /\ fetch_stalled' \in BOOLEAN
  <2>1. JalrDone => Plus(Val("br", 1), InsOf("br").imm) \in Word
    <3>1. JalrDone => "br" \in Units /\ rs["br"].busy
      BY DEF JalrDone, Done, Units, TimedUnits
    <3> QED BY <3>1, StationTyped, InsTyped, PlusIsWord
  <2> QED BY <2>1 DEF Execute, CoreTypeOK
<1>7. UnitsScalar'
  <2>1. ASSUME NEW u \in Units, rs'[u].busy PROVE rs[u].busy /\ rs'[u].pc = rs[u].pc
    <3>1. heard[u] \in Station /\ rs[u] \in Station
      BY <1>1 DEF CoreTypeOK
    <3>2. heard[u].busy = rs[u].busy /\ heard[u].pc = rs[u].pc
      BY <3>1 DEF cdb_broadcast, Station
    <3>3. rs'[u] = IF u \in Done
                   THEN [heard[u] EXCEPT !.busy = FALSE, !.executing = FALSE, !.remaining = 0]
                   ELSE IF u \in TimedUnits /\ heard[u].busy /\ heard[u].executing
                   THEN [heard[u] EXCEPT !.remaining = heard[u].remaining - 1]
                   ELSE heard[u]
      BY DEF Execute
    <3> HIDE DEF heard
    <3> QED BY <2>1, <3>1, <3>2, <3>3 DEF Station
  <2> QED BY <2>1, UnitsKept DEF Execute
<1> QED BY <1>3, <1>5, <1>6, <1>7 DEF Execute, CoreTypeOK, Stages, timer

\* Memory and CSR instructions.
LEMMA HeadUnitsTyped ==
  ASSUME CoreTypeOK, SysExecute => InsOf("sys") \in Instr,
         LsuStore \/ LsuLoad \/ LsuIdle \/ SysExecute \/ SysIdle
  PROVE  CoreTypeOK'
<1>1. "lsu" \in Units /\ "sys" \in Units
  BY DEF Units
<1>0. /\ Val("lsu", 1) \in Word /\ Val("lsu", 2) \in Word
      /\ rs["lsu"].busy => InsOf("lsu").imm \in Word
      /\ rs["lsu"].rob_tag \in Tags
  <2>1. 1 \in 1 .. 3 /\ 2 \in 1 .. 3
    OBVIOUS
  <2> QED BY <1>1, <2>1, StationTyped, InsTyped
<1> DEFINE heard(S, v) == cdb_broadcast([t \in S |-> v])
<1>2. ASSUME NEW S, NEW v \in Word, NEW u \in Units
      PROVE  [heard(S, v) EXCEPT ![u].busy = FALSE] \in [Units -> Station]
  <2>1. [t \in S |-> v] \in [S -> Word]
    OBVIOUS
  <2>2. heard(S, v) \in [Units -> Station]
    BY <2>1, BroadcastTyped DEF CoreTypeOK
  <2> DEFINE h == heard(S, v)
  <2> HIDE DEF h
  <2>3. h \in [Units -> Station]
    BY <2>2 DEF h
  <2>4. [h[u] EXCEPT !.busy = FALSE] \in Station
    BY <2>3 DEF Station
  <2> QED BY <2>3, <2>4 DEF h
<1>3. ASSUME NEW t \in Tags, NEW v \in Word
      PROVE  [rob EXCEPT ![t] = [@ EXCEPT !.value = v, !.ready = TRUE]] \in [Tags -> RobEntry]
  <2>1. rob[t] \in RobEntry
    BY DEF CoreTypeOK
  <2>2. [rob[t] EXCEPT !.value = v, !.ready = TRUE] \in RobEntry
    BY <2>1 DEF RobEntry
  <2> QED BY <2>2 DEF CoreTypeOK
<1>9. ASSUME NEW S, NEW v \in Word, NEW w \in Units, prog' = prog,
             rs' = [heard(S, v) EXCEPT ![w].busy = FALSE]
      PROVE  UnitsScalar'
  <2> DEFINE h == heard(S, v)
  <2>1. [t \in S |-> v] \in [S -> Word]
    OBVIOUS
  <2>2. h \in [Units -> Station]
    BY <2>1, BroadcastTyped DEF CoreTypeOK
  <2>3. ASSUME NEW u \in Units PROVE h[u].busy = rs[u].busy /\ h[u].pc = rs[u].pc
    <3>1. rs[u] \in Station
      BY DEF CoreTypeOK
    <3> QED BY <3>1 DEF cdb_broadcast, Station
  <2>4. rs' = [h EXCEPT ![w].busy = FALSE]
    BY <1>9
  <2> HIDE DEF h
  <2>5. ASSUME NEW u \in Units, rs'[u].busy PROVE rs[u].busy /\ rs'[u].pc = rs[u].pc
    <3>1. h[u] \in Station /\ (rs'[u] = h[u] \/ rs'[u] = [h[u] EXCEPT !.busy = FALSE])
      BY <2>2, <2>4
    <3> QED BY <2>3, <2>5, <3>1 DEF Station
  <2> QED BY <1>9, <2>5, UnitsKept
<1>4. CASE LsuStore
  <2>1. LsuAddr \in Word /\ Val("lsu", 2) \in Word
    BY <1>0, <1>4, PlusIsWord DEF LsuAddr, LsuStore, LsuReady
  <2>2. rob[rs["lsu"].rob_tag] \in RobEntry
    BY <1>1, StationTyped DEF CoreTypeOK
  <2>3. [rob[rs["lsu"].rob_tag] EXCEPT !.addr = LsuAddr, !.sdata = Val("lsu", 2), !.ready = TRUE]
          \in RobEntry
    BY <2>1, <2>2 DEF RobEntry
  <2>4. rob' \in [Tags -> RobEntry]
    BY <1>4, <2>3 DEF LsuStore, CoreTypeOK
  <2>5. [rs["lsu"] EXCEPT !.busy = FALSE] \in Station
    BY <1>1 DEF CoreTypeOK, Station
  <2>6. rs' \in [Units -> Station]
    BY <1>4, <2>5 DEF LsuStore, CoreTypeOK
  <2>7. UnitsScalar'
    <3>1. ASSUME NEW u \in Units, rs'[u].busy PROVE rs[u].busy /\ rs'[u].pc = rs[u].pc
      <4>1. rs[u] \in Station /\ rs' = [rs EXCEPT !["lsu"].busy = FALSE]
        BY <1>4 DEF LsuStore, CoreTypeOK
      <4>2. rs'[u] = rs[u] \/ rs'[u] = [rs[u] EXCEPT !.busy = FALSE]
        BY <4>1 DEF CoreTypeOK
      <4> QED BY <3>1, <4>1, <4>2 DEF Station
    <3> QED BY <1>4, <3>1, UnitsKept DEF LsuStore
  <2> QED BY <1>4, <2>4, <2>6, <2>7 DEF LsuStore, CoreTypeOK, Stages, front, timer
<1>5. CASE LsuLoad
  <2>1. LsuAddr \in Word /\ rs["lsu"].rob_tag \in Tags
    BY <1>0, <1>5, PlusIsWord DEF LsuAddr, LsuLoad, LoadMayExecute, LsuReady
  <2>2. MemIndex(LsuAddr) \in 0 .. MemWords - 1
    BY <2>1, MemAssumption DEF MemIndex
  <2>3. dmem[MemIndex(LsuAddr)] \in Word
    BY <2>2 DEF CoreTypeOK
  <2>4. rob' \in [Tags -> RobEntry]
    BY <1>3, <1>5, <2>1, <2>3 DEF LsuLoad
  <2>5. rs' \in [Units -> Station]
    <3>1. rs' = [heard({rs["lsu"].rob_tag}, dmem[MemIndex(LsuAddr)]) EXCEPT !["lsu"].busy = FALSE]
      BY <1>5 DEF LsuLoad
    <3> HIDE DEF heard
    <3> QED BY <1>1, <1>2, <2>3, <3>1
  <2>6. UnitsScalar'
    BY <1>1, <1>5, <1>9, <2>3 DEF LsuLoad
  <2> QED BY <1>5, <2>4, <2>5, <2>6 DEF LsuLoad, CoreTypeOK, Stages, front, timer
<1>6. CASE LsuIdle
  <2>1. UnitsScalar'
    BY <1>6, UnitsKept DEF LsuIdle
  <2> QED BY <1>6, <2>1 DEF LsuIdle, CoreTypeOK, Stages, front, robs, timer
<1>7. CASE SysExecute
  <2> DEFINE old == read_csr(csr, InsOf("sys").csr)
  <2>1. csr \in CsrFile /\ old \in Word /\ rs["sys"].rob_tag \in Tags
    <3>1. InsOf("sys").csr \in CsrNames
      BY <1>7 DEF Instr
    <3> QED BY <1>1, <3>1, StationTyped, ReadCsrIsWord DEF CoreTypeOK
  <2>2. csr' \in CsrFile
    <3>1. CsrNewValue(InsOf("sys"), old, Val("sys", 1)) \in Word
      BY <1>1, <1>7, <2>1, StationTyped, CsrNewValueIsWord
    <3>2. InsOf("sys").csr \in CsrNames
      BY <1>7 DEF Instr
    <3> QED BY <1>7, <2>1, <3>1, <3>2, WriteCsrTyped DEF SysExecute
  <2>3. rob' \in [Tags -> RobEntry]
    BY <1>3, <1>7, <2>1 DEF SysExecute
  <2>4. rs' \in [Units -> Station]
    <3>1. rs' = [heard({rs["sys"].rob_tag}, old) EXCEPT !["sys"].busy = FALSE]
      BY <1>7 DEF SysExecute
    <3> HIDE DEF heard, old
    <3> QED BY <1>1, <1>2, <2>1, <3>1
  <2>5. UnitsScalar'
    BY <1>1, <1>7, <1>9, <2>1 DEF SysExecute
  <2> QED BY <1>7, <2>2, <2>3, <2>4, <2>5 DEF SysExecute, CoreTypeOK, Stages, front, timer
<1>8. CASE SysIdle
  <2>1. UnitsScalar'
    BY <1>8, UnitsKept DEF SysIdle
  <2> QED BY <1>8, <2>1 DEF SysIdle, CoreTypeOK, Stages, front, robs, timer
<1> QED BY <1>4, <1>5, <1>6, <1>7, <1>8

LEMMA IssueTyped == ASSUME CoreTypeOK, Issue PROVE CoreTypeOK'
<1>1. ASSUME NEW u \in TimedUnits PROVE Latency(u) \in Nat
  BY LatAssumption DEF Latency, TimedUnits, AluUnits
<1>2. ASSUME NEW u \in Units
      PROVE  (IF u \in TimedUnits /\ rs[u].busy /\ ~rs[u].executing /\ OperandsReady(u)
              THEN [rs[u] EXCEPT !.executing = TRUE, !.remaining = Latency(u)]
              ELSE rs[u]) \in Station
  <2>1. rs[u] \in Station
    BY DEF CoreTypeOK
  <2> QED BY <1>1, <2>1 DEF Station
<1>3. rs' \in [Units -> Station]
  BY <1>2 DEF Issue
<1>4. UnitsScalar'
  <2>1. ASSUME NEW u \in Units PROVE rs'[u].busy = rs[u].busy /\ rs'[u].pc = rs[u].pc
    <3>1. rs[u] \in Station
      BY DEF CoreTypeOK
    <3>2. rs'[u] = [rs[u] EXCEPT !.executing = TRUE, !.remaining = Latency(u)] \/ rs'[u] = rs[u]
      BY DEF Issue
    <3> QED BY <3>1, <3>2 DEF Station
  <2> QED BY <2>1, UnitsKept DEF Issue
<1> QED BY <1>3, <1>4 DEF Issue, CoreTypeOK, Stages, front, robs, timer

\* The unit of every instruction that needs one exists.
LEMMA UnitForIsUnit ==
  ASSUME NEW op \in Ops \ (QuickOps \cup {"end"}) PROVE UnitFor(op) \in Units
  BY DEF Ops, QuickOps, TrapOps, AluOps, MdOps, FpuOps, LoadOps, StoreOps, BranchOps, CsrOps,
         UnitFor, Units, TimedUnits, AluUnits

\* Filling a station keeps the stations well formed.
LEMMA FillTyped ==
  ASSUME CoreTypeOK, Fetched \in Instr, NEW u \in Units, prog' = prog,
         rs' = [rs EXCEPT ![u] = FilledStation(@, Fetched)]
  PROVE  rs' \in [Units -> Station] /\ UnitsScalar'
<1>1. rs[u] \in Station
  BY DEF CoreTypeOK
<1>2. FilledStation(rs[u], Fetched) \in Station
  BY <1>1, FilledStationTyped
<1>3. rs' \in [Units -> Station] /\ rs \in [Units -> Station]
  BY <1>2 DEF CoreTypeOK
<1>4. \A w \in Units \ {u} : rs'[w] = rs[w]
  BY <1>3
<1>5. prog'[rs'[u].pc] \in Instr
  <2>1. rs'[u] = FilledStation(rs[u], Fetched)
    BY <1>3
  <2>2. rs'[u].pc = fetch_pc
    BY <1>1, <2>1 DEF FilledStation, Station
  <2> QED BY <2>2 DEF Fetched
<1>6. UnitsScalar'
  BY <1>4, <1>5 DEF CoreTypeOK, UnitsScalar, InsOf
<1> QED BY <1>3, <1>6

\* Fetch and dispatch.
LEMMA DispatchTyped ==
  ASSUME CoreTypeOK, DispatchStage, MayFetch => Fetched \in Instr PROVE CoreTypeOK'
<1>1. ASSUME EndOfTick
      PROVE  /\ stage' \in Stages /\ halted' \in BOOLEAN
             /\ prog' = prog /\ regfile' = regfile /\ mem_port_used' = mem_port_used
             /\ dmem' = dmem /\ out' = out /\ csr' = csr /\ mtip' = mtip
             /\ timer_left' = timer_left /\ ecall_halt' = ecall_halt
  BY <1>1 DEF EndOfTick, Stages, CoreTypeOK, timer
<1>0. (\E ops : Dispatch(ops)) => Fetched \in Instr
  BY DEF Dispatch
<1>11. prog' = prog /\ rs' = rs => UnitsScalar'
  BY UnitsKept
<1>2. /\ Fetched \in Instr => Fetched.imm \in Word /\ PendingEntry(Fetched) \in RobEntry
      /\ NextPc(fetch_pc) \in Word
  BY FetchedTyped, NextPcIsWord, PendingEntryTyped DEF CoreTypeOK
<1>3. "br" \in Units
  BY DEF Units, TimedUnits
<1>4. CASE DispatchQuick
  <2>1. PICK e \in RobEntry, p \in Word : Enter(e, p)
    <3> DEFINE v == CASE Fetched.op = "lui" -> Fetched.imm
                      [] Fetched.op = "jal" -> NextPc(fetch_pc)
                      [] OTHER -> 0
               c == IF Fetched.op \in TrapOps THEN CauseOf(Fetched) ELSE FreshEntry.cause
               f == [FreshEntry EXCEPT
                      !.valid = TRUE, !.ready = TRUE, !.is_store = FALSE, !.dest = Dest(Fetched),
                      !.takes_trap = (Fetched.op \in TrapOps), !.is_mret = (Fetched.op = "mret"),
                      !.cause = c, !.value = v]
               q == IF Fetched.op = "jal" THEN Fetched.imm ELSE NextPc(fetch_pc)
    <3>1. FreshEntry \in RobEntry /\ FreshEntry.cause \in Word
      BY FreshEntryTyped DEF RobEntry
    <3>2. v \in Word /\ c \in Word /\ q \in Word /\ Dest(Fetched) \in Regs
      BY <1>0, <1>2, <1>4, <3>1, FetchedTyped, CauseIsWord, DestIsRegister, SmallWords
         DEF DispatchQuick
    <3>3. (Fetched.op \in TrapOps) \in BOOLEAN /\ (Fetched.op = "mret") \in BOOLEAN
      OBVIOUS
    <3>4. Enter(f, q)
      BY <1>4 DEF DispatchQuick
    <3> HIDE DEF v, c
    <3>5. f \in RobEntry
      BY <3>1, <3>2, <3>3 DEF RobEntry
    <3> QED BY <3>2, <3>4, <3>5
  <2>2. MayFetch /\ EndOfTick /\ UNCHANGED <<fetch_stalled, rs, branch_pending>>
    BY <1>4 DEF DispatchQuick, Dispatch
  <2> QED BY <1>1, <1>11, <2>1, <2>2, EnterTyped DEF CoreTypeOK
<1>5. CASE DispatchToUnit
  <2>1. /\ MayFetch /\ EndOfTick /\ UNCHANGED <<fetch_stalled, branch_pending>>
        /\ Enter(PendingEntry(Fetched), NextPc(fetch_pc))
        /\ rs' = [rs EXCEPT ![UnitFor(Fetched.op)] = FilledStation(@, Fetched)]
    BY <1>5 DEF DispatchToUnit, Dispatch
  <2>4. Fetched \in Instr
    BY <1>0, <1>5 DEF DispatchToUnit
  <2>2. Fetched.op \in Ops \ (QuickOps \cup {"end"})
    BY <1>5 DEF DispatchToUnit, Dispatch, Ops, QuickOps, TrapOps, AluOps, MdOps, FpuOps,
                LoadOps, StoreOps, CsrOps
  <2>3. rs' \in [Units -> Station] /\ UnitsScalar'
    BY <1>1, <2>1, <2>2, <2>4, UnitForIsUnit, FillTyped
  <2> QED BY <1>1, <1>2, <2>1, <2>3, <2>4, EnterTyped DEF CoreTypeOK
<1>6. CASE DispatchJalr
  <2>1. /\ MayFetch /\ EndOfTick /\ fetch_stalled' = TRUE /\ UNCHANGED branch_pending
        /\ Enter(PendingEntry(Fetched), NextPc(fetch_pc))
        /\ rs' = [rs EXCEPT !["br"] = FilledStation(@, Fetched)]
    BY <1>6 DEF DispatchJalr, Dispatch
  <2>3. Fetched \in Instr
    BY <1>0, <1>6 DEF DispatchJalr
  <2>2. rs' \in [Units -> Station] /\ UnitsScalar'
    BY <1>1, <1>3, <2>1, <2>3, FillTyped
  <2> QED BY <1>1, <1>2, <2>1, <2>2, <2>3, EnterTyped DEF CoreTypeOK
<1>7. CASE DispatchBranch
  <2>1. PICK pred \in BOOLEAN :
          Enter([PendingEntry(Fetched) EXCEPT !.is_branch = TRUE, !.pred_taken = pred],
                IF pred THEN Fetched.imm ELSE NextPc(fetch_pc))
    BY <1>7 DEF DispatchBranch
  <2>2. /\ MayFetch /\ EndOfTick /\ UNCHANGED fetch_stalled
        /\ branch_pending' = branch_pending + 1
        /\ rs' = [rs EXCEPT !["br"] = FilledStation(@, Fetched)]
    BY <1>7 DEF DispatchBranch, Dispatch
  <2>5. Fetched \in Instr
    BY <1>0, <1>7 DEF DispatchBranch
  <2>3. /\ [PendingEntry(Fetched) EXCEPT !.is_branch = TRUE, !.pred_taken = pred] \in RobEntry
        /\ (IF pred THEN Fetched.imm ELSE NextPc(fetch_pc)) \in Word
    BY <1>2, <2>5 DEF RobEntry
  <2>4. rs' \in [Units -> Station] /\ UnitsScalar'
    BY <1>1, <1>3, <2>2, <2>5, FillTyped
  <2>6. branch_pending' \in Nat
    BY <2>2 DEF CoreTypeOK
  <2> QED BY <1>1, <2>1, <2>2, <2>3, <2>4, <2>6, EnterTyped DEF CoreTypeOK
<1>8. CASE DispatchStall
  <2>1. rob' \in [Tags -> RobEntry]
    BY <1>8, FreshEntryTyped DEF DispatchStall, CoreTypeOK
  <2>2. EndOfTick /\ UNCHANGED <<front, rat, rob_head, rob_tail, rob_count, rs, branch_pending>>
    BY <1>8 DEF DispatchStall
  <2> QED BY <1>1, <2>1, <2>2, <1>11 DEF CoreTypeOK, front
<1>9. CASE FetchEnd
  <2>1. EndOfTick /\ fetch_done' = TRUE
        /\ UNCHANGED <<fetch_pc, fetch_stalled, rat, robs, rs, branch_pending>>
    BY <1>9 DEF FetchEnd
  <2> QED BY <1>1, <1>11, <2>1 DEF CoreTypeOK, robs
<1>10. CASE FetchIdle
  <2>1. EndOfTick /\ UNCHANGED <<front, rat, robs, rs, branch_pending>>
    BY <1>10 DEF FetchIdle
  <2> QED BY <1>1, <1>11, <2>1 DEF CoreTypeOK, front, robs
<1> QED BY <1>4, <1>5, <1>6, <1>7, <1>8, <1>9, <1>10 DEF DispatchStage

-----------------------------------------------------------------------------
(* Type correctness.                                                       *)

\* Where the core starts, alone or in a composition.
Start == Reset /\ prog \in [Word -> Instr]

LEMMA InitStarts == Init => Start
  BY ProgAssumption DEF Init, Start

LEMMA StartTyped == Reset => CoreTypeOK
<1> SUFFICES ASSUME Reset PROVE CoreTypeOK
  OBVIOUS
<1>1. X0 \in Regs /\ 0 \in Tags /\ 0 \in Word /\ WORD - 1 \in Word
  BY RegAssumption, RobAssumption, SmallWords DEF Regs, Tags
<1>2. EmptyEntry \in RobEntry
  BY <1>1 DEF EmptyEntry, RobEntry
<1>3. Ready(0) \in Operand
  BY <1>1 DEF Ready, Operand
<1>4. IdleStation \in Station /\ ~IdleStation.busy
  BY <1>1, <1>3 DEF IdleStation, Station
<1>5. CsrReset \in CsrFile
  BY <1>1 DEF CsrReset, CsrFile, PRV_M, PRV_U
<1>6. timer_left \in 0 .. MaxTimer /\ rob_count \in 0 .. ROB_SZ
  BY TimerAssumption, RobAssumption DEF Reset
<1>7. rat \in [Regs -> RatEntry] /\ dmem \in [0 .. MemWords - 1 -> Word] /\ out \in Seq(Word)
  BY <1>1 DEF Reset, RatEntry
<1>8. UnitsScalar
  BY <1>4 DEF Reset, UnitsScalar
<1> QED BY <1>1, <1>2, <1>4, <1>5, <1>6, <1>7, <1>8 DEF Reset, CoreTypeOK, Stages

\* Nothing writes the instruction memory.
LEMMA ProgramKept == [Next]_vars => prog' = prog
<1> SUFFICES ASSUME [Next]_vars PROVE prog' = prog
  OBVIOUS
<1>1. CASE CommitStage
  BY <1>1 DEF CommitStage, TakeInterrupt, CommitBranch, CommitMispredict, CommitMret, CommitTrap,
              CommitHalt, CommitStore, CommitRegister, NoCommit, Redirect
<1>2. CASE Execute \/ LsuStore \/ LsuLoad \/ LsuIdle \/ SysExecute \/ SysIdle \/ Issue
  BY <1>2 DEF Execute, LsuStore, LsuLoad, LsuIdle, SysExecute, SysIdle, Issue
<1>3. CASE DispatchStage
  BY <1>3 DEF DispatchStage, DispatchQuick, DispatchToUnit, DispatchJalr, DispatchBranch,
              DispatchStall, FetchEnd, FetchIdle, EndOfTick
<1>4. CASE TimerFires \/ UNCHANGED vars
  BY <1>4 DEF TimerFires, vars
<1> QED BY <1>1, <1>2, <1>3, <1>4 DEF Next, Tick, Stopped

\* Each step keeps the registers typed.
LEMMA StepTyped == TypeOK /\ [Next]_vars => TypeOK'
<1> SUFFICES ASSUME TypeOK, [Next]_vars PROVE TypeOK'
  OBVIOUS
<1>0. CoreTypeOK /\ Fetched \in Instr /\ InsOf("sys") \in Instr
  BY ScalarCode DEF TypeOK, Units
<1>1. CommitStage => CoreTypeOK'
  BY <1>0, CommitTyped
<1>2. Execute => CoreTypeOK'
  BY <1>0, ExecuteTyped
<1>3. LsuStore \/ LsuLoad \/ LsuIdle \/ SysExecute \/ SysIdle => CoreTypeOK'
  BY <1>0, HeadUnitsTyped
<1>4. Issue => CoreTypeOK'
  BY <1>0, IssueTyped
<1>5. DispatchStage => CoreTypeOK'
  BY <1>0, DispatchTyped
<1>6. ASSUME TimerFires PROVE CoreTypeOK'
  <2>1. UnitsScalar'
    BY <1>0, <1>6, UnitsKept DEF TimerFires
  <2> QED BY <1>0, <1>6, <2>1, TimerAssumption DEF TimerFires, CoreTypeOK, front, robs
<1>7. ASSUME UNCHANGED vars PROVE CoreTypeOK'
  <2>1. UnitsScalar'
    BY <1>0, <1>7, UnitsKept DEF vars
  <2> QED BY <1>0, <1>7, <2>1 DEF vars, front, robs, timer, CoreTypeOK
<1>8. CoreTypeOK'
  BY <1>1, <1>2, <1>3, <1>4, <1>5, <1>6, <1>7 DEF Next, Tick, Stopped
<1> QED BY <1>8, ProgramKept DEF TypeOK

\* Whatever the program, the predictor and the timer do, every register of
\* the core keeps a value of its width: tags stay below ROB_SZ, the count of
\* the ROB neither underflows at a retirement or flush nor exceeds its size,
\* and results, addresses and CSRs stay words.
THEOREM TypeCorrect == Spec => []TypeOK
<1>1. Init => TypeOK
  BY InitStarts, StartTyped DEF Start, TypeOK
<1> QED BY <1>1, StepTyped, PTL DEF Spec

-----------------------------------------------------------------------------
(* The ring: what a flush, a retirement and a dispatch do to the window of *)
(* entries in flight and to their ages.                                    *)

\* The facts about the counters the arithmetic needs.
LEMMA Counters ==
  ASSUME CoreTypeOK
  PROVE  /\ ROB_SZ \in Nat /\ ROB_SZ >= 2
         /\ rob_head \in Tags /\ rob_tail \in Tags /\ rob_count \in 0 .. ROB_SZ
         /\ \A t \in Tags : t \in Int /\ 0 <= t /\ t < ROB_SZ
         /\ \A t \in Tags : rob[t] \in RobEntry
  BY RobAssumption DEF CoreTypeOK, Tags

\* Two tags of the same age are the same.
LEMMA AgeInjective ==
  ASSUME CoreTypeOK, NEW s \in Tags, NEW t \in Tags, Age(s) = Age(t) PROVE s = t
  BY Counters DEF Age

LEMMA AgeBounds ==
  ASSUME CoreTypeOK, NEW t \in Tags PROVE Age(t) \in 0 .. ROB_SZ - 1 /\ (Age(t) = 0 <=> t = rob_head)
  BY Counters DEF Age

\* The head is in flight if anything is; the tail is not, while there is room.
LEMMA HeadInFlight == ASSUME CoreTypeOK, rob_count > 0 PROVE InFlight(rob_head)
  BY Counters DEF Age, InFlight

LEMMA TailIsFree ==
  ASSUME CoreTypeOK, RobWindow, rob_count < ROB_SZ
  PROVE  ~InFlight(rob_tail) /\ Age(rob_tail) = rob_count
  BY Counters DEF RobWindow, Age, InFlight

\* A step that moves neither end keeps the window and the ages.
LEMMA SameWindow ==
  ASSUME CoreTypeOK, RobWindow, UNCHANGED <<rob_head, rob_tail, rob_count>>,
         \A t \in Tags : rob'[t].valid = rob[t].valid
  PROVE  /\ RobWindow'
         /\ \A t \in Tags : (InFlight(t)' <=> InFlight(t)) /\ Age(t)' = Age(t)
  BY DEF RobWindow, Age, InFlight

\* After a flush nothing is in flight.
LEMMA FlushWindow ==
  ASSUME CoreTypeOK, PipelineFlush PROVE RobWindow' /\ \A t \in Tags : ~InFlight(t)'
<1>1. \A t \in Tags : ~InFlight(t)'
  <2> SUFFICES ASSUME NEW t \in Tags PROVE ~InFlight(t)'
    OBVIOUS
  <2>1. rob_head' = 0 /\ rob_count' = 0
    BY DEF PipelineFlush
  <2> QED BY <2>1, Counters DEF InFlight, Age
<1>2. \A t \in Tags : ~rob'[t].valid
  BY Counters DEF PipelineFlush, RobEntry
<1>3. rob_head' = 0 /\ rob_count' = 0 /\ rob_tail' = 0
  BY DEF PipelineFlush
<1> QED BY <1>1, <1>2, <1>3, Counters DEF RobWindow

\* A retirement takes the head, and the others become one tick older.
LEMMA RetireWindow ==
  ASSUME CoreTypeOK, RobWindow, HeadReady, Retire
  PROVE  /\ RobWindow'
         /\ \A t \in Tags : InFlight(t)' <=> InFlight(t) /\ t # rob_head
         /\ \A t \in Tags : InFlight(t) /\ t # rob_head => Age(t)' = Age(t) - 1
         /\ \A t \in Tags : t # rob_head => rob'[t] = rob[t]
<1>1. rob_head' = Inc(rob_head) /\ rob_tail' = rob_tail /\ rob_count' = rob_count - 1
      /\ rob_count > 0
  BY DEF Retire, HeadReady
<1>2. /\ \A t \in Tags : t # rob_head => rob'[t] = rob[t]
      /\ rob'[rob_head].valid = FALSE
  BY Counters DEF Retire, CoreTypeOK, RobEntry
<1>3. ASSUME NEW t \in Tags
      PROVE  /\ InFlight(t)' <=> InFlight(t) /\ t # rob_head
             /\ InFlight(t) /\ t # rob_head => Age(t)' = Age(t) - 1
  BY <1>1, Counters DEF InFlight, Age, Inc
<1>4. rob_tail' = IF rob_head' + rob_count' < ROB_SZ
                  THEN rob_head' + rob_count' ELSE rob_head' + rob_count' - ROB_SZ
  BY <1>1, Counters DEF RobWindow, Inc
<1>5. \A t \in Tags : rob'[t].valid <=> InFlight(t)'
  BY <1>2, <1>3 DEF RobWindow
<1> QED BY <1>2, <1>3, <1>4, <1>5 DEF RobWindow

\* A dispatch adds the youngest.
LEMMA EnterWindow ==
  ASSUME CoreTypeOK, RobWindow, MayFetch, NEW e \in RobEntry, NEW p, e.valid, Enter(e, p)
  PROVE  /\ RobWindow'
         /\ \A t \in Tags : InFlight(t)' <=> InFlight(t) \/ t = rob_tail
         /\ \A t \in Tags : Age(t)' = Age(t)
         /\ \A t \in Tags : t # rob_tail => rob'[t] = rob[t]
         /\ rob'[rob_tail] = e
<1>1. rob_head' = rob_head /\ rob_tail' = Inc(rob_tail) /\ rob_count' = rob_count + 1
      /\ rob_count < ROB_SZ
  BY DEF Enter, MayFetch
<1>2. (\A t \in Tags : t # rob_tail => rob'[t] = rob[t]) /\ rob'[rob_tail] = e
  BY DEF Enter, CoreTypeOK
<1>3. \A t \in Tags : Age(t)' = Age(t)
  BY <1>1 DEF Age
<1>4. ASSUME NEW t \in Tags PROVE InFlight(t)' <=> InFlight(t) \/ t = rob_tail
  <2>1. Age(t) \in Int /\ (Age(t) = Age(rob_tail) => t = rob_tail)
    BY AgeInjective, AgeBounds, Counters
  <2>2. Age(rob_tail) = rob_count
    BY <1>1, TailIsFree
  <2> QED BY <1>1, <1>3, <2>1, <2>2, Counters DEF InFlight
<1>5. rob_tail' = IF rob_head' + rob_count' < ROB_SZ
                  THEN rob_head' + rob_count' ELSE rob_head' + rob_count' - ROB_SZ
  BY <1>1, Counters DEF RobWindow, Inc
<1>6. \A t \in Tags : rob'[t].valid <=> InFlight(t)'
  BY <1>2, <1>4 DEF RobWindow
<1> QED BY <1>2, <1>3, <1>4, <1>5, <1>6 DEF RobWindow

HIDE DEF Word

-----------------------------------------------------------------------------
(* The pipeline.                                                           *)

\* Nothing waits for an instruction that writes no register: branches,
\* exceptions and stores have no destination, and a waiting operand names
\* the entry of an instruction that has one.
WritersOnly ==
  /\ \A t \in Tags : InFlight(t) /\ (rob[t].is_branch \/ rob[t].takes_trap) => rob[t].dest = X0
  /\ \A u \in Units : rs[u].busy =>
       \A k \in 1 .. 3 : ~rs[u].src[k].ready => rob[rs[u].src[k].tag].dest # X0
  /\ rs["lsu"].busy /\ ~LsuIsLoad => rob[rs["lsu"].rob_tag].dest = X0

PipelineInv == RobWindow /\ StationsOwn /\ NoLostWakeup /\ RatNamesYoungestWriter /\ WritersOnly

\* Inductive for the core and for whatever runs beside it.
PipeCore == CoreTypeOK /\ PipelineInv

\* Alone, the core has an owner for every pending entry.
CoreInv == CoreTypeOK /\ PipelineInv /\ PendingOwnership /\ prog \in [Word -> Instr]

\* The units of S deliver their results, the entries D complete without any
\* of them, and nothing else in the pipeline changes: the entries complete,
\* the units become free, and what waits for one of the entries hears it.
\* With S and D empty, a step that leaves the pipeline alone.
Completes(S, D) ==
  /\ \A u \in S : u \in Units /\ rs[u].busy
  /\ UNCHANGED <<prog, rat, rob_head, rob_tail, rob_count>>
  /\ \A t \in Tags : rob'[t].valid = rob[t].valid
  /\ \A t \in Tags : InFlight(t) =>
       /\ rob'[t].pc = rob[t].pc /\ rob'[t].dest = rob[t].dest
       /\ rob'[t].is_branch = rob[t].is_branch
       /\ rob'[t].takes_trap => rob[t].takes_trap \/ rob[t].dest = X0
       /\ rob'[t].ready <=> rob[t].ready \/ t \in D \/ \E u \in S : rs[u].rob_tag = t
  /\ \A u \in Units : rs'[u].busy => rs[u].busy /\ u \notin S /\ rs[u].rob_tag \notin D
  /\ \A u \in Units : rs[u].busy /\ u \notin S => rs'[u].busy
  /\ \A u \in Units : rs'[u].rob_tag = rs[u].rob_tag /\ rs'[u].pc = rs[u].pc
  /\ \A u \in Units : rs[u].busy /\ u \notin S =>
       \A k \in 1 .. 3 : ~rs'[u].src[k].ready =>
         /\ ~rs[u].src[k].ready /\ rs'[u].src[k].tag = rs[u].src[k].tag
         /\ rs[u].src[k].tag \notin D /\ \A w \in S : rs[w].rob_tag # rs[u].src[k].tag

\* The free station v takes the instruction that enters as e: its operands
\* wait only for writers in flight.
Joins(e, v) ==
  /\ ~rs[v].busy /\ rs'[v].busy /\ ~e.ready
  /\ rs'[v].rob_tag = rob_tail /\ rs'[v].pc = e.pc
  /\ \A k \in 1 .. 3 : ~rs'[v].src[k].ready =>
       \E t \in Tags : /\ t = rs'[v].src[k].tag
                       /\ InFlight(t) /\ ~rob[t].ready /\ rob[t].dest # X0
  /\ v = "lsu" /\ prog[e.pc].op \notin LoadOps => e.dest = X0

\* The busy stations stay as they are, and at most one joins.
StationsAdmit(e) ==
  /\ \A v \in Units : rs[v].busy => rs'[v] = rs[v]
  /\ \A v \in Units : rs'[v].busy => rs[v].busy \/ Joins(e, v)
  /\ \A v, w \in Units : Joins(e, v) /\ Joins(e, w) => v = w

\* A pending entry gets a station.
Housed(e) == ~e.ready => \E v \in Units : Joins(e, v)

-----------------------------------------------------------------------------
(* Four ways to change the pipeline.                                       *)

\* The tags the stations hold are tags of the ring.
LEMMA TagsTyped ==
  ASSUME CoreTypeOK
  PROVE  \A u \in Units : rs[u].rob_tag \in Tags /\ \A k \in 1 .. 3 : rs[u].src[k].tag \in Tags
<1> SUFFICES ASSUME NEW u \in Units
             PROVE  rs[u].rob_tag \in Tags /\ \A k \in 1 .. 3 : rs[u].src[k].tag \in Tags
  OBVIOUS
<1>1. rs[u] \in Station
  BY DEF CoreTypeOK
<1> QED BY <1>1 DEF Station, Operand

\* A flush leaves nothing that could go wrong.
LEMMA FlushKeeps == ASSUME CoreTypeOK, PipelineFlush PROVE PipelineInv' /\ EntriesOwned'
<1>1. RobWindow' /\ \A t \in Tags : ~InFlight(t)'
  BY FlushWindow
<1>2. \A u \in Units : ~rs'[u].busy
  <2> SUFFICES ASSUME NEW u \in Units PROVE ~rs'[u].busy
    OBVIOUS
  <2>1. rs[u] \in Station
    BY DEF CoreTypeOK
  <2>2. rs'[u] = [rs[u] EXCEPT !.busy = FALSE, !.executing = FALSE]
    BY DEF PipelineFlush
  <2> QED BY <2>1, <2>2 DEF Station
<1>3. \A r \in Regs : ~rat'[r].has_tag
  <2> SUFFICES ASSUME NEW r \in Regs PROVE ~rat'[r].has_tag
    OBVIOUS
  <2>1. rat[r] \in RatEntry
    BY DEF CoreTypeOK
  <2>2. rat'[r] = [rat[r] EXCEPT !.has_tag = FALSE]
    BY DEF PipelineFlush
  <2> QED BY <2>1, <2>2 DEF RatEntry
<1>4. StationsOwn' /\ EntriesOwned'
  BY <1>1, <1>2 DEF StationsOwn, EntriesOwned
<1>5. NoLostWakeup'
  BY <1>2 DEF NoLostWakeup
<1>6. RatNamesYoungestWriter'
  BY <1>1, <1>3 DEF RatNamesYoungestWriter
<1>7. WritersOnly'
  BY <1>1, <1>2 DEF WritersOnly, Units
<1> QED BY <1>1, <1>4, <1>5, <1>6, <1>7 DEF PipelineInv

\* The head retires and gives up its mapping.
LEMMA RetireKeeps ==
  ASSUME PipeCore, HeadReady, Retire, UnmapHead, UNCHANGED <<prog, rs>>
  PROVE  PipelineInv' /\ (EntriesOwned => EntriesOwned')
<1>0. CoreTypeOK /\ RobWindow /\ rob_head \in Tags /\ rob[rob_head].ready /\ InFlight(rob_head)
      /\ HeadEntry = rob[rob_head] /\ rs' = rs /\ prog' = prog
  BY HeadInFlight, Counters DEF PipeCore, PipelineInv, HeadReady, HeadEntry
<1>1. /\ RobWindow'
      /\ \A t \in Tags : InFlight(t)' <=> InFlight(t) /\ t # rob_head
      /\ \A t \in Tags : InFlight(t) /\ t # rob_head => Age(t)' = Age(t) - 1
      /\ \A t \in Tags : t # rob_head => rob'[t] = rob[t]
  BY <1>0, RetireWindow
<1>2. StationsOwn /\ NoLostWakeup /\ RatNamesYoungestWriter /\ WritersOnly
  BY DEF PipeCore, PipelineInv
<1>3. \A u \in Units : rs[u].rob_tag \in Tags /\ \A k \in 1 .. 3 : rs[u].src[k].tag \in Tags
  BY <1>0, TagsTyped
<1>4. \A u \in Units : rs[u].busy => rs[u].rob_tag # rob_head
  BY <1>0, <1>2 DEF StationsOwn
<1>5. \A u \in Units : rs[u].busy =>
        \A k \in 1 .. 3 : ~rs[u].src[k].ready => rs[u].src[k].tag # rob_head
  BY <1>0, <1>2 DEF NoLostWakeup
<1>6. StationsOwn'
  BY <1>0, <1>1, <1>2, <1>3, <1>4 DEF StationsOwn
<1>10. EntriesOwned => EntriesOwned'
  BY <1>0, <1>1 DEF EntriesOwned
<1>7. NoLostWakeup'
  <2> SUFFICES ASSUME NEW u \in Units, rs[u].busy, NEW k \in 1 .. 3, ~rs[u].src[k].ready
               PROVE  LET t == rs[u].src[k].tag
                      IN InFlight(t)' /\ ~rob'[t].ready /\ Age(t)' < Age(rs[u].rob_tag)'
    BY <1>0 DEF NoLostWakeup
  <2> DEFINE t == rs[u].src[k].tag
  <2>1. t \in Tags /\ t # rob_head /\ InFlight(t) /\ ~rob[t].ready /\ Age(t) < Age(rs[u].rob_tag)
    BY <1>2, <1>3, <1>5 DEF NoLostWakeup
  <2>2. rs[u].rob_tag \in Tags /\ rs[u].rob_tag # rob_head /\ InFlight(rs[u].rob_tag)
    BY <1>2, <1>3, <1>4 DEF StationsOwn
  <2>3. Age(t) \in Int /\ Age(rs[u].rob_tag) \in Int
    BY <1>0, <2>1, <2>2, AgeBounds
  <2>4. Age(t)' = Age(t) - 1 /\ Age(rs[u].rob_tag)' = Age(rs[u].rob_tag) - 1
    BY <1>0, <1>1, <2>1, <2>2
  <2>5. Age(t)' < Age(rs[u].rob_tag)'
    BY <2>1, <2>3, <2>4
  <2> QED BY <1>1, <2>1, <2>5
<1>8. RatNamesYoungestWriter'
  <2> SUFFICES ASSUME NEW r \in Regs
               PROVE  /\ rat'[r].has_tag => /\ r # X0
                                            /\ InFlight(rat[r].tag)'
                                            /\ rob'[rat'[r].tag].dest = r
                      /\ r # X0 => \A t \in Tags : InFlight(t)' /\ rob'[t].dest = r =>
                           rat'[r].has_tag /\ Age(t)' <= Age(rat[r].tag)'
    BY DEF RatNamesYoungestWriter
  <2>1. PICK w \in Tags : w = rat[r].tag
    BY <1>0 DEF CoreTypeOK, RatEntry
  <2>2. rat'[r].tag = w /\ (rat'[r].has_tag <=> rat[r].has_tag /\ ~(w = rob_head /\ r = HeadEntry.dest))
    <3>1. CASE HeadEntry.dest # X0 /\ rat[HeadEntry.dest].has_tag /\ rat[HeadEntry.dest].tag = rob_head
      <4>1. rat' = [rat EXCEPT ![HeadEntry.dest].has_tag = FALSE]
        BY <3>1 DEF UnmapHead
      <4>2. r # HeadEntry.dest => rat'[r] = rat[r]
        BY <1>0, <4>1 DEF CoreTypeOK
      <4>3. r = HeadEntry.dest => rat'[r] = [rat[r] EXCEPT !.has_tag = FALSE]
        BY <1>0, <4>1 DEF CoreTypeOK
      <4>4. rat[r] \in RatEntry
        BY <1>0 DEF CoreTypeOK
      <4> QED BY <2>1, <3>1, <4>2, <4>3, <4>4 DEF RatEntry
    <3>2. CASE ~(HeadEntry.dest # X0 /\ rat[HeadEntry.dest].has_tag /\ rat[HeadEntry.dest].tag = rob_head)
      <4>1. rat' = rat
        BY <3>2 DEF UnmapHead
      <4>2. rat[r].has_tag => r # X0
        BY <1>2 DEF RatNamesYoungestWriter
      <4> QED BY <2>1, <3>2, <4>1, <4>2
    <3> QED BY <3>1, <3>2
  <2>3. rat'[r].has_tag => r # X0 /\ InFlight(w) /\ w # rob_head /\ rob[w].dest = r
    BY <1>0, <1>2, <2>1, <2>2 DEF RatNamesYoungestWriter
  <2>4. ASSUME r # X0, NEW t \in Tags, InFlight(t)', rob'[t].dest = r
        PROVE  rat'[r].has_tag /\ Age(t)' <= Age(w)'
    <3>1. InFlight(t) /\ t # rob_head /\ rob[t].dest = r
      BY <1>1, <2>4
    <3>2. rat[r].has_tag /\ Age(t) <= Age(w) /\ InFlight(w)
      BY <1>2, <2>1, <2>4, <3>1 DEF RatNamesYoungestWriter
    <3>3. /\ Age(t) \in 0 .. ROB_SZ - 1 /\ Age(t) # 0
          /\ Age(w) \in 0 .. ROB_SZ - 1 /\ (w = rob_head => Age(w) = 0)
      BY <1>0, <3>1, AgeBounds
    <3>4. w # rob_head
      BY <1>0, <3>2, <3>3, Counters
    <3>5. Age(t)' = Age(t) - 1 /\ Age(w)' = Age(w) - 1
      BY <1>1, <3>1, <3>2, <3>4
    <3>6. Age(t) - 1 <= Age(w) - 1
      BY <1>0, <3>2, <3>3, Counters
    <3> QED BY <2>2, <3>2, <3>4, <3>5, <3>6
  <2>5. Age(rat[r].tag)' = Age(w)' /\ (InFlight(rat[r].tag)' <=> InFlight(w)')
    BY <2>2 DEF Age, InFlight
  <2> QED BY <1>1, <2>2, <2>3, <2>4, <2>5
<1>9. WritersOnly'
  <2>1. "lsu" \in Units
    BY DEF Units
  <2> QED BY <1>0, <1>1, <1>2, <1>3, <1>4, <1>5, <2>1 DEF WritersOnly, LsuIsLoad, InsOf
<1> QED BY <1>1, <1>6, <1>7, <1>8, <1>9, <1>10 DEF PipelineInv

\* Units deliver their results.
LEMMA CompleteKeeps ==
  ASSUME PipeCore, NEW S, NEW D, Completes(S, D)
  PROVE  PipelineInv' /\ (EntriesOwned => EntriesOwned')
<1>0. /\ CoreTypeOK /\ RobWindow /\ prog' = prog /\ rat' = rat
      /\ rob_head' = rob_head /\ rob_tail' = rob_tail /\ rob_count' = rob_count
  BY DEF PipeCore, PipelineInv, Completes
<1>1. RobWindow' /\ \A t \in Tags : (InFlight(t)' <=> InFlight(t)) /\ Age(t)' = Age(t)
  BY <1>0, SameWindow DEF Completes
<1>2. StationsOwn /\ NoLostWakeup /\ RatNamesYoungestWriter /\ WritersOnly
  BY DEF PipeCore, PipelineInv
<1>3. \A u \in Units : rs[u].rob_tag \in Tags /\ \A k \in 1 .. 3 : rs[u].src[k].tag \in Tags
  BY <1>0, TagsTyped
<1>4. \A r \in Regs : rat[r].tag \in Tags
  BY <1>0 DEF CoreTypeOK, RatEntry
<1>5. \A t \in Tags : InFlight(t) =>
       /\ rob'[t].pc = rob[t].pc /\ rob'[t].dest = rob[t].dest
       /\ rob'[t].is_branch = rob[t].is_branch
       /\ rob'[t].takes_trap => rob[t].takes_trap \/ rob[t].dest = X0
       /\ rob'[t].ready <=> rob[t].ready \/ t \in D \/ \E u \in S : rs[u].rob_tag = t
  BY DEF Completes
<1>6. /\ \A u \in S : u \in Units /\ rs[u].busy
      /\ \A u \in Units : rs'[u].busy => rs[u].busy /\ u \notin S /\ rs[u].rob_tag \notin D
      /\ \A u \in Units : rs[u].busy /\ u \notin S => rs'[u].busy
      /\ \A u \in Units : rs'[u].rob_tag = rs[u].rob_tag /\ rs'[u].pc = rs[u].pc
  BY DEF Completes
<1>7. \A u \in Units : rs'[u].busy =>
       \A k \in 1 .. 3 : ~rs'[u].src[k].ready =>
         /\ ~rs[u].src[k].ready /\ rs'[u].src[k].tag = rs[u].src[k].tag
         /\ rs[u].src[k].tag \notin D /\ \A w \in S : rs[w].rob_tag # rs[u].src[k].tag
  BY <1>6 DEF Completes
<1>8. StationsOwn'
  <2>1. ASSUME NEW u \in Units, rs'[u].busy
        PROVE  /\ InFlight(rs[u].rob_tag)' /\ ~rob'[rs'[u].rob_tag].ready
               /\ rob'[rs'[u].rob_tag].pc = rs'[u].pc
               /\ \A w \in Units \ {u} : rs'[w].busy => rs'[w].rob_tag # rs'[u].rob_tag
    <3>1. PICK t \in Tags : t = rs[u].rob_tag /\ t = rs'[u].rob_tag
      BY <1>3, <1>6
    <3>2. /\ rs[u].busy /\ u \notin S
          /\ InFlight(t) /\ ~rob[t].ready /\ rob[t].pc = rs[u].pc
          /\ \A w \in Units \ {u} : rs[w].busy => rs[w].rob_tag # t
      BY <1>2, <1>6, <2>1, <3>1 DEF StationsOwn
    <3>3. \A w \in S : rs[w].rob_tag # t
      BY <1>6, <3>2
    <3>7. t \notin D
      BY <1>6, <2>1, <3>1
    <3>4. ~rob'[t].ready /\ rob'[t].pc = rs'[u].pc
      BY <1>5, <1>6, <3>2, <3>3, <3>7
    <3>5. InFlight(rs[u].rob_tag)'
      BY <1>1, <3>1, <3>2 DEF InFlight, Age
    <3>6. \A w \in Units \ {u} : rs'[w].busy => rs'[w].rob_tag # t
      BY <1>6, <3>2
    <3> QED BY <3>1, <3>4, <3>5, <3>6
  <2> QED BY <2>1 DEF StationsOwn
<1>12. EntriesOwned => EntriesOwned'
  <2> SUFFICES ASSUME EntriesOwned, NEW t \in Tags, InFlight(t)', ~rob'[t].ready
               PROVE  \E u \in Units : rs'[u].busy /\ rs'[u].rob_tag = t
    BY DEF EntriesOwned
  <2>1. PICK u \in Units : rs[u].busy /\ rs[u].rob_tag = t
    BY <1>1, <1>5 DEF EntriesOwned
  <2>2. u \notin S
    BY <1>1, <1>5, <2>1
  <2> QED BY <1>6, <2>1, <2>2
<1>9. NoLostWakeup'
  <2> SUFFICES ASSUME NEW u \in Units, rs'[u].busy, NEW k \in 1 .. 3, ~rs'[u].src[k].ready
               PROVE  LET t == rs'[u].src[k].tag
                      IN /\ InFlight(rs[u].src[k].tag)' /\ ~rob'[t].ready
                         /\ Age(rs[u].src[k].tag)' < Age(rs[u].rob_tag)'
    BY DEF NoLostWakeup
  <2>1. PICK t \in Tags : t = rs[u].src[k].tag /\ t = rs'[u].src[k].tag
    BY <1>3, <1>6, <1>7
  <2>2. PICK v \in Tags : v = rs[u].rob_tag /\ v = rs'[u].rob_tag
    BY <1>3, <1>6
  <2>3. InFlight(t) /\ ~rob[t].ready /\ Age(t) < Age(v)
    BY <1>2, <1>6, <1>7, <2>1, <2>2 DEF NoLostWakeup
  <2>4. ~rob'[t].ready
    BY <1>5, <1>7, <2>1, <2>3
  <2>5. InFlight(t)' /\ Age(t)' < Age(v)'
    BY <1>1, <2>3
  <2> QED BY <2>1, <2>2, <2>4, <2>5 DEF InFlight, Age
<1>10. RatNamesYoungestWriter'
  <2> SUFFICES ASSUME NEW r \in Regs
               PROVE  /\ rat[r].has_tag => /\ r # X0
                                           /\ InFlight(rat[r].tag)'
                                           /\ rob'[rat[r].tag].dest = r
                      /\ r # X0 => \A t \in Tags : InFlight(t)' /\ rob'[t].dest = r =>
                           rat[r].has_tag /\ Age(t)' <= Age(rat[r].tag)'
    BY <1>0 DEF RatNamesYoungestWriter
  <2>1. PICK w \in Tags : w = rat[r].tag /\ w = rat'[r].tag
    BY <1>0, <1>4
  <2>0. w = rat[r].tag
    BY <2>1
  <2>2. rat[r].has_tag => r # X0 /\ InFlight(w) /\ rob[w].dest = r
    BY <1>2, <2>0 DEF RatNamesYoungestWriter
  <2>3. ASSUME r # X0, NEW t \in Tags, InFlight(t)', rob'[t].dest = r
        PROVE  rat[r].has_tag /\ Age(t)' <= Age(w)'
    <3>1. InFlight(t) /\ rob[t].dest = r
      BY <1>1, <1>5, <2>3
    <3>2. rat[r].has_tag /\ Age(t) <= Age(w)
      BY <1>2, <2>0, <2>3, <3>1 DEF RatNamesYoungestWriter
    <3> QED BY <1>1, <3>2
  <2>4. rat[r].has_tag => InFlight(w)' /\ rob'[w].dest = r
    BY <1>1, <1>5, <2>2
  <2> QED BY <2>1, <2>2, <2>3, <2>4 DEF InFlight, Age
<1>11. WritersOnly'
  <2>1. ASSUME NEW t \in Tags, InFlight(t)', rob'[t].is_branch \/ rob'[t].takes_trap
        PROVE  rob'[t].dest = X0
    BY <1>1, <1>2, <1>5, <2>1 DEF WritersOnly
  <2>2. ASSUME NEW u \in Units, rs'[u].busy, NEW k \in 1 .. 3, ~rs'[u].src[k].ready
        PROVE  rob'[rs'[u].src[k].tag].dest # X0
    <3>1. PICK t \in Tags : t = rs[u].src[k].tag /\ t = rs'[u].src[k].tag
      BY <1>3, <1>6, <1>7, <2>2
    <3>2. InFlight(t) /\ rob[t].dest # X0
      BY <1>2, <1>6, <1>7, <2>2, <3>1 DEF NoLostWakeup, WritersOnly
    <3> QED BY <1>5, <3>1, <3>2
  <2>3. ASSUME rs'["lsu"].busy, ~LsuIsLoad' PROVE rob'[rs'["lsu"].rob_tag].dest = X0
    <3>0. "lsu" \in Units
      BY DEF Units
    <3>1. PICK t \in Tags : t = rs["lsu"].rob_tag /\ t = rs'["lsu"].rob_tag
      BY <1>3, <1>6, <3>0
    <3>2. rs["lsu"].busy /\ ~LsuIsLoad
      BY <1>0, <1>6, <2>3, <3>0 DEF LsuIsLoad, InsOf
    <3>3. InFlight(t) /\ rob[t].dest = X0
      BY <1>2, <3>0, <3>1, <3>2 DEF StationsOwn, WritersOnly
    <3> QED BY <1>5, <3>1, <3>3
  <2> QED BY <2>1, <2>2, <2>3 DEF WritersOnly
<1> QED BY <1>1, <1>8, <1>9, <1>10, <1>11, <1>12 DEF PipelineInv

\* An instruction enters.
LEMMA EnterKeeps ==
  ASSUME PipeCore, MayFetch, NEW e \in RobEntry, NEW p, e.valid, Enter(e, p), prog' = prog,
         e.is_branch \/ e.takes_trap => e.dest = X0,
         StationsAdmit(e)
  PROVE  PipelineInv' /\ (EntriesOwned /\ Housed(e) => EntriesOwned')
<1>0. CoreTypeOK /\ RobWindow /\ rob_count < ROB_SZ /\ rob_tail \in Tags
  BY Counters DEF PipeCore, PipelineInv, MayFetch
<1>1. /\ RobWindow'
      /\ \A t \in Tags : InFlight(t)' <=> InFlight(t) \/ t = rob_tail
      /\ \A t \in Tags : Age(t)' = Age(t)
      /\ \A t \in Tags : t # rob_tail => rob'[t] = rob[t]
      /\ rob'[rob_tail] = e
  BY <1>0, EnterWindow
<1>2. StationsOwn /\ NoLostWakeup /\ RatNamesYoungestWriter /\ WritersOnly
  BY DEF PipeCore, PipelineInv
<1>3. \A u \in Units : rs[u].rob_tag \in Tags /\ \A k \in 1 .. 3 : rs[u].src[k].tag \in Tags
  BY <1>0, TagsTyped
<1>4. ~InFlight(rob_tail) /\ Age(rob_tail) = rob_count
  BY <1>0, TailIsFree
<1>5. \A t \in Tags : InFlight(t) => t # rob_tail /\ Age(t) < Age(rob_tail)
  BY <1>4 DEF InFlight
<1>6. /\ \A v \in Units : rs[v].busy => rs'[v] = rs[v]
      /\ \A v \in Units : rs'[v].busy => rs[v].busy \/ Joins(e, v)
      /\ \A v, w \in Units : Joins(e, v) /\ Joins(e, w) => v = w
  BY DEF StationsAdmit
<1>7. StationsOwn'
  <2>1. \A u \in Units : rs[u].busy => rs[u].rob_tag # rob_tail
    BY <1>2, <1>3, <1>5 DEF StationsOwn
  <2>2. ASSUME NEW u \in Units, rs'[u].busy
        PROVE  \E t \in Tags : /\ t = rs'[u].rob_tag /\ InFlight(t)' /\ ~rob'[t].ready
                               /\ rob'[t].pc = rs'[u].pc
                               /\ \A w \in Units \ {u} : rs'[w].busy => rs'[w].rob_tag # t
    <3>1. CASE rs[u].busy
      <4>1. PICK t \in Tags : t = rs[u].rob_tag
        BY <1>3
      <4>2. /\ InFlight(t) /\ ~rob[t].ready /\ rob[t].pc = rs[u].pc
            /\ \A w \in Units \ {u} : rs[w].busy => rs[w].rob_tag # t
        BY <1>2, <3>1, <4>1 DEF StationsOwn
      <4>3. t # rob_tail /\ rs'[u] = rs[u] /\ rob'[t] = rob[t]
        BY <1>1, <1>6, <2>1, <3>1, <4>1
      <4>4. \A w \in Units \ {u} : rs'[w].busy => rs'[w].rob_tag # t
        BY <1>6, <4>2, <4>3 DEF Joins
      <4> QED BY <1>1, <4>1, <4>2, <4>3, <4>4
    <3>2. CASE ~rs[u].busy
      <4>1. Joins(e, u)
        BY <1>6, <2>2, <3>2
      <4>2. \A w \in Units \ {u} : rs'[w].busy => rs[w].busy /\ rs'[w] = rs[w]
        BY <1>6, <4>1
      <4> QED BY <1>0, <1>1, <2>1, <4>1, <4>2 DEF Joins
    <3> QED BY <3>1, <3>2
  <2> QED BY <2>2 DEF StationsOwn, InFlight, Age
<1>12. EntriesOwned /\ Housed(e) => EntriesOwned'
  <2> SUFFICES ASSUME EntriesOwned, Housed(e), NEW t \in Tags, InFlight(t)', ~rob'[t].ready
               PROVE  \E u \in Units : rs'[u].busy /\ rs'[u].rob_tag = t
    BY DEF EntriesOwned
  <2>1. CASE t = rob_tail
    BY <1>1, <2>1 DEF Joins, Housed
  <2>2. CASE t # rob_tail
    <3>1. PICK u \in Units : rs[u].busy /\ rs[u].rob_tag = t
      BY <1>1, <2>2 DEF EntriesOwned
    <3> QED BY <1>6, <3>1
  <2> QED BY <2>1, <2>2
<1>8. ASSUME NEW u \in Units, rs'[u].busy, NEW k \in 1 .. 3, ~rs'[u].src[k].ready
      PROVE  \E t \in Tags, v \in Tags :
               /\ t = rs'[u].src[k].tag /\ v = rs'[u].rob_tag
               /\ InFlight(t) /\ ~rob[t].ready /\ rob[t].dest # X0 /\ Age(t) < Age(v)
  <2>1. CASE rs[u].busy
    <3>1. rs'[u] = rs[u]
      BY <1>6, <2>1
    <3>2. PICK t \in Tags, v \in Tags : t = rs[u].src[k].tag /\ v = rs[u].rob_tag
      BY <1>3
    <3>3. InFlight(t) /\ ~rob[t].ready /\ Age(t) < Age(v)
      BY <1>2, <1>8, <2>1, <3>1, <3>2 DEF NoLostWakeup
    <3>4. rob[t].dest # X0
      BY <1>2, <1>8, <2>1, <3>1, <3>2 DEF WritersOnly
    <3> QED BY <3>1, <3>2, <3>3, <3>4
  <2>2. CASE ~rs[u].busy
    <3>1. Joins(e, u)
      BY <1>6, <1>8, <2>2
    <3> QED BY <1>0, <1>5, <1>8, <3>1 DEF Joins
  <2> QED BY <2>1, <2>2
<1>9. NoLostWakeup'
  <2> SUFFICES ASSUME NEW u \in Units, rs'[u].busy, NEW k \in 1 .. 3, ~rs'[u].src[k].ready
               PROVE  LET t == rs'[u].src[k].tag
                      IN /\ InFlight(rs[u].src[k].tag)' /\ ~rob'[t].ready
                         /\ Age(rs[u].src[k].tag)' < Age(rs[u].rob_tag)'
    BY DEF NoLostWakeup
  <2>1. PICK t \in Tags, v \in Tags :
               /\ t = rs'[u].src[k].tag /\ v = rs'[u].rob_tag
               /\ InFlight(t) /\ ~rob[t].ready /\ rob[t].dest # X0 /\ Age(t) < Age(v)
    BY <1>8
  <2>2. InFlight(t)' /\ ~rob'[t].ready /\ Age(t)' < Age(v)'
    BY <1>1, <1>5, <2>1
  <2> QED BY <2>1, <2>2 DEF InFlight, Age
<1>10. RatNamesYoungestWriter'
  <2> SUFFICES ASSUME NEW r \in Regs
               PROVE  /\ rat'[r].has_tag => /\ r # X0
                                            /\ InFlight(rat[r].tag)'
                                            /\ rob'[rat'[r].tag].dest = r
                      /\ r # X0 => \A t \in Tags : InFlight(t)' /\ rob'[t].dest = r =>
                           rat'[r].has_tag /\ Age(t)' <= Age(rat[r].tag)'
    BY DEF RatNamesYoungestWriter
  <2>1. CASE e.dest # X0 /\ r = e.dest
    <3>1. rat'[r] = [has_tag |-> TRUE, tag |-> rob_tail]
      BY <1>0, <2>1 DEF Enter, CoreTypeOK
    <3>2. PICK w \in Tags : w = rob_tail /\ w = rat'[r].tag /\ rat'[r].has_tag
      BY <1>0, <3>1
    <3>3. ASSUME NEW t \in Tags, InFlight(t)' PROVE Age(t)' <= Age(w)'
      <4>1. CASE t = w
        BY <1>0, <1>1, <4>1, AgeBounds
      <4>2. CASE t # w
        <5>1. InFlight(t) /\ Age(t) < Age(w)
          BY <1>1, <1>5, <3>2, <3>3, <4>2
        <5>2. Age(t) <= Age(w)
          BY <1>0, <5>1, AgeBounds
        <5> QED BY <1>1, <5>2
      <4> QED BY <4>1, <4>2
    <3>4. InFlight(w)' /\ rob'[w].dest = r
      BY <1>1, <2>1, <3>2
    <3> QED BY <2>1, <3>2, <3>3, <3>4 DEF InFlight, Age
  <2>2. CASE ~(e.dest # X0 /\ r = e.dest)
    <3>1. rat'[r] = rat[r]
      BY <1>0, <2>2 DEF Enter, CoreTypeOK
    <3>2. rat[r] \in RatEntry
      BY <1>0 DEF CoreTypeOK
    <3>3. PICK w \in Tags : w = rat[r].tag
      BY <3>2 DEF RatEntry
    <3>4. rat[r].has_tag => r # X0 /\ InFlight(w) /\ rob[w].dest = r
      BY <1>2, <3>3 DEF RatNamesYoungestWriter
    <3>5. rat[r].has_tag => InFlight(w)' /\ rob'[w].dest = r
      BY <1>1, <1>5, <3>4
    <3>6. ASSUME r # X0, NEW t \in Tags, InFlight(t)', rob'[t].dest = r
          PROVE  rat[r].has_tag /\ Age(t)' <= Age(w)'
      <4>1. InFlight(t) /\ rob[t].dest = r
        BY <1>1, <2>2, <3>6
      <4>2. rat[r].has_tag /\ Age(t) <= Age(w)
        BY <1>2, <3>3, <3>6, <4>1 DEF RatNamesYoungestWriter
      <4> QED BY <1>1, <4>2
    <3>7. w = rat'[r].tag /\ (rat'[r].has_tag => rat[r].has_tag) /\ (rat[r].has_tag => rat'[r].has_tag)
      BY <3>1, <3>3
    <3> QED BY <3>4, <3>5, <3>6, <3>7 DEF InFlight, Age
  <2> QED BY <2>1, <2>2
<1>11. WritersOnly'
  <2>1. ASSUME NEW t \in Tags, InFlight(t)', rob'[t].is_branch \/ rob'[t].takes_trap
        PROVE  rob'[t].dest = X0
    <3>1. CASE t = rob_tail
      BY <1>1, <2>1, <3>1
    <3>2. CASE t # rob_tail
      BY <1>1, <1>2, <2>1, <3>2 DEF WritersOnly
    <3> QED BY <3>1, <3>2
  <2>2. ASSUME NEW u \in Units, rs'[u].busy, NEW k \in 1 .. 3, ~rs'[u].src[k].ready
        PROVE  rob'[rs'[u].src[k].tag].dest # X0
    BY <1>1, <1>5, <1>8, <2>2
  <2>3. ASSUME rs'["lsu"].busy, ~LsuIsLoad' PROVE rob'[rs'["lsu"].rob_tag].dest = X0
    <3>0. "lsu" \in Units
      BY DEF Units
    <3>1. CASE rs["lsu"].busy
      <4>1. rs'["lsu"] = rs["lsu"] /\ ~LsuIsLoad
        BY <1>6, <2>3, <3>0, <3>1 DEF LsuIsLoad, InsOf
      <4>2. PICK t \in Tags : t = rs["lsu"].rob_tag
        BY <1>3, <3>0
      <4>3. InFlight(t) /\ rob[t].dest = X0
        BY <1>2, <3>0, <3>1, <4>1, <4>2 DEF StationsOwn, WritersOnly
      <4> QED BY <1>1, <1>5, <4>1, <4>2, <4>3
    <3>2. CASE ~rs["lsu"].busy
      <4>1. Joins(e, "lsu")
        BY <1>6, <2>3, <3>0, <3>2
      <4>2. prog[e.pc].op \notin LoadOps
        BY <2>3, <4>1 DEF LsuIsLoad, InsOf, Joins
      <4> QED BY <1>1, <4>1, <4>2 DEF Joins
    <3> QED BY <3>1, <3>2
  <2> QED BY <2>1, <2>2, <2>3 DEF WritersOnly
<1> QED BY <1>1, <1>7, <1>9, <1>10, <1>11, <1>12 DEF PipelineInv

-----------------------------------------------------------------------------
(* Each step is one of the four.                                           *)

\* A step that leaves the pipeline alone completes no unit.
LEMMA QuietKeeps ==
  ASSUME PipeCore, UNCHANGED <<prog, rat, robs, rs>> PROVE PipelineInv' /\ (EntriesOwned => EntriesOwned')
<1>1. Completes({}, {})
  BY DEF Completes, robs
<1> QED BY <1>1, CompleteKeeps

\* What a station is after a broadcast: what still waits did not hear it.
LEMMA BroadcastHeard ==
  ASSUME CoreTypeOK, NEW S, NEW res \in [S -> Word], NEW u \in Units
  PROVE  LET h == cdb_broadcast(res)[u] IN
         /\ h \in Station /\ h.busy = rs[u].busy /\ h.rob_tag = rs[u].rob_tag /\ h.pc = rs[u].pc
         /\ rs[u].busy => \A k \in 1 .. 3 : ~h.src[k].ready =>
              ~rs[u].src[k].ready /\ h.src[k].tag = rs[u].src[k].tag /\ rs[u].src[k].tag \notin S
<1> DEFINE h == cdb_broadcast(res)[u]
<1>1. h \in Station /\ rs[u] \in Station
  BY BroadcastTyped DEF CoreTypeOK
<1>2. CASE rs[u].busy
  <2>1. h = [rs[u] EXCEPT !.src = [k \in 1 .. 3 |-> Hear(rs[u].src[k], res)]]
    BY <1>2 DEF cdb_broadcast
  <2>2. h.busy = rs[u].busy /\ h.rob_tag = rs[u].rob_tag /\ h.pc = rs[u].pc
    BY <1>1, <2>1 DEF Station
  <2>3. h.src = [k \in 1 .. 3 |-> Hear(rs[u].src[k], res)]
    BY <1>1, <2>1 DEF Station
  <2>4. ASSUME NEW k \in 1 .. 3, ~h.src[k].ready
        PROVE  ~rs[u].src[k].ready /\ h.src[k].tag = rs[u].src[k].tag /\ rs[u].src[k].tag \notin S
    <3>1. h.src[k] = Hear(rs[u].src[k], res) /\ rs[u].src[k] \in Operand
      BY <1>1, <2>3 DEF Station
    <3> HIDE DEF h
    <3>2. DOMAIN res = S
      OBVIOUS
    <3> QED BY <2>4, <3>1, <3>2 DEF Hear, Operand
  <2> QED BY <1>1, <2>2, <2>4
<1>3. CASE ~rs[u].busy
  <2>1. h = rs[u]
    BY <1>3 DEF cdb_broadcast
  <2> QED BY <1>1, <1>3, <2>1
<1> QED BY <1>2, <1>3

\* The units that reach zero deliver their results.
LEMMA ExecuteKeeps == ASSUME PipeCore, Execute PROVE PipelineInv' /\ (EntriesOwned => EntriesOwned')
<1>0. CoreTypeOK
  BY DEF PipeCore
<1>1. \A u \in Done : u \in Units /\ rs[u].busy
  BY DEF Done, Units
<1>2. DOMAIN Results = {rs[u].rob_tag : u \in Done} /\ Results \in [DOMAIN Results -> Word]
  BY <1>0, ResultsTyped DEF Results
<1>3. ASSUME NEW t \in Tags
      PROVE  /\ rob'[t].valid = rob[t].valid /\ rob'[t].pc = rob[t].pc /\ rob'[t].dest = rob[t].dest
             /\ rob'[t].is_branch = rob[t].is_branch /\ rob'[t].takes_trap = rob[t].takes_trap
             /\ rob'[t].ready <=> rob[t].ready \/ \E u \in Done : rs[u].rob_tag = t
  <2>1. rob[t] \in RobEntry
    BY <1>0 DEF CoreTypeOK
  <2>2. CASE t \in DOMAIN Results
    <3>1. rob'[t] = Completed(t)
      BY <2>2 DEF Execute
    <3> DEFINE e == [rob[t] EXCEPT !.ready = TRUE, !.value = Results[t]]
    <3>2. /\ e.valid = rob[t].valid /\ e.pc = rob[t].pc /\ e.dest = rob[t].dest
          /\ e.is_branch = rob[t].is_branch /\ e.takes_trap = rob[t].takes_trap /\ e.ready
          /\ e \in RobEntry
      BY <1>2, <2>1, <2>2 DEF RobEntry
    <3> HIDE DEF e
    <3>3. /\ Completed(t).valid = e.valid /\ Completed(t).pc = e.pc /\ Completed(t).dest = e.dest
          /\ Completed(t).is_branch = e.is_branch /\ Completed(t).takes_trap = e.takes_trap
          /\ Completed(t).ready = e.ready
      BY <3>2 DEF Completed, RobEntry, e
    <3> QED BY <1>2, <2>2, <3>1, <3>2, <3>3
  <2>3. CASE t \notin DOMAIN Results
    <3>1. rob'[t] = rob[t]
      BY <2>3 DEF Execute
    <3> QED BY <1>2, <2>3, <3>1
  <2> QED BY <2>2, <2>3
<1>4. ASSUME NEW u \in Units
      PROVE  /\ rs'[u].busy => rs[u].busy /\ u \notin Done
             /\ rs[u].busy /\ u \notin Done => rs'[u].busy
             /\ rs'[u].rob_tag = rs[u].rob_tag /\ rs'[u].pc = rs[u].pc
             /\ rs[u].busy => \A k \in 1 .. 3 : ~rs'[u].src[k].ready =>
                  ~rs[u].src[k].ready /\ rs'[u].src[k].tag = rs[u].src[k].tag
                  /\ rs[u].src[k].tag \notin DOMAIN Results
  <2> DEFINE h == cdb_broadcast(Results)[u]
  <2>1. /\ h \in Station /\ h.busy = rs[u].busy /\ h.rob_tag = rs[u].rob_tag /\ h.pc = rs[u].pc
        /\ rs[u].busy => \A k \in 1 .. 3 : ~h.src[k].ready =>
             ~rs[u].src[k].ready /\ h.src[k].tag = rs[u].src[k].tag
             /\ rs[u].src[k].tag \notin DOMAIN Results
    BY <1>0, <1>2, BroadcastHeard
  <2>2. rs'[u] = IF u \in Done
                 THEN [h EXCEPT !.busy = FALSE, !.executing = FALSE, !.remaining = 0]
                 ELSE IF u \in TimedUnits /\ h.busy /\ h.executing
                 THEN [h EXCEPT !.remaining = h.remaining - 1]
                 ELSE h
    BY DEF Execute
  <2> HIDE DEF h
  <2>3. /\ rs'[u].rob_tag = h.rob_tag /\ rs'[u].pc = h.pc /\ rs'[u].src = h.src
        /\ u \in Done => ~rs'[u].busy
        /\ u \notin Done => rs'[u].busy = h.busy
    BY <2>1, <2>2 DEF Station
  <2> QED BY <2>1, <2>3
<1>5. Completes(Done, {})
  <2>1. UNCHANGED <<prog, rat, rob_head, rob_tail, rob_count>>
    BY DEF Execute
  <2>2. ASSUME NEW u \in Units, rs[u].busy, u \notin Done, NEW k \in 1 .. 3, ~rs'[u].src[k].ready
        PROVE  /\ ~rs[u].src[k].ready /\ rs'[u].src[k].tag = rs[u].src[k].tag
               /\ \A w \in Done : rs[w].rob_tag # rs[u].src[k].tag
    BY <1>2, <1>4, <2>2
  <2> QED BY <1>1, <1>3, <1>4, <2>1, <2>2 DEF Completes
<1> QED BY <1>5, CompleteKeeps

\* The unit w delivers one result, which everybody hears.
Delivers(w, v) ==
  /\ UNCHANGED <<prog, rat, rob_head, rob_tail, rob_count>>
  /\ rob' = [rob EXCEPT ![rs[w].rob_tag] = [@ EXCEPT !.value = v, !.ready = TRUE]]
  /\ rs' = [cdb_broadcast([t \in {rs[w].rob_tag} |-> v]) EXCEPT ![w].busy = FALSE]

LEMMA DeliverKeeps ==
  ASSUME PipeCore, NEW w \in Units, rs[w].busy, NEW v \in Word, Delivers(w, v)
  PROVE  PipelineInv' /\ (EntriesOwned => EntriesOwned')
<1>0. CoreTypeOK /\ rs[w].rob_tag \in Tags
  BY TagsTyped DEF PipeCore
<1> DEFINE tag == rs[w].rob_tag
           res == [t \in {tag} |-> v]
           heard == cdb_broadcast(res)
<1>1. res \in [{tag} -> Word]
  OBVIOUS
<1>2. heard \in [Units -> Station]
  BY <1>0, <1>1, BroadcastTyped DEF CoreTypeOK
<1>3. ASSUME NEW u \in Units
      PROVE  /\ heard[u] \in Station /\ heard[u].busy = rs[u].busy
             /\ heard[u].rob_tag = rs[u].rob_tag /\ heard[u].pc = rs[u].pc
             /\ rs[u].busy => \A k \in 1 .. 3 : ~heard[u].src[k].ready =>
                  ~rs[u].src[k].ready /\ heard[u].src[k].tag = rs[u].src[k].tag
                  /\ rs[u].src[k].tag \notin {tag}
  BY <1>0, <1>1, BroadcastHeard
<1>4. rs' = [heard EXCEPT ![w].busy = FALSE]
  BY DEF Delivers
<1> HIDE DEF heard, res
<1>5. ASSUME NEW u \in Units
      PROVE  /\ rs'[u].busy => rs[u].busy /\ u \notin {w}
             /\ rs[u].busy /\ u \notin {w} => rs'[u].busy
             /\ rs'[u].rob_tag = rs[u].rob_tag /\ rs'[u].pc = rs[u].pc
             /\ rs'[u].src = heard[u].src
  <2>1. CASE u = w
    <3>1. rs'[u] = [heard[u] EXCEPT !.busy = FALSE]
      BY <1>2, <1>4, <2>1
    <3> QED BY <1>3, <2>1, <3>1 DEF Station
  <2>2. CASE u # w
    <3>1. rs'[u] = heard[u]
      BY <1>2, <1>4, <2>2
    <3> QED BY <1>3, <2>2, <3>1
  <2> QED BY <2>1, <2>2
<1>6. ASSUME NEW t \in Tags
      PROVE  /\ rob'[t].valid = rob[t].valid /\ rob'[t].pc = rob[t].pc /\ rob'[t].dest = rob[t].dest
             /\ rob'[t].is_branch = rob[t].is_branch /\ rob'[t].takes_trap = rob[t].takes_trap
             /\ rob'[t].ready <=> rob[t].ready \/ \E u \in {w} : rs[u].rob_tag = t
  <2>1. rob[t] \in RobEntry
    BY <1>0 DEF CoreTypeOK
  <2>2. CASE t = tag
    <3>1. rob'[t] = [rob[t] EXCEPT !.value = v, !.ready = TRUE]
      BY <1>0, <2>2 DEF CoreTypeOK, Delivers
    <3>2. /\ rob'[t].valid = rob[t].valid /\ rob'[t].pc = rob[t].pc /\ rob'[t].dest = rob[t].dest
          /\ rob'[t].is_branch = rob[t].is_branch /\ rob'[t].takes_trap = rob[t].takes_trap
          /\ rob'[t].ready
      BY <2>1, <3>1 DEF RobEntry
    <3> QED BY <2>2, <3>2
  <2>3. CASE t # tag
    <3>1. rob'[t] = rob[t]
      BY <1>0, <2>3 DEF CoreTypeOK, Delivers
    <3> QED BY <2>3, <3>1
  <2> QED BY <2>2, <2>3
<1>7. ASSUME NEW u \in Units, rs[u].busy, u \notin {w}, NEW k \in 1 .. 3, ~rs'[u].src[k].ready
      PROVE  /\ ~rs[u].src[k].ready /\ rs'[u].src[k].tag = rs[u].src[k].tag
             /\ \A x \in {w} : rs[x].rob_tag # rs[u].src[k].tag
  BY <1>3, <1>5, <1>7
<1>8. Completes({w}, {})
  BY <1>5, <1>6, <1>7 DEF Completes, Delivers
<1> QED BY <1>8, CompleteKeeps

\* A store completes silently: nobody waits for an entry without a destination.
LEMMA LsuStoreKeeps == ASSUME PipeCore, LsuStore PROVE PipelineInv' /\ (EntriesOwned => EntriesOwned')
<1>0. CoreTypeOK /\ "lsu" \in Units /\ rs["lsu"].busy /\ ~LsuIsLoad
  BY DEF PipeCore, Units, LsuStore, LsuReady
<1>1. rs["lsu"].rob_tag \in Tags /\ \A u \in Units, k \in 1 .. 3 : rs[u].src[k].tag \in Tags
  BY <1>0, TagsTyped
<1>2. ASSUME NEW u \in Units
      PROVE  /\ rs'[u].busy => rs[u].busy /\ u \notin {"lsu"}
             /\ rs[u].busy /\ u \notin {"lsu"} => rs'[u].busy
             /\ rs'[u].rob_tag = rs[u].rob_tag /\ rs'[u].pc = rs[u].pc
             /\ rs'[u].src = rs[u].src
  <2>1. rs[u] \in Station /\ rs' = [rs EXCEPT !["lsu"].busy = FALSE]
    BY <1>0 DEF CoreTypeOK, LsuStore
  <2>2. CASE u = "lsu"
    <3>1. rs'[u] = [rs[u] EXCEPT !.busy = FALSE]
      BY <1>0, <2>1, <2>2 DEF CoreTypeOK
    <3> QED BY <2>1, <2>2, <3>1 DEF Station
  <2>3. CASE u # "lsu"
    <3>1. rs'[u] = rs[u]
      BY <1>0, <2>1, <2>3 DEF CoreTypeOK
    <3> QED BY <2>3, <3>1
  <2> QED BY <2>2, <2>3
<1>3. ASSUME NEW t \in Tags
      PROVE  /\ rob'[t].valid = rob[t].valid /\ rob'[t].pc = rob[t].pc /\ rob'[t].dest = rob[t].dest
             /\ rob'[t].is_branch = rob[t].is_branch /\ rob'[t].takes_trap = rob[t].takes_trap
             /\ rob'[t].ready <=> rob[t].ready \/ \E u \in {"lsu"} : rs[u].rob_tag = t
  <2>1. rob[t] \in RobEntry
    BY <1>0 DEF CoreTypeOK
  <2>2. CASE t = rs["lsu"].rob_tag
    <3>1. rob'[t] = [rob[t] EXCEPT !.addr = LsuAddr, !.sdata = Val("lsu", 2), !.ready = TRUE]
      BY <1>0, <2>2 DEF CoreTypeOK, LsuStore
    <3> QED BY <2>1, <2>2, <3>1 DEF RobEntry
  <2>3. CASE t # rs["lsu"].rob_tag
    <3>1. rob'[t] = rob[t]
      BY <1>0, <1>1, <2>3 DEF CoreTypeOK, LsuStore
    <3> QED BY <2>3, <3>1
  <2> QED BY <2>2, <2>3
<1>4. ASSUME NEW u \in Units, rs[u].busy, u \notin {"lsu"}, NEW k \in 1 .. 3, ~rs'[u].src[k].ready
      PROVE  /\ ~rs[u].src[k].ready /\ rs'[u].src[k].tag = rs[u].src[k].tag
             /\ \A x \in {"lsu"} : rs[x].rob_tag # rs[u].src[k].tag
  <2>1. ~rs[u].src[k].ready /\ rs'[u].src[k].tag = rs[u].src[k].tag
    BY <1>2, <1>4
  <2>2. rob[rs["lsu"].rob_tag].dest = X0 /\ rob[rs[u].src[k].tag].dest # X0
    BY <1>0, <1>4, <2>1 DEF PipeCore, PipelineInv, WritersOnly
  <2> QED BY <2>1, <2>2
<1>5. UNCHANGED <<prog, rat, rob_head, rob_tail, rob_count>>
  BY DEF LsuStore
<1>6. Completes({"lsu"}, {})
  BY <1>0, <1>2, <1>3, <1>4, <1>5 DEF Completes
<1> QED BY <1>6, CompleteKeeps

\* A load and a CSR instruction broadcast what they read.
LEMMA HeadUnitsKeep ==
  ASSUME PipeCore, SysExecute => InsOf("sys") \in Instr,
         LsuStore \/ LsuLoad \/ LsuIdle \/ SysExecute \/ SysIdle
  PROVE  PipelineInv' /\ (EntriesOwned => EntriesOwned')
<1>0. CoreTypeOK /\ "lsu" \in Units /\ "sys" \in Units
  BY DEF PipeCore, Units
<1>1. CASE LsuStore
  BY <1>1, LsuStoreKeeps
<1>2. CASE LsuLoad
  <2>1. MemIndex(LsuAddr) \in 0 .. MemWords - 1
    <3>1. LsuAddr \in Word
      <4>1. Val("lsu", 1) \in Word /\ InsOf("lsu").imm \in Word
        BY <1>0, <1>2, StationTyped, InsTyped DEF LsuLoad, LoadMayExecute, LsuReady
      <4> QED BY <4>1, PlusIsWord DEF LsuAddr
    <3> QED BY <3>1, WordAssumption, MemAssumption DEF MemIndex, Word
  <2>2. dmem[MemIndex(LsuAddr)] \in Word /\ rs["lsu"].busy
    BY <1>0, <1>2, <2>1 DEF CoreTypeOK, LsuLoad, LoadMayExecute, LsuReady
  <2>3. Delivers("lsu", dmem[MemIndex(LsuAddr)])
    BY <1>2 DEF LsuLoad, Delivers
  <2> QED BY <1>0, <2>2, <2>3, DeliverKeeps
<1>3. CASE SysExecute
  <2>1. read_csr(csr, InsOf("sys").csr) \in Word /\ rs["sys"].busy
    BY <1>0, <1>3, ReadCsrIsWord DEF CoreTypeOK, SysExecute, SysMayExecute, Instr
  <2>2. Delivers("sys", read_csr(csr, InsOf("sys").csr))
    BY <1>3 DEF SysExecute, Delivers
  <2> QED BY <1>0, <2>1, <2>2, DeliverKeeps
<1>4. CASE LsuIdle \/ SysIdle
  BY <1>4, QuietKeeps DEF LsuIdle, SysIdle
<1> QED BY <1>1, <1>2, <1>3, <1>4

\* Starting a countdown completes nothing.
LEMMA IssueKeeps == ASSUME PipeCore, Issue PROVE PipelineInv' /\ (EntriesOwned => EntriesOwned')
<1>1. UNCHANGED <<prog, rat, robs>>
  BY DEF Issue
<1>2. ASSUME NEW u \in Units
      PROVE  /\ rs'[u].busy = rs[u].busy /\ rs'[u].rob_tag = rs[u].rob_tag
             /\ rs'[u].pc = rs[u].pc /\ rs'[u].src = rs[u].src
  <2>1. rs[u] \in Station
    BY DEF PipeCore, CoreTypeOK
  <2>2. rs'[u] = [rs[u] EXCEPT !.executing = TRUE, !.remaining = Latency(u)] \/ rs'[u] = rs[u]
    BY DEF Issue
  <2> QED BY <2>1, <2>2 DEF Station
<1>3. Completes({}, {})
  BY <1>1, <1>2 DEF Completes, robs
<1> QED BY <1>3, CompleteKeeps

\* A commit flushes, retires the head, or leaves everything alone.
LEMMA CommitKeeps == ASSUME PipeCore, CommitStage PROVE PipelineInv' /\ (EntriesOwned => EntriesOwned')
<1>0. CoreTypeOK
  BY DEF PipeCore
<1>1. CASE TakeInterrupt \/ CommitMispredict \/ CommitMret \/ CommitTrap
  <2>1. PipelineFlush
    BY <1>1 DEF TakeInterrupt, CommitMispredict, CommitMret, CommitTrap, Redirect
  <2> QED BY <1>0, <2>1, FlushKeeps
<1>2. CASE CommitBranch \/ CommitHalt
  <2>1. HeadReady /\ Retire /\ UNCHANGED <<prog, rat, rs>> /\ (HeadEntry.is_branch \/ HeadEntry.takes_trap)
    BY <1>2 DEF CommitBranch, CommitHalt, Commit
  <2>2. InFlight(rob_head) /\ rob_head \in Tags
    BY <1>0, <2>1, HeadInFlight, Counters DEF HeadReady
  <2>3. HeadEntry.dest = X0
    BY <2>1, <2>2 DEF PipeCore, PipelineInv, WritersOnly, HeadEntry
  <2>4. UnmapHead
    BY <2>1, <2>3 DEF UnmapHead
  <2> QED BY <2>1, <2>4, RetireKeeps
<1>3. CASE CommitStore \/ CommitRegister
  <2>1. HeadReady /\ Retire /\ UnmapHead /\ UNCHANGED <<prog, rs>>
    BY <1>3 DEF CommitStore, CommitRegister, CommitPlain, Commit
  <2> QED BY <2>1, RetireKeeps
<1>4. CASE NoCommit
  BY <1>4, QuietKeeps DEF NoCommit
<1> QED BY <1>1, <1>2, <1>3, <1>4 DEF CommitStage

\* What a source operand waits for at dispatch: the youngest writer of its
\* register, which is in flight and has not completed.
LEMMA SourceWaits ==
  ASSUME PipeCore, Fetched \in Instr, NEW k \in 1 .. 3, ~Source(Fetched, k).ready
  PROVE  \E t \in Tags : /\ t = Source(Fetched, k).tag
                         /\ InFlight(t) /\ ~rob[t].ready /\ rob[t].dest # X0
<1>1. ASSUME NEW r \in Regs, ~read_operand(r).ready
      PROVE  \E t \in Tags : /\ t = read_operand(r).tag
                             /\ InFlight(t) /\ ~rob[t].ready /\ rob[t].dest # X0
  <2>1. /\ r # X0 /\ rat[r].has_tag /\ ~rob[rat[r].tag].ready
        /\ read_operand(r) = Waiting(rat[r].tag)
    BY <1>1 DEF read_operand, Ready
  <2>2. PICK t \in Tags : t = rat[r].tag
    BY DEF PipeCore, CoreTypeOK, RatEntry
  <2>3. t = read_operand(r).tag
    BY <2>1, <2>2 DEF Waiting
  <2>4. InFlight(t) /\ rob[t].dest = r
    BY <2>1, <2>2 DEF PipeCore, PipelineInv, RatNamesYoungestWriter
  <2> QED BY <2>1, <2>2, <2>3, <2>4
<1>2. \E r \in Regs : Source(Fetched, k) = read_operand(r)
  <2>1. Fetched.rs1 \in Regs /\ Fetched.rs2 \in Regs /\ Fetched.rs3 \in Regs
    BY FetchedTyped
  <2>2. \A v : Ready(v).ready
    BY DEF Ready
  <2>3. k = 1 \/ k = 2 \/ k = 3
    OBVIOUS
  <2> QED BY <2>1, <2>2, <2>3 DEF Source
<1> QED BY <1>1, <1>2

\* The free unit u takes the fetched instruction.
LEMMA StationJoins ==
  ASSUME PipeCore, Fetched \in Instr, NEW u \in Units, ~rs[u].busy,
         rs' = [rs EXCEPT ![u] = FilledStation(@, Fetched)],
         NEW e, ~e.ready, e.pc = fetch_pc,
         u = "lsu" /\ Fetched.op \notin LoadOps => e.dest = X0
  PROVE  StationsAdmit(e) /\ Housed(e)
<1>1. rs \in [Units -> Station]
  BY DEF PipeCore, CoreTypeOK
<1>2. rs'[u] = FilledStation(rs[u], Fetched) /\ \A v \in Units \ {u} : rs'[v] = rs[v]
  BY <1>1
<1>3. /\ rs'[u].busy /\ rs'[u].rob_tag = rob_tail /\ rs'[u].pc = fetch_pc
      /\ rs'[u].src = [k \in 1 .. 3 |-> Source(Fetched, k)]
  <2>1. rs[u] \in Station
    BY <1>1
  <2> QED BY <1>2, <2>1 DEF FilledStation, Station
<1>4. ASSUME NEW k \in 1 .. 3, ~rs'[u].src[k].ready
      PROVE  \E t \in Tags : /\ t = rs'[u].src[k].tag
                             /\ InFlight(t) /\ ~rob[t].ready /\ rob[t].dest # X0
  <2>1. rs'[u].src[k] = Source(Fetched, k)
    BY <1>3
  <2> QED BY <1>4, <2>1, SourceWaits
<1>5. Joins(e, u)
  BY <1>3, <1>4 DEF Joins, Fetched
<1>6. \A v \in Units \ {u} : ~Joins(e, v)
  BY <1>2 DEF Joins
<1> QED BY <1>2, <1>5, <1>6 DEF StationsAdmit, Housed

\* The entry of an instruction that waits for a unit.
LEMMA PendingFacts ==
  ASSUME CoreTypeOK, Fetched \in Instr
  PROVE  LET e == PendingEntry(Fetched) IN
         /\ e \in RobEntry /\ e.valid /\ ~e.ready /\ e.pc = fetch_pc
         /\ ~e.is_branch /\ ~e.takes_trap /\ e.dest = Dest(Fetched)
<1>1. rob[rob_tail] \in RobEntry
  BY DEF CoreTypeOK
<1>2. /\ FreshEntry \in RobEntry /\ FreshEntry.pc = fetch_pc
      /\ ~FreshEntry.is_branch /\ ~FreshEntry.takes_trap
  BY <1>1, FreshEntryTyped DEF FreshEntry, RobEntry
<1>3. PendingEntry(Fetched) \in RobEntry
  BY PendingEntryTyped
<1> QED BY <1>2, <1>3 DEF PendingEntry, RobEntry

\* A dispatch enters one instruction, or leaves everything in flight alone.
LEMMA DispatchKeeps ==
  ASSUME PipeCore, DispatchStage, MayFetch => Fetched \in Instr
  PROVE  PipelineInv' /\ (EntriesOwned => EntriesOwned')
<1>0. CoreTypeOK /\ RobWindow
  BY DEF PipeCore, PipelineInv
<1> DEFINE e == PendingEntry(Fetched)
<1>9. (\E ops : Dispatch(ops)) => Fetched \in Instr
  BY DEF Dispatch
<1>1. Fetched \in Instr =>
        /\ e \in RobEntry /\ e.valid /\ ~e.ready /\ e.pc = fetch_pc
        /\ ~e.is_branch /\ ~e.takes_trap /\ e.dest = Dest(Fetched)
  BY <1>0, PendingFacts
<1> HIDE DEF e
<1>2. EndOfTick => prog' = prog
  BY DEF EndOfTick
<1>3. CASE DispatchQuick
  <2> DEFINE ins == Fetched
             q == [FreshEntry EXCEPT
                 !.valid = TRUE, !.ready = TRUE, !.is_store = FALSE, !.dest = Dest(ins),
                 !.takes_trap = (ins.op \in TrapOps), !.is_mret = (ins.op = "mret"),
                 !.cause = IF ins.op \in TrapOps THEN CauseOf(ins) ELSE @,
                 !.value = CASE ins.op = "lui" -> ins.imm
                             [] ins.op = "jal" -> NextPc(fetch_pc)
                             [] OTHER          -> 0]
             p == IF ins.op = "jal" THEN ins.imm ELSE NextPc(fetch_pc)
  <2>1. Enter(q, p) /\ MayFetch /\ prog' = prog /\ rs' = rs
    BY <1>2, <1>3 DEF DispatchQuick, Dispatch
  <2>2. /\ FreshEntry \in RobEntry /\ ins \in Instr /\ ins.imm \in Word /\ Dest(ins) \in Regs
        /\ NextPc(fetch_pc) \in Word /\ CauseOf(ins) \in Word /\ 0 \in Word
    BY <1>0, <1>3, <1>9, FreshEntryTyped, FetchedTyped, DestIsRegister, NextPcIsWord, CauseIsWord,
       SmallWords DEF CoreTypeOK, DispatchQuick
  <2>3. ~FreshEntry.is_branch
    <3>1. rob[rob_tail] \in RobEntry
      BY <1>0 DEF CoreTypeOK
    <3> QED BY <3>1 DEF FreshEntry, RobEntry
  <2>4. (ins.op \in TrapOps) \in BOOLEAN /\ (ins.op = "mret") \in BOOLEAN
    OBVIOUS
  <2>5. ins.op \in TrapOps => Dest(ins) = X0
    BY DEF Dest
  <2>6. /\ (CASE ins.op = "lui" -> ins.imm [] ins.op = "jal" -> NextPc(fetch_pc) [] OTHER -> 0) \in Word
        /\ FreshEntry.cause \in Word
    BY <2>2 DEF RobEntry
  <2> HIDE DEF ins
  <2>7. /\ q \in RobEntry /\ q.valid /\ q.ready /\ q.dest = Dest(ins) /\ ~q.is_branch
        /\ q.takes_trap => ins.op \in TrapOps
    BY <2>2, <2>3, <2>4, <2>6 DEF RobEntry
  <2> HIDE DEF q, p
  <2>8. StationsAdmit(q) /\ Housed(q)
    BY <2>1, <2>7 DEF StationsAdmit, Joins, Housed
  <2> QED BY <2>1, <2>5, <2>7, <2>8, EnterKeeps
<1>4. CASE DispatchToUnit
  <2> DEFINE u == UnitFor(Fetched.op)
  <2>1. /\ MayFetch /\ prog' = prog /\ Enter(e, NextPc(fetch_pc))
        /\ ~rs[u].busy /\ rs' = [rs EXCEPT ![u] = FilledStation(@, Fetched)]
        /\ Fetched.op \in AluOps \cup MdOps \cup FpuOps \cup LoadOps \cup StoreOps \cup CsrOps
    BY <1>2, <1>4 DEF DispatchToUnit, Dispatch, e
  <2>0. Fetched \in Instr
    BY <1>4, <1>9 DEF DispatchToUnit
  <2>2. u \in Units
    BY <2>1, UnitForIsUnit DEF Ops, QuickOps, TrapOps, AluOps, MdOps, FpuOps, LoadOps, StoreOps, CsrOps
  <2>3. u = "lsu" /\ Fetched.op \notin LoadOps => Dest(Fetched) = X0
    BY <2>1 DEF UnitFor, Dest, AluOps, MdOps, FpuOps, LoadOps, StoreOps, CsrOps, BranchOps
  <2> HIDE DEF u
  <2>4. StationsAdmit(e) /\ Housed(e)
    BY <1>1, <2>0, <2>1, <2>2, <2>3, StationJoins
  <2> QED BY <1>1, <2>0, <2>1, <2>4, EnterKeeps
<1>5. CASE DispatchJalr
  <2>1. /\ MayFetch /\ prog' = prog /\ Enter(e, NextPc(fetch_pc))
        /\ ~rs["br"].busy /\ rs' = [rs EXCEPT !["br"] = FilledStation(@, Fetched)]
    BY <1>2, <1>5 DEF DispatchJalr, Dispatch, e
  <2>0. Fetched \in Instr
    BY <1>5, <1>9 DEF DispatchJalr
  <2>2. "br" \in Units
    BY DEF Units, TimedUnits
  <2>3. StationsAdmit(e) /\ Housed(e)
    BY <1>1, <2>0, <2>1, <2>2, StationJoins
  <2> QED BY <1>1, <2>0, <2>1, <2>3, EnterKeeps
<1>6. CASE DispatchBranch
  <2>1. /\ MayFetch /\ prog' = prog /\ Fetched.op \in BranchOps
        /\ ~rs["br"].busy /\ rs' = [rs EXCEPT !["br"] = FilledStation(@, Fetched)]
    BY <1>2, <1>6 DEF DispatchBranch, Dispatch
  <2>0. Fetched \in Instr
    BY <1>6, <1>9 DEF DispatchBranch
  <2>2. PICK pred \in BOOLEAN :
          Enter([e EXCEPT !.is_branch = TRUE, !.pred_taken = pred],
                IF pred THEN Fetched.imm ELSE NextPc(fetch_pc))
    BY <1>6 DEF DispatchBranch, e
  <2> DEFINE b == [e EXCEPT !.is_branch = TRUE, !.pred_taken = pred]
             p == IF pred THEN Fetched.imm ELSE NextPc(fetch_pc)
  <2>3. /\ b \in RobEntry /\ b.valid /\ ~b.ready /\ b.pc = fetch_pc /\ b.dest = X0
    BY <1>1, <2>0, <2>1 DEF RobEntry, Dest
  <2>4. Enter(b, p)
    BY <2>2
  <2> HIDE DEF b, p
  <2>5. "br" \in Units
    BY DEF Units, TimedUnits
  <2>6. StationsAdmit(b) /\ Housed(b)
    BY <2>0, <2>1, <2>3, <2>5, StationJoins
  <2> QED BY <2>1, <2>3, <2>4, <2>6, EnterKeeps
<1>7. CASE DispatchStall
  <2>1. /\ UNCHANGED <<prog, rat, rob_head, rob_tail, rob_count, rs>>
        /\ rob' = [rob EXCEPT ![rob_tail] = FreshEntry] /\ rob_count < ROB_SZ
    BY <1>2, <1>7 DEF DispatchStall, Dispatch, MayFetch
  <2>2. rob_tail \in Tags /\ ~InFlight(rob_tail)
    BY <1>0, <2>1, TailIsFree, Counters
  <2>3. FreshEntry.valid = rob[rob_tail].valid
    <3>1. rob[rob_tail] \in RobEntry
      BY <1>0 DEF CoreTypeOK
    <3> QED BY <3>1 DEF FreshEntry, RobEntry
  <2>4. \A t \in Tags : rob'[t].valid = rob[t].valid /\ (t # rob_tail => rob'[t] = rob[t])
    BY <1>0, <2>1, <2>3 DEF CoreTypeOK
  <2>5. Completes({}, {})
    BY <2>1, <2>2, <2>4 DEF Completes
  <2> QED BY <2>5, CompleteKeeps
<1>8. CASE FetchEnd \/ FetchIdle
  <2>1. UNCHANGED <<prog, rat, robs, rs>>
    BY <1>2, <1>8 DEF FetchEnd, FetchIdle
  <2> QED BY <2>1, QuietKeeps
<1> QED BY <1>3, <1>4, <1>5, <1>6, <1>7, <1>8 DEF DispatchStage

-----------------------------------------------------------------------------
(* The invariant, and what follows from it.                                *)

LEMMA CoreStart == Start => CoreInv
<1> SUFFICES ASSUME Start PROVE CoreInv
  OBVIOUS
<1>1. CoreTypeOK /\ prog \in [Word -> Instr]
  BY StartTyped DEF Start
<1>2. rob_head = 0 /\ rob_tail = 0 /\ rob_count = 0
  BY DEF Start, Reset
<1>3. \A t \in Tags : ~InFlight(t)
  BY <1>1, <1>2, Counters DEF InFlight, Age
<1>4. \A t \in Tags : ~rob[t].valid
  BY DEF Start, Reset, EmptyEntry
<1>5. \A u \in Units : ~rs[u].busy
  BY DEF Start, Reset, IdleStation
<1>6. \A r \in Regs : ~rat[r].has_tag
  BY DEF Start, Reset
<1>7. RobWindow
  BY <1>2, <1>3, <1>4, RobAssumption DEF RobWindow
<1>8. "lsu" \in Units
  BY DEF Units
<1> QED BY <1>1, <1>3, <1>5, <1>6, <1>7, <1>8
        DEF CoreInv, PipelineInv, PendingOwnership, EntriesOwned, StationsOwn, NoLostWakeup, RatNamesYoungestWriter, WritersOnly

LEMMA CoreStep == CoreInv /\ [Next]_vars => CoreInv'
<1> SUFFICES ASSUME CoreInv, [Next]_vars PROVE CoreInv'
  OBVIOUS
<1>0. TypeOK /\ PipeCore /\ EntriesOwned /\ Fetched \in Instr /\ InsOf("sys") \in Instr
  BY ScalarCode DEF CoreInv, PipeCore, TypeOK, PendingOwnership, Units
<1> DEFINE Kept == PipelineInv' /\ EntriesOwned'
<1>1. ASSUME CommitStage PROVE Kept
  BY <1>0, <1>1, CommitKeeps
<1>2. ASSUME Execute PROVE Kept
  BY <1>0, <1>2, ExecuteKeeps
<1>3. ASSUME LsuStore \/ LsuLoad \/ LsuIdle \/ SysExecute \/ SysIdle PROVE Kept
  BY <1>0, <1>3, HeadUnitsKeep
<1>4. ASSUME Issue PROVE Kept
  BY <1>0, <1>4, IssueKeeps
<1>5. ASSUME DispatchStage PROVE Kept
  BY <1>0, <1>5, DispatchKeeps
<1>6. ASSUME TimerFires \/ UNCHANGED vars PROVE Kept
  <2>1. UNCHANGED <<prog, rat, robs, rs>>
    BY <1>6 DEF TimerFires, vars
  <2> QED BY <1>0, <2>1, QuietKeeps
<1>7. Kept
  BY <1>1, <1>2, <1>3, <1>4, <1>5, <1>6 DEF Next, Tick, Stopped
<1>8. TypeOK'
  BY <1>0, StepTyped
<1> QED BY <1>7, <1>8 DEF CoreInv, TypeOK, PipelineInv, PendingOwnership

LEMMA CoreInvariant == Spec => []CoreInv
  BY InitStarts, CoreStart, CoreStep, PTL DEF Spec

\* However often the ring of tags wraps and is flushed, the valid entries of
\* the ROB are exactly the window from its head to its tail.
THEOREM RobWindowCorrect == Spec => []RobWindow
<1>1. CoreInv => RobWindow
  BY DEF CoreInv, PipelineInv
<1> QED BY <1>1, CoreInvariant, PTL

\* Every instruction in flight that has not completed has exactly one station
\* working for it, whatever was flushed in between, and a station never works
\* for a tag that was given to another instruction.
THEOREM PendingOwnershipCorrect == Spec => []PendingOwnership
<1>1. CoreInv => PendingOwnership
  BY DEF CoreInv, PipelineInv
<1> QED BY <1>1, CoreInvariant, PTL

\* An operand that waits on the CDB waits for an older instruction in flight
\* that is still to broadcast: no wakeup is lost and none comes from a reused tag.
THEOREM NoLostWakeupCorrect == Spec => []NoLostWakeup
<1>1. CoreInv => NoLostWakeup
  BY DEF CoreInv, PipelineInv
<1> QED BY <1>1, CoreInvariant, PTL

\* The RAT names the youngest writer in flight of every register, through
\* renaming, retirement and flush.
THEOREM RatCorrect == Spec => []RatNamesYoungestWriter
<1>1. CoreInv => RatNamesYoungestWriter
  BY DEF CoreInv, PipelineInv
<1> QED BY <1>1, CoreInvariant, PTL
=============================================================================
