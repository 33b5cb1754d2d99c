----------------------------- MODULE SocVector -----------------------------
(***************************************************************************)
(* The vector coprocessor of RISCV-SoC, composed with the scalar core.     *)
(*                                                                         *)
(* Vector instructions are dispatched, with the vl, vstart and element     *)
(* width of that moment, to a queue (VIQ); one unit takes them from its    *)
(* head, in order.  Arithmetic starts as soon as its scalar operand is     *)
(* there and writes the register file, which is not renamed, when its      *)
(* countdown ends; a load or store waits for the head of the ROB and then  *)
(* moves one element per tick through the port it shares with the scalar   *)
(* accesses.  vset* takes effect at dispatch.                              *)
(*                                                                         *)
(* Every block of the tick of SocCore is a step here, with what the        *)
(* coprocessor hears of it; the coprocessor has its turn before the SYS    *)
(* block.                                                                  *)
(***************************************************************************)
EXTENDS SocCore, VecIsa

CONSTANTS
  VPrograms,                    \* instruction memories with vector instructions
  VIQ_SZ,                       \* entries of the instruction queue
  VALU_LAT, VMUL_LAT, VSLDU_LAT \* latencies of the units

ASSUME VecUnitAssumption ==
  VIQ_SZ \in Nat \ {0} /\ {VALU_LAT, VMUL_LAT, VSLDU_LAT} \subseteq Nat \ {0}
ASSUME VProgAssumption == VPrograms \subseteq [Word -> Instr \cup VInstr]

VARIABLES
  vregs,                          \* the vector register file, not renamed
  csr_vl, csr_vtype, csr_vstart,  \* the vector CSRs
  viq,                            \* the instruction queue
  vec_rs,                         \* the instruction in execution
  vec_ticked,                     \* the coprocessor has had its turn in this tick
  accesses,                       \* history: accesses to memory in this tick
  undo                            \* history: what in-flight instructions have overwritten

vcsrs == <<csr_vl, csr_vtype, csr_vstart>>
queue == <<viq, vec_rs>>
vvars == <<vars, vregs, vcsrs, queue, vec_ticked, accesses, undo>>

\* The fields of the instruction itself (vd, vs2, funct6, vm, mop...) are prog[pc].
VecRs == [busy : BOOLEAN, executing : BOOLEAN, remaining : 0 .. 7, rob_tag : Tags, pc : Word,
          vl : 0 .. CELLS, vstart : 0 .. CELLS - 1, sew : Sews, s1 : Operand, s2 : Operand,
          elem : 0 .. CELLS, fld : 0 .. 1]
IdleVec == [busy |-> FALSE, executing |-> FALSE, remaining |-> 0, rob_tag |-> 0, pc |-> 0,
            vl |-> 0, vstart |-> 0, sew |-> 1, s1 |-> Ready(0), s2 |-> Ready(0),
            elem |-> 0, fld |-> 0]

VConfig == [vl : 0 .. CELLS, vtype : VType, vstart : 0 .. CELLS - 1]
Config  == [vl |-> csr_vl, vtype |-> csr_vtype, vstart |-> csr_vstart]

VInit ==
  /\ Reset /\ prog \in VPrograms
  /\ vregs = [c \in Cells |-> 0]
  /\ csr_vl = 0 /\ csr_vtype = NoConfig /\ csr_vstart = 0
  /\ viq = <<>> /\ vec_rs = IdleVec
  /\ vec_ticked = FALSE
  /\ accesses = 0
  /\ undo = [config |-> [t \in Tags |-> Config], vregs |-> [t \in Tags |-> vregs], mem |-> dmem]

IsVector(t) == InFlight(t) /\ prog[rob[t].pc].op \in VecOps
IsIllegal(t) == rob[t].takes_trap /\ rob[t].cause = CAUSE_ILLEGAL
Waits(t)    == \E k \in DOMAIN viq : viq[k].rob_tag = t

-----------------------------------------------------------------------------
(* What the coprocessor hears of the scalar blocks.                        *)

HearBoth(v, results) == [v EXCEPT !.s1 = Hear(@, results), !.s2 = Hear(@, results)]
UnitHears(results) == IF vec_rs.busy THEN HearBoth(vec_rs, results) ELSE vec_rs

\* Fault: the queue is not on the result bus.
VecHear_unit_only(results) == viq' = viq /\ vec_rs' = UnitHears(results)

\* The scalar operands of the unit and of the queue listen to the CDB.
VecHear(results) ==
  /\ viq' = [k \in DOMAIN viq |-> HearBoth(viq[k], results)]
  /\ vec_rs' = UnitHears(results)

\* Faults: a flush that forgets the queue, or the unit.
VecFlush_keeps_queue == viq' = viq /\ vec_rs' = [vec_rs EXCEPT !.busy = FALSE, !.executing = FALSE]
VecFlush_keeps_unit  == viq' = <<>> /\ vec_rs' = vec_rs

VecFlush == viq' = <<>> /\ vec_rs' = [vec_rs EXCEPT !.busy = FALSE, !.executing = FALSE]

\* The scalar commit is the only one to write memory in its block.
VecCommit ==
  /\ \/ (TakeInterrupt \/ CommitMispredict \/ CommitMret \/ CommitTrap) /\ VecFlush
     \/ (CommitBranch \/ CommitHalt \/ CommitStore \/ CommitRegister \/ NoCommit) /\ UNCHANGED queue
  /\ accesses' = IF CommitPlain /\ HeadEntry.is_store /\ HeadEntry.addr # UART_TX_ADDR THEN 1 ELSE 0
  /\ undo' = [undo EXCEPT !.mem = IF HeadReady THEN dmem' ELSE @]
  /\ UNCHANGED <<vregs, vcsrs, vec_ticked>>

VecExecute ==
  /\ Execute
  /\ VecHear(Results)
  /\ UNCHANGED <<vregs, vcsrs, vec_ticked, accesses, undo>>

VecLsu ==
  /\ \/ /\ LsuLoad
        /\ VecHear([t \in {rs["lsu"].rob_tag} |-> rob'[t].value])
        /\ accesses' = accesses + 1
     \/ (LsuStore \/ LsuIdle) /\ UNCHANGED <<queue, accesses>>
  /\ UNCHANGED <<vregs, vcsrs, vec_ticked, undo>>

-----------------------------------------------------------------------------
(* The coprocessor's turn.  `unit` is the instruction in the unit once the  *)
(* queue has been asked.                                                   *)

VectorTurn == stage = "sys" /\ ~vec_ticked

\* An idle unit takes the head of the queue.
Pops == ~vec_rs.busy /\ viq # <<>>
unit == IF Pops THEN [Head(viq) EXCEPT !.busy = TRUE, !.executing = FALSE] ELSE vec_rs
vins == prog[unit.pc]

Rest == IF Pops THEN Tail(viq) ELSE viq

\* The turn is over; the registers before the instruction are remembered.
TurnEnds ==
  /\ undo' = IF Pops THEN [undo EXCEPT !.vregs[unit.rob_tag] = vregs] ELSE undo
  /\ vec_ticked' = TRUE
TakenFromQueue == viq' = Rest /\ TurnEnds

\* What the turn leaves alone, whichever way it goes.
VectorFrame == UNCHANGED <<stage, prog, front, regfile, rat, rob_head, rob_tail, rob_count,
                           branch_pending, out, csr, timer, ecall_halt, halted>>

IsArith == unit.busy /\ vins.op \in VArithOps
IsMem   == unit.busy /\ vins.op \in VMemOps

\* Multiplication is dearer than the rest.
VecLatency ==
  IF vins.op \in {"vmul", "vwmacc"} THEN VMUL_LAT
  ELSE IF VCat(vins) = "perm" THEN VSLDU_LAT ELSE VALU_LAT

\* Fault: `remaining` in two bits, as it once was.
InRemaining_2bits(n) == n % 4

\* What `remaining`, three bits wide, keeps of a latency.
InRemaining(n) == n % 8

\* Arithmetic starts in the turn in which its operand is there and counts down at once.
ArithRuns == IsArith /\ (unit.executing \/ unit.s1.ready)
Countdown == (IF unit.executing THEN unit.remaining ELSE InRemaining(VecLatency)) - 1

VecCount ==
  /\ VectorTurn /\ ArithRuns /\ Countdown > 0
  /\ vec_rs' = [unit EXCEPT !.executing = TRUE, !.remaining = Countdown]
  /\ TakenFromQueue /\ VectorFrame
  /\ UNCHANGED <<rob, rs, mem_port_used, dmem, vregs, vcsrs, accesses>>

\* The result of vcpop.m travels like that of any unit.
VecComplete ==
  /\ VectorTurn /\ ArithRuns /\ Countdown <= 0
  /\ LET x == VXResult(vins, vregs, unit.vl)
         results == [t \in {unit.rob_tag} |-> x]
     IN IF VCat(vins) = "xres"
        THEN /\ rob' = [rob EXCEPT ![unit.rob_tag] = [@ EXCEPT !.ready = TRUE, !.value = x]]
             /\ rs' = cdb_broadcast(results)
             /\ viq' = [k \in DOMAIN Rest |-> HearBoth(Rest[k], results)]
        ELSE /\ rob' = [rob EXCEPT ![unit.rob_tag].ready = TRUE]
             /\ viq' = Rest
             /\ UNCHANGED rs
  /\ vregs' = vec_arith_compute(vins, vregs, unit.vl, unit.vstart, unit.sew, unit.s1.val)
  /\ vec_rs' = [unit EXCEPT !.busy = FALSE, !.executing = FALSE, !.remaining = 0]
  /\ csr_vstart' = 0
  /\ TurnEnds /\ VectorFrame
  /\ UNCHANGED <<mem_port_used, dmem, csr_vl, csr_vtype, accesses>>

-----------------------------------------------------------------------------
(* The vector LSU.                                                         *)

\* Fault: memory is accessed ahead of older instructions.
VlsuMayExecute_early == IsMem /\ unit.s1.ready /\ unit.s2.ready

VlsuMayExecute == IsMem /\ unit.s1.ready /\ unit.s2.ready /\ unit.rob_tag = rob_head /\ HeadEntry.valid

IsWhole == vins.lsmode = "whole"

\* A fault-only-first load looks at all its addresses before it moves anything.
Checks   == vins.lsmode = "fof" /\ unit.elem = 0 /\ unit.fld = 0
vl_eff   == IF Checks THEN FofTrim(unit.s1.val, unit.vl) ELSE unit.vl
FofFault == Checks /\ vl_eff = 0 /\ unit.vl > 0

\* The current element is one to be moved; the port decides when.
Moves ==
  IsWhole \/ (unit.elem < vl_eff /\ unit.elem >= unit.vstart /\ vec_elem_active(vins, unit.elem, vregs))

\* Where the unit stands after this turn: `elem` elements into field `fld`.
NextElem ==
  IF IsWhole /\ unit.elem + 1 = WordsPerReg /\ unit.fld < vins.nf
  THEN [unit EXCEPT !.elem = 0, !.fld = unit.fld + 1]
  ELSE [unit EXCEPT !.elem = unit.elem + 1, !.vl = vl_eff]

\* A whole-register access ends with its last word, the others one turn later.
Finishes ==
  IF IsWhole THEN unit.elem + 1 = WordsPerReg /\ unit.fld = vins.nf
  ELSE unit.elem >= vl_eff /\ unit.fld = vins.nf

\* The entry e, with the fault if there is one.
Marked(e) == IF FofFault THEN [e EXCEPT !.takes_trap = TRUE, !.cause = CAUSE_LOAD_FAULT] ELSE e

\* The instruction is complete; one that faulted keeps vstart.
VlsuDone ==
  /\ rob' = [rob EXCEPT ![unit.rob_tag] = [Marked(@) EXCEPT !.ready = TRUE]]
  /\ vec_rs' = [unit EXCEPT !.busy = FALSE, !.vl = vl_eff]
  /\ csr_vstart' = IF rob'[unit.rob_tag].takes_trap THEN csr_vstart ELSE 0

\* The fault-only-first trim is visible in the CSR.
Trim == csr_vl' = IF Checks /\ ~FofFault /\ vl_eff < unit.vl THEN vl_eff ELSE csr_vl

\* Past the last element: the next field, or the end.
VlsuEndOfField ==
  /\ VectorTurn /\ VlsuMayExecute /\ ~IsWhole /\ unit.elem >= vl_eff
  /\ IF Finishes THEN VlsuDone
     ELSE /\ vec_rs' = [unit EXCEPT !.fld = unit.fld + 1, !.elem = 0, !.vl = vl_eff]
          /\ rob' = [rob EXCEPT ![unit.rob_tag] = Marked(@)]
          /\ UNCHANGED csr_vstart
  /\ Trim
  /\ TakenFromQueue /\ VectorFrame
  /\ UNCHANGED <<rs, mem_port_used, dmem, vregs, csr_vtype, accesses>>

\* An inactive element is passed over without asking for the port.
VlsuSkip ==
  /\ VectorTurn /\ VlsuMayExecute /\ ~IsWhole /\ unit.elem < vl_eff /\ ~Moves
  /\ vec_rs' = NextElem
  /\ Trim
  /\ TakenFromQueue /\ VectorFrame
  /\ UNCHANGED <<rob, rs, mem_port_used, dmem, vregs, csr_vtype, csr_vstart, accesses>>

VlsuAddr ==
  MemIndex(IF IsWhole THEN Plus(unit.s1.val, unit.fld * WordsPerReg + unit.elem)
           ELSE VAddr(vins, unit.s1.val, unit.s2.val, unit.elem, unit.fld, vregs))

\* Fault: the VLSU does not ask the arbiter.
axi_grant_always == mem_port_used' = TRUE

axi_grant == ~mem_port_used /\ mem_port_used' = TRUE

\* One element through the port.
VlsuMove ==
  /\ VectorTurn /\ VlsuMayExecute /\ Moves
  /\ axi_grant
  /\ accesses' = accesses + 1
  /\ IF vins.op = "vload"
     THEN /\ vregs' = vreg_set(vregs, VField(vins, unit.fld), 2, {unit.elem}, LAMBDA e : dmem[VlsuAddr])
          /\ UNCHANGED dmem
     ELSE /\ dmem' = [dmem EXCEPT ![VlsuAddr] = vreg_get(vregs, VField(vins, unit.fld), unit.elem, 2)]
          /\ UNCHANGED vregs
  /\ IF IsWhole /\ Finishes THEN VlsuDone
     ELSE vec_rs' = NextElem /\ UNCHANGED <<rob, csr_vstart>>
  /\ Trim
  /\ TakenFromQueue /\ VectorFrame
  /\ UNCHANGED <<rs, csr_vtype>>

\* The port is taken: the same element again in the next tick.
VlsuRefused ==
  /\ VectorTurn /\ VlsuMayExecute /\ Moves /\ mem_port_used
  /\ vec_rs' = [unit EXCEPT !.vl = IF IsWhole THEN @ ELSE vl_eff]
  /\ Trim
  /\ TakenFromQueue /\ VectorFrame
  /\ UNCHANGED <<rob, rs, mem_port_used, dmem, vregs, csr_vtype, csr_vstart, accesses>>

\* Nothing to do, or an operand or the head of the ROB to wait for.
VecWait ==
  /\ VectorTurn /\ ~ArithRuns /\ ~VlsuMayExecute
  /\ vec_rs' = unit
  /\ TakenFromQueue /\ VectorFrame
  /\ UNCHANGED <<rob, rs, mem_port_used, dmem, vregs, vcsrs, accesses>>

VecUnit ==
  \/ VecCount \/ VecComplete \/ VecWait
  \/ VlsuEndOfField \/ VlsuSkip \/ VlsuMove \/ VlsuRefused

-----------------------------------------------------------------------------
(* The SYS block: the scalar CSRs as in SocCore, and the vector ones.      *)

VecSys ==
  /\ vec_ticked /\ vec_ticked' = FALSE
  /\ \/ SysIdle /\ UNCHANGED queue
     \/ /\ InsOf("sys").op \in CsrOps
        /\ SysExecute
        /\ VecHear([t \in {rs["sys"].rob_tag} |-> rob'[t].value])
  /\ UNCHANGED <<vregs, vcsrs, accesses, undo>>

\* vl is read, vstart exchanged, at the head of the ROB.
VecSysExecute ==
  /\ stage = "sys" /\ vec_ticked /\ SysMayExecute /\ InsOf("sys").op \in VCsrOps
  /\ LET tag == rs["sys"].rob_tag
         reads_vl == InsOf("sys").op = "csrr_vl"
         old == IF reads_vl THEN csr_vl ELSE csr_vstart
         results == [t \in {tag} |-> old]
     IN /\ csr_vstart' = IF reads_vl THEN csr_vstart ELSE Val("sys", 1) % CELLS
        /\ rob' = [rob EXCEPT ![tag] = [@ EXCEPT !.value = old, !.ready = TRUE]]
        /\ rs' = [cdb_broadcast(results) EXCEPT !["sys"].busy = FALSE]
        /\ VecHear(results)
  /\ stage' = "issue" /\ vec_ticked' = FALSE
  /\ UNCHANGED <<prog, front, regfile, rat, rob_head, rob_tail, rob_count, branch_pending,
                 mem_port_used, dmem, out, csr, timer, ecall_halt, halted,
                 vregs, csr_vl, csr_vtype, accesses, undo>>

-----------------------------------------------------------------------------
(* Dispatch of vector instructions.                                        *)

\* Fault: vset* under a branch, as the comment in the code tells it once was.
VsetMayDispatch_speculates(i) ==
  /\ i.op # "vsetivli" => read_operand(i.rs1).ready
  /\ i.op = "vsetvl" => read_operand(i.rs2).ready
  /\ ~rs["sys"].busy

\* vset* is resolved at dispatch: it needs its operands, no CSR instruction
\* that could still have to read vl, and no branch that could drop it.
VsetMayDispatch(i) ==
  /\ i.op # "vsetivli" => read_operand(i.rs1).ready
  /\ i.op = "vsetvl" => read_operand(i.rs2).ready
  /\ ~rs["sys"].busy
  /\ branch_pending = 0

\* Faults: the capture ahead of a CSR write, or of a branch.
QueueMayTake_ignores_csr ==
  Len(viq) < VIQ_SZ /\ branch_pending = 0 /\ (csr_vstart = 0 \/ (viq = <<>> /\ ~vec_rs.busy))
QueueMayTake_speculates ==
  Len(viq) < VIQ_SZ /\ ~rs["sys"].busy /\ (csr_vstart = 0 \/ (viq = <<>> /\ ~vec_rs.busy))

\* Fault: a full queue takes one more.
QueueMayTake_overflows ==
  ~rs["sys"].busy /\ branch_pending = 0 /\ (csr_vstart = 0 \/ (viq = <<>> /\ ~vec_rs.busy))

\* The queue takes an instruction when it captures what program order says:
\* no CSR write, no branch, and no vstart that an older one is about to clear.
QueueMayTake ==
  /\ Len(viq) < VIQ_SZ
  /\ ~rs["sys"].busy
  /\ branch_pending = 0
  /\ csr_vstart = 0 \/ (viq = <<>> /\ ~vec_rs.busy)

\* The configuration before the fetched instruction: an older vector
\* instruction will have cleared vstart.
ConfigBefore ==
  [Config EXCEPT !.vstart = IF \E t \in Tags : IsVector(t) /\ ~IsIllegal(t) THEN 0 ELSE @]

Remember == undo' = [undo EXCEPT !.config[rob_tail] = ConfigBefore]

DispatchVset ==
  /\ Dispatch(VSetOps) /\ VsetMayDispatch(Fetched)
  /\ LET i == Fetched
         vt == VSetType(i, read_operand(i.rs2).val)
         n == VSetLength(i, vt, read_operand(i.rs1).val, csr_vl)
     IN /\ csr_vtype' = vt /\ csr_vl' = n /\ csr_vstart' = 0
        /\ Enter([FreshEntry EXCEPT !.valid = TRUE, !.ready = TRUE, !.is_store = FALSE,
                                    !.dest = i.rd, !.value = n],
                 NextPc(fetch_pc))
  /\ Remember
  /\ EndOfTick
  /\ UNCHANGED <<fetch_stalled, rs, branch_pending, vregs, queue, vec_ticked, accesses>>

Legal == Fetched.op \in VMemOps \/ VLegal(Fetched, csr_vtype, csr_vstart)

\* The queue entry: the vector state of now, the scalar operands renamed.
Queued(i) ==
  [busy |-> TRUE, executing |-> FALSE, remaining |-> 0, rob_tag |-> rob_tail, pc |-> fetch_pc,
   vl |-> csr_vl, vstart |-> csr_vstart, sew |-> csr_vtype.sew,
   s1 |-> IF i.op \in VMemOps \/ i.form = "vx" THEN read_operand(i.rs1)
          ELSE IF i.form = "vi" THEN Ready(i.imm) ELSE Ready(0),
   s2 |-> IF i.op \in VMemOps /\ i.mop = "strided" THEN read_operand(i.rs2) ELSE Ready(0),
   elem |-> 0, fld |-> 0]

DispatchVector ==
  /\ Dispatch(VArithOps \cup VMemOps) /\ Legal /\ QueueMayTake
  /\ viq' = Append(viq, Queued(Fetched))
  /\ Enter([FreshEntry EXCEPT
              !.valid = TRUE, !.ready = FALSE, !.is_store = FALSE,
              !.dest = IF Fetched.op = "vcpop" THEN Fetched.rd ELSE X0],
           NextPc(fetch_pc))
  /\ Remember
  /\ EndOfTick
  /\ UNCHANGED <<fetch_stalled, rs, branch_pending, vregs, vcsrs, vec_rs, vec_ticked, accesses>>

\* An unsupported form, width or vstart is an illegal instruction.
DispatchVectorIllegal ==
  /\ Dispatch(VArithOps \cup {"vreserved"}) /\ ~Legal
  /\ Enter([FreshEntry EXCEPT !.valid = TRUE, !.ready = TRUE, !.is_store = FALSE,
                              !.takes_trap = TRUE, !.cause = CAUSE_ILLEGAL,
                              !.dest = X0, !.value = 0],
           NextPc(fetch_pc))
  /\ EndOfTick
  /\ UNCHANGED <<fetch_stalled, rs, branch_pending, vregs, vcsrs, queue, vec_ticked, accesses, undo>>

DispatchVectorCsr ==
  /\ Dispatch(VCsrOps) /\ ~rs["sys"].busy
  /\ rs' = [rs EXCEPT !["sys"] =
              [@ EXCEPT !.busy = TRUE, !.executing = FALSE, !.rob_tag = rob_tail, !.pc = fetch_pc,
                        !.src = [k \in 1 .. 3 |-> IF k = 1 THEN read_operand(Fetched.rs1)
                                                  ELSE Ready(0)]]]
  /\ Enter([FreshEntry EXCEPT !.valid = TRUE, !.ready = FALSE, !.is_store = FALSE,
                              !.dest = Fetched.rd],
           NextPc(fetch_pc))
  /\ EndOfTick
  /\ UNCHANGED <<fetch_stalled, branch_pending, vregs, vcsrs, queue, vec_ticked, accesses, undo>>

DispatchVectorStall ==
  /\ Dispatch(VecOps \cup VCsrOps)
  /\ \/ Fetched.op \in VSetOps /\ ~VsetMayDispatch(Fetched)
     \/ Fetched.op \in VArithOps \cup VMemOps /\ Legal /\ ~QueueMayTake
     \/ Fetched.op \in VCsrOps /\ rs["sys"].busy
  /\ rob' = [rob EXCEPT ![rob_tail] = FreshEntry]
  /\ UNCHANGED <<front, rat, rob_head, rob_tail, rob_count, rs, branch_pending,
                 vregs, vcsrs, queue, vec_ticked, accesses, undo>>
  /\ EndOfTick

VecDispatch ==
  \/ DispatchVset \/ DispatchVector \/ DispatchVectorIllegal \/ DispatchVectorCsr
  \/ DispatchVectorStall

-----------------------------------------------------------------------------
ScalarOnly ==
  /\ Issue \/ DispatchStage
  /\ UNCHANGED <<vregs, vcsrs, queue, vec_ticked, accesses, undo>>

VTick ==
  /\ ~halted
  /\ VecCommit \/ VecExecute \/ VecLsu \/ VecUnit \/ VecSys \/ VecSysExecute
     \/ ScalarOnly \/ VecDispatch

VTimerFires ==
  /\ ~halted /\ TimerFires
  /\ UNCHANGED <<vregs, vcsrs, queue, vec_ticked, accesses, undo>>

VStopped == halted /\ UNCHANGED vvars

VNext == VTick \/ VTimerFires \/ VStopped

VSpec == VInit /\ [][VNext]_vvars /\ WF_vvars(VTick)

-----------------------------------------------------------------------------
(* Type invariant and safety.                                              *)

\* What the elements hold: words, unless a program accesses elements beyond
\* the register file, which the code does not check.
VecDataOK == dmem \in [0 .. MemWords - 1 -> Word] /\ vregs \in VRegFile

VecControlOK ==
  /\ prog \in [Word -> Instr \cup VInstr]
  /\ csr_vl \in 0 .. CELLS /\ csr_vtype \in VType /\ csr_vstart \in 0 .. CELLS - 1
  /\ viq \in Seq(VecRs) /\ Len(viq) <= VIQ_SZ
  /\ vec_rs \in VecRs
  /\ vec_ticked \in BOOLEAN
  /\ accesses \in Nat

VecTypeOK ==
  /\ CoreTypeOK /\ VecControlOK /\ VecDataOK
  /\ undo.config \in [Tags -> VConfig] /\ undo.vregs \in [Tags -> VRegFile]

\* The instruction in the unit, then the queue.
Pending == (IF vec_rs.busy THEN <<vec_rs>> ELSE <<>>) \o viq

\* The unit and the queue hold, in program order, exactly the vector
\* instructions in flight that have not completed: a flush leaves none
\* behind, none is lost, overtakes another or writes another's entry when
\* tags are reused.
QueueInOrder ==
  /\ \A i, j \in DOMAIN Pending : i < j => Age(Pending[i].rob_tag) < Age(Pending[j].rob_tag)
  /\ \A i \in DOMAIN Pending :
       LET t == Pending[i].rob_tag IN
       InFlight(t) /\ ~rob[t].ready /\ rob[t].pc = Pending[i].pc
  /\ \A t \in Tags : IsVector(t) /\ ~rob[t].ready => \E i \in DOMAIN Pending : Pending[i].rob_tag = t

\* Nothing vector is speculative: whatever is in the unit or the queue, and
\* every vset* in flight, illegal ones apart, is older than every conditional branch in flight
\* (the register file is not renamed and a flush could not undo it).
NoSpeculativeVector ==
  \A t, b \in Tags :
    IsVector(t) /\ ~IsIllegal(t) /\ InFlight(b) /\ rob[b].is_branch => Age(t) < Age(b)

\* A scalar operand that the coprocessor waits for will be broadcast: its
\* producer is in flight, older and has not completed.
VecNoLostWakeup ==
  \A i \in DOMAIN Pending : \A op \in {Pending[i].s1, Pending[i].s2} :
    ~op.ready => /\ InFlight(op.tag) /\ ~rob[op.tag].ready
                 /\ Age(op.tag) < Age(Pending[i].rob_tag)

\* The scalar operand op of the entry of t is x[r] of program order, or waits
\* for the last to write it; one that reads no register is the word v.
ScalarRight(op, reads, r, v, t) ==
  IF ~reads THEN op = Ready(v)
  ELSE IF op.ready THEN Sees(r, t, op.val) ELSE r # X0 /\ LastWriter(op.tag, r, t)

PendingRight(p) ==
  LET i == prog[p.pc] IN
  /\ ScalarRight(p.s1, i.op \in VMemOps \/ i.form = "vx", i.rs1,
                 IF i.form = "vi" THEN i.imm ELSE 0, p.rob_tag)
  /\ ScalarRight(p.s2, i.op \in VMemOps /\ i.mop = "strided", i.rs2, 0, p.rob_tag)

\* Every scalar operand in the unit and in the queue is that of program
\* order, however long the instruction has waited there: base, stride and
\* the x of an arithmetic instruction are not overwritten meanwhile by an
\* instruction behind it, nor taken from one whose tag was reused.
VectorOperandsRight == \A k \in DOMAIN Pending : PendingRight(Pending[k])

\* A vset* in flight.  It has taken effect, and its entry holds the vl it set.
IsVset(s) == InFlight(s) /\ prog[rob[s].pc].op \in VSetOps

\* The vector state that the pending instruction p has captured is the one
\* its predecessors leave: until a vset* behind it takes effect, that of the
\* CSRs; the vl that the last vset* ahead of it has set; no vstart if a vector
\* instruction ahead of it will clear it; and nothing a CSR instruction ahead
\* of it has still to write.
CapturedRight(p) ==
  LET t == p.rob_tag IN
  /\ (\A s \in Tags : IsVset(s) => Age(s) < Age(t)) =>
       p.vl = csr_vl /\ p.vstart = csr_vstart /\ p.sew = csr_vtype.sew
  /\ \A s \in Tags :
       /\ IsVset(s) /\ Age(s) < Age(t)
       /\ \A o \in Tags : IsVset(o) /\ Age(o) < Age(t) => Age(o) <= Age(s)
       => p.vl = rob[s].value
  /\ \A s \in Tags : IsVector(s) /\ ~rob[s].takes_trap /\ Age(s) < Age(t) => p.vstart = 0
  /\ rs["sys"].busy => Age(t) < Age(rs["sys"].rob_tag)

\* Every vector instruction that waits or runs, unless it has faulted, does so
\* under the vl, vstart and element width of program order, however long it
\* waits and whatever has changed the CSRs behind it meanwhile.
CapturesInOrder ==
  \A k \in DOMAIN Pending : ~rob[Pending[k].rob_tag].takes_trap => CapturedRight(Pending[k])

\* Memory is accessed at most once per tick, whoever asks: the committing
\* store, the scalar load and the vector element share one port.
OneAccessPerTick == accesses <= 1

\* Unlike CapturedVlPrecise, which the code violates, this excuses a load that
\* trims vl while nothing vector behind it can have captured, or changed, vl.
TrimsAlone ==
  [][VecUnit /\ csr_vl' # csr_vl =>
       \A t \in Tags : IsVector(t) /\ ~IsIllegal(t) => t = unit.rob_tag]_vvars

-----------------------------------------------------------------------------
\* A program whose execution ends does end, however its scalar loads, stores
\* and vector elements compete for the port and its queue fills up.
VecTerminates == <>halted
=============================================================================
