------------------------------ MODULE OooCore ------------------------------
(***************************************************************************)
(* The earlier out-of-order core with vectors (rv32_ooo.cpp).  It renames  *)
(* and reorders as SocCore does, but never speculates: a branch or a jump  *)
(* through a register stops the fetch until it is resolved, so that        *)
(* nothing is ever flushed.  Instead of a queue of vector instructions it  *)
(* has one vector station, whose arithmetic writes the register file out   *)
(* of order with the scalar instructions, while vector memory accesses and *)
(* CSR instructions wait for the head of the ROB.                          *)
(*                                                                         *)
(* rv32_ooo_tick is one clock cycle; its blocks are the steps:             *)
(*   commit -> exec -> lsu -> vec -> sys -> issue -> dispatch -> (next)    *)
(***************************************************************************)
EXTENDS OooOps, FiniteSets

CONSTANTS
  Programs,                    \* instruction memories the core may be given
  ROB_SZ,                      \* entries of the reorder buffer
  MUL_LAT, DIV_LAT, FPU_LAT_ADDMUL, FPU_LAT_DIV, FPU_LAT_FMA, FPU_LAT_MISC,
  VEC_LAT                      \* latencies in ticks; ALU and branch unit: 1

\* `remaining` is two bits wide in the vector station, four in MD and FPU.
ASSUME OooAssumption ==
  /\ ROB_SZ \in Nat /\ ROB_SZ >= 2
  /\ {MUL_LAT, DIV_LAT, FPU_LAT_ADDMUL, FPU_LAT_DIV, FPU_LAT_FMA, FPU_LAT_MISC} \subseteq 1 .. 15
  /\ VEC_LAT \in 1 .. 3
ASSUME ProgAssumption == \A p \in Programs : \A a \in Word : OooInstr(p[a])

VARIABLES
  stage,          \* the block of the tick that runs next
  prog,           \* instruction memory
  fetch_pc, fetch_stalled, fetch_done,
  regfile, rat,   \* integer and floating-point registers and their aliases
  rob, rob_head, rob_tail, rob_count,
  rs,             \* the reservation stations
  vregs,          \* the vector register file, not renamed
  csr, csr_vl, csr_vtype,
  dmem,
  ecall_halt, halted,
  arch,           \* history: the vector state as of the last retirement
  eff             \* history: the address of the instruction in each ROB entry
                  \* and the vector state it leaves

front == <<fetch_pc, fetch_stalled, fetch_done>>
robs  == <<rob, rob_head, rob_tail, rob_count>>
vcfg  == <<csr_vl, csr_vtype>>
vars  == <<stage, prog, front, regfile, rat, robs, rs, vregs, csr, vcfg, dmem,
           ecall_halt, halted, arch, eff>>

Tags     == 0 .. ROB_SZ - 1
AluUnits == {"alu0", "alu1"}
Timed    == AluUnits \cup {"md", "fpu", "br"}
Units    == Timed \cup {"lsu", "vec", "sys"}
Stages   == {"commit", "exec", "lsu", "vec", "sys", "issue", "dispatch"}

Operand  == [ready : BOOLEAN, val : Word, tag : Tags]
RatEntry == [has_tag : BOOLEAN, tag : Tags]
RobEntry == [valid : BOOLEAN, ready : BOOLEAN, is_store : BOOLEAN, is_ecall : BOOLEAN,
             dest : Regs, value : Word, addr : Word, sdata : Word]
\* The decoded fields of a station are prog[pc]; vl is the vector station's.
Station  == [busy : BOOLEAN, executing : BOOLEAN, remaining : 0 .. 15, rob_tag : Tags,
             pc : Word, src : [1 .. 3 -> Operand], vl : 0 .. VLMAX]
VecState == [vregs : VecFile, vl : 0 .. VLMAX, vtype : Word]

Ready(v)   == [ready |-> TRUE, val |-> v, tag |-> 0]
Waiting(t) == [ready |-> FALSE, val |-> 0, tag |-> t]
NoVectors  == [v \in VRegs |-> [l \in Lanes |-> 0]]

Init ==
  /\ prog \in Programs
  /\ stage = "commit"
  /\ fetch_pc = 0 /\ fetch_stalled = FALSE /\ fetch_done = FALSE
  /\ regfile = [r \in Regs |-> 0]
  /\ rat = [r \in Regs |-> [has_tag |-> FALSE, tag |-> 0]]
  /\ rob = [t \in Tags |-> [valid |-> FALSE, ready |-> FALSE, is_store |-> FALSE,
                            is_ecall |-> FALSE, dest |-> X0, value |-> 0, addr |-> 0, sdata |-> 0]]
  /\ rob_head = 0 /\ rob_tail = 0 /\ rob_count = 0
  /\ rs = [u \in Units |-> [busy |-> FALSE, executing |-> FALSE, remaining |-> 0, rob_tag |-> 0,
                            pc |-> 0, src |-> [k \in 1 .. 3 |-> Ready(0)], vl |-> 0]]
  /\ vregs = NoVectors
  /\ csr = [c \in MCsrs |-> 0] /\ csr_vl = 0 /\ csr_vtype = VILL
  /\ dmem = [a \in 0 .. MemWords - 1 |-> 0]
  /\ ecall_halt = FALSE /\ halted = FALSE
  /\ arch = [vregs |-> NoVectors, vl |-> 0, vtype |-> VILL]
  /\ eff = [t \in Tags |-> [pc |-> 0, vregs |-> NoVectors, vl |-> 0, vtype |-> VILL]]

-----------------------------------------------------------------------------
(* Result broadcast, renamed operand read and what the head of the ROB is. *)

\* Fault: tags that do not wrap.
Inc_no_wrap(t) == t + 1

Inc(t)    == IF t = ROB_SZ - 1 THEN 0 ELSE t + 1
HeadEntry == rob[rob_head]
HeadReady == rob_count > 0 /\ HeadEntry.valid /\ HeadEntry.ready
InsOf(u)  == prog[rs[u].pc]
HeadIns   == prog[eff[rob_head].pc]
AtHead(u) == rs[u].rob_tag = rob_head /\ HeadEntry.valid
Val(u, k) == rs[u].src[k].val
OperandsReady(u) == \A k \in 1 .. 3 : rs[u].src[k].ready

\* An operand that waits for a tag of results gets its value.
Hear(op, results) ==
  IF ~op.ready /\ op.tag \in DOMAIN results THEN Ready(results[op.tag]) ELSE op

\* Every busy station hears the results, on all its operands.
cdb_broadcast(results) ==
  [u \in Units |->
    IF rs[u].busy
    THEN [rs[u] EXCEPT !.src = [k \in 1 .. 3 |-> Hear(@[k], results)]] ELSE rs[u]]

read_operand(r) ==
  IF r = X0 THEN Ready(0)
  ELSE IF ~rat[r].has_tag THEN Ready(regfile[r])
  ELSE IF rob[rat[r].tag].ready THEN Ready(rob[rat[r].tag].value)
  ELSE Waiting(rat[r].tag)

\* A unit writes a result for its ROB entry, wakes the others and is free.
Answer(u, value) ==
  LET tag == rs[u].rob_tag IN
  /\ rob' = [rob EXCEPT ![tag].value = value, ![tag].ready = TRUE]
  /\ rs' = [cdb_broadcast([t \in {tag} |-> value]) EXCEPT ![u].busy = FALSE]

\* A unit completes an entry that has no result.
Complete(u) ==
  /\ rob' = [rob EXCEPT ![rs[u].rob_tag].ready = TRUE]
  /\ rs' = [rs EXCEPT ![u].busy = FALSE, ![u].executing = FALSE, ![u].remaining = 0]

-----------------------------------------------------------------------------
(* Commit.  The tick always goes on, also behind an environment call.      *)

\* The vector state the head leaves: all of it was decided before.
Retired ==
  [arch EXCEPT !.vl = eff[rob_head].vl, !.vtype = eff[rob_head].vtype,
               !.vregs = IF HeadIns.op \in VArithOps \cup {"vle32"} THEN eff[rob_head].vregs ELSE @]

\* Fault: a retired instruction stays the producer of its register.
Unmapped_never == rat

Unmapped ==
  IF HeadEntry.dest # X0 /\ rat[HeadEntry.dest] = [has_tag |-> TRUE, tag |-> rob_head]
  THEN [rat EXCEPT ![HeadEntry.dest].has_tag = FALSE] ELSE rat

Commit ==
  /\ stage = "commit" /\ HeadReady
  /\ ecall_halt' = (ecall_halt \/ HeadEntry.is_ecall)
  /\ dmem' = IF HeadEntry.is_store
             THEN [dmem EXCEPT ![MemIndex(HeadEntry.addr)] = HeadEntry.sdata] ELSE dmem
  /\ regfile' = IF HeadEntry.is_ecall \/ HeadEntry.is_store \/ HeadEntry.dest = X0 THEN regfile
                ELSE [regfile EXCEPT ![HeadEntry.dest] = HeadEntry.value]
  /\ rat' = Unmapped
  /\ rob' = [rob EXCEPT ![rob_head].valid = FALSE]
  /\ rob_head' = Inc(rob_head)
  /\ rob_count' = rob_count - 1
  /\ arch' = Retired
  /\ stage' = "exec"
  /\ UNCHANGED <<prog, front, rob_tail, rs, vregs, csr, vcfg, halted, eff>>

NoCommit ==
  /\ stage = "commit" /\ ~HeadReady
  /\ stage' = "exec"
  /\ UNCHANGED <<prog, front, regfile, rat, robs, rs, vregs, csr, vcfg, dmem, ecall_halt,
                 halted, arch, eff>>

-----------------------------------------------------------------------------
(* Execution of the fixed-latency units.                                   *)

Done == {u \in Timed : rs[u].busy /\ rs[u].executing /\ rs[u].remaining <= 1}

Result(u) ==
  LET ins == InsOf(u) IN
  CASE u \in AluUnits -> alu_compute(ins, Val(u, 1), Val(u, 2))
    [] u = "md"       -> md_compute(ins, Val(u, 1), Val(u, 2))
    [] u = "fpu"      -> fpu_compute(ins, Val(u, 1), Val(u, 2), Val(u, 3))
    [] u = "br"       -> IF ins.op = "jalr" THEN NextPc(rs[u].pc) ELSE 0

Results ==
  [t \in {rs[u].rob_tag : u \in Done} |-> Result(CHOOSE u \in Done : rs[u].rob_tag = t)]

\* Fault: a branch that falls through does not restart the fetch.
ResumeFetch_taken_only ==
  IF "br" \in Done /\ (InsOf("br").op = "jalr" \/ branch_taken(InsOf("br"), Val("br", 1), Val("br", 2)))
  THEN fetch_pc' = InsOf("br").imm /\ fetch_stalled' = FALSE
  ELSE UNCHANGED <<fetch_pc, fetch_stalled>>

\* A branch or a JALR that is resolved restarts the fetch where it leads.
ResumeFetch ==
  LET ins == InsOf("br") IN
  IF "br" \in Done
  THEN /\ fetch_pc' = IF ins.op = "jalr" THEN Plus(Val("br", 1), ins.imm)
                      ELSE IF branch_taken(ins, Val("br", 1), Val("br", 2)) THEN ins.imm
                      ELSE NextPc(rs["br"].pc)
       /\ fetch_stalled' = FALSE
  ELSE UNCHANGED <<fetch_pc, fetch_stalled>>

Execute ==
  /\ stage = "exec"
  /\ rob' = [t \in Tags |-> IF t \in DOMAIN Results
                            THEN [rob[t] EXCEPT !.value = Results[t], !.ready = TRUE] ELSE rob[t]]
  /\ rs' = [u \in Units |->
              LET s == cdb_broadcast(Results)[u] IN
              IF u \in Done THEN [s EXCEPT !.busy = FALSE, !.executing = FALSE, !.remaining = 0]
              ELSE IF u \in Timed /\ s.busy /\ s.executing THEN [s EXCEPT !.remaining = @ - 1]
              ELSE s]
  /\ ResumeFetch
  /\ stage' = "lsu"
  /\ UNCHANGED <<prog, fetch_done, regfile, rat, rob_head, rob_tail, rob_count, vregs, csr, vcfg,
                 dmem, ecall_halt, halted, arch, eff>>

-----------------------------------------------------------------------------
(* The LSU: stores only fill in their entry, loads wait for the head.      *)

LsuReady  == rs["lsu"].busy /\ OperandsReady("lsu")
LsuIsLoad == InsOf("lsu").op \in LoadOps
LsuAddr   == Plus(Val("lsu", 1), InsOf("lsu").imm)
LsuRest   == UNCHANGED <<prog, front, regfile, rat, rob_head, rob_tail, rob_count, vregs, csr, vcfg,
                         dmem, ecall_halt, halted, arch, eff>>

LsuStore ==
  /\ stage = "lsu" /\ LsuReady /\ ~LsuIsLoad
  /\ rob' = [rob EXCEPT ![rs["lsu"].rob_tag] =
               [@ EXCEPT !.addr = LsuAddr, !.sdata = Val("lsu", 2), !.ready = TRUE]]
  /\ rs' = [rs EXCEPT !["lsu"].busy = FALSE]
  /\ stage' = "vec"
  /\ LsuRest

LoadMayExecute == LsuReady /\ LsuIsLoad /\ AtHead("lsu")

LsuLoad ==
  /\ stage = "lsu" /\ LoadMayExecute
  /\ Answer("lsu", dmem[MemIndex(LsuAddr)])
  /\ stage' = "vec"
  /\ LsuRest

LsuIdle ==
  /\ stage = "lsu" /\ ~LoadMayExecute /\ ~(LsuReady /\ ~LsuIsLoad)
  /\ stage' = "vec"
  /\ UNCHANGED <<rob, rs>>
  /\ LsuRest

-----------------------------------------------------------------------------
(* The vector unit.  Arithmetic counts down and writes the register file   *)
(* wherever it is in the ROB; all the words of a memory access move in one *)
(* tick, at the head.                                                      *)

VecIns     == InsOf("vec")
ArithRuns  == rs["vec"].busy /\ VecIns.op \in VArithOps /\ rs["vec"].executing
MemMayMove == rs["vec"].busy /\ VecIns.op \in VMemOps /\ rs["vec"].src[1].ready /\ AtHead("vec")
VecRest    == UNCHANGED <<prog, front, regfile, rat, rob_head, rob_tail, rob_count, csr, vcfg,
                          ecall_halt, halted, arch>>

VecCount ==
  /\ stage = "vec" /\ ArithRuns /\ rs["vec"].remaining > 1
  /\ rs' = [rs EXCEPT !["vec"].remaining = @ - 1]
  /\ stage' = "sys"
  /\ UNCHANGED <<rob, vregs, dmem, eff>>
  /\ VecRest

VecComplete ==
  /\ stage = "vec" /\ ArithRuns /\ rs["vec"].remaining <= 1
  /\ vregs' = vec_arith_compute(VecIns, vregs, rs["vec"].vl)
  /\ Complete("vec")
  /\ eff' = [eff EXCEPT ![rs["vec"].rob_tag].vregs = vregs']
  /\ stage' = "sys"
  /\ UNCHANGED dmem
  /\ VecRest

VecLoad ==
  /\ stage = "vec" /\ MemMayMove /\ VecIns.op = "vle32"
  /\ vregs' = VectorLoaded(VecIns, vregs, dmem, Val("vec", 1), rs["vec"].vl)
  /\ Complete("vec")
  /\ eff' = [eff EXCEPT ![rs["vec"].rob_tag].vregs = vregs']
  /\ stage' = "sys"
  /\ UNCHANGED dmem
  /\ VecRest

VecStore ==
  /\ stage = "vec" /\ MemMayMove /\ VecIns.op = "vse32"
  /\ dmem' = VectorStored(VecIns, vregs, dmem, Val("vec", 1), rs["vec"].vl)
  /\ Complete("vec")
  /\ stage' = "sys"
  /\ UNCHANGED <<vregs, eff>>
  /\ VecRest

VecIdle ==
  /\ stage = "vec" /\ ~ArithRuns /\ ~MemMayMove
  /\ stage' = "sys"
  /\ UNCHANGED <<rob, rs, vregs, dmem, eff>>
  /\ VecRest

-----------------------------------------------------------------------------
(* CSR instructions, at the head of the ROB.                               *)

SysMayExecute == rs["sys"].busy /\ rs["sys"].src[1].ready /\ AtHead("sys")

SysExecute ==
  /\ stage = "sys" /\ SysMayExecute
  /\ LET ins == InsOf("sys")
         old == ReadCsr(csr, csr_vl, csr_vtype, ins.csr)
     IN /\ csr' = WriteCsr(csr, ins.csr, CsrNewValue(ins, old, Val("sys", 1)))
        /\ Answer("sys", old)
  /\ stage' = "issue"
  /\ UNCHANGED <<prog, front, regfile, rat, rob_head, rob_tail, rob_count, vregs, vcfg, dmem,
                 ecall_halt, halted, arch, eff>>

SysIdle ==
  /\ stage = "sys" /\ ~SysMayExecute
  /\ stage' = "issue"
  /\ UNCHANGED <<prog, front, regfile, rat, robs, rs, vregs, csr, vcfg, dmem, ecall_halt,
                 halted, arch, eff>>

-----------------------------------------------------------------------------
Latency(u) ==
  LET op == InsOf(u).op IN
  CASE u \in AluUnits \cup {"br"} -> 1
    [] u = "vec" -> VEC_LAT
    [] u = "md"  -> IF op = "div" THEN DIV_LAT ELSE MUL_LAT
    [] u = "fpu" -> CASE op = "fmadd" -> FPU_LAT_FMA
                      [] op = "fdiv"  -> FPU_LAT_DIV
                      [] op = "fadd"  -> FPU_LAT_ADDMUL
                      [] OTHER        -> FPU_LAT_MISC

\* Vector arithmetic has no operands to wait for.
MayIssue(u) ==
  /\ rs[u].busy /\ ~rs[u].executing
  /\ \/ u \in Timed /\ OperandsReady(u)
     \/ u = "vec" /\ VecIns.op \in VArithOps

Issue ==
  /\ stage = "issue"
  /\ rs' = [u \in Units |-> IF MayIssue(u)
                            THEN [rs[u] EXCEPT !.executing = TRUE, !.remaining = Latency(u)]
                            ELSE rs[u]]
  /\ stage' = "dispatch"
  /\ UNCHANGED <<prog, front, regfile, rat, robs, vregs, csr, vcfg, dmem, ecall_halt, halted,
                 arch, eff>>

-----------------------------------------------------------------------------
(* Fetch and dispatch: one instruction per tick, in order.                 *)

Fetched  == prog[fetch_pc]
MayFetch == ~fetch_done /\ ~fetch_stalled /\ rob_count < ROB_SZ
Dispatch(ops) == stage = "dispatch" /\ MayFetch /\ Fetched.op \in ops

UnitFor(op) ==
  CASE op \in AluOps                  -> IF rs["alu0"].busy THEN "alu1" ELSE "alu0"
    [] op \in MdOps                   -> "md"
    [] op \in FpuOps                  -> "fpu"
    [] op \in LoadOps \cup StoreOps   -> "lsu"
    [] op \in BranchOps \cup {"jalr"} -> "br"
    [] op \in VArithOps \cup VMemOps  -> "vec"
    [] op \in CsrOps                  -> "sys"
NeedUnit == AluOps \cup MdOps \cup FpuOps \cup LoadOps \cup StoreOps \cup BranchOps \cup {"jalr"}
            \cup VArithOps \cup VMemOps \cup CsrOps

DestOf(i) ==
  IF i.op \in StoreOps \cup BranchOps \cup VArithOps \cup VMemOps \cup NoOps \cup HaltOps THEN X0 ELSE i.rd

Source(ins, k) ==
  CASE k = 1 -> IF ins.op = "csrrwi" THEN Ready(ins.imm) ELSE read_operand(ins.rs1)
    [] k = 2 -> IF ins.op = "addi" THEN Ready(ins.imm)
                ELSE IF ins.op \in {"add", "sub", "fadd", "fdiv", "fmadd"} \cup MdOps
                                   \cup StoreOps \cup BranchOps
                THEN read_operand(ins.rs2) ELSE Ready(0)
    [] k = 3 -> IF ins.op = "fmadd" THEN read_operand(ins.rs3) ELSE Ready(0)

\* Vector arithmetic reads no scalar operand; the stale one is left in place.
FilledStation(s, ins) ==
  [s EXCEPT !.busy = TRUE, !.executing = FALSE, !.rob_tag = rob_tail, !.pc = fetch_pc,
            !.src = IF ins.op \in VArithOps THEN @ ELSE [k \in 1 .. 3 |-> Source(ins, k)],
            !.vl = IF ins.op \in VArithOps \cup VMemOps THEN csr_vl ELSE @]

\* The fetched instruction joins the ROB, complete (with a value) or not.
Enter(complete, value) ==
  /\ rob' = [rob EXCEPT ![rob_tail] =
               [@ EXCEPT !.valid = TRUE, !.ready = complete, !.dest = DestOf(Fetched),
                         !.is_store = (Fetched.op \in StoreOps),
                         !.is_ecall = (Fetched.op \in HaltOps),
                         !.value = IF complete THEN value ELSE rob[rob_tail].value]]
  /\ rat' = IF DestOf(Fetched) = X0 THEN rat
            ELSE [rat EXCEPT ![DestOf(Fetched)] = [has_tag |-> TRUE, tag |-> rob_tail]]
  /\ rob_tail' = Inc(rob_tail)
  /\ rob_count' = rob_count + 1
  /\ eff' = [eff EXCEPT ![rob_tail] = [@ EXCEPT !.pc = fetch_pc, !.vl = csr_vl', !.vtype = csr_vtype']]
  /\ UNCHANGED <<rob_head, fetch_done>>

EndOfTick ==
  /\ stage' = "commit"
  /\ halted' = (ecall_halt \/ (fetch_done' /\ rob_count' = 0))
  /\ UNCHANGED <<prog, regfile, vregs, csr, dmem, ecall_halt, arch>>

\* LUI and JAL, environment calls, and whatever is skipped.
DispatchQuick ==
  /\ Dispatch({"lui", "jal"} \cup HaltOps \cup NoOps)
  /\ UNCHANGED <<fetch_stalled, rs, vcfg>>
  /\ Enter(TRUE, CASE Fetched.op = "lui" -> Fetched.imm
                   [] Fetched.op = "jal" -> NextPc(fetch_pc)
                   [] OTHER              -> 0)
  /\ fetch_pc' = IF Fetched.op = "jal" THEN Fetched.imm ELSE NextPc(fetch_pc)
  /\ EndOfTick

\* An instruction for a free unit.  A branch or a JALR stops the fetch.
DispatchToUnit ==
  /\ Dispatch(NeedUnit)
  /\ LET u == UnitFor(Fetched.op) IN
     /\ ~rs[u].busy
     /\ rs' = [rs EXCEPT ![u] = FilledStation(@, Fetched)]
  /\ UNCHANGED vcfg
  /\ Enter(FALSE, 0)
  /\ fetch_pc' = NextPc(fetch_pc)
  /\ fetch_stalled' = (Fetched.op \in BranchOps \cup {"jalr"})
  /\ EndOfTick

\* Fault: a vset* that does not wait for its operands.
VsetOperandsReady_always == TRUE

VsetOperandsReady ==
  \/ Fetched.op = "vsetivli"
  \/ /\ read_operand(Fetched.rs1).ready
     /\ Fetched.op = "vsetvl" => read_operand(Fetched.rs2).ready

\* vset* takes effect as it is dispatched.
DispatchVset ==
  /\ Dispatch(VSetOps) /\ VsetOperandsReady
  /\ csr_vtype' = VsetType(Fetched, read_operand(Fetched.rs2).val)
  /\ csr_vl' = VsetLength(Fetched, csr_vtype', read_operand(Fetched.rs1).val, csr_vl)
  /\ Enter(TRUE, csr_vl')
  /\ fetch_pc' = NextPc(fetch_pc)
  /\ EndOfTick
  /\ UNCHANGED <<fetch_stalled, rs>>

\* The unit is taken, or the length is not known: try again in the next tick.
DispatchStall ==
  /\ \/ Dispatch(NeedUnit) /\ rs[UnitFor(Fetched.op)].busy
     \/ Dispatch(VSetOps) /\ ~VsetOperandsReady
  /\ rob' = [rob EXCEPT ![rob_tail].is_ecall = FALSE]
  /\ UNCHANGED <<front, rat, rob_head, rob_tail, rob_count, rs, vcfg, eff>>
  /\ EndOfTick

FetchEnd ==
  /\ Dispatch({"end"})
  /\ fetch_done' = TRUE
  /\ UNCHANGED <<fetch_pc, fetch_stalled, rat, robs, rs, vcfg, eff>>
  /\ EndOfTick

FetchIdle ==
  /\ stage = "dispatch" /\ ~MayFetch
  /\ UNCHANGED <<front, rat, robs, rs, vcfg, eff>>
  /\ EndOfTick

-----------------------------------------------------------------------------
Tick ==
  /\ ~halted
  /\ \/ Commit \/ NoCommit
     \/ Execute
     \/ LsuStore \/ LsuLoad \/ LsuIdle
     \/ VecCount \/ VecComplete \/ VecLoad \/ VecStore \/ VecIdle
     \/ SysExecute \/ SysIdle
     \/ Issue
     \/ DispatchQuick \/ DispatchToUnit \/ DispatchVset \/ DispatchStall \/ FetchEnd \/ FetchIdle

Stopped == halted /\ UNCHANGED vars

\* The testbench calls the tick until halted.
Spec == Init /\ [][Tick \/ Stopped]_vars /\ WF_vars(Tick)

-----------------------------------------------------------------------------
(* Properties.                                                             *)

\* The types of the state.
OooTypeOK ==
  /\ stage \in Stages
  /\ fetch_pc \in Word /\ {fetch_stalled, fetch_done, ecall_halt, halted} \subseteq BOOLEAN
  /\ regfile \in [Regs -> Word] /\ rat \in [Regs -> RatEntry]
  /\ rob \in [Tags -> RobEntry]
  /\ rob_head \in Tags /\ rob_tail \in Tags /\ rob_count \in 0 .. ROB_SZ
  /\ rs \in [Units -> Station]
  /\ vregs \in VecFile /\ csr \in [MCsrs -> Word]
  /\ csr_vl \in 0 .. VLMAX /\ csr_vtype \in Word
  /\ dmem \in [0 .. MemWords - 1 -> Word]
  /\ arch \in VecState
  /\ eff \in [Tags -> [pc : Word, vregs : VecFile, vl : 0 .. VLMAX, vtype : Word]]

\* An operand that waits does so for an entry in flight, older than its own
\* instruction, that has not completed: the broadcast it needs is still to
\* come and no later owner of the tag can answer in its place.
Age(t) == (t - rob_head) % ROB_SZ
OooNoLostWakeup ==
  \A u \in Units : rs[u].busy /\ (u = "vec" => VecIns.op \in VMemOps) =>
    \A k \in 1 .. 3 : LET op == rs[u].src[k] IN
      ~op.ready => /\ Age(op.tag) < rob_count /\ Age(op.tag) < Age(rs[u].rob_tag)
                   /\ ~rob[op.tag].ready

\* Every program that ends does end: the fetch that stops for each branch is
\* always restarted, and no unit waits for ever.
OooTerminates == <>halted
=============================================================================
