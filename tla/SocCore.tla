------------------------------ MODULE SocCore ------------------------------
(***************************************************************************)
(* The scalar out-of-order core of RISCV-SoC: renaming (RAT), reorder      *)
(* buffer (ROB), reservation stations, result broadcast (CDB), branch      *)
(* speculation, in-order commit with precise flush, machine-mode traps     *)
(* and the timer interrupt.                                                *)
(*                                                                         *)
(* riscv_soc_tick is one clock cycle.  Its body runs the pipeline          *)
(* backwards, and each of its blocks is one step here, in the code's       *)
(* order:                                                                  *)
(*                                                                         *)
(*   commit -> exec -> lsu -> sys -> issue -> dispatch -> (next tick)      *)
(*                                                                         *)
(* A commit that redirects the fetch, and any branch or trap commit, ends  *)
(* the tick at once, as the code's early returns do.  The branch predictor *)
(* is any predictor: the prediction is a free choice.  The timer may come  *)
(* due between any two ticks, at most MaxTimer times.  The vector          *)
(* coprocessor is not part of this module: no vector instruction is in the *)
(* programs, so its queue stays empty.                                     *)
(***************************************************************************)
EXTENDS SocIsa, Sequences, FiniteSets

CONSTANTS
  Programs,                    \* instruction memories the core may be given
  ROB_SZ,                      \* entries of the reorder buffer
  ALU_LAT, BR_LAT,             \* latencies in ticks: ALU and branch unit,
  MUL_LAT, DIV_LAT,            \* multiplier and divider,
  FPU_LAT_ADDMUL, FPU_LAT_DIV, FPU_LAT_FMA, FPU_LAT_MISC,  \* FPU
  MaxTimer                     \* bound: how often the timer comes due

\* `remaining` is one bit wide in the ALUs and the branch unit, four in MD and FPU.
ASSUME RobAssumption == ROB_SZ \in Nat /\ ROB_SZ >= 2
ASSUME LatAssumption ==
  /\ ALU_LAT = 1 /\ BR_LAT = 1
  /\ {MUL_LAT, DIV_LAT, FPU_LAT_ADDMUL, FPU_LAT_DIV, FPU_LAT_FMA, FPU_LAT_MISC} \subseteq 1 .. 15
ASSUME ProgAssumption == Programs \subseteq [Word -> Instr]
ASSUME TimerAssumption == MaxTimer \in Nat

VARIABLES
  stage,          \* the block of the tick that runs next
  prog,           \* instruction memory
  fetch_pc, fetch_stalled, fetch_done,
  regfile,        \* integer and floating-point register files
  rat,            \* register alias tables (RAT and FRAT)
  rob, rob_head, rob_tail, rob_count,
  rs,             \* the reservation stations, one per unit
  branch_pending, \* branches in flight
  mem_port_used,  \* the data port has been granted in this tick
  dmem,           \* data memory
  out,            \* what the UART has printed
  csr,            \* machine-mode CSRs and privilege
  mtip,           \* timer interrupt pending
  timer_left,     \* bound: how often the timer may still come due
  ecall_halt, halted

front  == <<fetch_pc, fetch_stalled, fetch_done>>
robs   == <<rob, rob_head, rob_tail, rob_count>>
timer  == <<mtip, timer_left>>
vars   == <<stage, prog, front, regfile, rat, robs, rs, branch_pending,
            mem_port_used, dmem, out, csr, timer, ecall_halt, halted>>

Tags       == 0 .. ROB_SZ - 1
AluUnits   == {"alu0", "alu1"}
TimedUnits == AluUnits \cup {"md", "fpu", "br"}    \* fixed latency
Units      == TimedUnits \cup {"lsu", "sys"}       \* act at the head of the ROB
Stages     == {"commit", "exec", "lsu", "sys", "issue", "dispatch"}

Operand  == [ready : BOOLEAN, val : Word, tag : Tags]
RatEntry == [has_tag : BOOLEAN, tag : Tags]
RobEntry == [valid : BOOLEAN, ready : BOOLEAN, is_store : BOOLEAN, takes_trap : BOOLEAN,
             is_mret : BOOLEAN, is_branch : BOOLEAN, pred_taken : BOOLEAN,
             br_mispred : BOOLEAN, br_target : Word, pc : Word, cause : Word,
             dest : Regs, value : Word, addr : Word, sdata : Word]
\* The decoded fields a station keeps (f3, alt, immediate, br_pc) are prog[pc].
Station  == [busy : BOOLEAN, executing : BOOLEAN, remaining : Nat, rob_tag : Tags,
             pc : Word, src : [1 .. 3 -> Operand]]

Ready(v)   == [ready |-> TRUE, val |-> v, tag |-> 0]
Waiting(t) == [ready |-> FALSE, val |-> 0, tag |-> t]

EmptyEntry == [valid |-> FALSE, ready |-> FALSE, is_store |-> FALSE, takes_trap |-> FALSE,
               is_mret |-> FALSE, is_branch |-> FALSE, pred_taken |-> FALSE,
               br_mispred |-> FALSE, br_target |-> 0, pc |-> 0, cause |-> 0,
               dest |-> X0, value |-> 0, addr |-> 0, sdata |-> 0]
IdleStation == [busy |-> FALSE, executing |-> FALSE, remaining |-> 0, rob_tag |-> 0,
                pc |-> 0, src |-> [k \in 1 .. 3 |-> Ready(0)]]

\* Fault: tags that do not wrap.
IncNoWrap(t) == t + 1

\* The ROB is a ring: tags wrap, and the age of a tag is its distance from the head.
Inc(t)      == IF t = ROB_SZ - 1 THEN 0 ELSE t + 1
Age(t)      == IF t >= rob_head THEN t - rob_head ELSE t + ROB_SZ - rob_head
InFlight(t) == Age(t) < rob_count
HeadEntry        == rob[rob_head]
InsOf(u)    == prog[rs[u].pc]

\* What the reset input leaves behind.
Reset ==
  /\ stage = "commit"
  /\ fetch_pc = 0 /\ fetch_stalled = FALSE /\ fetch_done = FALSE
  /\ regfile = [r \in Regs |-> 0]
  /\ rat = [r \in Regs |-> [has_tag |-> FALSE, tag |-> 0]]
  /\ rob = [t \in Tags |-> EmptyEntry]
  /\ rob_head = 0 /\ rob_tail = 0 /\ rob_count = 0
  /\ rs = [u \in Units |-> IdleStation]
  /\ branch_pending = 0
  /\ mem_port_used = FALSE
  /\ dmem = [a \in 0 .. MemWords - 1 |-> 0]
  /\ out = <<>>
  /\ csr = CsrReset
  /\ mtip = FALSE /\ timer_left = MaxTimer
  /\ ecall_halt = FALSE /\ halted = FALSE

Init == Reset /\ prog \in Programs

-----------------------------------------------------------------------------
(* The result broadcast and the renamed operand read.                      *)

\* An operand hears the results of a tick: a function from the tags that
\* completed to their values.
Hear(op, results) ==
  IF ~op.ready /\ op.tag \in DOMAIN results
  THEN [op EXCEPT !.ready = TRUE, !.val = results[op.tag]]
  ELSE op

\* Faults: operands or units left out of the list of listeners.
HeardBy(results, Listens(_, _)) ==
  [u \in Units |->
    IF rs[u].busy
    THEN [rs[u] EXCEPT !.src = [k \in 1 .. 3 |-> IF Listens(u, k) THEN Hear(rs[u].src[k], results)
                                                 ELSE rs[u].src[k]]]
    ELSE rs[u]]
cdb_broadcast_first_operand(results) == HeardBy(results, LAMBDA u, k : k = 1)
cdb_broadcast_forgets_br(results)    == HeardBy(results, LAMBDA u, k : u # "br")
cdb_broadcast_forgets_s3(results)    == HeardBy(results, LAMBDA u, k : k # 3)

\* Every busy station hears the results, on all its operands.
cdb_broadcast(results) ==
  [u \in Units |->
    IF rs[u].busy
    THEN [rs[u] EXCEPT !.src = [k \in 1 .. 3 |-> Hear(rs[u].src[k], results)]]
    ELSE rs[u]]

\* Fault: no bypass from the ROB, the register file is read too early.
read_operand_no_bypass(r) ==
  IF r = X0 THEN Ready(0)
  ELSE IF ~rat[r].has_tag \/ rob[rat[r].tag].ready THEN Ready(regfile[r])
  ELSE Waiting(rat[r].tag)

\* x0 reads zero; an unrenamed register reads its file; a renamed one is
\* bypassed from its ROB entry, or waits for that tag.
read_operand(r) ==
  IF r = X0 THEN Ready(0)
  ELSE IF ~rat[r].has_tag THEN Ready(regfile[r])
  ELSE IF rob[rat[r].tag].ready THEN Ready(rob[rat[r].tag].value)
  ELSE Waiting(rat[r].tag)

OperandsReady(u) == \A k \in 1 .. 3 : rs[u].src[k].ready

\* Faults: a flush that leaves the tail, a station, the fetch stall or the
\* branch count behind.
FlushLeaving(tail, kept, stalled, pending) ==
  /\ rob' = [t \in Tags |-> [rob[t] EXCEPT !.valid = FALSE, !.ready = FALSE]]
  /\ rob_head' = 0 /\ rob_tail' = tail /\ rob_count' = 0
  /\ rat' = [r \in Regs |-> [rat[r] EXCEPT !.has_tag = FALSE]]
  /\ rs' = [u \in Units |-> IF u \in kept THEN rs[u]
                            ELSE [rs[u] EXCEPT !.busy = FALSE, !.executing = FALSE]]
  /\ fetch_stalled' = stalled
  /\ branch_pending' = pending
PipelineFlush_keeps_tail     == FlushLeaving(rob_tail, {}, FALSE, 0)
PipelineFlush_keeps_md       == FlushLeaving(0, {"md"}, FALSE, 0)
PipelineFlush_keeps_stall    == FlushLeaving(0, {}, fetch_stalled, 0)
PipelineFlush_keeps_branches == FlushLeaving(0, {}, FALSE, branch_pending)

\* Everything in flight is dropped; nothing architectural is touched.
PipelineFlush ==
  /\ rob' = [t \in Tags |-> [rob[t] EXCEPT !.valid = FALSE, !.ready = FALSE]]
  /\ rob_head' = 0 /\ rob_tail' = 0 /\ rob_count' = 0
  /\ rat' = [r \in Regs |-> [rat[r] EXCEPT !.has_tag = FALSE]]
  /\ rs' = [u \in Units |-> [rs[u] EXCEPT !.busy = FALSE, !.executing = FALSE]]
  /\ fetch_stalled' = FALSE
  /\ branch_pending' = 0

\* The flush, and the fetch resumes at p.
Redirect(p) ==
  /\ PipelineFlush
  /\ fetch_pc' = p
  /\ fetch_done' = FALSE

-----------------------------------------------------------------------------
(* Between two ticks the timer may come due (mtime >= mtimecmp).  With the *)
(* mtimecmp of reset, all ones, it does not: the one tick in 2^32 at which *)
(* a wrapping mtime meets it is left out.                                  *)

TimerFires ==
  /\ stage = "commit"
  /\ csr.mtimecmp # WORD - 1
  /\ ~mtip /\ timer_left > 0
  /\ mtip' = TRUE /\ timer_left' = timer_left - 1
  /\ UNCHANGED <<stage, prog, front, regfile, rat, robs, rs, branch_pending,
                 mem_port_used, dmem, out, csr, ecall_halt, halted>>

-----------------------------------------------------------------------------
(* Commit: the interrupt, then the entry at the head of the ROB.           *)

\* The oldest entry has completed.
HeadReady == rob_count > 0 /\ HeadEntry.valid /\ HeadEntry.ready

\* Fault: the interrupt waits for an empty pipeline.
InterruptTaken_drained == mtip /\ InterruptEnabled(csr) /\ rob_count = 0

\* The timer interrupt is taken before anything commits, if the head has completed.
InterruptTaken == mtip /\ InterruptEnabled(csr) /\ HeadReady

\* Fault: mepc is where the fetch is, not the head of the ROB.
TakeInterrupt_at_fetch ==
  /\ stage = "commit" /\ InterruptTaken
  /\ csr' = EnterTrap(csr, fetch_pc, CAUSE_TIMER)
  /\ Redirect(csr.mtvec)
  /\ halted' = FALSE
  /\ UNCHANGED <<stage, prog, regfile, mem_port_used, dmem, out, timer, ecall_halt>>

TakeInterrupt ==
  /\ stage = "commit" /\ InterruptTaken
  /\ csr' = EnterTrap(csr, HeadEntry.pc, CAUSE_TIMER)
  /\ Redirect(csr.mtvec)
  /\ halted' = FALSE
  /\ UNCHANGED <<stage, prog, regfile, mem_port_used, dmem, out, timer, ecall_halt>>

\* The head leaves the ROB.
Retire ==
  /\ rob' = [rob EXCEPT ![rob_head].valid = FALSE]
  /\ rob_head' = Inc(rob_head)
  /\ rob_count' = rob_count - 1
  /\ UNCHANGED rob_tail

Commit == stage = "commit" /\ ~InterruptTaken /\ HeadReady

\* A correctly predicted branch retires and ends the tick.
CommitBranch ==
  /\ Commit /\ HeadEntry.is_branch /\ ~HeadEntry.br_mispred
  /\ branch_pending' = IF branch_pending > 0 THEN branch_pending - 1 ELSE branch_pending
  /\ Retire
  /\ halted' = ecall_halt
  /\ mem_port_used' = FALSE
  /\ UNCHANGED <<stage, prog, front, regfile, rat, rs, dmem, out, csr, timer, ecall_halt>>

\* A mispredicted one sends the fetch down the right path and drops the rest.
CommitMispredict ==
  /\ Commit /\ HeadEntry.is_branch /\ HeadEntry.br_mispred
  /\ Redirect(HeadEntry.br_target)
  /\ halted' = ecall_halt
  /\ mem_port_used' = FALSE
  /\ UNCHANGED <<stage, prog, regfile, dmem, out, csr, timer, ecall_halt>>

CommitMret ==
  /\ Commit /\ ~HeadEntry.is_branch /\ HeadEntry.is_mret
  /\ csr' = LeaveTrap(csr)
  /\ Redirect(csr.mepc)
  /\ halted' = ecall_halt
  /\ mem_port_used' = FALSE
  /\ UNCHANGED <<stage, prog, regfile, dmem, out, timer, ecall_halt>>

\* Fault: an imprecise exception.
CommitTrap_at_fetch ==
  /\ Commit /\ ~HeadEntry.is_branch /\ ~HeadEntry.is_mret /\ HeadEntry.takes_trap
  /\ csr.mtvec # 0
  /\ csr' = EnterTrap(csr, fetch_pc, TrapCause(csr, HeadEntry.cause))
  /\ Redirect(csr.mtvec)
  /\ halted' = ecall_halt
  /\ mem_port_used' = FALSE
  /\ UNCHANGED <<stage, prog, regfile, dmem, out, timer, ecall_halt>>

\* An exception saves its own address and enters the handler.
CommitTrap ==
  /\ Commit /\ ~HeadEntry.is_branch /\ ~HeadEntry.is_mret /\ HeadEntry.takes_trap
  /\ csr.mtvec # 0
  /\ csr' = EnterTrap(csr, HeadEntry.pc, TrapCause(csr, HeadEntry.cause))
  /\ Redirect(csr.mtvec)
  /\ halted' = ecall_halt
  /\ mem_port_used' = FALSE
  /\ UNCHANGED <<stage, prog, regfile, dmem, out, timer, ecall_halt>>

\* Without a handler the exception ends the simulation.
CommitHalt ==
  /\ Commit /\ ~HeadEntry.is_branch /\ ~HeadEntry.is_mret /\ HeadEntry.takes_trap
  /\ csr.mtvec = 0
  /\ ecall_halt' = TRUE /\ halted' = TRUE
  /\ Retire
  /\ mem_port_used' = FALSE
  /\ UNCHANGED <<stage, prog, front, regfile, rat, rs, branch_pending, dmem, out, csr, timer>>

\* Fault: the mapping is dropped even when a younger writer owns it.
UnmapHead_always ==
  rat' = [rat EXCEPT ![HeadEntry.dest].has_tag = FALSE]

\* The register's mapping is dropped only if it is still this entry's.
UnmapHead ==
  rat' = IF HeadEntry.dest # X0 /\ rat[HeadEntry.dest].has_tag /\ rat[HeadEntry.dest].tag = rob_head
         THEN [rat EXCEPT ![HeadEntry.dest].has_tag = FALSE] ELSE rat

CommitPlain == Commit /\ ~HeadEntry.is_branch /\ ~HeadEntry.is_mret /\ ~HeadEntry.takes_trap

\* A store writes memory, or the UART, when it retires; only the former takes the port.
CommitStore ==
  /\ CommitPlain /\ HeadEntry.is_store
  /\ IF HeadEntry.addr = UART_TX_ADDR
     THEN /\ out' = Append(out, HeadEntry.sdata)
          /\ mem_port_used' = FALSE
          /\ UNCHANGED dmem
     ELSE /\ dmem' = [dmem EXCEPT ![MemIndex(HeadEntry.addr)] = HeadEntry.sdata]
          /\ mem_port_used' = TRUE
          /\ UNCHANGED out
  /\ UnmapHead
  /\ Retire
  /\ stage' = "exec"
  /\ UNCHANGED <<prog, front, regfile, rs, branch_pending, csr, timer, ecall_halt, halted>>

CommitRegister ==
  /\ CommitPlain /\ ~HeadEntry.is_store
  /\ regfile' = IF HeadEntry.dest = X0 THEN regfile
                ELSE [regfile EXCEPT ![HeadEntry.dest] = HeadEntry.value]
  /\ UnmapHead
  /\ Retire
  /\ stage' = "exec"
  /\ mem_port_used' = FALSE
  /\ UNCHANGED <<prog, front, rs, branch_pending, dmem, out, csr, timer, ecall_halt, halted>>

NoCommit ==
  /\ stage = "commit" /\ ~HeadReady
  /\ mem_port_used' = FALSE
  /\ stage' = "exec"
  /\ UNCHANGED <<prog, front, regfile, rat, robs, rs, branch_pending, dmem, out, csr,
                 timer, ecall_halt, halted>>

-----------------------------------------------------------------------------
(* Execution: the fixed-latency units count down; those that reach zero    *)
(* write their ROB entry, wake the stations that wait for them and free    *)
(* their own.  JALR also restarts the fetch; a branch only notes in the    *)
(* ROB whether it was mispredicted.                                        *)

Done == {u \in TimedUnits : rs[u].busy /\ rs[u].executing /\ rs[u].remaining <= 1}

Val(u, k) == rs[u].src[k].val

Result(u) ==
  LET ins == InsOf(u) IN
  CASE u \in AluUnits -> alu_compute(ins, Val(u, 1), Val(u, 2))
    [] u = "md"       -> md_compute(ins, Val(u, 1), Val(u, 2))
    [] u = "fpu"      -> fpu_compute(ins, Val(u, 1), Val(u, 2), Val(u, 3))
    [] u = "br"       -> IF ins.op = "jalr" THEN NextPc(rs[u].pc) ELSE 0

Results ==
  [t \in {rs[u].rob_tag : u \in Done} |-> Result(CHOOSE u \in Done : rs[u].rob_tag = t)]

BranchTaken  == branch_taken(InsOf("br"), Val("br", 1), Val("br", 2))
JalrDone     == "br" \in Done /\ InsOf("br").op = "jalr"
BranchDone   == "br" \in Done /\ InsOf("br").op # "jalr"

\* Fault: a branch that falls through is redirected to its target.
Completed_always_target(t) ==
  LET e == [rob[t] EXCEPT !.ready = TRUE, !.value = Results[t]] IN
  IF BranchDone /\ t = rs["br"].rob_tag
  THEN [e EXCEPT !.br_target  = InsOf("br").imm,
                 !.br_mispred = (BranchTaken # rob[t].pred_taken)]
  ELSE e

\* The entry of a tag that completes in this tick.
Completed(t) ==
  LET e == [rob[t] EXCEPT !.ready = TRUE, !.value = Results[t]] IN
  IF BranchDone /\ t = rs["br"].rob_tag
  THEN [e EXCEPT !.br_target  = IF BranchTaken THEN InsOf("br").imm ELSE NextPc(rs["br"].pc),
                 !.br_mispred = (BranchTaken # rob[t].pred_taken)]
  ELSE e

Execute ==
  /\ stage = "exec"
  /\ rob' = [t \in Tags |-> IF t \in DOMAIN Results THEN Completed(t) ELSE rob[t]]
  /\ rs' = [u \in Units |->
              LET s == cdb_broadcast(Results)[u] IN
              IF u \in Done
              THEN [s EXCEPT !.busy = FALSE, !.executing = FALSE, !.remaining = 0]
              ELSE IF u \in TimedUnits /\ s.busy /\ s.executing
              THEN [s EXCEPT !.remaining = s.remaining - 1]
              ELSE s]
  /\ IF JalrDone
     THEN fetch_pc' = Plus(Val("br", 1), InsOf("br").imm) /\ fetch_stalled' = FALSE
     ELSE UNCHANGED <<fetch_pc, fetch_stalled>>
  /\ stage' = "lsu"
  /\ UNCHANGED <<prog, fetch_done, regfile, rat, rob_head, rob_tail, rob_count, branch_pending,
                 mem_port_used, dmem, out, csr, timer, ecall_halt, halted>>

-----------------------------------------------------------------------------
(* The LSU: a store only computes its address and captures its data; a     *)
(* load reads memory when it is the head of the ROB and wins the port.     *)

LsuAddr      == Plus(Val("lsu", 1), InsOf("lsu").imm)
LsuReady     == rs["lsu"].busy /\ OperandsReady("lsu")
LsuIsLoad    == InsOf("lsu").op \in LoadOps
AtHead(u)    == rs[u].rob_tag = rob_head /\ HeadEntry.valid

LsuStore ==
  /\ stage = "lsu" /\ LsuReady /\ ~LsuIsLoad
  /\ rob' = [rob EXCEPT ![rs["lsu"].rob_tag] =
               [@ EXCEPT !.addr = LsuAddr, !.sdata = Val("lsu", 2), !.ready = TRUE]]
  /\ rs' = [rs EXCEPT !["lsu"].busy = FALSE]
  /\ stage' = "sys"
  /\ UNCHANGED <<prog, front, regfile, rat, rob_head, rob_tail, rob_count, branch_pending,
                 mem_port_used, dmem, out, csr, timer, ecall_halt, halted>>

LoadMayExecute == LsuReady /\ LsuIsLoad /\ AtHead("lsu")

LsuLoad ==
  /\ stage = "lsu" /\ LoadMayExecute /\ ~mem_port_used
  /\ mem_port_used' = TRUE
  /\ LET tag == rs["lsu"].rob_tag
         res == dmem[MemIndex(LsuAddr)]
     IN /\ rob' = [rob EXCEPT ![tag] = [@ EXCEPT !.value = res, !.ready = TRUE]]
        /\ rs' = [cdb_broadcast([t \in {tag} |-> res]) EXCEPT !["lsu"].busy = FALSE]
  /\ stage' = "sys"
  /\ UNCHANGED <<prog, front, regfile, rat, rob_head, rob_tail, rob_count, branch_pending,
                 dmem, out, csr, timer, ecall_halt, halted>>

LsuIdle ==
  /\ stage = "lsu"
  /\ ~(LsuReady /\ ~LsuIsLoad) /\ ~(LoadMayExecute /\ ~mem_port_used)
  /\ stage' = "sys"
  /\ UNCHANGED <<prog, front, regfile, rat, robs, rs, branch_pending, mem_port_used, dmem,
                 out, csr, timer, ecall_halt, halted>>

-----------------------------------------------------------------------------
(* CSR instructions read and write the CSR file at the head of the ROB;    *)
(* the old value goes to rd through the ROB.                               *)

SysMayExecute == rs["sys"].busy /\ rs["sys"].src[1].ready /\ AtHead("sys")

SysExecute ==
  /\ stage = "sys" /\ SysMayExecute
  /\ LET tag == rs["sys"].rob_tag
         ins == InsOf("sys")
         old == read_csr(csr, ins.csr)
     IN /\ csr' = write_csr(csr, ins.csr, CsrNewValue(ins, old, Val("sys", 1)))
        /\ mtip' = (mtip /\ ins.csr # "mtimecmp")
        /\ rob' = [rob EXCEPT ![tag] = [@ EXCEPT !.value = old, !.ready = TRUE]]
        /\ rs' = [cdb_broadcast([t \in {tag} |-> old]) EXCEPT !["sys"].busy = FALSE]
  /\ stage' = "issue"
  /\ UNCHANGED <<prog, front, regfile, rat, rob_head, rob_tail, rob_count, branch_pending,
                 mem_port_used, dmem, out, timer_left, ecall_halt, halted>>

SysIdle ==
  /\ stage = "sys" /\ ~SysMayExecute
  /\ stage' = "issue"
  /\ UNCHANGED <<prog, front, regfile, rat, robs, rs, branch_pending, mem_port_used, dmem,
                 out, csr, timer, ecall_halt, halted>>

-----------------------------------------------------------------------------
(* Issue: a station whose operands are all ready starts its countdown.     *)

Latency(u) ==
  LET op == InsOf(u).op IN
  CASE u \in AluUnits -> ALU_LAT
    [] u = "br"       -> BR_LAT
    [] u = "md"       -> IF op = "div" THEN DIV_LAT ELSE MUL_LAT
    [] u = "fpu"      -> CASE op = "fmadd" -> FPU_LAT_FMA
                           [] op = "fdiv"  -> FPU_LAT_DIV
                           [] op = "fadd"  -> FPU_LAT_ADDMUL
                           [] OTHER        -> FPU_LAT_MISC

Issue ==
  /\ stage = "issue"
  /\ rs' = [u \in Units |->
              IF u \in TimedUnits /\ rs[u].busy /\ ~rs[u].executing /\ OperandsReady(u)
              THEN [rs[u] EXCEPT !.executing = TRUE, !.remaining = Latency(u)]
              ELSE rs[u]]
  /\ stage' = "dispatch"
  /\ UNCHANGED <<prog, front, regfile, rat, robs, branch_pending, mem_port_used, dmem, out,
                 csr, timer, ecall_halt, halted>>

-----------------------------------------------------------------------------
(* Fetch and dispatch: one instruction per tick, in order.                 *)

Fetched  == prog[fetch_pc]
MayFetch == ~fetch_done /\ ~fetch_stalled /\ rob_count < ROB_SZ

\* The unit an instruction is sent to; the ALU with the lower index first.
UnitFor(op) ==
  CASE op \in AluOps                 -> IF rs["alu0"].busy THEN "alu1" ELSE "alu0"
    [] op \in MdOps                  -> "md"
    [] op \in FpuOps                 -> "fpu"
    [] op \in LoadOps \cup StoreOps  -> "lsu"
    [] op \in BranchOps \cup {"jalr"} -> "br"
    [] op \in CsrOps                 -> "sys"

\* The entry at the tail as the fetch leaves it, before the decode fills it in.
FreshEntry ==
  [rob[rob_tail] EXCEPT !.takes_trap = FALSE, !.is_mret = FALSE, !.is_branch = FALSE,
                        !.br_mispred = FALSE, !.pc = fetch_pc]

\* The k-th source operand of the fetched instruction.
Source(ins, k) ==
  CASE k = 1 -> IF ins.op = "csrrwi" THEN Ready(ins.imm) ELSE read_operand(ins.rs1)
    [] k = 2 -> IF ins.op = "addi" THEN Ready(ins.imm)
                ELSE IF ins.op \in {"add", "sub", "fadd", "fdiv", "fmadd"} \cup MdOps
                                   \cup StoreOps \cup BranchOps
                THEN read_operand(ins.rs2) ELSE Ready(0)
    [] k = 3 -> IF ins.op = "fmadd" THEN read_operand(ins.rs3) ELSE Ready(0)

\* The station that takes the fetched instruction.
FilledStation(s, ins) ==
  [s EXCEPT !.busy = TRUE, !.executing = FALSE, !.rob_tag = rob_tail, !.pc = fetch_pc,
            !.src = [k \in 1 .. 3 |-> Source(ins, k)]]

\* The entry e joins the ROB, its destination is renamed and the fetch goes on at p.
Enter(e, p) ==
  /\ rob' = [rob EXCEPT ![rob_tail] = e]
  /\ rat' = IF e.dest = X0 THEN rat
            ELSE [rat EXCEPT ![e.dest] = [has_tag |-> TRUE, tag |-> rob_tail]]
  /\ rob_tail' = Inc(rob_tail)
  /\ rob_count' = rob_count + 1
  /\ fetch_pc' = p
  /\ UNCHANGED <<rob_head, fetch_done>>

\* The end of a tick that was not cut short.
EndOfTick ==
  /\ stage' = "commit"
  /\ halted' = (ecall_halt \/ (fetch_done' /\ rob_count' = 0))
  /\ UNCHANGED <<prog, regfile, mem_port_used, dmem, out, csr, timer, ecall_halt>>

Dispatch(ops) == stage = "dispatch" /\ MayFetch /\ Fetched.op \in ops

\* LUI, JAL, FENCE, exceptions and MRET are complete as soon as they are decoded.
DispatchQuick ==
  /\ Dispatch(QuickOps)
  /\ LET ins == Fetched
         e == [FreshEntry EXCEPT
                 !.valid = TRUE, !.ready = TRUE, !.is_store = FALSE, !.dest = Dest(ins),
                 !.takes_trap = (ins.op \in TrapOps), !.is_mret = (ins.op = "mret"),
                 !.cause = IF ins.op \in TrapOps THEN CauseOf(ins) ELSE @,
                 !.value = CASE ins.op = "lui" -> ins.imm
                             [] ins.op = "jal" -> NextPc(fetch_pc)
                             [] OTHER          -> 0]
     IN Enter(e, IF ins.op = "jal" THEN ins.imm ELSE NextPc(fetch_pc))
  /\ EndOfTick
  /\ UNCHANGED <<fetch_stalled, rs, branch_pending>>

\* An instruction that needs a unit waits in its station.
PendingEntry(ins) ==
  [FreshEntry EXCEPT !.valid = TRUE, !.ready = FALSE, !.is_store = (ins.op \in StoreOps),
                     !.dest = Dest(ins)]

DispatchToUnit ==
  /\ Dispatch(AluOps \cup MdOps \cup FpuOps \cup LoadOps \cup StoreOps \cup CsrOps)
  /\ LET u == UnitFor(Fetched.op) IN
     /\ ~rs[u].busy
     /\ rs' = [rs EXCEPT ![u] = FilledStation(@, Fetched)]
  /\ Enter(PendingEntry(Fetched), NextPc(fetch_pc))
  /\ EndOfTick
  /\ UNCHANGED <<fetch_stalled, branch_pending>>

\* JALR stops the fetch until the branch unit knows its target.
DispatchJalr ==
  /\ Dispatch({"jalr"}) /\ ~rs["br"].busy
  /\ rs' = [rs EXCEPT !["br"] = FilledStation(@, Fetched)]
  /\ Enter(PendingEntry(Fetched), NextPc(fetch_pc))
  /\ fetch_stalled' = TRUE
  /\ EndOfTick
  /\ UNCHANGED branch_pending

\* A conditional branch follows the prediction, whatever it is.
DispatchBranch ==
  /\ Dispatch(BranchOps) /\ ~rs["br"].busy
  /\ rs' = [rs EXCEPT !["br"] = FilledStation(@, Fetched)]
  /\ \E pred \in BOOLEAN :
       Enter([PendingEntry(Fetched) EXCEPT !.is_branch = TRUE, !.pred_taken = pred],
             IF pred THEN Fetched.imm ELSE NextPc(fetch_pc))
  /\ branch_pending' = branch_pending + 1
  /\ EndOfTick
  /\ UNCHANGED fetch_stalled

\* Fault: the fetch goes on past an instruction that found no unit.
DispatchStall_skips ==
  /\ Dispatch(Ops \ (QuickOps \cup {"end"})) /\ rs[UnitFor(Fetched.op)].busy
  /\ rob' = [rob EXCEPT ![rob_tail] = FreshEntry]
  /\ fetch_pc' = NextPc(fetch_pc)
  /\ UNCHANGED <<fetch_stalled, fetch_done, rat, rob_head, rob_tail, rob_count, rs, branch_pending>>
  /\ EndOfTick

\* The unit is taken: the instruction is fetched again in the next tick.
DispatchStall ==
  /\ Dispatch(Ops \ (QuickOps \cup {"end"})) /\ rs[UnitFor(Fetched.op)].busy
  /\ rob' = [rob EXCEPT ![rob_tail] = FreshEntry]
  /\ UNCHANGED <<front, rat, rob_head, rob_tail, rob_count, rs, branch_pending>>
  /\ EndOfTick

FetchEnd ==
  /\ Dispatch({"end"})
  /\ fetch_done' = TRUE
  /\ UNCHANGED <<fetch_pc, fetch_stalled, rat, robs, rs, branch_pending>>
  /\ EndOfTick

FetchIdle ==
  /\ stage = "dispatch" /\ ~MayFetch
  /\ UNCHANGED <<front, rat, robs, rs, branch_pending>>
  /\ EndOfTick

-----------------------------------------------------------------------------
CommitStage ==
  \/ TakeInterrupt \/ CommitBranch \/ CommitMispredict \/ CommitMret \/ CommitTrap
  \/ CommitHalt \/ CommitStore \/ CommitRegister \/ NoCommit
DispatchStage ==
  \/ DispatchQuick \/ DispatchToUnit \/ DispatchJalr \/ DispatchBranch \/ DispatchStall
  \/ FetchEnd \/ FetchIdle

\* One block of the tick.  Once halted is up nobody calls the tick again.
Tick ==
  /\ ~halted
  /\ \/ CommitStage
     \/ Execute
     \/ LsuStore \/ LsuLoad \/ LsuIdle
     \/ SysExecute \/ SysIdle
     \/ Issue
     \/ DispatchStage

Stopped == halted /\ UNCHANGED vars

Next == Tick \/ (~halted /\ TimerFires) \/ Stopped

Spec == Init /\ [][Next]_vars /\ WF_vars(Tick)

-----------------------------------------------------------------------------
(* Type invariant and safety.                                              *)

\* The stations that compute hold instructions of the scalar core.
UnitsScalar == \A u \in Units \ {"sys"} : rs[u].busy => InsOf(u) \in Instr

\* Every register of the core is of its type, whatever runs beside it.
CoreTypeOK ==
  /\ stage \in Stages
  /\ fetch_pc \in Word /\ fetch_stalled \in BOOLEAN /\ fetch_done \in BOOLEAN
  /\ regfile \in [Regs -> Word]
  /\ rat \in [Regs -> RatEntry]
  /\ rob \in [Tags -> RobEntry]
  /\ rob_head \in Tags /\ rob_tail \in Tags /\ rob_count \in 0 .. ROB_SZ
  /\ rs \in [Units -> Station]
  /\ branch_pending \in Nat
  /\ mem_port_used \in BOOLEAN
  /\ dmem \in [0 .. MemWords - 1 -> Word]
  /\ out \in Seq(Word)
  /\ csr \in CsrFile
  /\ mtip \in BOOLEAN /\ timer_left \in 0 .. MaxTimer
  /\ ecall_halt \in BOOLEAN /\ halted \in BOOLEAN
  /\ UnitsScalar

TypeOK == CoreTypeOK /\ prog \in [Word -> Instr]

\* The ROB is one contiguous window of the ring, from the head to the tail,
\* and exactly the entries in it are valid: none is lost at a wrap, none
\* survives a flush, and head, tail and count never disagree.
RobWindow ==
  /\ rob_tail = IF rob_head + rob_count < ROB_SZ
                THEN rob_head + rob_count ELSE rob_head + rob_count - ROB_SZ
  /\ \A t \in Tags : rob[t].valid <=> InFlight(t)

\* A busy station owns an entry in flight that has not completed, and no
\* other station does.
StationsOwn ==
  \A u \in Units : rs[u].busy =>
    /\ InFlight(rs[u].rob_tag) /\ ~rob[rs[u].rob_tag].ready
    /\ rob[rs[u].rob_tag].pc = rs[u].pc
    /\ \A w \in Units \ {u} : rs[w].busy => rs[w].rob_tag # rs[u].rob_tag

EntriesOwned ==
  \A t \in Tags : InFlight(t) /\ ~rob[t].ready => \E u \in Units : rs[u].busy /\ rs[u].rob_tag = t

\* Every entry that has not completed is owned by exactly one busy station
\* (or it could never retire), and a busy station owns an entry in flight
\* that has not completed (or it would write someone else's result).
PendingOwnership == EntriesOwned /\ StationsOwn

\* A waiting operand will be woken: the tag it waits for is in flight, has
\* not broadcast yet and is older than the instruction that waits.  With
\* tags reused as the ring wraps, a broadcast that is missed, or heard for
\* the wrong instruction, would break this.
NoLostWakeup ==
  \A u \in Units : rs[u].busy =>
    \A k \in 1 .. 3 : ~rs[u].src[k].ready =>
      LET t == rs[u].src[k].tag IN
      /\ InFlight(t) /\ ~rob[t].ready
      /\ Age(t) < Age(rs[u].rob_tag)

\* A register's mapping names the youngest instruction in flight that writes
\* it, and a register without a mapping has no writer in flight: the operand
\* read at dispatch is that of program order.
RatNamesYoungestWriter ==
  \A r \in Regs :
    /\ rat[r].has_tag => /\ r # X0
                         /\ InFlight(rat[r].tag)
                         /\ rob[rat[r].tag].dest = r
    /\ r # X0 => \A t \in Tags : InFlight(t) /\ rob[t].dest = r =>
                   rat[r].has_tag /\ Age(t) <= Age(rat[r].tag)

\* branch_pending, which gates vset* and the vector queue, counts exactly the
\* conditional branches in flight, through retirement, misprediction and flush.
BranchAccounting ==
  branch_pending = Cardinality({t \in Tags : InFlight(t) /\ rob[t].is_branch})

\* The fetch waits for a JALR exactly while one is unresolved in the branch
\* unit: a stall that outlived it would hang the core, one that ended early
\* would fetch down an arbitrary path.
StalledOnlyByJalr ==
  fetch_stalled <=> (rs["br"].busy /\ InsOf("br").op = "jalr")

\* Where the fetch should go on after an entry, by its prediction.
Successor(t) ==
  LET ins == prog[rob[t].pc] IN
  IF ins.op = "jal" \/ (rob[t].is_branch /\ rob[t].pred_taken)
  THEN ins.imm ELSE NextPc(rob[t].pc)

\* Where the fetch went on after an entry in flight.
Follower(t) == IF Age(t) + 1 = rob_count THEN fetch_pc ELSE rob[Inc(t)].pc

\* The entries in flight are consecutive on the predicted path: each one is
\* the predicted successor of the one before it and the fetch is the
\* successor of the last, unless the one before is a JALR, whose target is
\* not kept.
OnPredictedPath ==
  \A t \in Tags : InFlight(t) /\ prog[rob[t].pc].op # "jalr" => Successor(t) = Follower(t)

\* w is the last instruction before t, in program order, that writes r; or
\* there is none in flight.
LastWriter(w, r, t) ==
  /\ InFlight(w) /\ rob[w].dest = r /\ Age(w) < Age(t)
  /\ \A x \in Tags : InFlight(x) /\ rob[x].dest = r /\ Age(x) < Age(t) => Age(x) <= Age(w)
NoWriter(r, t) == \A x \in Tags : InFlight(x) /\ rob[x].dest = r => ~(Age(x) < Age(t))

\* In program order the instruction of t finds v in r.
Sees(r, t, v) ==
  IF r = X0 THEN v = 0
  ELSE \/ NoWriter(r, t) /\ v = regfile[r]
       \/ \E w \in Tags : LastWriter(w, r, t) /\ rob[w].ready /\ v = rob[w].value

\* The k-th operand of instruction i is a register, this one, or else this word.
ReadsReg(i, k) ==
  CASE k = 1 -> i.op # "csrrwi"
    [] k = 2 -> i.op \in {"add", "sub", "fadd", "fdiv", "fmadd"} \cup MdOps \cup StoreOps \cup BranchOps
    [] k = 3 -> i.op = "fmadd"
SrcReg(i, k) == IF k = 1 THEN i.rs1 ELSE IF k = 2 THEN i.rs2 ELSE i.rs3
SrcImm(i, k) == IF k = 1 \/ (i.op = "addi" /\ k = 2) THEN i.imm ELSE 0

Reads(i, k, t, v) == IF ReadsReg(i, k) THEN Sees(SrcReg(i, k), t, v) ELSE v = SrcImm(i, k)

OperandRight(u, k) ==
  LET src == rs[u].src[k]
      t   == rs[u].rob_tag
      i   == InsOf(u)
  IN IF src.ready THEN Reads(i, k, t, src.val)
     ELSE ReadsReg(i, k) /\ SrcReg(i, k) # X0 /\ LastWriter(src.tag, SrcReg(i, k), t)

\* Every operand in a station is that of program order: one that is ready
\* holds the value the instruction would find in its register if it ran
\* alone, wherever it came from (register file, ROB, CDB), and one that
\* waits, waits for the last writer before it.
OperandsRight == \A u \in Units : rs[u].busy => \A k \in 1 .. 3 : OperandRight(u, k)

\* What the entry of t holds when its instruction has read a, b and c.  Only
\* at the head has a load read memory.
Outcome(t, a, b, c) ==
  LET i == prog[rob[t].pc]
      e == rob[t]
  IN /\ i.op \in AluOps    => e.value = alu_compute(i, a, b)
     /\ i.op \in MdOps     => e.value = md_compute(i, a, b)
     /\ i.op \in FpuOps    => e.value = fpu_compute(i, a, b, c)
     /\ i.op \in LoadOps   => t = rob_head /\ e.value = dmem[MemIndex(Plus(a, i.imm))]
     /\ i.op \in StoreOps  => e.addr = Plus(a, i.imm) /\ e.sdata = b
     /\ i.op \in BranchOps => /\ e.br_target = IF branch_taken(i, a, b) THEN i.imm ELSE NextPc(e.pc)
                              /\ e.br_mispred <=> branch_taken(i, a, b) # e.pred_taken
     /\ i.op = "jalr"      => e.value = NextPc(e.pc) /\ Follower(t) = Plus(a, i.imm)

\* The entry of t holds what its instruction computes.
Explained(t) ==
  LET i == prog[rob[t].pc] IN
  /\ i.op = "lui" => rob[t].value = i.imm
  /\ i.op = "jal" => rob[t].value = NextPc(rob[t].pc)
  /\ i.op \in TrapOps => rob[t].cause = CauseOf(i)
  /\ i.op \in CsrOps => t = rob_head
  /\ i.op \notin QuickOps \cup CsrOps =>
       \E a \in Word : /\ Reads(i, 1, t, a)
                       /\ \E b \in Word : /\ Reads(i, 2, t, b)
                                           /\ \E c \in Word : Reads(i, 3, t, c) /\ Outcome(t, a, b, c)

\* Every completed entry holds what its instruction computes from the
\* operands of program order, speculative or not: value, store, branch
\* outcome, exception cause.  After a JALR the fetch went on at its target,
\* and a CSR instruction that has taken effect is the oldest in flight.
ResultsRight == \A t \in Tags : InFlight(t) /\ rob[t].ready => Explained(t)

-----------------------------------------------------------------------------
(* Liveness, under weak fairness of the tick: the testbench calls it until *)
(* halted.                                                                 *)

\* The pipeline never wedges: again and again an instruction completes at the
\* head of the ROB, or the program has ended.
HeadCompletes == []<>(halted \/ HeadReady)

\* A pending, enabled timer interrupt is taken: it waits for an entry at the
\* head of the ROB, and one always comes, unless the program ends first.
InterruptServed ==
  (mtip /\ InterruptEnabled(csr)) ~> (halted \/ ~mtip \/ ~InterruptEnabled(csr))

\* A program whose execution ends does end: the core reaches halted.
Terminates == <>halted
=============================================================================
