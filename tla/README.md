# A verification model of the RV32IMFC + RVV out-of-order cores

This directory holds TLA+ specifications of the out-of-order core in
`src/RISCV-SoC` (written for high-level synthesis), with its vector coprocessor
and its branch predictor, and of the first core of the family
(`src/RV32IMFC_hls/rv32_ooo.cpp`); the TLC configurations that check them on
small instances; and proofs, checked by TLAPS, of what holds for every instance.

## 1. The system

The repository contains several generations of one processor. The latest,
RISCV-SoC, is modelled in most detail; it exists twice: `src/RISCV-SoC` (HLS: one C++
function, `riscv_soc_tick`, is one clock cycle) and `src/RISCV-SoC-TLM` (SystemC:
the same cycle as methods of a class, over a transaction-level bus).

| component | source | state | operations |
|---|---|---|---|
| scalar pipeline | `soc_top.cpp`, `soc_state.h` | fetch pc and flags, register files, RAT/FRAT, ROB with head, tail, count, stations, `branch_pending` | per tick: interrupt, commit, execute, LSU, SYS, issue, fetch + dispatch; `pipeline_flush`; reset |
| frontend dispatch | `frontend_dispatch.h` | none of its own | `dispatch_decode`: allocate ROB entry and station, rename |
| execution units, CDB | `backend.h`, `fp_ops.h` | none of its own | `read_operand`, `cdb_broadcast*`, `alu_compute`, `md_compute`, `fpu_compute`, `branch_taken` |
| memory port and memory | `axi_interconnect.h` | `dmem`, `mem_port_used` | `axi_grant`, `dmem_load`, `dmem_store` |
| CSRs, traps, timer | `soc_csr.h`, `soc_top.cpp` | mstatus … mcause, mtime(cmp), mip, privilege | `read_csr`, `write_csr`, trap entry, MRET |
| branch predictor | `tage.h` | bimodal and tagged tables, global history | `predict`, `update`, history repair |
| vector dispatch | `vector_dispatch.h` | `vl`, `vtype`, `vstart` | `vset*`, legality, capture of `vl` |
| vector coprocessor | `vector_coprocessor.h`, `exec_vector.h` | 4-entry instruction queue (VIQ), vector units, vector registers | enqueue, issue, execute, vector load/store, broadcast |
| element arithmetic | `exec_vector.h`; TLM: `vector_alu.h`, `processor_vector_unit.h` | none of its own | `vec_arith_compute`, one loop per category of instruction |
| compressed decoder | `rv32c_defs.h` | none | expansion of 16-bit instructions |
| in-order core | `RV32IMFC_hls/rv32_core.cpp` | registers, memory, pc | `rv32_core_step` |
| TLM twin and bus | `RISCV-SoC-TLM/src/*.h` | as the HLS core; bus, memory, UART | `tick`, `b_transport` |
| first out-of-order core | `RV32IMFC_hls/rv32_ooo.cpp` | ROB, RAT, stations, one vector station; no prediction, no traps | `rv32_ooo_tick` |
| other earlier cores | `RV32IMFC_tlm`, `RV32IMFC+RVV+OOO-*` | superseded | – |

**Interaction.** Everything lives in one struct (`soc_state`) and one function.
`riscv_soc_tick` calls its blocks *backwards* (commit first, fetch last), so that
a value produced by a block is seen by an earlier pipeline block only in the
next tick. Units talk to stations through the CDB: a completed tag and value,
compared by every busy station. Dispatch talks to commit through the ROB and the
RAT. Committing stores, the vector LSU and scalar loads share one data port per
tick. Vector instructions sit in a queue until the branches before them are
resolved (`branch_pending`). The testbenches call the tick until `halted`.

**What is hard here.** Tags are reused as the ROB wraps, so a missed, late or
wrongly addressed broadcast is silent. A misprediction is *discovered* at
execution and *acted on* at commit; in between the wrong path runs on, can stop
the fetch on a `JALR`, reach the end of the program (`fetch_done`) or fill the
ROB. CSR instructions and loads act at the head of the ROB, *before* they retire,
so an interrupt can fall in between. Every redirect must clear all of the RAT,
the stations, the fetch stall and the branch count, in one tick. The timer can
come due at any moment. Loops of waiting (fetch for a ROB entry, head for its
unit, unit for an operand) must not close.

**What makes each component correct.**
- pipeline: it is indistinguishable, register by register and store by store, from
  a machine that runs one instruction at a time; it never wedges; interrupts are
  taken and are precise. Underneath: the ROB window, the ownership of pending
  entries, the wake-up of operands and the alias table (section 4);
- memory port: one grant per tick, stores before loads, nobody starves;
- CSRs/traps: trap entry and return restore privilege and enables; mepc is the
  first instruction not executed;
- predictor: any answer is safe; the speculative history is that of the path, repaired
  after any misprediction; it learns what it can represent, and its tables settle;
- vector: an instruction executes with the `vl`/`vtype` of its place in program
  order, once, and not under an unresolved branch; its loops do to the register file what
  one simultaneous assignment would, and can be resumed at `vstart`;
- first core: vector registers written out of order and `vl` captured at dispatch give the
  result of program order;
- TLM twin: same architectural behaviour as the HLS core.

## 2. Modules

    SocIsa ──┬── IsaMachine ─────────────┐
             └── SocCore ──┬── SocCoreRefines ── MCSocCore          (TLC)
                           ├── SocCoreSafety ── SocCoreValues ── SocCoreCorrect   (TLAPS)
                           ├── SocTage ──┬── MCSocTage              (TLC)
                           │             └── SocTageProofs          (TLAPS)
                           └──┐
    VecIsa ──┬── IsaVector ───┼─┐
             └─────────── SocVector ──┬── SocVectorRefines ──┬── MCSocVector   (TLC)
                                      └── SocVectorTimed ────┤
                                                             └── SocVectorSafety ── SocVectorValues  (TLAPS)
    VecAlu ── VecDatapath ── VecMeaning ── VecMemory ── MCVecDatapath   (TLC)
    SocIsa ── OooOps ──┬── OooIsa ──────────┐
                       └── OooCore ──┬── OooCoreRefines ── MCOooCore   (TLC)
                                     └── OooCoreProofs ── OooCoreCorrect   (TLAPS)

Lines are `EXTENDS`; the abstract machines (`IsaMachine`, `IsaVector`, `OooIsa`) are
`INSTANCE`d by the `…Refines` module beside them. `MCSocVector` extends `SocVectorRefines` and
`SocVectorTimed`, `SocVectorSafety` the latter. `VecIsa` extends `SocIsa`, `IsaVector`
also extends `IsaMachine`. `SocCoreCorrect` also extends `SocCoreRefines`, and `OooCoreCorrect` `OooCoreRefines`;
`SocTageProofs` and `SocVectorSafety` also extend `SocCoreValues`. `MCAsm` is the assembler of the MC modules.

**SocIsa** – words, registers, decoded instructions, what each unit computes, the
CSR file with trap entry and return. No state.

**IsaMachine** – the abstract specification: one instruction at a time, each
completely; interrupts between instructions. The scalar instructions come from
`rv32_core_step`, traps and interrupts from the SoC's own tick.

**SocCore** – the pipeline. One action per block of `riscv_soc_tick` and per way
that block can go; `stage` says which block runs next. A commit that redirects, and
any branch or trap commit, ends the tick early, as the code's `return`s do
(`stage` stays at `"commit"`).

| SocCore | `soc_top.cpp` |
|---|---|
| `TakeInterrupt` | 176-202 |
| `CommitBranch`, `CommitMispredict` | 209-238 |
| `CommitMret`, `CommitTrap`, `CommitHalt` | 247-293 |
| `CommitStore`, `CommitRegister`, `NoCommit` | 204-336 |
| `Execute` | 338-410 |
| `LsuStore`, `LsuLoad`, `LsuIdle` | 411-434 |
| `SysExecute`, `SysIdle` | 441-465 |
| `Issue` | 467-499 |
| `DispatchQuick/ToUnit/Jalr/Branch/Stall`, `FetchEnd`, `FetchIdle` | 500-566, `frontend_dispatch.h` |
| `PipelineFlush` | 29-53 |
| `TimerFires` | 106-109 |

The variables carry the names of `soc_state`. `rat` is RAT and FRAT in one function
over both register sets; `rs` is the seven scalar stations in one function over the
units (`alu0 alu1 md fpu br lsu sys`). The operators named `…_keeps_…`, `…_always`,
`…_forgets_…`, `…_at_fetch` and so on, each marked *Fault*, are seeded bugs: none of
them is used by the specification; the runs must fail when one replaces the
definition it imitates.

**SocCoreRefines** – the refinement mapping. Architectural registers and pc are read
off the pipeline: the pc is that of the oldest instruction in flight, or of the
fetch. The one subtlety is a CSR instruction that has executed at the head but not
retired: its effect is already architectural, so the mapping counts it as done
(`CsrDone`).

**MCSocCore** – program families and constants for TLC.

### The vector coprocessor

**VecIsa** – vector instructions, configurations and the register file, with one or two
operations of each of the ten categories that `vec_arith_compute` tells apart. No state.
**IsaVector** – the architectural machine with vectors: an instruction sees the
configuration that the ones before it left, and executes completely.

**SocVector** – `SocCore` with vectors: every block of the tick, with what the coprocessor
hears of it. `vec_ticked` splits the SYS block: the coprocessor has its turn first.

| SocVector | code |
|---|---|
| `VecCommit`, `VecFlush` | `soc_top.cpp` 45-53, 189-336: which commits empty the queue |
| `VecExecute`, `VecLsu`, `VecHear` | the CDB as heard by the unit *and* the queue, `backend.h` 60-80 |
| `unit`, `Pops`, `VecCount`, `VecComplete`, `VecWait` | `vector_coprocessor.h` 59-112 |
| `VecLatency`, `InRemaining`, `Countdown` | the latency of each unit and the three bits it is counted in, `vector_coprocessor.h` 68-80, `soc_state.h` 123 |
| `VlsuMove`, `VlsuSkip`, `VlsuEndOfField`, `VlsuRefused` | `vector_coprocessor.h` 110-232; one element per tick, if `axi_grant` lets it |
| `Checks`, `FofFault`, `Trim` | fault-only-first, 163-188 |
| `VecSysExecute`, `DispatchVectorCsr` | `csrr vl`, `csrrw vstart`, `soc_csr.h` |
| `DispatchVset` | `vector_dispatch.h` 67-136 |
| `DispatchVector`, `DispatchVectorIllegal`, `DispatchVectorStall` | `vector_dispatch.h` 256-316, `frontend_dispatch.h` 104-193 |

**SocVectorRefines** – vector instructions take effect long before they retire: `vset*` at
dispatch, arithmetic whenever its turn comes, a store element by element at the head. The
history variable `undo` keeps, per ROB entry, the configuration before it was dispatched
and the registers before it started; the architectural state is the one before the
*oldest* vector instruction in flight. Nothing in the actions reads `undo` or `accesses`.

**SocVectorTimed** – `SocVector` with a clock. The history variable `ran` counts the ticks for
which the unit has been computing its present instruction; it does not look at the countdown,
so that the two can be compared. `TSpec` is `VSpec` with the clock running beside it, and the
specification of the `vec_…` runs of the core.

### The vector datapath

**VecAlu** – the arithmetic of one element, operation by operation (`vector_alu.h`):
signs, carries, high halves, division by zero, rounding, saturation.
**VecDatapath** – `vec_arith_compute`: one step of a loop is one action, so that an
instruction may read what it has written; register groups, mask bits and the index of an
element within a word as in the code. It is taken from the TLM description, where the
function is a loop over elements; the synthesised one has the same loops, unrolled.
**VecMeaning** – what each result means as an integer (two tables say which operands are
signed, `Means` says modular, saturated, averaged, …), and the whole instruction as one
simultaneous assignment (`Whole`).
**VecMemory** – data on its way between registers and a memory of words: the byte lanes of
the scalar accesses (`dmem_load`, `dmem_store`), and the loops of the vector LSU on elements
of one, two and four bytes, segments of them, masks and whole registers. It executes one
instruction from start to end, with the port always granted; *when* an element moves,
and the trim of the fault-only-first loads, is in `SocVector`.

| VecMemory | `vector_coprocessor.h` |
|---|---|
| `MoveWord` | 125-141, whole registers |
| `MoveMaskByte`, `NoMaskBytes` | 142-160, `vlm`, `vsm` |
| `MoveElement`, `PassElement`, `EndOfField` | 190-220; `Offset` is the generator of addresses |

### The branch predictor

**SocTage** – TAGE (`tage.h`) composed with `SocCore`: where `SocCore` predicts anything,
`PredictBranch` takes the answer of the tables, and shifts it into the history at once;
`TrainOnBranch` (`soc_top.cpp` 209-238) trains at commit and repairs the history on a
misprediction; `FlushWithoutRepair` is every other flush. The sizes are constants, and the
run gives them the values of the code.

### The first out-of-order core

**OooOps**, **OooIsa**, **OooCore** – `rv32_ooo_tick`, block by block (`Commit`, `Execute`,
`Lsu…`, `Vec…`, `Sys…`, `Issue`, `Dispatch…`), with the machine it implements. It does not
speculate: every branch stops the fetch (`fetch_stalled`) and its unit restarts it. One
vector station replaces the queue; its arithmetic writes the register file out of order
with the scalar instructions, all the words of a load or store move in one tick at the
head. `arch` and `eff` are history variables: the vector state of the last retirement and
the one each entry leaves. **OooCoreRefines** reads the architectural state off them;
CSR instructions and vector stores count as executed once complete at the head.

**SocCoreSafety**, **SocCoreValues**, **SocCoreCorrect**, **SocTageProofs**,
**SocVectorSafety**, **SocVectorValues**, **OooCoreProofs**, **OooCoreCorrect** – theorems
(section 4).

### Abstractions, all of them

- Words are numbers modulo `WORD` (16 in the runs, any size ≥ 8 in the proofs).
- An instruction is decoded and has length 1; a branch or jump carries its absolute
  target. Compressed instructions (length 2 in bytes, expanded at fetch) are not
  distinguished.
- Each unit keeps the operations that differ in operands, latency or unit. The FPU
  computes word arithmetic: no property is about rounding, only about which operands
  reach it and when. Division by zero gives all ones, as in the code.
- Memory is word addressed in the modules with a pipeline. Byte lanes and vector elements
  narrower than a word are in `VecMemory`, apart from it: they concern neither the order of
  the accesses nor the registers they name.
- A vector register is four cells of two bits (`SocVector`): four narrow elements or two wide
  ones, which are machine words. The datapath modules have bytes of `BYTE` bits (2 in the
  runs) and all three widths.
- Of the vector encodings `SocVector` keeps one or two operations per category, all
  addressing modes, segments, whole registers and fault-only-first; the mask loads and
  stores (`vlm`, `vsm`) are in `VecMemory` only, and the tables of which funct6 exist are left out.
- The first core has vectors of words (its only configuration), and no byte lanes.
- A station keeps the pc of its instruction; the decoded fields the code copies into
  the station (`f3`, `alt`, immediate) are read from the program, which nothing
  writes. That the pc is right is part of `PendingOwnership`.
- CSRs: mstatus (as MIE, MPIE, MPP), mie.MTIE, mtvec, mscratch, mepc, mcause,
  mtimecmp, and the privilege. mtval, readable mip/mtime and identification CSRs are
  left out; cause codes are renumbered into small words.
- Time: `mtime` is not a counter. The timer *may come due* between any two ticks, at
  most `MaxTimer` times (bound), and writing `mtimecmp` re-arms it. This allows every
  moment the code allows, and more.
- The several broadcasts of one tick are one simultaneous broadcast: the tags are
  distinct (`PendingOwnership`), so their order in the code cannot matter.
- In `SocCore` and `SocVector` the prediction is a free Boolean: whatever is shown holds for
  TAGE and for any other predictor. `SocTage` restricts it to what the tables answer.

## 3. Model checking

`tlc -config X.cfg MCX` in this directory. All runs are exhaustive for their programs;
those without the predictor, under every prediction.

| run | question | instance |
|---|---|---|
| `core_mixed` | renaming, wake-up, ring arithmetic, architectural result; the timer interrupt at any tick, up to twice | every program `lui; p; q; r; sub` with p, q, r from 14 instructions of all units (2744), and 64 interruptible ones with start-up code and handler; ROB of 3 |
| `core_control` | speculation, JALR stall, branch count, precise exceptions, no wedge | every program of three instructions from 7 in a branch frame (343, many endless); two set-up instructions and three from 10 that may trap, with and without handler; 4 whole programs; ROB of 4 |
| `core_swap` | *violation*, section 5 | 8 programs with a CSR swap |
| `vec_all` | vectors: order, capture, speculation, port, flush, architectural result | dependent arithmetic of all categories with changes of configuration; memory accesses of all modes next to scalar ones; vector code under branches; exceptions before, at and behind vector instructions; 4 whole programs; ROB of 4, queue of 2 |
| `vec_posterior`, `vec_trim` | *violations*, section 5 | exceptions behind a division; a store behind a trimmed load |
| `vec_arith` | every element exact, no loop reads what it overwrote, resumable; accesses move their bytes and no other | every operation × scalar × width; every kind of loop on registers that overlap or not, masked or not, from `vstart` 0 and 1; memory: load and store × mode × width × stride or width of index × 1 or 3 fields × mask × `vl` and `vstart`, memory of 4 words |
| `vec_saturate`, `vec_slide` | *violations*, section 5 | the cases left out of `vec_arith` |
| `tage` | the history is that of the path; what is learned | 21 loops with patterns of 2 to 32 outcomes, calls and an interrupt; sizes of the code (512 bimodal, 3 × 128 tagged, histories 4/8/16), ROB of 8 |
| `ooo` | the first core implements its machine, and ends | set-up, every two instructions of 21 and a third from 9 that depends on them; 3 whole programs; ROB of 4, vectors of 2 words (3862 programs) |
| `ooo_config` | *violation*, section 5 | `csrr vl` behind a division, `vset*` behind it |

**Why these bounds.** Hazards between instructions need a producer, a consumer and
one more instruction that interferes (an intermediate writer of the same register, a
branch between them, a trap). Three free instructions over two registers, between a
fixed first and last, give all of them. The ROB of 3 is full and wraps several times
in five instructions, which makes full = empty in head and tail and reuses every
tag; latencies 1 to 5 let every pair of units complete in either order or together.
A queue of two is full with one instruction in the unit and two behind it, which the
ROB of four allows. Word size 16 is enough for addresses 0 to 15, and `WORD` only enters
the properties through equality of values. Two-bit bytes keep all that matters about
elements: several per word, a sign, a carry, a product twice as wide; elements of one and
two bytes take every value, words and wide operands those next to a bound. Two words per
register let an element move across a word, six registers hold two groups and more.
`tage` needs no reduction: a loop of a few instructions visits few entries.

**Properties.**
- `RobWindow`, `PendingOwnership`, `NoLostWakeup`, `RatNamesYoungestWriter`: see 4.
- `BranchAccounting`: `branch_pending` is the number of conditional branches in flight.
  It gates `vset*` and the vector queue: a count that drifts up is a hang, down a
  speculative vector instruction.
- `StalledOnlyByJalr`: the fetch is stopped exactly while a JALR is unresolved.
- `OnPredictedPath`: the entries in flight are consecutive along the predictions, up
  to the fetch pc: no instruction is skipped or fetched twice, also when dispatch
  stalls for a unit and the fetch is repeated.
- `OperandsRight`, `ResultsRight`: every operand a station holds or will hear, and every
  completed entry, speculative ones included, has the value program order gives it.
- `VectorOperandsRight`: the same of the scalar operands in the unit and in the queue (base,
  stride, the x of an arithmetic instruction), however long the instruction waits there.
- `CapturesInOrder`: the same of the `vl`, `vstart` and element width in them: the `vl` of the
  last `vset*` ahead of the instruction, no `vstart` that one ahead of it clears, and nothing a
  CSR instruction ahead of it has yet to write, whatever has changed the CSRs behind it.
- `ImplementsIsa`, `ImplementsVectorIsa`, `ImplementsOooIsa`: refinement. Every register,
  memory word, UART character, CSR, vector register, `vl`, `vtype`, `vstart` and the end of
  the program agree with one-at-a-time execution.
- `HeadCompletes`, `EndingProgramsEnd`, `InterruptServed`, `VecTerminates`,
  `OooTerminates`: liveness.
- `QueueInOrder`: unit and queue hold, in program order, exactly the uncompleted vector
  instructions in flight. A flush with a full queue and a unit halfway through its elements
  leaves nothing that could complete an entry of the restarted tags.
- `VecNoLostWakeup`, `OooNoLostWakeup`: the scalar operand that the coprocessor waits for
  is still to be broadcast, by an older instruction.
- `OneAccessPerTick`: committing store, scalar load and vector element never move in the same
  tick (`accesses` counts what reached the memory, not what the arbiter said).
- `NoSpeculativeVector`: whatever is in the unit or the queue, and every `vset*` in flight,
  is older than every branch in flight. Illegal vector instructions are exempt: they have no
  effect, and the code does let them in under a branch.
- `TakesItsLatency`: every result comes in the tick that the latency of its unit says, counted
  from the one in which its own instruction started. The model keeps of a latency what three bits
  keep (`InRemaining`) and the latencies are those of the code; with the two bits the code once
  had, the four ticks of a multiplication are none.
- `ElementsExact`: every element written is the integer the operation means.
  `LikeSimultaneous`: the whole instruction is one simultaneous assignment, overlaps
  included. `Resumable`: stopping before any element and starting again there with
  `vstart` changes nothing.
- `ScalarLanes`: at every address and width, a load extends the bytes that are there, and a
  store changes its own and no other, as in a memory that is an array of bytes (which the
  SystemC one is, `memory.h`). `MovesItsBytes`: a completed vector access has moved the bytes
  that its addressing mode, width, fields, mask and `vstart` say, and no other.
- `HistoryFollowsPath`: every branch in flight was predicted with the outcomes of the
  retired branches followed by the predictions of those in flight, through any nesting of
  mispredictions. `Learns`: a program that repeats patterns of at most eight outcomes is, from
  some point on, never mispredicted. `Settles`: whatever the program repeats, mispredictions
  eventually find no entry to take, so that no two branches steal each other's for ever.

**Excluded programs.** What the code does there is known and described in section 5; each
exclusion is a named operator of the MC module: `Loops` (an `mret` that would loop),
`MayTrapSpuriously`, `CapturesStaleVl`, `ReadsConfig`/`Overtaken`, `WrapsWord`, `SlideWraps`,
`Aligned` and `WithinWord` (an access across the boundary of a word reads or writes only a part,
a limitation that `LIMITACIONES.md:16` and `:217` describe), and `Reserved` and `Apart`, overlaps for which the vector extension defines no result and which the code
does not refuse.

**Fairness.** Only weak fairness of the tick: the testbenches loop
`while (!halted …) riscv_soc_tick(…)` (`src/RISCV-SoC/soc_tb.cpp:144`), so a tick, and
each block in it, keeps happening until `halted`. Nothing is assumed of the timer, of
the predictor or of a particular unit. Once `halted`, nobody calls the tick
(`Stopped`), so deadlock checking stays on in every run of a core. In the datapath runs an
instruction does end, and the check for deadlock is off.

## 4. Proofs

`for m in SocCoreSafety SocCoreValues SocCoreCorrect SocTageProofs SocVectorSafety
SocVectorValues OooCoreProofs OooCoreCorrect; do tlapm $m.tla; done`. Everything is proved for every word size, register set,
memory, program set, ROB size ≥ 2, latencies within the width of the code's counters (of the vector
units, any latency), every size of the tables (TAGE), of the queue and of the vector registers; the assumptions are the named
`ASSUME`s of `SocIsa`, `SocCore`, `SocTage`, `VecIsa`, `SocVector`, `OooOps` and `OooCore`, which TLC
evaluates in every run of these modules. (`ProgAssumption` of `OooCore` says that a program holds
decoded instructions: their registers exist and their immediates are words.)

| theorem | what it establishes |
|---|---|
| `TypeCorrect` | `TypeOK`: every register keeps a value of its width; `rob_count` never underflows or exceeds the ROB |
| `RobWindowCorrect` | the valid entries are exactly the window from head to tail |
| `PendingOwnershipCorrect` | an uncompleted entry has exactly one station, a busy station an uncompleted entry in flight |
| `NoLostWakeupCorrect` | a waiting operand waits for an older, uncompleted instruction in flight |
| `RatCorrect` | `RatNamesYoungestWriter`: the mapping of a register is its youngest writer in flight |
| `BranchAccountingCorrect` | `branch_pending` is the number of branches in flight |
| `StalledOnlyByJalrCorrect` | the fetch is stopped exactly while a JALR is unresolved |
| `OnPredictedPathCorrect` | the entries in flight are consecutive along the predictions |
| `OperandsRightCorrect`, `ResultsRightCorrect` | operands and results are those of program order, on the wrong path as well |
| `DepartsOnlyAtCsr` | every step of the core is a step of `IsaMachine` or a stutter, with one exception: an interrupt between the execution and the retirement of a CSR instruction |
| `ImplementsIsaCorrect` | `ImplementsIsa` for every behaviour without that interrupt |
| `WithoutTimerCorrect` | `ImplementsIsa` for every core whose timer never comes due |
| `PredictorRefinesCore` | the core with TAGE takes only steps of the core with a free prediction |
| `HistoryFollowsPathCorrect` | the speculative history is that of the path in flight |
| `PathWithTage` | the three invariants of the path hold of the core with TAGE |
| `PortIsShared` | `OneAccessPerTick`: one access to memory per tick, whoever asks |
| `QueueCorrect` | `QueueInOrder`: unit and queue hold exactly the uncompleted vector instructions, in program order |
| `NoVectorIsSpeculative` | `NoSpeculativeVector`: legal vector instructions in flight are older than all branches in flight |
| `NoVectorLosesWakeup` | `VecNoLostWakeup`: a scalar operand of the coprocessor has an older, uncompleted producer |
| `ResultsTakeTheirLatency` | `TakesItsLatency`, for all latencies that fit the countdown: results come when their latency says, through flushes and whatever the unit did before |
| `ScalarOperandsRight` | `OperandsRight` of the scalar stations, with the coprocessor beside the pipeline |
| `FrontRight` | `BranchAccounting`, `StalledOnlyByJalr` and `OnPredictedPath`, with the coprocessor beside the pipeline |
| `CoprocessorOperandsRight` | `VectorOperandsRight`: the scalar operands in the unit and in the queue are those of program order |
| `CapturesAreRight` | `CapturesInOrder`, in every behaviour in which a load trims `vl` only with no vector instruction behind it |
| `TrimFreeCapturesAreRight` | `CapturesInOrder` for every program without fault-only-first loads |
| `VectorTyped` | `VecTypeOK`: the queue never exceeds its size, `vl` and `vstart` stay within a register |
| `OooTyped` | `OooTypeOK` of the earlier core: no count, no countdown and no `vl` leaves its range |
| `OooWakeups` | `OooNoLostWakeup` of the earlier core: a waiting operand has an older, uncompleted producer |
| `DepartsOnlyThere` | every step of the earlier core is a step of `OooIsa` or a stutter, with two exceptions: a CSR instruction reads a `vl` or `vtype` that a younger `vset*` has written, or something takes effect behind a retired environment call |
| `ImplementsOooIsaCorrect` | `ImplementsOooIsa` for every behaviour without those two |
| `CalmProgramsImplement` | `ImplementsOooIsa` for every behaviour, if the programs have neither the CSR reads nor the instructions behind the call |

*The pipeline* (`SocCoreSafety`). None of the four invariants is inductive
alone. A waiting operand took its tag from
the alias table, so `NoLostWakeup` needs `RatNamesYoungestWriter` at dispatch; it needs
`PendingOwnership` when a unit delivers (the tag on the bus is that of exactly one
entry); `PendingOwnership` needs `RobWindow` when the tail entry is taken (it is free);
and two facts nobody would state on their own, `WritersOnly`: instructions without a
destination own no mapping (or the early `return` of a branch commit, which skips the
unmapping, would leave a stale one behind), and nobody waits for a store (which
completes without a broadcast). `CoreInv` is the conjunction of all with `TypeOK`, and
is inductive. TLC found `CoreInv` to hold on the instances before it was proved.

A step changes the pipeline in one of four ways, and each has one lemma: it flushes
(`FlushKeeps`), retires the head (`RetireKeeps`), delivers the results of a set of units
(`CompleteKeeps`, with the empty set for the steps that touch nothing of this) or
enters an instruction (`EnterKeeps`). `CommitKeeps`, `ExecuteKeeps`, `HeadUnitsKeep`,
`IssueKeeps` and `DispatchKeeps` show that each block is one of them. The arithmetic of
the ring is in the `…Window` lemmas, stated with `Age`, the distance
of a tag from the head. The later modules go through the same four ways.

*The path* (`SocCoreValues`, first part). `PathCore` adds what makes the path inductive: while the fetch is
stalled, the JALR it waits for is the *youngest* entry (`JalrIsYoungest`). When it resolves,
the fetch moves anywhere, and no other entry may count on the fetch for its successor.

*The data* (`SocCoreValues`, second part). `Sees(r, t, v)` says that an instruction at place `t` finds `v` in
register `r`: the result of the youngest older writer in flight, if it has completed, or the
register file. That value moves while the instruction waits, from the ROB to the register
file, and each of the four ways keeps it (`ReadsKept`, `RetireReads`, `EnterReads`).
`ValueCore` says that every station holds, or waits for, the value it should see, and that
every completed entry, on a wrong path too, is what its instruction computes from them.

*The refinement* (`SocCoreCorrect`). At the head no older instruction is in flight, so what it
sees is the register file, and by `ValueCore` the entry that commits holds what `IsaMachine`
computes. Its follower on the predicted path is the next instruction of the program, because
a misprediction would have flushed. So each commit is one instruction of the machine
(`BranchSeen`, `TrapSeen`, `StoreSeen`, `RegisterSeen`), a CSR instruction is one when it
*executes* (`CsrSeen`), and everything else is invisible. The interrupt is one too, unless it
falls between a CSR instruction's execution and its retirement: that is the fault `core_swap`
shows (section 5), `DepartsOnlyAtCsr` proves that it is the only one, and
`InterruptResumesUnexecuted` is the hypothesis of `ImplementsIsaCorrect` that excludes
it. Not every behaviour satisfies it, which is why the theorem is also stated for
a core without a timer, where no hypothesis is left.

*The predictor* (`SocTageProofs`). Nothing depends on how an index or a counter is computed. The
history is a fold over the entries in flight in the order of their age; it is shown to exist and
to be unique up to each age by the smallest counterexample (`LeastNumber`), because induction
theorems of the library take an operator. A misprediction restores the fold up to the branch that
retires, whatever the branches behind it have shifted in.

*The coprocessor* (`SocVectorSafety`). It runs beside the scalar pipeline and breaks one of its
invariants: an entry of a vector instruction has no station, so `PendingOwnership` is false
there. The invariants of `SocCore` are therefore split: `CoreTypeOK` and `PipeCore` are what
holds whatever runs beside (a busy station still owns its entry), `TypeOK` and `CoreInv` add what
is true of the scalar core alone, and the lemmas of the four ways are stated for `PipeCore`.
`VecCore` is `PipeCore`, `BranchAccounting`, the types, and `Holds`, the invariant of the queue
seen as the sequence `Pending`: each pending instruction owns an uncompleted, legal entry, has
not gone past its fields and words, waits for older writers only, and the ages ascend; with
`NoSpeculativeVector`. None of these is inductive without the others: an element completes
the entry that a tag names, which is the instruction's own only because a flush empties queue and
unit; the queue is
in order because only the youngest joins, and only the first leaves; nobody waits for a result
that is not broadcast, because what is pending writes no register but that of `vcpop`
(the clause in `Owns`); and a vector instruction enters behind no branch because the *count* the
gate reads is the number of branches in flight. The four ways have a lemma each for
the queue as well (`WorkHolds`, `FlushHolds`, `RetireHolds`, `EnterHolds`).

*The values beside the coprocessor* (`SocVectorValues`). `VecValues` is `VecCore` with `PathInv`
and `DataInv`, which is what `PathCore` and `ValueCore` add to the pipeline. `DataInv` explains the
results of scalar instructions only (`ScalarResultsRight`), so the lemmas of `SocCoreValues` hold
whatever runs beside and serve both cores. New is what the coprocessor does to those parts. Its turn writes
memory, `vl`, `vstart` and the vector registers, none of which a scalar operand reads, and
completes entries, each once and with the broadcast, if it has a destination
(`TurnEffect`, `TurnWork`). `VectorOperandsRight` then follows each instruction that is pending
after a step back to what it was before: it was pending, and has at most heard
its producer (`HeardOp`, `PendingAdvances`), or it is the one that enters (`QueuedRight`). Of the
four ways, work leaves the place of an instruction in program order alone (`WorkOperands`), a
flush empties the queue, a retirement moves the value that an operand sees from the ROB to the
register file (`RetireOperands`), and what enters is younger than everybody (`EnterOperands`).

`CapturesInOrder` is about state that *is* overwritten while an instruction waits: a `vset*`
behind it changes `vl` and `vtype` at once, at dispatch. `CaptureInv` makes it inductive.
`LastVset`: the youngest `vset*` in flight left its result in `vl`, so what is captured next is
that result. `CsrWaits`: a CSR instruction in flight is younger than everything that is
pending, so it executes, at the head, before anything behind it has captured. `VstartPends`: while
`vstart` is not zero no vector instruction has completed unless it trapped, so the
first one captures it and clears it for those behind. `VectorTraps`: what traps was
illegal at dispatch, and then it has captured nothing, or is a load that has faulted. One lemma,
`CapturesKept`, says what a step must keep of the entries in flight (`VectorKept`, `OrderKept`), the
queue (`PendingKept`) and the CSRs (`ConfigKept`, `SysServes`) for `CaptureInv` to survive; each
of the four ways and the turn of the unit is shown to keep it. One step does not: a fault-only-first
load trims `vl` at the head while a vector instruction behind it holds the old one. That is the
fault `vec_trim` shows (section 5). The hypothesis `TrimsAlone` of `CapturesAreRight` excludes
that step, and the same trim with a `vset*` behind it, whose `vl` it would overwrite; `TrimFreeCapturesAreRight` replaces it by a
condition on the program that a reader can check, that it has no such load. TLC finds `TrimsAlone`
true of every program of `vec_all`, trimming loads among them.

*The countdown.* `ResultsTakeTheirLatency` does not assume that latencies fit: that is its
hypothesis `FitsCountdown`, and a latency of 8 would be a counterexample without it. `ClockInv`
is the invariant: while the unit computes, `ran` plus what `remaining` still counts is the latency
of the instruction in the unit, otherwise the clock stands. A result comes when `remaining` has one
tick left, hence in tick `ran + 1`; that a flush in the middle of one instruction, and the next
one in the same unit, do not mix their counts is `OtherClock` and `TurnClock`.

Except `PortIsShared` these theorems have the hypothesis `[]VecDataOK`: what is in memory and in
the vector registers are words and cells. The code does not check that a group of
registers ends inside the register file, and in C an access beyond it is
undefined; and that a sum of bits or elements is a number is induction, out of reach (below).
`VecTypeOK`, which contains `VecDataOK`, is checked by `vec_all` for all its programs.

*The earlier core* (`OooCoreProofs`). It shares no definition with `SocCore`, so its types and its
pipeline are proved from the start. `OooTyped` needs all the data, memory and vector registers
included: a store at the head writes wherever its station says, and here the model keeps the
accesses inside memory, as the code's masks do. The core never flushes, so a step changes the
pipeline in three ways only: `RetireKeeps`, `CompleteKeeps`, `EnterKeeps`. `PipelineInv`
strengthens `OooNoLostWakeup` by the ring (`RobWindow`), by `StationsOwn` and
`RatNamesYoungestWriter` as above, and by what lets stores and vector instructions complete
*without* a broadcast: their entries have no destination (`SilentHaveNoDest`), and nobody
waits for an entry without one (`WaitsForWriter`).

*The refinement of the earlier core* (`OooCoreCorrect`). Here vector arithmetic and memory act out
of program order on one shared register file, and `vl` and `vtype` are those of the dispatch, so the
architectural state is not one the core holds anywhere: it is that of the last retirement
(`arch`), and every entry carries what it leaves (`eff`). The invariant `OrderCore` says, entry by
entry, that this is the state of program order. `OperandsRight` does for scalar registers what
`ValueCore` does above. `ConfigRight` chains the entries: whoever is no `vset*` leaves the `vl`
and `vtype` of its predecessor, the first finds those of the last retirement, and the CSRs hold what the
youngest leaves. `VectorRight` says that at most one vector instruction is uncompleted, the youngest,
so the vector registers are, at every moment, those that *it* finds in program order (`VSees`):
that is why one shared file is enough although it is written early. `ResultsRight` puts these together,
`PathRight` adds that the fetch went on where each instruction goes – it waits for the `jalr` and
the branch, so there is no wrong path – and `Halts` and `ZeroRegister` complete it. TLC found
`OrderCore` to hold on the instances before it was proved.

Then at the head everything an instruction has is that of program order and a
retirement is one instruction of `OooIsa`; a CSR instruction or vector store is one when it takes effect at the head. Two
kinds of step are not (`Departs`). A CSR read of `vl` or `vtype` returns what a younger `vset*` has
written (`ooo_config`, section 5). And the tick goes on behind a retired environment call
(`rv32_ooo.cpp:621-627`), so a CSR instruction or vector store that has become the head takes
effect although the machine has stopped. `DepartsOnlyThere` proves that there is no third.
`CalmPrograms` turns the hypothesis into one about programs: what they read and what stands right
behind a call.

*Only model-checked:* the refinement of `SocVector`: that scalar operands and the captured
configuration are right is proved, that the vector registers and the results are is not (section 7); `TageTypeOK`, because the provers have no theory of `2^n` and of sums
of bits; the datapath, whose modules use bitwise operators and
induction over data, which the provers cannot treat; and all liveness, which TLAPS cannot
treat either.

## 5. What the checks found

Six runs end in a counterexample, each against a sentence of the repository.

`core_swap`. A CSR instruction takes effect when it executes at the head of the ROB
(`soc_top.cpp:441-465`) and retires in the next tick. The interrupt is decided before
commit, requires a *completed* head, and saves the head's pc (`soc_top.cpp:176-202`). If
the timer comes due in that tick, mepc is the CSR instruction that has already been
executed, contrary to the comment at line 187 ("mepc apunta a la instruccion que AUN NO
se ejecuto"); after MRET it executes a second time. For `csrrs x1, mscratch, x0` this
is harmless; `csrrw x1, mscratch, x1`, the swap that handlers use, is undone. The
run gives the trace. Stores and loads are not exposed: a store writes at retirement,
and a load has no side effect in this memory map.

`vec_posterior`. When an exception reaches the head, "nada posterior modifico el estado
arquitectonico todavia" (`soc_top.cpp:241`). But vector arithmetic behind it has written
the register file if the exception had to wait (behind a division, say), and a `vset*`
has written `vl` and `vtype` at dispatch. No flush restores either.

`vec_trim`. "Capturar aca el largo vectorial es preciso" (`soc_state.h:148`) – except behind
a fault-only-first load, which trims `vl` at the head, after a store behind it has been
queued with the old one: it stores elements beyond the trim.

`vec_saturate`. `vsadd` and `vssub` of 32-bit elements are computed in an `int32_t`
(`exec_vector.h:88`), where the sum wraps before it is compared with the bounds.

`vec_slide`. `e + offset` is a 32-bit sum (`exec_vector.h:426`), and immediates are
sign-extended at dispatch: `vslidedown.vi` by 17 to 31 brings elements of the register back
in where the test at `soc_tb.cpp:162` says zeros.

`ooo_config`. In the first core `csrr vl` reads at the head of the ROB what a `vset*` behind
it has written at dispatch (`rv32_ooo.cpp:1126`). The SoC waits for the CSR station instead
(`vector_dispatch.h:68-76`).

Seen on the way, and excluded from the passing runs or left as they are because nothing in
the repository promises otherwise:

- An interrupt may drop vector arithmetic that has executed: after MRET it executes twice
  (`soc_top.cpp:187` again, with the same cause as `vec_posterior`). In the passing runs
  the interruptible code has no CSR and no vector instruction; the handlers do.
- Instructions that may not start at a `vstart` (reductions, permutations, mask logic) are
  compared with it at dispatch (`vector_dispatch.h:256`), before the gate of the queue that keeps
  others from reading it early (275): behind a `vadd` that will clear `vstart`, or a
  `csrw vstart, x0` that a multiplication keeps from the head of the ROB, they trap as illegal
  although in program order `vstart` is zero (`MayTrapSpuriously`). In the opposite direction, a
  `csrw` that is about to *set* `vstart`, the gate does its work: the check passes, the
  instruction waits, and is checked again each tick. That order is in `vec_all` (`WriteVstart` with
  `vredsum` right behind, in `MixedVectorCode`), and without `~sys_rs.busy` in the gate
  `ImplementsVectorIsa` fails on it.
- `vset*` with rd = rs1 = x0 keeps `vl` even if the new VLMAX is smaller; `IsaVector` does
  the same; the specification of the extension reserves the case.
- `vector_alu.h:98` speaks of rounding to even; the averages round half up, which is what
  the configured rounding mode (`vxrm = 0`) means, and what `Means` asks for.
- A trap, MRET or interrupt leaves the predictions of dropped branches in the history
  (`soc_top.cpp:203`); it costs predictions, never correctness. `outcomes` accounts for it.
- `axi_interconnect.h:14` gives the vector LSU the port before the scalar load, while the tick
  asks in the order commit, LSU, coprocessor. It cannot show: a scalar load and a vector access
  both wait for the head of the ROB, so they never compete.
- Two branches that repeat eight outcomes together (`Loop(2, 0)`) are mispredicted once per
  period for ever: a cold entry, whose tag is zero, matched and became useful, and useful
  entries are never aged. Such loops are among those that `Settles` covers and `Learns` does not.
- In the first core the tick goes on behind a retired environment call: a vector store or CSR
  instruction that then becomes the head takes effect in that tick
  (`rv32_ooo.cpp:621-627`), although what is behind the call "simplemente se descarta"
  (`rv32_ooo.cpp:622-625`). No program of `ooo` has one there; `DepartsOnlyThere` proves that
  this and `ooo_config` are all that keeps the first core from implementing `OooIsa`.

## 6. Not modelled

- Accesses across the boundary of a word, and words at unaligned addresses.
- The expansion of compressed instructions (`rv32c_defs.h`), and instruction encodings.
- The TLM bus with its address decode and the UART (the memory is), and what differs between the two descriptions of the
  SoC: bus errors of a wrong-path fetch, UART stores that take the memory port.
- The intermediate core (`RV32IMFC+RVV+OOO-HLS`), the earlier SystemC cores and the loosely
  timed vector unit (`vector_unit.h`): the first and the last core bracket what they do.
- IEEE-754 arithmetic, which is data; statistics outputs; testbenches, assembler, printf
  runtime, CoreMark and ELF images, which are inputs. The ELF images alone are more than
  two fifths of the repository's lines.

## 7. Plan

Done: the scalar core with its refinement, checked and proved; the vector
coprocessor, its refinement checked, its safety, its scalar operands and what it captures proved; the datapath, to registers and to memory; the
predictor, with the proof of its history; the first core, with the proof of its refinement.

1. Proofs: the refinement of `SocVector`, with `VecValues`, `CaptureInv` and the chain of configurations and
   vector registers of `OooCoreCorrect`. As it stands the core departs from `IsaVector` in the
   cases of section 5, which the theorem has to exclude step by step.
2. Compressed expansion as an operator over bounded inputs.
3. `TlmBus`: address decode, memory and UART targets, wrong-path fetches.
