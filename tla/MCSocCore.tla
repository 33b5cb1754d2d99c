----------------------------- MODULE MCSocCore -----------------------------
(***************************************************************************)
(* Instances of SocCore for TLC: the registers, the programs and the       *)
(* bounds of each configuration.                                           *)
(***************************************************************************)
EXTENDS SocCoreRefines, MCAsm

-----------------------------------------------------------------------------
(* Every sequence of three instructions of an alphabet chosen for its      *)
(* dependencies: the registers are few, so they collide.                   *)

Mixed ==
  { I("add", "x1", "x1", "x2", 0),  I("addi", "x2", "x1", "x0", 1),
    I("mul", "x2", "x1", "x1", 0),  I("div", "x1", "x2", "x1", 0),
    I("lw", "x1", "x2", "x0", 0),   I("sw", "x0", "x2", "x1", 0),
    I("sw", "x0", "x0", "x2", 15),
    I("fadd", "f0", "f0", "f0", 0), I("fmv_w_x", "f0", "x1", "x0", 0),
    I("fmv_x_w", "x2", "f0", "x0", 0),
    I("beq", "x0", "x1", "x2", 5),  I("bne", "x0", "x2", "x0", 4),
    I("jal", "x1", "x0", "x0", 5),
    I("csrrw", "x1", "x1", "x0", 0) }

MixedPrograms ==
  { Asm(<<Li("x1", 2), p, q, r, I("sub", "x1", "x2", "x1", 0)>>) : p, q, r \in Mixed }

(* Control flow: a counter in x1, forward and backward branches, calls and *)
(* returns through registers.  Some of these programs never end.           *)

Control ==
  { I("addi", "x1", "x1", "x0", 15), I("mul", "x2", "x1", "x1", 0),
    I("lw", "x2", "x1", "x0", 0),    I("bne", "x0", "x1", "x0", 1),
    I("jal", "x1", "x0", "x0", 3),   I("jalr", "x2", "x1", "x0", 3),
    Fma("f0", "f0", "x1", "f0") }

ControlPrograms ==
  { Asm(<<Li("x1", 2), p, q, r, I("bne", "x0", "x2", "x1", 6), I("add", "x2", "x2", "x1", 0)>>)
      : p, q, r \in Control }

-----------------------------------------------------------------------------
(* Programs that end, long enough to fill and wrap the ROB.                *)

\* A counted loop that loads, multiplies, stores and prints.
LoopProgram == Asm(<<
  Li("x1", 2),
  I("lw", "x2", "x1", "x0", 0),
  I("mul", "x2", "x2", "x1", 0),
  I("addi", "x2", "x2", "x0", 3),
  I("sw", "x0", "x1", "x2", 0),
  I("sw", "x0", "x0", "x2", 15),
  I("addi", "x1", "x1", "x0", 15),
  I("bne", "x0", "x1", "x0", 1),
  I("lw", "x1", "x0", "x0", 0) >>)

\* A subroutine called twice, with a division in flight over the call.
CallProgram == Asm(<<
  Li("x2", 3),
  I("jal", "x1", "x0", "x0", 6),
  I("div", "x2", "x2", "x1", 0),
  I("jal", "x1", "x0", "x0", 6),
  I("sw", "x0", "x0", "x2", 1),
  I("jal", "x0", "x0", "x0", 9),
  I("add", "x2", "x2", "x2", 0),
  I("jalr", "x0", "x1", "x0", 0) >>)

\* Independent work behind a slow division: the ROB fills up.
FullProgram == Asm(<<
  Li("x1", 9), Li("x2", 3),
  I("div", "x1", "x1", "x2", 0),
  Li("x2", 1), I("fence", "x0", "x0", "x0", 0), Li("x2", 2), I("addi", "x2", "x2", "x0", 1),
  I("fmv_w_x", "f0", "x1", "x0", 0), Li("x2", 4),
  Fma("f0", "f0", "f0", "f0"),
  I("fdiv", "f0", "f0", "f0", 0),
  I("fsw", "x0", "x0", "f0", 0),
  I("flw", "f0", "x0", "x0", 0),
  Fma("f0", "f0", "f0", "f0"),
  I("fmv_x_w", "x1", "f0", "x0", 0) >>)

\* Two branches in flight over loads and stores, with data-dependent outcome.
NestedProgram == Asm(<<
  Li("x1", 3),
  I("sw", "x0", "x0", "x1", 0),
  I("lw", "x2", "x0", "x0", 0),
  I("beq", "x0", "x2", "x1", 6),
  I("beq", "x0", "x0", "x0", 10),
  I("sw", "x0", "x0", "x0", 1),
  I("bne", "x0", "x2", "x0", 8),
  I("sw", "x0", "x0", "x0", 0),
  I("addi", "x1", "x1", "x0", 14),
  I("bne", "x0", "x1", "x2", 11),
  I("ecall", "x0", "x0", "x0", 0),
  I("sub", "x2", "x2", "x1", 0) >>)

Kernels == {LoopProgram, CallProgram, FullProgram, NestedProgram}

-----------------------------------------------------------------------------
(* Exceptions: a handler that steps mepc over the instruction and returns, *)
(* and programs that trap with other instructions in flight around them.   *)

Handler == << Csr("csrrs", "x2", "mepc", "x0"), I("addi", "x2", "x2", "x0", 1),
              Csr("csrrw", "x0", "mepc", "x2"), I("mret", "x0", "x0", "x0", 0) >>

Trapping ==
  { I("ecall", "x0", "x0", "x0", 0), I("ebreak", "x0", "x0", "x0", 0),
    I("illegal", "x0", "x0", "x0", 0), I("mret", "x0", "x0", "x0", 0),
    I("div", "x1", "x1", "x1", 0), I("sw", "x0", "x0", "x1", 0),
    I("lw", "x1", "x0", "x0", 0), I("bne", "x0", "x1", "x0", 5),
    Csr("csrrw", "x1", "mscratch", "x1"), Csr("csrrc", "x1", "mstatus", "x1") }

\* An mret outside the handler jumps to mepc, which is the end of the program
\* until an exception has changed it: after one it would loop.
Loops(p, q, r) ==
  \/ p.op \in TrapOps /\ "mret" \in {q.op, r.op}
  \/ q.op \in TrapOps /\ r.op = "mret"

TrapPrograms ==
  { AsmWithHandler(<<CsrI("x0", "mtvec", v), CsrI("x1", "mepc", 5)>> \o c, 8, Handler)
      : v \in {0, 8}, c \in {k \in Trapping \X Trapping \X Trapping : ~Loops(k[1], k[2], k[3])} }

-----------------------------------------------------------------------------
(* The timer interrupt.  Start-up code arms it and opens the window with   *)
(* MRET, so that interrupts are taken from address 6 on; the handler       *)
(* prints x1, re-arms the timer and returns.                               *)

Interruptible ==
  { I("addi", "x1", "x1", "x0", 1), I("mul", "x2", "x1", "x1", 0),
    I("sw", "x0", "x0", "x1", 15),  I("lw", "x1", "x0", "x0", 0),
    I("sw", "x0", "x0", "x2", 0),   I("bne", "x0", "x1", "x0", 9),
    I("beq", "x0", "x0", "x0", 7),  I("jalr", "x2", "x0", "x0", 8) }

TimerPrograms ==
  { AsmWithHandler(EnableTimer \o <<p, q, I("sub", "x1", "x2", "x1", 0)>>, 11, TimerHandler)
      : p, q \in Interruptible }

\* The same, with a CSR instruction in the interruptible code: a swap of x1
\* and mscratch, whose second execution would undo the first.
SwapPrograms ==
  { AsmWithHandler(EnableTimer \o <<Li("x1", 3), Csr("csrrw", "x1", "mscratch", "x1"), p>>,
                   11, TimerHandler) : p \in Interruptible }

MixedAndTimer == MixedPrograms \cup TimerPrograms

EndingPrograms == TrapPrograms \cup Kernels

ControlAndEnding == EndingPrograms \cup ControlPrograms

\* A program that ends does end (some of ControlPrograms loop for ever): however its
\* instructions wait for each other, and whatever is dropped and fetched
\* again, the core reaches halted.
EndingProgramsEnd == prog \in EndingPrograms => Terminates
=============================================================================
