----------------------------- MODULE MCSocTage -----------------------------
(***************************************************************************)
(* Instances of SocTage for TLC, with the sizes of the code: loops that    *)
(* never end, whose branches repeat a pattern, and programs with traps and *)
(* interrupts.                                                             *)
(***************************************************************************)
EXTENDS SocTage, MCAsm

Histories == <<4, 8, 16>>

\* Two counters and a branch on each: x1 steps by j and x2 by k, so that a
\* branch repeats every 16 / gcd iterations; with a multiplication between
\* them that keeps the first branch in flight when the second is predicted.
Loop(j, k) == Asm(<<
  I("addi", "x1", "x1", "x0", j),
  I("beq", "x0", "x1", "x0", 3),
  I("mul", "x2", "x2", "x0", 0),
  I("addi", "x2", "x2", "x0", k),
  I("bne", "x0", "x2", "x0", 6),
  I("fence", "x0", "x0", "x0", 0),
  I("jal", "x0", "x0", "x0", 0) >>)

\* An inner loop of n rounds that starts over.
Inner(n) == Asm(<<
  Li("x1", n),
  I("addi", "x1", "x1", "x0", 15),
  I("bne", "x0", "x1", "x0", 1),
  I("jal", "x0", "x0", "x0", 0) >>)

\* Every other round calls the environment; the handler steps over the call.
\* The branch of the next round is predicted before the call is taken.
CallsLoop == AsmWithHandler(<<
  CsrI("x0", "mtvec", 8),
  I("addi", "x1", "x1", "x0", 8),
  I("beq", "x0", "x1", "x0", 4),
  I("ecall", "x0", "x0", "x0", 0),
  I("jal", "x0", "x0", "x0", 1) >>, 8,
  << Csr("csrrs", "x2", "mepc", "x0"), I("addi", "x2", "x2", "x0", 1),
     Csr("csrrw", "x0", "mepc", "x2"), I("mret", "x0", "x0", "x0", 0) >>)

\* The timer interrupts a loop of three rounds.
InterruptedLoop ==
  AsmWithHandler(EnableTimer \o << I("addi", "x1", "x1", "x0", 5), I("mul", "x2", "x1", "x1", 0),
                                   I("bne", "x0", "x1", "x0", 6) >>, 11, TimerHandler)

\* Patterns of at most eight outcomes.
ShortLoops == { Loop(j, k) : j \in {4, 8, 12}, k \in {0, 4, 8} }
              \cup { Inner(n) : n \in {3, 5, 8} } \cup {CallsLoop}

\* Longer ones, up to 32 outcomes.
LongLoops == { Loop(j, k) : j \in {1, 2}, k \in {0, 3} } \cup { Inner(n) : n \in {9, 15} }

TagePrograms == ShortLoops \cup LongLoops \cup {InterruptedLoop}
=============================================================================
