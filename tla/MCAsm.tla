------------------------------- MODULE MCAsm -------------------------------
(***************************************************************************)
(* The instance's registers and bit operations, and an assembler for the   *)
(* programs of the configurations.                                         *)
(***************************************************************************)
EXTENDS SocIsa, Sequences, Bitwise

MCXRegs == {"x0", "x1", "x2"}
MCFRegs == {"f0"}
MCOr(a, b) == a | b
MCAndNot(a, b) == a & ((WORD - 1) - b)

-----------------------------------------------------------------------------
(* Assembler. *)

I(op, rd, rs1, rs2, imm) ==
  [op |-> op, rd |-> rd, rs1 |-> rs1, rs2 |-> rs2, rs3 |-> "x0", imm |-> imm,
   csr |-> "mscratch"]
Fma(rd, rs1, rs2, rs3) == [I("fmadd", rd, rs1, rs2, 0) EXCEPT !.rs3 = rs3]
Csr(op, rd, csrname, rs1) == [I(op, rd, rs1, "x0", 0) EXCEPT !.csr = csrname]
CsrI(rd, csrname, imm) == [I("csrrwi", rd, "x0", "x0", imm) EXCEPT !.csr = csrname]
Li(rd, imm) == I("lui", rd, "x0", "x0", imm)
End == I("end", "x0", "x0", "x0", 0)

\* The program with the given instructions, zero-filled to the end of memory.
Asm(code) == [p \in Word |-> IF p < Len(code) THEN code[p + 1] ELSE End]

\* A program with a handler at address h.
AsmWithHandler(code, h, handler) ==
  [p \in Word |-> IF p < Len(code) THEN code[p + 1]
                  ELSE IF p >= h /\ p < h + Len(handler) THEN handler[p - h + 1]
                  ELSE End]

-----------------------------------------------------------------------------
(* The timer interrupt: a handler at 11 that prints x1, re-arms the timer  *)
(* and returns; start-up code that arms the timer and opens the window     *)
(* with MRET, so that interrupts are taken from address 6 on.              *)

TimerHandler == << I("sw", "x0", "x0", "x1", 15), CsrI("x0", "mtimecmp", 9),
                   I("mret", "x0", "x0", "x0", 0) >>

EnableTimer == << CsrI("x0", "mtvec", 11), CsrI("x0", "mie", 1), CsrI("x1", "mepc", 6),
                  CsrI("x0", "mtimecmp", 9), CsrI("x0", "mstatus", 6), I("mret", "x0", "x0", "x0", 0) >>
=============================================================================
