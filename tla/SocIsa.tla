------------------------------- MODULE SocIsa -------------------------------
(***************************************************************************)
(* The vocabulary shared by the architectural machine (IsaMachine) and the *)
(* out-of-order core (SocCore): machine words, registers, decoded          *)
(* instructions, the results the execution units compute and the machine   *)
(* mode CSR file.  It has no state of its own.                             *)
(*                                                                         *)
(* Words are numbers modulo WORD (the code: 32-bit ap_uint).  A program    *)
(* counter counts instructions: an instruction is 2 or 4 bytes in the code *)
(* (isize), always 1 here.  A jump or a branch carries its target          *)
(* (pc + immediate in the code) in imm.                                    *)
(***************************************************************************)
EXTENDS Integers

CONSTANTS
  WORD,             \* size of the word space, 2^32 in the code
  XRegs, FRegs,     \* integer and floating-point registers
  X0,               \* the integer register that is always zero
  MemWords,         \* words of data memory, OOO_DMEM_WORDS
  UART_TX_ADDR,     \* the address whose stores are printed
  OrW(_, _),        \* bitwise or of two words
  AndNotW(_, _)     \* bitwise and of a word and the complement of another

Word == 0 .. WORD - 1
Regs == XRegs \cup FRegs

ASSUME WordAssumption == WORD \in Nat /\ WORD >= 8
ASSUME RegAssumption  == X0 \in XRegs /\ XRegs \cap FRegs = {}
ASSUME MemAssumption  == MemWords \in Nat \ {0} /\ UART_TX_ADDR \in Word
ASSUME BitsAssumption == \A a, b \in Word : OrW(a, b) \in Word /\ AndNotW(a, b) \in Word

-----------------------------------------------------------------------------
(* Decoded instructions, grouped by the reservation station they need.     *)

AluOps    == {"add", "sub", "addi"}
MdOps     == {"mul", "div"}
FpuOps    == {"fadd", "fdiv", "fmadd", "fmv_x_w", "fmv_w_x"}
LoadOps   == {"lw", "flw"}
StoreOps  == {"sw", "fsw"}
BranchOps == {"beq", "bne"}
CsrOps    == {"csrrw", "csrrwi", "csrrs", "csrrc"}
TrapOps   == {"ecall", "ebreak", "illegal"}
QuickOps  == {"lui", "jal", "fence", "mret"} \cup TrapOps   \* complete at dispatch
Ops       == AluOps \cup MdOps \cup FpuOps \cup LoadOps \cup StoreOps \cup BranchOps
             \cup CsrOps \cup QuickOps \cup {"jalr", "end"}

CsrNames == {"mstatus", "mie", "mtvec", "mscratch", "mepc", "mcause", "mtimecmp"}

Instr == [op : Ops, rd : Regs, rs1 : Regs, rs2 : Regs, rs3 : Regs,
          imm : Word, csr : CsrNames]

Plus(a, b)  == (a + b) % WORD
NextPc(p)   == Plus(p, 1)

\* The register an instruction writes when it retires (X0: none).
Dest(i) == IF i.op \in StoreOps \cup BranchOps \cup TrapOps \cup {"fence", "mret", "end"}
           THEN X0 ELSE i.rd

-----------------------------------------------------------------------------
(* What the units compute.  The FPU's arithmetic is word arithmetic here:  *)
(* no property depends on IEEE rounding, only on which operands it gets.   *)

alu_compute(i, a, b) == IF i.op = "sub" THEN (a - b) % WORD ELSE Plus(a, b)

md_compute(i, a, b) ==
  IF i.op = "mul" THEN (a * b) % WORD
  ELSE IF b = 0 THEN WORD - 1 ELSE a \div b

fpu_compute(i, a, b, c) ==
  CASE i.op = "fadd"  -> Plus(a, b)
    [] i.op = "fdiv"  -> IF b = 0 THEN WORD - 1 ELSE a \div b
    [] i.op = "fmadd" -> (a * b + c) % WORD
    [] OTHER          -> a

branch_taken(i, a, b) == IF i.op = "beq" THEN a = b ELSE a # b

MemIndex(addr) == addr % MemWords

-----------------------------------------------------------------------------
(* Machine-mode CSRs.  mstatus is kept as its three fields; cause codes    *)
(* are small words: 2 illegal, 3 breakpoint, 4 and 5 environment call from *)
(* U and M mode (8 and 11 in the code), 7 machine timer interrupt.         *)

CAUSE_ILLEGAL == 2
CAUSE_BREAK   == 3
CAUSE_ECALL_U == 4
CAUSE_ECALL_M == 5
CAUSE_TIMER   == 7

PRV_U == 0
PRV_M == 3

CsrFile == [mie : BOOLEAN, mpie : BOOLEAN, mpp : {PRV_U, PRV_M}, mtie : BOOLEAN,
            mtvec : Word, mscratch : Word, mepc : Word, mcause : Word,
            mtimecmp : Word, priv : {PRV_U, PRV_M}]

CsrReset == [mie |-> FALSE, mpie |-> FALSE, mpp |-> PRV_U, mtie |-> FALSE,
             mtvec |-> 0, mscratch |-> 0, mepc |-> 0, mcause |-> 0,
             mtimecmp |-> WORD - 1, priv |-> PRV_M]

Bit(v, k) == (v \div k) % 2 = 1

read_csr(c, name) ==
  CASE name = "mstatus"  -> (IF c.mie THEN 1 ELSE 0) + (IF c.mpie THEN 2 ELSE 0)
                            + (IF c.mpp = PRV_M THEN 4 ELSE 0)
    [] name = "mie"      -> IF c.mtie THEN 1 ELSE 0
    [] name = "mtvec"    -> c.mtvec
    [] name = "mscratch" -> c.mscratch
    [] name = "mepc"     -> c.mepc
    [] name = "mcause"   -> c.mcause
    [] name = "mtimecmp" -> c.mtimecmp

write_csr(c, name, v) ==
  CASE name = "mstatus"  -> [c EXCEPT !.mie = Bit(v, 1), !.mpie = Bit(v, 2),
                                      !.mpp = IF Bit(v, 4) THEN PRV_M ELSE PRV_U]
    [] name = "mie"      -> [c EXCEPT !.mtie = Bit(v, 1)]
    [] name = "mtvec"    -> [c EXCEPT !.mtvec = v]
    [] name = "mscratch" -> [c EXCEPT !.mscratch = v]
    [] name = "mepc"     -> [c EXCEPT !.mepc = v]
    [] name = "mcause"   -> [c EXCEPT !.mcause = v]
    [] name = "mtimecmp" -> [c EXCEPT !.mtimecmp = v]

\* The new value a CSR instruction writes.
CsrNewValue(i, old, src) ==
  CASE i.op \in {"csrrw", "csrrwi"} -> src
    [] i.op = "csrrs"               -> OrW(old, src)
    [] i.op = "csrrc"               -> AndNotW(old, src)
    [] OTHER                        -> old

\* Entry into the handler, for an exception and for the timer interrupt.
EnterTrap(c, p, cause) ==
  [c EXCEPT !.mepc = p, !.mcause = cause, !.mpie = c.mie, !.mie = FALSE,
            !.mpp = c.priv, !.priv = PRV_M]

\* mcause of an exception: an environment call reports the mode it came from.
TrapCause(c, cause) ==
  IF cause = CAUSE_ECALL_M /\ c.priv = PRV_U THEN CAUSE_ECALL_U ELSE cause

\* MRET: back to the privilege and interrupt enable of before the trap.
LeaveTrap(c) ==
  [c EXCEPT !.mie = c.mpie, !.mpie = TRUE, !.mpp = PRV_U, !.priv = c.mpp]

CauseOf(i) ==
  CASE i.op = "ecall"  -> CAUSE_ECALL_M
    [] i.op = "ebreak" -> CAUSE_BREAK
    [] OTHER           -> CAUSE_ILLEGAL

InterruptEnabled(c) == c.mie /\ c.mtie /\ c.mtvec # 0
=============================================================================
