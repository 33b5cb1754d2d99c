--------------------------- MODULE OooCoreCorrect ---------------------------
(***************************************************************************)
(* The earlier out-of-order core implements the machine that executes one  *)
(* instruction at a time, proved for every value of the constants.         *)
(*                                                                         *)
(* At the head of the ROB an instruction finds program order: the          *)
(* registers are those of the register file, vl and vtype are those of the *)
(* last retirement, and so is the vector register file, whatever younger   *)
(* instructions have done to it since.  The invariants say what each entry *)
(* in flight must be for that: its operands, its result, the configuration *)
(* and the vector registers it leaves, and the one the fetch went on with. *)
(***************************************************************************)
EXTENDS OooCoreRefines, OooCoreProofs

PlainOps  == {"lui", "jal"} \cup HaltOps \cup NoOps
JumpOps   == BranchOps \cup {"jalr"}
VecOps    == VArithOps \cup VMemOps
VecWrites == VArithOps \cup {"vle32"}
HeadOps   == LoadOps \cup CsrOps \cup VMemOps

InsAt(t) == prog[eff[t].pc]

\* The operations a unit executes.
UnitOps(u) ==
  CASE u \in AluUnits -> AluOps
    [] u = "md"  -> MdOps
    [] u = "fpu" -> FpuOps
    [] u = "br"  -> JumpOps
    [] u = "lsu" -> LoadOps \cup StoreOps
    [] u = "vec" -> VecOps
    [] u = "sys" -> CsrOps

EntryDecoded(t) ==
  LET i == InsAt(t) IN
  /\ i.op \in PlainOps \cup NeedUnit \cup VSetOps
  /\ rob[t].dest = DestOf(i)
  /\ rob[t].is_store <=> i.op \in StoreOps
  /\ rob[t].is_ecall <=> i.op \in HaltOps

StationDecoded(u) ==
  /\ InsOf(u).op \in UnitOps(u)
  /\ u \in Timed /\ rs[u].executing => OperandsReady(u)

\* The flags of an entry and the place of a station are those of its instruction.
Decoded ==
  /\ \A t \in Tags : InFlight(t) => EntryDecoded(t)
  /\ \A u \in Units : rs[u].busy => StationDecoded(u)

-----------------------------------------------------------------------------
(* Scalar operands, as in program order.                                   *)

\* The last instruction before t that writes r is w; there is none.
LastWriter(w, r, t) ==
  /\ InFlight(w) /\ rob[w].dest = r /\ Age(w) < Age(t)
  /\ \A x \in Tags : InFlight(x) /\ rob[x].dest = r /\ Age(x) < Age(t) => Age(x) <= Age(w)
NoWriter(r, t) == \A x \in Tags : InFlight(x) /\ rob[x].dest = r => ~(Age(x) < Age(t))

\* In program order the instruction of t finds v in r.
Sees(r, t, v) ==
  IF r = X0 THEN v = 0
  ELSE \/ NoWriter(r, t) /\ v = regfile[r]
       \/ \E w \in Tags : LastWriter(w, r, t) /\ rob[w].ready /\ v = rob[w].value

\* The k-th operand of instruction i is a register, this one, or else this word.
ReadsReg(i, k) ==
  CASE k = 1 -> i.op \notin {"csrrwi", "vsetivli"} \cup PlainOps \cup VArithOps
    [] k = 2 -> i.op \in {"add", "sub", "fadd", "fdiv", "fmadd", "vsetvl"}
                         \cup MdOps \cup StoreOps \cup BranchOps
    [] k = 3 -> i.op = "fmadd"
SrcReg(i, k) == IF k = 1 THEN i.rs1 ELSE IF k = 2 THEN i.rs2 ELSE i.rs3
SrcImm(i, k) == IF k = 1 \/ (i.op = "addi" /\ k = 2) THEN i.imm ELSE 0

Reads(i, k, t, v) == IF ReadsReg(i, k) THEN Sees(SrcReg(i, k), t, v) ELSE v = SrcImm(i, k)

OperandRight(u, k) ==
  LET src == rs[u].src[k]
      t   == rs[u].rob_tag
      i   == InsOf(u)
  IN IF src.ready THEN Reads(i, k, t, src.val)
     ELSE ReadsReg(i, k) /\ SrcReg(i, k) # X0 /\ LastWriter(src.tag, SrcReg(i, k), t)

OperandsRight == \A u \in Units : Listens(u) => \A k \in 1 .. 3 : OperandRight(u, k)

-----------------------------------------------------------------------------
(* The path.  There is no speculation: the fetch waits for the youngest    *)
(* entry whenever it does not know where to go.                            *)

\* Where the fetch went on after entry t.
Follower(t) == IF Age(t) = rob_count - 1 THEN fetch_pc ELSE eff[Inc(t)].pc

PathRight ==
  /\ \A t \in Tags : InFlight(t) /\ InsAt(t).op \notin JumpOps =>
       Follower(t) = IF InsAt(t).op = "jal" THEN InsAt(t).imm ELSE NextPc(eff[t].pc)
  /\ fetch_stalled <=> rs["br"].busy
  /\ rs["br"].busy => Age(rs["br"].rob_tag) = rob_count - 1
  /\ fetch_done => Fetched.op = "end" /\ ~fetch_stalled

-----------------------------------------------------------------------------
(* The vector configuration and the vector registers.                      *)

Prev(t) == IF t = 0 THEN ROB_SZ - 1 ELSE t - 1

\* vl and vtype before and after entry t, and behind the youngest.
Leaves(t)   == [vl |-> eff[t].vl, vtype |-> eff[t].vtype]
Retires     == [vl |-> arch.vl, vtype |-> arch.vtype]
ConfigAt(t) == IF t = rob_head THEN Retires ELSE Leaves(Prev(t))

ConfigRight ==
  /\ \A t \in Tags : InFlight(t) /\ InsAt(t).op \notin VSetOps => Leaves(t) = ConfigAt(t)
  /\ [vl |-> csr_vl, vtype |-> csr_vtype] = IF rob_count = 0 THEN Retires ELSE Leaves(Prev(rob_tail))
  /\ rs["vec"].busy => rs["vec"].vl = eff[rs["vec"].rob_tag].vl

VecWriter(t) == InFlight(t) /\ InsAt(t).op \in VecWrites

\* In program order an instruction of age n finds the vector registers V.
VSees(n, V) ==
  \/ (\A x \in Tags : VecWriter(x) => Age(x) >= n) /\ V = arch.vregs
  \/ \E w \in Tags : /\ VecWriter(w) /\ Age(w) < n /\ rob[w].ready /\ V = eff[w].vregs
                     /\ \A x \in Tags : VecWriter(x) /\ Age(x) < n => Age(x) <= Age(w)

\* There is one vector instruction at a time: the vector station holds the
\* youngest, the others are complete, and the registers are those it finds.
VectorRight ==
  /\ \A t \in Tags : InFlight(t) /\ InsAt(t).op \in VecOps =>
       \/ rob[t].ready /\ (rs["vec"].busy => Age(t) < Age(rs["vec"].rob_tag))
       \/ rs["vec"].busy /\ rs["vec"].rob_tag = t
  /\ VSees(IF rs["vec"].busy THEN Age(rs["vec"].rob_tag) ELSE rob_count, vregs)

-----------------------------------------------------------------------------
(* The results.                                                            *)

\* What the scalar units and the quick dispatch leave in an entry.
ScalarOutcome(t, a, b, c) ==
  LET i == InsAt(t) IN
  /\ i.op \in AluOps => rob[t].value = alu_compute(i, a, b)
  /\ i.op \in MdOps  => rob[t].value = md_compute(i, a, b)
  /\ i.op \in FpuOps => rob[t].value = fpu_compute(i, a, b, c)
  /\ i.op \in StoreOps => rob[t].addr = Plus(a, i.imm) /\ rob[t].sdata = b
  /\ i.op = "lui" => rob[t].value = i.imm
  /\ i.op \in {"jal", "jalr"} => rob[t].value = NextPc(eff[t].pc)

\* Where a jump went.
JumpOutcome(t, a, b) ==
  LET i == InsAt(t) IN
  /\ i.op = "jalr" => Follower(t) = Plus(a, i.imm)
  /\ i.op \in BranchOps =>
       Follower(t) = IF branch_taken(i, a, b) THEN i.imm ELSE NextPc(eff[t].pc)

\* What a vset* has configured.
VsetOutcome(t, a, b) ==
  LET i == InsAt(t) IN
  i.op \in VSetOps => /\ eff[t].vtype = VsetType(i, b)
                      /\ eff[t].vl = VsetLength(i, eff[t].vtype, a, ConfigAt(t).vl)
                      /\ rob[t].value = eff[t].vl

\* What a load has read; the head is the only one that may.
LoadOutcome(t, a) ==
  LET i == InsAt(t) IN
  /\ i.op \in HeadOps => t = rob_head
  /\ i.op \in LoadOps => rob[t].value = dmem[MemIndex(Plus(a, i.imm))]
  /\ i.op = "vle32" => eff[t].vregs = VectorLoaded(i, arch.vregs, dmem, a, eff[t].vl)

\* What vector arithmetic has computed.
ArithOutcome(t) ==
  LET i == InsAt(t) IN
  i.op \in VArithOps =>
    \E V \in VecFile : VSees(Age(t), V) /\ eff[t].vregs = vec_arith_compute(i, V, eff[t].vl)

Explained(t) ==
  /\ \E a, b, c \in Word :
       /\ Reads(InsAt(t), 1, t, a) /\ Reads(InsAt(t), 2, t, b) /\ Reads(InsAt(t), 3, t, c)
       /\ ScalarOutcome(t, a, b, c) /\ JumpOutcome(t, a, b) /\ VsetOutcome(t, a, b)
       /\ LoadOutcome(t, a)
  /\ ArithOutcome(t)

ResultsRight == \A t \in Tags : InFlight(t) /\ rob[t].ready => Explained(t)

ZeroRegister == regfile[X0] = 0

\* An environment call that has retired ends the tick it retired in.
Halts == ecall_halt /\ ~halted => stage # "commit"

OrderInv == Decoded /\ OperandsRight /\ PathRight /\ ConfigRight /\ VectorRight /\ ResultsRight
            /\ ZeroRegister /\ Halts
OrderCore == PipeCore /\ OrderInv

\* The steps of the core that are no steps of the machine: a CSR instruction
\* reads what a vset* behind it has written, or something at the head takes
\* effect behind a retired environment call.
Departs ==
  \/ SysExecute /\ InsOf("sys").csr = "vl" /\ csr_vl # arch.vl
  \/ SysExecute /\ InsOf("sys").csr = "vtype" /\ csr_vtype # arch.vtype
  \/ ecall_halt /\ (SysExecute \/ VecStore)

-----------------------------------------------------------------------------
(* The three kinds of steps, as the lemmas below need them.                *)

\* Units work: the entries in flight stay, keep what the dispatch has
\* decided, and the completed ones keep everything.
KeepsFlight ==
  /\ UNCHANGED <<prog, rob_head, rob_tail, rob_count, regfile, arch, csr_vl, csr_vtype>>
  /\ dmem' = dmem \/ ~rob[rob_head].ready
  /\ \A t \in Tags : /\ eff'[t].pc = eff[t].pc /\ eff'[t].vl = eff[t].vl /\ eff'[t].vtype = eff[t].vtype
                     /\ InFlight(t) =>
                          /\ rob'[t].dest = rob[t].dest
                          /\ rob'[t].is_store = rob[t].is_store /\ rob'[t].is_ecall = rob[t].is_ecall
                          /\ rob[t].ready => rob'[t] = rob[t] /\ eff'[t] = eff[t]

\* A busy station is still the same, and its operands have at most heard a result.
HearsOnly(u) ==
  /\ rs[u].busy /\ rs'[u].rob_tag = rs[u].rob_tag /\ rs'[u].pc = rs[u].pc /\ rs'[u].vl = rs[u].vl
  /\ rs'[u].executing => rs[u].executing \/ u = "vec" \/ OperandsReady(u)
  /\ \A k \in 1 .. 3 :
       \/ rs'[u].src[k] = rs[u].src[k]
       \/ LET w == rs[u].src[k].tag IN
          /\ ~rs[u].src[k].ready /\ rs'[u].src[k].ready
          /\ rob'[w].ready /\ rs'[u].src[k].val = rob'[w].value

-----------------------------------------------------------------------------
(* The ring, and what is typed.                                            *)

LEMMA Neighbours ==
  ASSUME WellTyped, NEW t \in Tags
  PROVE  /\ Inc(t) \in Tags /\ Prev(t) \in Tags /\ Inc(Prev(t)) = t /\ Prev(Inc(t)) = t
         /\ t # rob_head => Age(Prev(t)) = Age(t) - 1
         /\ Age(t) < ROB_SZ - 1 => Age(Inc(t)) = Age(t) + 1
<1>1. /\ ROB_SZ \in Nat /\ ROB_SZ >= 2 /\ rob_head \in 0 .. ROB_SZ - 1 /\ t \in 0 .. ROB_SZ - 1
  BY Counters DEF Tags
<1>2. Inc(t) \in Tags /\ Prev(t) \in Tags /\ Inc(Prev(t)) = t /\ Prev(Inc(t)) = t
  BY <1>1 DEF Inc, Prev, Tags
<1>3. t # rob_head => Age(Prev(t)) = Age(t) - 1
  BY <1>1 DEF Age, Prev
<1>4. Age(t) < ROB_SZ - 1 => Age(Inc(t)) = Age(t) + 1
  BY <1>1 DEF Age, Inc
<1> QED BY <1>2, <1>3, <1>4

\* An entry in flight with a younger one is followed by it.
LEMMA FollowedBy ==
  ASSUME WellTyped, NEW t \in Tags, InFlight(t)
  PROVE  /\ Age(t) # rob_count - 1 => InFlight(Inc(t)) /\ Age(Inc(t)) = Age(t) + 1
         /\ t # rob_head => InFlight(Prev(t)) /\ Age(Prev(t)) = Age(t) - 1
<1>1. /\ ROB_SZ \in Nat /\ ROB_SZ >= 2 /\ rob_count \in 0 .. ROB_SZ
      /\ Age(t) \in 0 .. ROB_SZ - 1 /\ Age(t) < rob_count
  BY Counters, Ages DEF InFlight
<1>2. Age(t) # rob_count - 1 => Age(t) < ROB_SZ - 1
  BY <1>1
<1> QED BY <1>1, <1>2, Neighbours DEF InFlight

\* The entry in front of the tail is the youngest.
LEMMA BeforeTail ==
  ASSUME WellTyped, RobWindow, rob_count > 0
  PROVE  InFlight(Prev(rob_tail)) /\ Age(Prev(rob_tail)) = rob_count - 1
<1>1. /\ ROB_SZ \in Nat /\ ROB_SZ >= 2 /\ rob_head \in 0 .. ROB_SZ - 1
      /\ rob_count \in 1 .. ROB_SZ /\ rob_tail \in 0 .. ROB_SZ - 1
  BY Counters DEF Tags
<1>2. Age(Prev(rob_tail)) = rob_count - 1
  BY <1>1 DEF RobWindow, Age, Prev
<1> QED BY <1>1, <1>2 DEF InFlight

LEMMA EffTyped ==
  ASSUME WellTyped, NEW t \in Tags
  PROVE  /\ eff[t] \in [pc : Word, vregs : VecFile, vl : 0 .. VLMAX, vtype : Word]
         /\ eff[t].pc \in Word /\ eff[t].vregs \in VecFile /\ eff[t].vl \in 0 .. VLMAX
         /\ eff[t].vtype \in Word
         /\ OooInstr(InsAt(t)) /\ rob[t] \in RobEntry /\ rob[t].dest \in Regs
<1>1. eff[t] \in [pc : Word, vregs : VecFile, vl : 0 .. VLMAX, vtype : Word]
  BY DEF WellTyped, OooTypeOK
<1>2. rob[t] \in RobEntry
  BY DEF WellTyped, OooTypeOK
<1> QED BY <1>1, <1>2, CodeTyped DEF InsAt, RobEntry

\* The instruction of a busy station is that of its entry.
LEMMA StationIns ==
  ASSUME PipeCore, NEW u \in Units, rs[u].busy
  PROVE  /\ InsOf(u) = InsAt(rs[u].rob_tag) /\ rs[u].rob_tag \in Tags
         /\ InFlight(rs[u].rob_tag) /\ ~rob[rs[u].rob_tag].ready
  BY Counters DEF PipeCore, PipelineInv, StationsOwn, InsOf, InsAt

LEMMA ArgumentsTyped ==
  ASSUME NEW i, OooInstr(i), NEW k \in 1 .. 3 PROVE SrcReg(i, k) \in Regs /\ SrcImm(i, k) \in Word
  BY SmallWords DEF OooInstr, SrcReg, SrcImm

-----------------------------------------------------------------------------
(* Where an instruction finds its operands, through each kind of step.     *)

LEMMA SeesKept ==
  ASSUME KeepsFlight, NEW r, NEW t \in Tags
  PROVE  /\ NoWriter(r, t)' <=> NoWriter(r, t)
         /\ \A w \in Tags : LastWriter(w, r, t)' <=> LastWriter(w, r, t)
         /\ \A v : Sees(r, t, v) => Sees(r, t, v)'
<1>1. \A x \in Tags : /\ InFlight(x)' <=> InFlight(x)
                      /\ Age(x)' = Age(x)
                      /\ InFlight(x) => rob'[x].dest = rob[x].dest /\ (rob[x].ready => rob'[x] = rob[x])
  BY DEF KeepsFlight, InFlight, Age
<1>2. NoWriter(r, t)' <=> NoWriter(r, t)
  BY <1>1 DEF NoWriter
<1>3. \A w \in Tags : LastWriter(w, r, t)' <=> LastWriter(w, r, t)
  BY <1>1 DEF LastWriter
<1>4. ASSUME NEW v, Sees(r, t, v) PROVE Sees(r, t, v)'
  <2>1. CASE r = X0
    BY <1>4, <2>1 DEF Sees
  <2>2. CASE r # X0 /\ NoWriter(r, t) /\ v = regfile[r]
    BY <1>2, <2>2 DEF Sees, KeepsFlight
  <2>3. ASSUME NEW w \in Tags, r # X0, LastWriter(w, r, t), rob[w].ready, v = rob[w].value
        PROVE  Sees(r, t, v)'
    <3>1. rob'[w] = rob[w]
      BY <1>1, <2>3 DEF LastWriter
    <3> QED BY <1>3, <2>3, <3>1 DEF Sees
  <2> QED BY <1>4, <2>1, <2>2, <2>3 DEF Sees
<1> QED BY <1>2, <1>3, <1>4

LEMMA ReadsKept ==
  ASSUME KeepsFlight, NEW i, NEW k \in 1 .. 3, NEW t \in Tags, NEW v, Reads(i, k, t, v)
  PROVE  Reads(i, k, t, v)'
  BY SeesKept DEF Reads

\* The head writes its register.
LEMMA RetireWrites ==
  ASSUME PipeCore, Decoded, Commit
  PROVE  /\ regfile' = IF HeadEntry.dest = X0 THEN regfile
                       ELSE [regfile EXCEPT ![HeadEntry.dest] = HeadEntry.value]
         /\ rob_head \in Tags /\ InFlight(rob_head) /\ HeadEntry = rob[rob_head]
         /\ rob[rob_head].ready /\ EntryDecoded(rob_head) /\ HeadIns = InsAt(rob_head)
<1>1. /\ rob_head \in Tags /\ InFlight(rob_head) /\ HeadEntry = rob[rob_head] /\ rob[rob_head].ready
      /\ HeadIns = InsAt(rob_head)
  BY HeadInFlight, Counters DEF PipeCore, Commit, HeadReady, HeadEntry, HeadIns, InsAt
<1>2. EntryDecoded(rob_head)
  BY <1>1 DEF Decoded
<1>3. HeadEntry.is_store \/ HeadEntry.is_ecall => HeadEntry.dest = X0
  BY <1>1, <1>2 DEF EntryDecoded, DestOf
<1> QED BY <1>1, <1>2, <1>3 DEF Commit

\* The register of the head moves from the ROB to the register file: who
\* found it there finds it here.
LEMMA RetireSees ==
  ASSUME PipeCore, Decoded, Commit,
         NEW r \in Regs \ {X0}, NEW t \in Tags, InFlight(t), t # rob_head
  PROVE  /\ NoWriter(r, t) => NoWriter(r, t)' /\ regfile'[r] = regfile[r]
         /\ \A w \in Tags : LastWriter(w, r, t) /\ w # rob_head => LastWriter(w, r, t)'
         /\ LastWriter(rob_head, r, t) => NoWriter(r, t)' /\ regfile'[r] = rob[rob_head].value
<1>1. /\ \A x \in Tags : InFlight(x)' <=> InFlight(x) /\ x # rob_head
      /\ \A x \in Tags : InFlight(x) /\ x # rob_head => Age(x)' = Age(x) - 1
      /\ \A x \in Tags : x # rob_head => rob'[x] = rob[x]
  BY RetireWindow DEF PipeCore, PipelineInv, Commit
<1>2. /\ rob_head \in Tags /\ InFlight(rob_head) /\ Age(rob_head) = 0
      /\ \A x \in Tags : Age(x) \in Nat /\ (Age(x) = 0 <=> x = rob_head)
      /\ rob_count \in Nat
  BY HeadInFlight, Counters, Ages, OooAssumption DEF PipeCore, Commit, HeadReady
<1>3. regfile \in [Regs -> Word] /\ HeadEntry = rob[rob_head]
      /\ regfile' = IF HeadEntry.dest = X0 THEN regfile
                    ELSE [regfile EXCEPT ![HeadEntry.dest] = HeadEntry.value]
  BY RetireWrites DEF PipeCore, WellTyped, OooTypeOK
<1>4. \A x, y \in Tags : InFlight(x) /\ x # rob_head /\ InFlight(y) /\ y # rob_head =>
        /\ Age(x)' < Age(y)' <=> Age(x) < Age(y)
        /\ Age(x)' <= Age(y)' <=> Age(x) <= Age(y)
  BY <1>1, <1>2
<1>5. ASSUME NoWriter(r, t) PROVE NoWriter(r, t)' /\ regfile'[r] = regfile[r]
  <2>1. Age(rob_head) < Age(t)
    BY <1>2
  <2>2. rob[rob_head].dest # r
    BY <1>2, <1>5, <2>1 DEF NoWriter
  <2>3. regfile'[r] = regfile[r]
    BY <1>3, <2>2
  <2> QED BY <1>1, <1>4, <1>5, <2>3 DEF NoWriter
<1>6. ASSUME NEW w \in Tags, LastWriter(w, r, t), w # rob_head PROVE LastWriter(w, r, t)'
  BY <1>1, <1>4, <1>6 DEF LastWriter
<1>7. ASSUME LastWriter(rob_head, r, t)
      PROVE  NoWriter(r, t)' /\ regfile'[r] = rob[rob_head].value
  <2>1. regfile'[r] = rob[rob_head].value
    BY <1>3, <1>7 DEF LastWriter
  <2>2. \A x \in Tags : InFlight(x) /\ rob[x].dest = r /\ Age(x) < Age(t) => x = rob_head
    BY <1>2, <1>7 DEF LastWriter
  <2> QED BY <1>1, <1>4, <2>1, <2>2 DEF NoWriter
<1> QED BY <1>5, <1>6, <1>7

LEMMA RetireReads ==
  ASSUME PipeCore, Decoded, Commit,
         NEW i, OooInstr(i), NEW k \in 1 .. 3, NEW t \in Tags, InFlight(t), t # rob_head,
         NEW v, Reads(i, k, t, v)
  PROVE  Reads(i, k, t, v)'
<1>1. CASE ~ReadsReg(i, k)
  BY <1>1 DEF Reads
<1>2. CASE ReadsReg(i, k)
  <2>1. PICK r \in Regs : r = SrcReg(i, k)
    BY ArgumentsTyped
  <2>2. Sees(r, t, v)
    BY <1>2, <2>1 DEF Reads
  <2> SUFFICES Sees(r, t, v)'
    BY <1>2, <2>1 DEF Reads
  <2>3. CASE r = X0
    BY <2>2, <2>3 DEF Sees
  <2>4. CASE r # X0 /\ NoWriter(r, t) /\ v = regfile[r]
    BY <2>1, <2>4, RetireSees DEF Sees
  <2>5. ASSUME NEW w \in Tags, r # X0, LastWriter(w, r, t), rob[w].ready, v = rob[w].value
        PROVE  Sees(r, t, v)'
    <3>1. CASE w = rob_head
      BY <2>1, <2>5, <3>1, RetireSees DEF Sees
    <3>2. CASE w # rob_head
      <4>1. rob'[w] = rob[w]
        BY <3>2, RetireWindow DEF PipeCore, PipelineInv, Commit
      <4> QED BY <2>1, <2>5, <3>2, <4>1, RetireSees DEF Sees
    <3> QED BY <3>1, <3>2
  <2> QED BY <2>2, <2>3, <2>4, <2>5 DEF Sees
<1> QED BY <1>1, <1>2

\* An instruction that enters is younger than everyone: it changes nothing
\* for them.
LEMMA EnterSees ==
  ASSUME WellTyped, RobWindow, MayFetch, NEW complete \in BOOLEAN, NEW p, Enter(complete, p),
         regfile' = regfile, NEW r, NEW t \in Tags, InFlight(t) \/ t = rob_tail
  PROVE  /\ NoWriter(r, t)' <=> NoWriter(r, t)
         /\ \A w \in Tags : LastWriter(w, r, t)' <=> LastWriter(w, r, t)
         /\ \A v : Sees(r, t, v) => Sees(r, t, v)'
<1>1. /\ \A x \in Tags : InFlight(x)' <=> InFlight(x) \/ x = rob_tail
      /\ \A x \in Tags : Age(x)' = Age(x)
      /\ \A x \in Tags : x # rob_tail => rob'[x] = rob[x]
  BY EnterWindow
<1>2. rob_tail \in Tags /\ ~InFlight(rob_tail) /\ Age(rob_tail) = rob_count
  BY TailIsFree, Counters DEF MayFetch
<1>3. \A x \in Tags : Age(x) \in Nat /\ (InFlight(x) <=> Age(x) < rob_count)
  BY Ages, OooAssumption DEF InFlight
<1>4. rob_count \in Nat /\ ~(Age(rob_tail) < Age(t))
  BY <1>2, <1>3, Counters
<1>5. NoWriter(r, t)' <=> NoWriter(r, t)
  BY <1>1, <1>2, <1>4 DEF NoWriter
<1>6. \A w \in Tags : LastWriter(w, r, t)' <=> LastWriter(w, r, t)
  BY <1>1, <1>2, <1>4 DEF LastWriter
<1>7. ASSUME NEW v, Sees(r, t, v) PROVE Sees(r, t, v)'
  <2>1. CASE r = X0
    BY <1>7, <2>1 DEF Sees
  <2>2. CASE r # X0 /\ NoWriter(r, t) /\ v = regfile[r]
    BY <1>5, <2>2 DEF Sees
  <2>3. ASSUME NEW w \in Tags, r # X0, LastWriter(w, r, t), rob[w].ready, v = rob[w].value
        PROVE  Sees(r, t, v)'
    <3>1. rob'[w] = rob[w]
      BY <1>1, <1>2, <2>3 DEF LastWriter
    <3> QED BY <1>6, <2>3, <3>1 DEF Sees
  <2> QED BY <1>7, <2>1, <2>2, <2>3 DEF Sees
<1> QED BY <1>5, <1>6, <1>7

LEMMA EnterReads ==
  ASSUME WellTyped, RobWindow, MayFetch, NEW complete \in BOOLEAN, NEW p, Enter(complete, p),
         regfile' = regfile, NEW t \in Tags, InFlight(t) \/ t = rob_tail,
         NEW i, NEW k \in 1 .. 3, NEW v, Reads(i, k, t, v)
  PROVE  Reads(i, k, t, v)'
  BY EnterSees DEF Reads

\* The renamed operand read finds what the instruction that enters would
\* find in program order, or whom to wait for.
LEMMA ReadRight ==
  ASSUME PipeCore, MayFetch, NEW r \in Regs
  PROVE  LET op == read_operand(r) IN
         /\ op.ready => Sees(r, rob_tail, op.val)
         /\ ~op.ready => r # X0 /\ LastWriter(op.tag, r, rob_tail)
<1> DEFINE op == read_operand(r)
<1>0. WellTyped /\ RobWindow /\ RatNamesYoungestWriter
  BY DEF PipeCore, PipelineInv
<1>1. rob_tail \in Tags /\ Age(rob_tail) = rob_count
  BY <1>0, TailIsFree, Counters DEF MayFetch
<1>2. CASE r = X0
  BY <1>2 DEF read_operand, Ready, Sees
<1>3. CASE r # X0 /\ ~rat[r].has_tag
  <2>1. NoWriter(r, rob_tail)
    BY <1>0, <1>3 DEF RatNamesYoungestWriter, NoWriter
  <2> QED BY <1>3, <2>1 DEF read_operand, Ready, Sees
<1>4. CASE r # X0 /\ rat[r].has_tag
  <2> DEFINE w == rat[r].tag
  <2>1. w \in Tags /\ InFlight(w) /\ rob[w].dest = r
    BY <1>0, <1>4, Counters DEF RatNamesYoungestWriter
  <2>2. \A x \in Tags : InFlight(x) /\ rob[x].dest = r => Age(x) <= Age(w)
    BY <1>0, <1>4 DEF RatNamesYoungestWriter
  <2>3. LastWriter(w, r, rob_tail)
    BY <1>1, <2>1, <2>2 DEF LastWriter, InFlight
  <2>4. op = IF rob[w].ready THEN Ready(rob[w].value) ELSE Waiting(w)
    BY <1>4 DEF read_operand
  <2> HIDE DEF w, op
  <2>5. CASE rob[w].ready
    <3>1. op.ready /\ op.val = rob[w].value
      BY <2>4, <2>5 DEF Ready
    <3> QED BY <1>4, <2>1, <2>3, <2>5, <3>1 DEF Sees, op
  <2>6. CASE ~rob[w].ready
    <3>1. ~op.ready /\ op.tag = w
      BY <2>4, <2>6 DEF Waiting
    <3> QED BY <1>4, <2>3, <3>1 DEF op
  <2> QED BY <2>5, <2>6
<1> QED BY <1>2, <1>3, <1>4

LEMMA SourceRight ==
  ASSUME PipeCore, MayFetch, Fetched.op \in NeedUnit \ VArithOps, NEW k \in 1 .. 3
  PROVE  LET s == Source(Fetched, k) IN
         /\ s.ready => Reads(Fetched, k, rob_tail, s.val)
         /\ ~s.ready => /\ ReadsReg(Fetched, k) /\ SrcReg(Fetched, k) # X0
                        /\ LastWriter(s.tag, SrcReg(Fetched, k), rob_tail)
<1> DEFINE i == Fetched
           s == Source(i, k)
<1>1. OooInstr(i) /\ SrcReg(i, k) \in Regs
  BY CodeTyped, ArgumentsTyped DEF PipeCore
<1>0. i.op \notin {"vsetvl", "vsetivli"} \cup PlainOps \cup VArithOps
  BY DEF PlainOps, HaltOps, NoOps, NeedUnit, AluOps, MdOps, FpuOps, LoadOps, StoreOps, BranchOps, VArithOps, VMemOps, CsrOps
<1>2. s = IF ReadsReg(i, k) THEN read_operand(SrcReg(i, k)) ELSE Ready(SrcImm(i, k))
  <2> HIDE DEF i
  <2>1. CASE k = 1
    BY <1>0, <2>1 DEF ReadsReg, Source, SrcReg, SrcImm
  <2>2. CASE k = 2
    <3> DEFINE two == i.op \in {"add", "sub", "fadd", "fdiv", "fmadd"} \cup MdOps \cup StoreOps \cup BranchOps
    <3>1. s = IF i.op = "addi" THEN Ready(i.imm) ELSE IF two THEN read_operand(i.rs2) ELSE Ready(0)
      BY <2>2 DEF Source, s
    <3>2. ReadsReg(i, k) <=> two
      BY <1>0, <2>2 DEF ReadsReg
    <3>3. i.op = "addi" => ~two
      BY DEF MdOps, StoreOps, BranchOps
    <3>4. SrcReg(i, k) = i.rs2 /\ SrcImm(i, k) = IF i.op = "addi" THEN i.imm ELSE 0
      BY <2>2 DEF SrcReg, SrcImm
    <3> HIDE DEF two, s
    <3> QED BY <3>1, <3>2, <3>3, <3>4
  <2>3. CASE k = 3
    BY <2>3 DEF ReadsReg, Source, SrcReg, SrcImm
  <2> QED BY <2>1, <2>2, <2>3
<1> HIDE DEF i, s
<1>4. CASE ReadsReg(i, k)
  <2>1. /\ s.ready => Sees(SrcReg(i, k), rob_tail, s.val)
        /\ ~s.ready => SrcReg(i, k) # X0 /\ LastWriter(s.tag, SrcReg(i, k), rob_tail)
    BY <1>1, <1>2, <1>4, ReadRight
  <2> QED BY <1>4, <2>1 DEF Reads, i, s
<1>5. CASE ~ReadsReg(i, k)
  <2>1. s.ready /\ s.val = SrcImm(i, k)
    BY <1>2, <1>5 DEF Ready
  <2> QED BY <1>5, <2>1 DEF Reads, i, s
<1> QED BY <1>4, <1>5
-----------------------------------------------------------------------------
(* The path, the configuration and the vector registers, through each kind *)
(* of step.                                                                *)

LEMMA KeptVectors ==
  ASSUME WellTyped, KeepsFlight
  PROVE  /\ \A t \in Tags : ConfigAt(t)' = ConfigAt(t) /\ InsAt(t)' = InsAt(t)
         /\ \A n, V : VSees(n, V) => VSees(n, V)'
         /\ fetch_pc' = fetch_pc => \A t \in Tags : Follower(t)' = Follower(t)
<1>1. \A x \in Tags : /\ InFlight(x)' <=> InFlight(x)
                      /\ Age(x)' = Age(x)
                      /\ InsAt(x)' = InsAt(x) /\ Leaves(x)' = Leaves(x) /\ eff'[x].pc = eff[x].pc
                      /\ InFlight(x) /\ rob[x].ready => rob'[x] = rob[x] /\ eff'[x] = eff[x]
  BY DEF KeepsFlight, InFlight, Age, InsAt, Leaves
<1>2. ASSUME NEW t \in Tags PROVE ConfigAt(t)' = ConfigAt(t)
  <2>1. Prev(t) \in Tags /\ arch' = arch /\ rob_head' = rob_head
    BY Neighbours DEF KeepsFlight
  <2>2. Leaves(Prev(t))' = Leaves(Prev(t))
    BY <1>1, <2>1 DEF Prev
  <2> QED BY <2>1, <2>2 DEF ConfigAt, Retires
<1>3. \A x \in Tags : VecWriter(x)' <=> VecWriter(x)
  BY <1>1 DEF VecWriter
<1>4. ASSUME NEW n, NEW V, VSees(n, V) PROVE VSees(n, V)'
  <2>1. CASE (\A x \in Tags : VecWriter(x) => Age(x) >= n) /\ V = arch.vregs
    BY <1>1, <1>3, <2>1 DEF VSees, KeepsFlight
  <2>2. ASSUME NEW w \in Tags, VecWriter(w), Age(w) < n, rob[w].ready, V = eff[w].vregs,
               \A x \in Tags : VecWriter(x) /\ Age(x) < n => Age(x) <= Age(w)
        PROVE  VSees(n, V)'
    <3>1. rob'[w] = rob[w] /\ eff'[w] = eff[w]
      BY <1>1, <2>2 DEF VecWriter
    <3>2. VecWriter(w)' /\ (Age(w) < n)' /\ (\A x \in Tags : VecWriter(x)' /\ Age(x)' < n => Age(x)' <= Age(w)')
      BY <1>1, <1>3, <2>2
    <3> QED BY <2>2, <3>1, <3>2 DEF VSees
  <2> QED BY <1>4, <2>1, <2>2 DEF VSees
<1>5. ASSUME fetch_pc' = fetch_pc, NEW t \in Tags PROVE Follower(t)' = Follower(t)
  <2>1. Inc(t) \in Tags /\ rob_count' = rob_count
    BY Neighbours DEF KeepsFlight
  <2>2. eff'[Inc(t)].pc = eff[Inc(t)].pc
    BY <1>1, <2>1
  <2> QED BY <1>1, <1>5, <2>1, <2>2 DEF Follower, Inc
<1> QED BY <1>1, <1>2, <1>4, <1>5

LEMMA RetireVectors ==
  ASSUME PipeCore, Commit
  PROVE  /\ \A t \in Tags : InFlight(t) /\ t # rob_head =>
              /\ ConfigAt(t)' = ConfigAt(t) /\ Follower(t)' = Follower(t)
         /\ \A n \in Nat : \A V : n > 0 /\ VSees(n, V) => VSees(n - 1, V)'
<1>0. /\ WellTyped /\ RobWindow /\ HeadReady /\ rob_head \in Tags /\ HeadIns = InsAt(rob_head)
      /\ InFlight(rob_head) /\ Age(rob_head) = 0 /\ rob_count \in Nat
      /\ rob_head' = Inc(rob_head) /\ rob_count' = rob_count - 1 /\ fetch_pc' = fetch_pc
      /\ eff' = eff /\ prog' = prog
      /\ \A x \in Tags : Age(x) \in Nat /\ (Age(x) = 0 <=> x = rob_head)
  BY HeadInFlight, Counters, Ages, OooAssumption
     DEF PipeCore, PipelineInv, Commit, HeadReady, HeadIns, InsAt, front
<1>1. \A x \in Tags : /\ InFlight(x)' <=> InFlight(x) /\ x # rob_head
                      /\ InFlight(x) /\ x # rob_head => Age(x)' = Age(x) - 1
                      /\ x # rob_head => rob'[x] = rob[x]
  BY <1>0, RetireWindow DEF Commit
<1>2. /\ arch'.vl = eff[rob_head].vl /\ arch'.vtype = eff[rob_head].vtype
      /\ arch'.vregs = IF InsAt(rob_head).op \in VecWrites THEN eff[rob_head].vregs ELSE arch.vregs
  <2>1. arch \in VecState /\ arch' = Retired
    BY <1>0 DEF WellTyped, OooTypeOK, Commit
  <2> QED BY <1>0, <2>1 DEF VecState, Retired, VecWrites
<1>3. ASSUME NEW t \in Tags, InFlight(t), t # rob_head
      PROVE  ConfigAt(t)' = ConfigAt(t) /\ Follower(t)' = Follower(t)
  <2>1. Prev(t) \in Tags /\ Inc(Prev(t)) = t /\ Prev(Inc(rob_head)) = rob_head /\ Inc(t) \in Tags
    BY <1>0, Neighbours
  <2>2. ConfigAt(t) = Leaves(Prev(t))
    BY <1>3 DEF ConfigAt
  <2>3. CASE t = Inc(rob_head)
    <3>1. Prev(t) = rob_head
      BY <2>1, <2>3
    <3>2. ConfigAt(t)' = Leaves(rob_head)
      BY <1>0, <1>2, <2>3 DEF ConfigAt, Leaves, Retires
    <3> QED BY <2>2, <3>1, <3>2, <1>0, <1>1, <1>3 DEF Follower, Inc
  <2>4. CASE t # Inc(rob_head)
    <3>1. ConfigAt(t)' = Leaves(Prev(t))
      BY <1>0, <2>4 DEF ConfigAt, Leaves, Prev
    <3> QED BY <2>2, <3>1, <1>0, <1>1, <1>3 DEF Follower, Inc
  <2> QED BY <2>3, <2>4
<1>4. \A x \in Tags : VecWriter(x)' <=> VecWriter(x) /\ x # rob_head
  BY <1>0, <1>1 DEF VecWriter, InsAt
<1>5. VecWriter(rob_head) <=> InsAt(rob_head).op \in VecWrites
  BY <1>0 DEF VecWriter
<1>6. ASSUME NEW n \in Nat, NEW V, n > 0, VSees(n, V) PROVE VSees(n - 1, V)'
  <2>1. CASE (\A x \in Tags : VecWriter(x) => Age(x) >= n) /\ V = arch.vregs
    <3>1. ~VecWriter(rob_head)
      BY <1>0, <1>6, <2>1
    <3>2. V = arch'.vregs
      BY <1>2, <1>5, <2>1, <3>1
    <3>3. \A x \in Tags : VecWriter(x)' => Age(x)' >= n - 1
      BY <1>0, <1>1, <1>4, <1>6, <2>1 DEF VecWriter
    <3> QED BY <3>2, <3>3 DEF VSees
  <2>2. ASSUME NEW w \in Tags, VecWriter(w), Age(w) < n, rob[w].ready, V = eff[w].vregs,
               \A x \in Tags : VecWriter(x) /\ Age(x) < n => Age(x) <= Age(w)
        PROVE  VSees(n - 1, V)'
    <3>1. CASE w = rob_head
      <4>1. V = arch'.vregs
        BY <1>2, <1>5, <2>2, <3>1
      <4>2. \A x \in Tags : VecWriter(x)' => Age(x)' >= n - 1
        BY <1>0, <1>1, <1>4, <1>6, <2>2, <3>1 DEF VecWriter
      <4> QED BY <4>1, <4>2 DEF VSees
    <3>2. CASE w # rob_head
      <4>1. VecWriter(w)' /\ Age(w)' < n - 1 /\ rob'[w].ready /\ V = eff'[w].vregs
        BY <1>0, <1>1, <1>4, <1>6, <2>2, <3>2 DEF VecWriter
      <4>2. \A x \in Tags : VecWriter(x)' /\ Age(x)' < n - 1 => Age(x)' <= Age(w)'
        BY <1>0, <1>1, <1>4, <1>6, <2>2, <3>2 DEF VecWriter
      <4> QED BY <4>1, <4>2 DEF VSees
    <3> QED BY <3>1, <3>2
  <2> QED BY <1>6, <2>1, <2>2 DEF VSees
<1> QED BY <1>3, <1>6

LEMMA EnterVectors ==
  ASSUME PipeCore, ConfigRight, MayFetch, NEW complete \in BOOLEAN, NEW p, Enter(complete, p),
         UNCHANGED <<prog, arch>>, NEW tail \in Tags, tail = rob_tail, NEW N \in Nat, N = rob_count
  PROVE  /\ \A t \in Tags : InFlight(t) =>
              ConfigAt(t)' = ConfigAt(t) /\ Follower(t)' = Follower(t) /\ InsAt(t)' = InsAt(t)
         /\ ConfigAt(tail)' = [vl |-> csr_vl, vtype |-> csr_vtype]
         /\ Follower(tail)' = fetch_pc' /\ InsAt(tail)' = Fetched
         /\ Leaves(tail)' = [vl |-> csr_vl', vtype |-> csr_vtype']
         /\ Prev(rob_tail') = tail
         /\ \A n \in 0 .. N : \A V : VSees(n, V) => VSees(n, V)'
         /\ Fetched.op \notin VecWrites => \A V : VSees(N, V) => VSees(N + 1, V)'
<1>0. /\ WellTyped /\ RobWindow /\ tail = rob_tail /\ N = rob_count
      /\ rob_head' = rob_head /\ rob_tail' = Inc(rob_tail) /\ rob_count' = rob_count + 1
      /\ ~InFlight(tail) /\ Age(tail) = N /\ rob_head \in Tags
      /\ prog' = prog /\ arch' = arch
      /\ \A x \in Tags : Age(x) \in Nat /\ (Age(x) = 0 <=> x = rob_head)
  BY TailIsFree, Counters, Ages, OooAssumption DEF PipeCore, PipelineInv, MayFetch, Enter
<1>1. \A x \in Tags : /\ InFlight(x)' <=> InFlight(x) \/ x = tail
                      /\ Age(x)' = Age(x)
                      /\ x # tail => rob'[x] = rob[x] /\ eff'[x] = eff[x]
  BY <1>0, EnterWindow
<1>2. eff'[tail] = [eff[tail] EXCEPT !.pc = fetch_pc, !.vl = csr_vl', !.vtype = csr_vtype']
  BY <1>0 DEF Enter, WellTyped, OooTypeOK
<1>3. /\ eff'[tail].pc = fetch_pc /\ InsAt(tail)' = Fetched
      /\ Leaves(tail)' = [vl |-> csr_vl', vtype |-> csr_vtype']
  BY <1>0, <1>2, EffTyped DEF InsAt, Fetched, Leaves
<1>4. Prev(rob_tail') = tail
  BY <1>0, Neighbours
<1>5. ASSUME NEW t \in Tags, InFlight(t)
      PROVE  ConfigAt(t)' = ConfigAt(t) /\ Follower(t)' = Follower(t) /\ InsAt(t)' = InsAt(t)
  <2>1. InsAt(t)' = InsAt(t)
    BY <1>0, <1>1, <1>5 DEF InsAt
  <2>2. ConfigAt(t)' = ConfigAt(t)
    <3>1. CASE t = rob_head
      BY <1>0, <3>1 DEF ConfigAt, Retires
    <3>2. CASE t # rob_head
      <4>1. Prev(t) \in Tags /\ InFlight(Prev(t))
        BY <1>0, <1>5, <3>2, FollowedBy, Neighbours
      <4>2. eff'[Prev(t)] = eff[Prev(t)]
        BY <1>0, <1>1, <4>1
      <4> QED BY <1>0, <3>2, <4>2 DEF ConfigAt, Leaves, Prev
    <3> QED BY <3>1, <3>2
  <2>3. Follower(t)' = Follower(t)
    <3>1. CASE Age(t) = N - 1
      <4>1. Prev(tail) \in Tags /\ Age(Prev(tail)) = N - 1
        BY <1>0, <1>5, BeforeTail, Neighbours DEF InFlight
      <4>2. t = Prev(tail)
        BY <1>0, <3>1, <4>1, Ages
      <4>3. Inc(t) = tail
        BY <1>0, <4>2, Neighbours
      <4>4. Age(t)' # rob_count' - 1
        BY <1>0, <1>1, <3>1
      <4> QED BY <1>3, <3>1, <4>3, <4>4 DEF Follower, Inc
    <3>2. CASE Age(t) # N - 1
      <4>1. Inc(t) \in Tags /\ InFlight(Inc(t))
        BY <1>0, <1>5, <3>2, FollowedBy, Neighbours
      <4>2. eff'[Inc(t)] = eff[Inc(t)]
        BY <1>0, <1>1, <4>1
      <4>3. Age(t)' # rob_count' - 1
        BY <1>0, <1>1, <1>5 DEF InFlight
      <4> QED BY <3>2, <4>2, <4>3 DEF Follower, Inc
    <3> QED BY <3>1, <3>2
  <2> QED BY <2>1, <2>2, <2>3
<1>6. Follower(tail)' = fetch_pc'
  BY <1>0, <1>1 DEF Follower
<1>7. ConfigAt(tail)' = [vl |-> csr_vl, vtype |-> csr_vtype]
  <2>1. CASE N = 0
    <3>1. tail = rob_head
      BY <1>0, <2>1
    <3> QED BY <1>0, <2>1, <3>1 DEF ConfigAt, Retires, ConfigRight
  <2>2. CASE N # 0
    <3>1. tail # rob_head
      BY <1>0, <2>2
    <3>2. Prev(tail) \in Tags /\ InFlight(Prev(tail))
      BY <1>0, <2>2, BeforeTail, Neighbours
    <3>3. eff'[Prev(tail)] = eff[Prev(tail)]
      BY <1>0, <1>1, <3>2
    <3>4. ConfigAt(tail)' = Leaves(Prev(tail))
      BY <1>0, <3>1, <3>3 DEF ConfigAt, Leaves, Prev
    <3> QED BY <2>2, <3>4 DEF ConfigRight
  <2> QED BY <2>1, <2>2
<1>8. \A x \in Tags : VecWriter(x)' <=> VecWriter(x) \/ (x = tail /\ Fetched.op \in VecWrites)
  BY <1>0, <1>1, <1>3, <1>5 DEF VecWriter
<1>9. ASSUME NEW n \in 0 .. N + 1, NEW V, NEW m \in Nat, VSees(m, V), m <= N,
             n = m \/ (n = m + 1 /\ m = N /\ Fetched.op \notin VecWrites)
      PROVE  VSees(n, V)'
  <2>0. \A x \in Tags : /\ VecWriter(x)' /\ Age(x)' < n => VecWriter(x) /\ Age(x) < m
                        /\ VecWriter(x) => VecWriter(x)' /\ (Age(x) >= m => Age(x)' >= n \/ ~VecWriter(x))
    BY <1>0, <1>1, <1>8, <1>9 DEF VecWriter, InFlight
  <2>1. CASE (\A x \in Tags : VecWriter(x) => Age(x) >= m) /\ V = arch.vregs
    <3>1. ASSUME NEW x \in Tags, VecWriter(x)' PROVE Age(x)' >= n
      <4>1. Age(x)' \in Nat
        BY <1>0, <1>1
      <4>2. CASE Age(x)' < n
        BY <1>0, <2>0, <2>1, <3>1, <4>2
      <4> QED BY <4>1, <4>2
    <3> QED BY <1>0, <2>1, <3>1 DEF VSees
  <2>2. ASSUME NEW w \in Tags, VecWriter(w), Age(w) < m, rob[w].ready, V = eff[w].vregs,
               \A x \in Tags : VecWriter(x) /\ Age(x) < m => Age(x) <= Age(w)
        PROVE  VSees(n, V)'
    <3>1. w # tail
      BY <1>0, <2>2 DEF VecWriter
    <3>2. VecWriter(w)' /\ Age(w)' < n /\ rob'[w].ready /\ V = eff'[w].vregs
      BY <1>0, <1>1, <1>9, <2>0, <2>2, <3>1
    <3>3. \A x \in Tags : VecWriter(x)' /\ Age(x)' < n => Age(x)' <= Age(w)'
      BY <1>1, <2>0, <2>2
    <3> QED BY <3>2, <3>3 DEF VSees
  <2> QED BY <1>9, <2>1, <2>2 DEF VSees
<1>10. \A n \in 0 .. N : \A V : VSees(n, V) => VSees(n, V)'
  <2> SUFFICES ASSUME NEW n \in 0 .. N, NEW V, VSees(n, V) PROVE VSees(n, V)'
    OBVIOUS
  <2>1. n \in 0 .. N + 1 /\ n \in Nat /\ n <= N
    BY <1>0
  <2> QED BY <1>9, <2>1
<1>11. ASSUME Fetched.op \notin VecWrites, NEW V, VSees(N, V)
       PROVE  VSees(N + 1, V)'
  <2>1. N \in Nat /\ N <= N /\ N + 1 \in 0 .. N + 1
    BY <1>0
  <2> QED BY <1>9, <1>11, <2>1
<1> QED BY <1>3, <1>4, <1>5, <1>6, <1>7, <1>10, <1>11
-----------------------------------------------------------------------------
(* The three kinds of steps keep the order.                                *)

\* The explanation of an entry that stays as it is.
LEMMA ExplainedKept ==
  ASSUME WellTyped, NEW t \in Tags, Explained(t), prog' = prog, rob'[t] = rob[t], eff'[t] = eff[t],
         InsAt(t).op \in HeadOps => UNCHANGED <<dmem, arch, rob_head>>,
         ConfigAt(t)' = ConfigAt(t), Follower(t)' = Follower(t),
         \A i, v : \A k \in 1 .. 3 : OooInstr(i) /\ Reads(i, k, t, v) => Reads(i, k, t, v)',
         \A V : VSees(Age(t), V) => VSees(Age(t), V)'
  PROVE  Explained(t)'
<1>1. PICK i : i = InsAt(t) /\ i = InsAt(t)' /\ OooInstr(i)
  BY EffTyped DEF InsAt
<1>2. 1 \in 1 .. 3 /\ 2 \in 1 .. 3 /\ 3 \in 1 .. 3
  OBVIOUS
<1>3. PICK a \in Word, b \in Word, c \in Word :
        /\ Reads(i, 1, t, a) /\ Reads(i, 2, t, b) /\ Reads(i, 3, t, c)
        /\ ScalarOutcome(t, a, b, c) /\ JumpOutcome(t, a, b) /\ VsetOutcome(t, a, b)
        /\ LoadOutcome(t, a)
  BY <1>1 DEF Explained
<1>4. Reads(i, 1, t, a)' /\ Reads(i, 2, t, b)' /\ Reads(i, 3, t, c)'
  BY <1>1, <1>2, <1>3
<1>5. ScalarOutcome(t, a, b, c)'
  BY <1>1, <1>3 DEF ScalarOutcome
<1>6. JumpOutcome(t, a, b)'
  BY <1>1, <1>3 DEF JumpOutcome
<1>7. VsetOutcome(t, a, b)'
  BY <1>1, <1>3 DEF VsetOutcome
<1>8. LoadOutcome(t, a)'
  <2>1. i.op \in LoadOps \cup {"vle32"} => i.op \in HeadOps
    BY DEF HeadOps, VMemOps
  <2> QED BY <1>1, <1>3, <2>1 DEF LoadOutcome
<1>9. ArithOutcome(t)'
  <2> SUFFICES ASSUME i.op \in VArithOps
               PROVE  \E V \in VecFile : VSees(Age(t), V)' /\ eff'[t].vregs = vec_arith_compute(i, V, eff'[t].vl)
    BY <1>1 DEF ArithOutcome
  <2>1. PICK V \in VecFile : VSees(Age(t), V) /\ eff[t].vregs = vec_arith_compute(i, V, eff[t].vl)
    BY <1>1 DEF Explained, ArithOutcome
  <2> QED BY <2>1
<1> QED BY <1>1, <1>3, <1>4, <1>5, <1>6, <1>7, <1>8, <1>9 DEF Explained

\* Only an entry at the head that has read is explained by what is there.
LEMMA ReadersAreHead ==
  ASSUME NEW t \in Tags, Explained(t), InsAt(t).op \in HeadOps PROVE t = rob_head
  BY DEF Explained, LoadOutcome

\* Units complete entries, each one explained; the others keep theirs.
LEMMA WorkOrder ==
  ASSUME OrderCore, KeepsFlight,
         \A t \in Tags : InFlight(t) =>
           /\ rob[t].ready => Follower(t)' = Follower(t)
           /\ ~rob[t].ready /\ rob'[t].ready => Explained(t)',
         \A u \in Units : rs'[u].busy => HearsOnly(u)
  PROVE  Decoded' /\ OperandsRight' /\ ConfigRight' /\ ResultsRight' /\ ZeroRegister'
<1>0. /\ PipeCore /\ WellTyped /\ RobWindow /\ StationsOwn
      /\ Decoded /\ OperandsRight /\ ConfigRight /\ ResultsRight /\ ZeroRegister
      /\ prog' = prog /\ rob_head' = rob_head /\ rob_tail' = rob_tail /\ rob_count' = rob_count
      /\ arch' = arch /\ regfile' = regfile
  BY DEF OrderCore, OrderInv, PipeCore, PipelineInv, KeepsFlight
<1>1. \A t \in Tags : /\ InFlight(t)' <=> InFlight(t)
                      /\ Age(t)' = Age(t)
                      /\ eff'[t].pc = eff[t].pc /\ eff'[t].vl = eff[t].vl /\ eff'[t].vtype = eff[t].vtype
                      /\ InsAt(t)' = InsAt(t) /\ Leaves(t)' = Leaves(t) /\ ConfigAt(t)' = ConfigAt(t)
  BY <1>0, KeptVectors DEF KeepsFlight, InFlight, Age, Leaves
<1>2. Decoded'
  <2>1. ASSUME NEW t \in Tags, InFlight(t)' PROVE EntryDecoded(t)'
    <3>1. EntryDecoded(t) /\ InFlight(t)
      BY <1>0, <1>1, <2>1 DEF Decoded
    <3> QED BY <1>1, <3>1 DEF EntryDecoded, KeepsFlight
  <2>2. ASSUME NEW u \in Units, rs'[u].busy PROVE StationDecoded(u)'
    <3>0. HearsOnly(u)
      BY <2>2
    <3>1. StationDecoded(u) /\ InsOf(u)' = InsOf(u) /\ UnitOps(u)' = UnitOps(u)
      BY <1>0, <3>0 DEF Decoded, HearsOnly, InsOf, UnitOps
    <3>2. OperandsReady(u) => OperandsReady(u)'
      BY <3>0 DEF HearsOnly, OperandsReady
    <3>3. u \in Timed /\ rs'[u].executing => rs[u].executing \/ OperandsReady(u)
      BY <3>0 DEF HearsOnly, Timed, AluUnits
    <3> QED BY <3>1, <3>2, <3>3 DEF StationDecoded
  <2> QED BY <2>1, <2>2 DEF Decoded
<1>3. OperandsRight'
  <2> SUFFICES ASSUME NEW u \in Units, Listens(u)', NEW k \in 1 .. 3
               PROVE  OperandRight(u, k)'
    BY DEF OperandsRight
  <2>0. HearsOnly(u) /\ OperandRight(u, k)
    <3>1. HearsOnly(u)
      BY DEF Listens
    <3>2. Listens(u)
      <4>0. rs'[u].pc = rs[u].pc
        BY <3>1 DEF HearsOnly
      <4>1. u = "vec" => VecIns' = VecIns
        BY <1>0, <4>0 DEF VecIns, InsOf
      <4> QED BY <3>1, <4>1 DEF Listens, HearsOnly
    <3> QED BY <1>0, <3>1, <3>2 DEF OperandsRight
  <2>1. PICK i, t, w :
          /\ i = InsOf(u) /\ i = InsOf(u)' /\ t = rs[u].rob_tag /\ t = rs'[u].rob_tag
          /\ w = rs[u].src[k].tag /\ OooInstr(i) /\ t \in Tags /\ w \in Tags
    <3>1. InsOf(u) = InsOf(u)' /\ rs[u].rob_tag = rs'[u].rob_tag
      BY <1>0, <2>0 DEF InsOf, HearsOnly
    <3>2. rs[u].rob_tag \in Tags /\ rs[u].src[k].tag \in Tags /\ OooInstr(InsOf(u))
      BY <1>0, StationTyped, CodeTyped
    <3> QED BY <3>1, <3>2
  <2>2. CASE rs[u].src[k].ready
    <3>1. PICK v : v = rs[u].src[k].val
      OBVIOUS
    <3>2. Reads(i, k, t, v)
      BY <2>0, <2>1, <2>2, <3>1 DEF OperandRight
    <3>3. Reads(i, k, t, v)'
      BY <2>1, <3>2, ReadsKept
    <3>4. rs'[u].src[k] = rs[u].src[k]
      BY <2>0, <2>2 DEF HearsOnly
    <3> QED BY <2>1, <2>2, <3>1, <3>3, <3>4 DEF OperandRight
  <2>3. CASE ~rs[u].src[k].ready
    <3>1. PICK r \in Regs : r = SrcReg(i, k)
      BY <2>1, ArgumentsTyped
    <3>2. ReadsReg(i, k) /\ r # X0 /\ LastWriter(w, r, t)
      BY <2>0, <2>1, <2>3, <3>1 DEF OperandRight
    <3>3. LastWriter(w, r, t)'
      BY <2>1, <3>2, SeesKept
    <3>4. CASE rs'[u].src[k] = rs[u].src[k]
      BY <2>1, <2>3, <3>1, <3>2, <3>3, <3>4 DEF OperandRight
    <3>5. CASE rs'[u].src[k].ready /\ rob'[w].ready /\ rs'[u].src[k].val = rob'[w].value
      <4>1. PICK v : v = rs'[u].src[k].val
        OBVIOUS
      <4>2. Reads(i, k, t, v)'
        BY <2>1, <3>1, <3>2, <3>3, <3>5, <4>1 DEF Reads, Sees
      <4> QED BY <2>1, <3>5, <4>1, <4>2 DEF OperandRight
    <3> QED BY <2>0, <2>1, <3>4, <3>5 DEF HearsOnly
  <2> QED BY <2>2, <2>3
<1>4. ResultsRight'
  <2> SUFFICES ASSUME NEW t \in Tags, InFlight(t)', rob'[t].ready PROVE Explained(t)'
    BY DEF ResultsRight
  <2>1. CASE ~rob[t].ready
    BY <1>1, <2>1
  <2>2. CASE rob[t].ready
    <3>1. Explained(t) /\ Follower(t)' = Follower(t) /\ rob'[t] = rob[t] /\ eff'[t] = eff[t]
      BY <1>0, <1>1, <2>2 DEF ResultsRight, KeepsFlight
    <3>2. \A i, v : \A k \in 1 .. 3 : OooInstr(i) /\ Reads(i, k, t, v) => Reads(i, k, t, v)'
      BY ReadsKept
    <3>3. InsAt(t).op \in HeadOps => UNCHANGED <<dmem, arch, rob_head>>
      BY <1>0, <2>2, <3>1, ReadersAreHead DEF KeepsFlight
    <3>4. \A V : VSees(Age(t), V) => VSees(Age(t), V)'
      <4>1. PICK n : n = Age(t) /\ n = Age(t)'
        BY <1>1
      <4>2. \A V : VSees(Age(t), V) => VSees(n, V)
        BY <4>1
      <4>3. \A V : VSees(n, V) => VSees(n, V)'
        BY <1>0, KeptVectors
      <4>4. \A V : VSees(n, V)' => VSees(Age(t), V)'
        BY <4>1 DEF VSees
      <4> QED BY <4>2, <4>3, <4>4
    <3> QED BY <1>0, <1>1, <3>1, <3>2, <3>3, <3>4, ExplainedKept
  <2> QED BY <2>1, <2>2
<1>5. ZeroRegister'
  BY <1>0 DEF ZeroRegister
<1>6. ConfigRight'
  <2>1. \A t \in Tags : InFlight(t)' /\ InsAt(t)'.op \notin VSetOps => Leaves(t)' = ConfigAt(t)'
    BY <1>0, <1>1 DEF ConfigRight
  <2>2. ([vl |-> csr_vl, vtype |-> csr_vtype] = IF rob_count = 0 THEN Retires ELSE Leaves(Prev(rob_tail)))'
    <3>1. PICK p \in Tags : p = Prev(rob_tail) /\ p = Prev(rob_tail')
      BY <1>0, Counters, Neighbours
    <3>2. Leaves(Prev(rob_tail))' = Leaves(p)
      <4>1. Leaves(Prev(rob_tail))' = Leaves(p)'
        BY <3>1 DEF Leaves, Prev
      <4> QED BY <1>1, <4>1
    <3> QED BY <1>0, <3>1, <3>2 DEF ConfigRight, Retires, KeepsFlight
  <2>3. rs'["vec"].busy => rs'["vec"].vl = eff'[rs'["vec"].rob_tag].vl
    <3> SUFFICES ASSUME rs'["vec"].busy PROVE rs'["vec"].vl = eff'[rs'["vec"].rob_tag].vl
      OBVIOUS
    <3>1. "vec" \in Units
      BY DEF Units
    <3>2. HearsOnly("vec") /\ rs["vec"].rob_tag \in Tags
      BY <1>0, <3>1, StationTyped
    <3>3. rs["vec"].busy /\ rs'["vec"].rob_tag = rs["vec"].rob_tag /\ rs'["vec"].vl = rs["vec"].vl
      BY <3>2 DEF HearsOnly
    <3>4. rs["vec"].vl = eff[rs["vec"].rob_tag].vl
      BY <1>0, <3>3 DEF ConfigRight
    <3> QED BY <1>1, <3>2, <3>3, <3>4
  <2> QED BY <2>1, <2>2, <2>3 DEF ConfigRight
<1> QED BY <1>2, <1>3, <1>4, <1>5, <1>6

\* The head retires: what it was becomes what the others find.
LEMMA RetireOrder ==
  ASSUME OrderCore, Commit
  PROVE  /\ Decoded' /\ OperandsRight' /\ PathRight' /\ ConfigRight' /\ VectorRight' /\ ResultsRight'
         /\ ZeroRegister'
<1>0. /\ PipeCore /\ WellTyped /\ RobWindow /\ StationsOwn /\ WaitsForWriter
      /\ Decoded /\ OperandsRight /\ PathRight /\ ConfigRight /\ VectorRight /\ ResultsRight /\ ZeroRegister
  BY DEF OrderCore, OrderInv, PipeCore, PipelineInv
<1>1. UNCHANGED <<prog, fetch_pc, fetch_stalled, fetch_done, rob_tail, rs, vregs, csr, csr_vl, csr_vtype, eff>>
  BY DEF Commit, front, vcfg
<1>2. /\ rob_head' = Inc(rob_head) /\ rob_count' = rob_count - 1 /\ rob_count > 0
      /\ rob_head \in Tags /\ InFlight(rob_head) /\ rob[rob_head].ready /\ Age(rob_head) = 0
      /\ rob_count \in Nat
      /\ \A x \in Tags : Age(x) \in Nat /\ (Age(x) = 0 <=> x = rob_head)
  BY <1>0, HeadInFlight, Counters, Ages, OooAssumption DEF Commit, HeadReady, HeadEntry
<1>3. ASSUME NEW x \in Tags
      PROVE  /\ InFlight(x)' <=> InFlight(x) /\ x # rob_head
             /\ InFlight(x) /\ x # rob_head => Age(x)' = Age(x) - 1
             /\ x # rob_head => rob'[x] = rob[x]
             /\ InsAt(x)' = InsAt(x) /\ Leaves(x)' = Leaves(x)
             /\ InFlight(x) /\ x # rob_head =>
                  ConfigAt(x)' = ConfigAt(x) /\ Follower(x)' = Follower(x)
  BY <1>0, <1>1, RetireWindow, RetireVectors DEF Commit, InsAt, Leaves
\* The entry of a busy station is not the head.
<1>4. ASSUME NEW u \in Units, rs[u].busy
      PROVE  /\ rs[u].rob_tag \in Tags /\ InFlight(rs[u].rob_tag) /\ rs[u].rob_tag # rob_head
             /\ InsOf(u)' = InsOf(u)
  BY <1>0, <1>1, <1>2, <1>4, StationIns DEF InsOf
<1>5. Decoded'
  <2>1. ASSUME NEW t \in Tags, InFlight(t)' PROVE EntryDecoded(t)'
    <3>1. EntryDecoded(t) /\ rob'[t] = rob[t] /\ InsAt(t)' = InsAt(t)
      BY <1>0, <1>3, <2>1 DEF Decoded
    <3> QED BY <3>1 DEF EntryDecoded
  <2>2. ASSUME NEW u \in Units, rs'[u].busy PROVE StationDecoded(u)'
    <3>1. StationDecoded(u) /\ InsOf(u)' = InsOf(u) /\ UnitOps(u)' = UnitOps(u)
      BY <1>0, <1>1, <1>4, <2>2 DEF Decoded, UnitOps
    <3> QED BY <1>1, <3>1 DEF StationDecoded, OperandsReady
  <2> QED BY <2>1, <2>2 DEF Decoded
<1>6. OperandsRight'
  <2> SUFFICES ASSUME NEW u \in Units, Listens(u)', NEW k \in 1 .. 3 PROVE OperandRight(u, k)'
    BY DEF OperandsRight
  <2>0. Listens(u) /\ OperandRight(u, k)
    <3>1. rs[u].busy /\ VecIns' = VecIns
      BY <1>1 DEF Listens, VecIns, InsOf
    <3>2. Listens(u)
      BY <1>1, <3>1 DEF Listens
    <3> QED BY <1>0, <3>2 DEF OperandsRight
  <2>1. PICK i, t, w :
          /\ i = InsOf(u) /\ i = InsOf(u)' /\ t = rs[u].rob_tag
          /\ w = rs[u].src[k].tag /\ OooInstr(i) /\ t \in Tags /\ w \in Tags
          /\ InFlight(t) /\ t # rob_head
    <3>1. rs[u].busy
      BY <2>0 DEF Listens
    <3> QED BY <1>0, <1>4, <3>1, StationTyped, CodeTyped
  <2>2. CASE rs[u].src[k].ready
    <3>1. PICK v : v = rs[u].src[k].val
      OBVIOUS
    <3>2. Reads(i, k, t, v)
      BY <2>0, <2>1, <2>2, <3>1 DEF OperandRight
    <3>3. Reads(i, k, t, v)'
      BY <1>0, <2>1, <3>2, RetireReads
    <3> QED BY <1>1, <2>1, <2>2, <3>1, <3>3 DEF OperandRight
  <2>3. CASE ~rs[u].src[k].ready
    <3>1. PICK r \in Regs : r = SrcReg(i, k)
      BY <2>1, ArgumentsTyped
    <3>2. ReadsReg(i, k) /\ r # X0 /\ LastWriter(w, r, t)
      BY <2>0, <2>1, <2>3, <3>1 DEF OperandRight
    <3>3. w # rob_head
      BY <1>0, <1>2, <2>0, <2>1, <2>3 DEF WaitsForWriter
    <3>4. LastWriter(w, r, t)'
      BY <1>0, <2>1, <3>2, <3>3, RetireSees
    <3> QED BY <1>1, <2>1, <2>3, <3>1, <3>2, <3>4 DEF OperandRight
  <2> QED BY <2>2, <2>3
<1>7. PathRight'
  <2>1. ASSUME NEW t \in Tags, InFlight(t)', InsAt(t)'.op \notin JumpOps
        PROVE  Follower(t)' = IF InsAt(t)'.op = "jal" THEN InsAt(t)'.imm ELSE NextPc(eff'[t].pc)
    BY <1>0, <1>1, <1>3, <2>1 DEF PathRight
  <2>2. rs["br"].busy => (Age(rs["br"].rob_tag) = rob_count - 1)'
    <3> SUFFICES ASSUME rs["br"].busy PROVE (Age(rs["br"].rob_tag) = rob_count - 1)'
      OBVIOUS
    <3>1. "br" \in Units
      BY DEF Units, Timed
    <3>2. PICK t \in Tags : t = rs["br"].rob_tag /\ t = rs'["br"].rob_tag /\ InFlight(t) /\ t # rob_head
      BY <1>1, <1>4, <3>1
    <3>3. Age(t) = rob_count - 1
      BY <1>0, <3>2 DEF PathRight
    <3>4. Age(t)' = rob_count' - 1
      BY <1>2, <1>3, <3>2, <3>3
    <3> QED BY <3>2, <3>4 DEF Age
  <2>3. (fetch_stalled <=> rs["br"].busy)'
    BY <1>0, <1>1 DEF PathRight
  <2>4. (fetch_done => Fetched.op = "end" /\ ~fetch_stalled)'
    BY <1>0, <1>1 DEF PathRight, Fetched
  <2> QED BY <1>1, <2>1, <2>2, <2>3, <2>4 DEF PathRight
<1>8. ConfigRight'
  <2>1. \A t \in Tags : InFlight(t)' /\ InsAt(t)'.op \notin VSetOps => Leaves(t)' = ConfigAt(t)'
    BY <1>0, <1>3 DEF ConfigRight
  <2>2. ([vl |-> csr_vl, vtype |-> csr_vtype] = IF rob_count = 0 THEN Retires ELSE Leaves(Prev(rob_tail)))'
    <3>1. PICK p \in Tags : p = Prev(rob_tail) /\ p = Prev(rob_tail)' /\ Age(p) = rob_count - 1
      <4>1. Prev(rob_tail)' = Prev(rob_tail)
        BY <1>1 DEF Prev
      <4> QED BY <1>0, <1>2, <4>1, Counters, Neighbours, BeforeTail
    <3>2. [vl |-> csr_vl, vtype |-> csr_vtype] = Leaves(p)
      BY <1>0, <1>2, <3>1 DEF ConfigRight
    <3>3. Leaves(Prev(rob_tail))' = Leaves(p)
      <4>1. Leaves(Prev(rob_tail))' = Leaves(p)'
        BY <3>1 DEF Leaves, Prev
      <4> QED BY <1>3, <4>1
    <3>4. rob_count' = 0 => Retires' = Leaves(p)
      <4> SUFFICES ASSUME rob_count' = 0 PROVE Retires' = Leaves(p)
        OBVIOUS
      <4>1. p = rob_head
        BY <1>2, <3>1
      <4>2. arch \in VecState /\ arch' = Retired
        BY <1>0 DEF WellTyped, OooTypeOK, Commit
      <4>3. arch'.vl = eff[rob_head].vl /\ arch'.vtype = eff[rob_head].vtype
        BY <4>2 DEF VecState, Retired
      <4> QED BY <4>1, <4>3 DEF Retires, Leaves
    <3> QED BY <1>1, <3>2, <3>3, <3>4
  <2>3. rs'["vec"].busy => rs'["vec"].vl = eff'[rs'["vec"].rob_tag].vl
    BY <1>0, <1>1 DEF ConfigRight
  <2> QED BY <2>1, <2>2, <2>3 DEF ConfigRight
<1>9. VectorRight'
  <2>0. "vec" \in Units
    BY DEF Units
  <2>1. ASSUME NEW t \in Tags, InFlight(t)', InsAt(t)'.op \in VecOps
        PROVE  \/ rob'[t].ready /\ (rs'["vec"].busy => (Age(t) < Age(rs["vec"].rob_tag))')
               \/ rs'["vec"].busy /\ rs'["vec"].rob_tag = t
    <3>1. InFlight(t) /\ t # rob_head /\ InsAt(t).op \in VecOps /\ rob'[t] = rob[t] /\ Age(t)' = Age(t) - 1
      BY <1>3, <2>1
    <3>2. \/ rob[t].ready /\ (rs["vec"].busy => Age(t) < Age(rs["vec"].rob_tag))
          \/ rs["vec"].busy /\ rs["vec"].rob_tag = t
      BY <1>0, <3>1 DEF VectorRight
    <3>3. rs["vec"].busy => Age(rs["vec"].rob_tag)' = Age(rs["vec"].rob_tag) - 1
      <4> SUFFICES ASSUME rs["vec"].busy PROVE Age(rs["vec"].rob_tag)' = Age(rs["vec"].rob_tag) - 1
        OBVIOUS
      <4>1. PICK x \in Tags : x = rs["vec"].rob_tag /\ x = rs'["vec"].rob_tag /\ InFlight(x) /\ x # rob_head
        BY <1>1, <1>4, <2>0
      <4>2. Age(x)' = Age(x) - 1
        BY <1>3, <4>1
      <4> QED BY <4>1, <4>2 DEF Age
    <3>4. rs["vec"].busy => Age(rs["vec"].rob_tag) \in Nat
      BY <1>2, <1>4, <2>0
    <3> QED BY <1>1, <1>2, <3>1, <3>2, <3>3, <3>4
  <2>2. VSees(IF rs["vec"].busy THEN Age(rs["vec"].rob_tag) ELSE rob_count, vregs)'
    <3>1. PICK n \in Nat : /\ n > 0 /\ n = IF rs["vec"].busy THEN Age(rs["vec"].rob_tag) ELSE rob_count
                           /\ n - 1 = (IF rs["vec"].busy THEN Age(rs["vec"].rob_tag) ELSE rob_count)'
      <4>1. CASE rs["vec"].busy
        <5>1. PICK x \in Tags : x = rs["vec"].rob_tag /\ x = rs'["vec"].rob_tag /\ InFlight(x) /\ x # rob_head
          BY <1>1, <1>4, <2>0, <4>1
        <5>2. Age(x)' = Age(x) - 1 /\ Age(x) \in Nat /\ Age(x) > 0
          BY <1>2, <1>3, <5>1
        <5>3. Age(rs["vec"].rob_tag)' = Age(x)' /\ Age(rs["vec"].rob_tag) = Age(x)
          BY <5>1 DEF Age
        <5> QED BY <1>1, <4>1, <5>2, <5>3
      <4>2. CASE ~rs["vec"].busy
        BY <1>1, <1>2, <4>2
      <4> QED BY <4>1, <4>2
    <3>2. PICK V : V = vregs /\ V = vregs'
      BY <1>1
    <3>3. VSees(n, V)
      BY <1>0, <3>1, <3>2 DEF VectorRight
    <3>4. VSees(n - 1, V)'
      BY <1>0, <3>1, <3>3, RetireVectors
    <3> QED BY <3>1, <3>2, <3>4 DEF VSees
  <2> QED BY <2>1, <2>2 DEF VectorRight
<1>10. ResultsRight'
  <2> SUFFICES ASSUME NEW t \in Tags, InFlight(t)', rob'[t].ready PROVE Explained(t)'
    BY DEF ResultsRight
  <2>1. InFlight(t) /\ t # rob_head /\ rob'[t] = rob[t] /\ eff'[t] = eff[t] /\ Explained(t)
    BY <1>0, <1>1, <1>3 DEF ResultsRight
  <2>2. InsAt(t).op \notin HeadOps
    BY <2>1, ReadersAreHead
  <2>3. \A i, v : \A k \in 1 .. 3 : OooInstr(i) /\ Reads(i, k, t, v) => Reads(i, k, t, v)'
    BY <1>0, <2>1, RetireReads
  <2>4. \A V : VSees(Age(t), V) => VSees(Age(t), V)'
    <3>1. PICK n \in Nat : n = Age(t) /\ n > 0 /\ n - 1 = Age(t)'
      BY <1>2, <1>3, <2>1
    <3>2. \A V : VSees(Age(t), V) => VSees(n, V)
      BY <3>1
    <3>3. \A V : VSees(n, V) => VSees(n - 1, V)'
      BY <1>0, <3>1, RetireVectors
    <3>4. \A V : VSees(n - 1, V)' => VSees(Age(t), V)'
      BY <3>1 DEF VSees
    <3> QED BY <3>2, <3>3, <3>4
  <2> QED BY <1>0, <1>1, <1>3, <2>1, <2>2, <2>3, <2>4, ExplainedKept
<1>11. ZeroRegister'
  <2>1. regfile \in [Regs -> Word] /\ X0 \in Regs
    BY <1>0, RegAssumption DEF WellTyped, OooTypeOK, Regs
  <2>2. regfile' = regfile \/ (HeadEntry.dest # X0 /\ regfile' = [regfile EXCEPT ![HeadEntry.dest] = HeadEntry.value])
    BY DEF Commit
  <2> QED BY <1>0, <2>1, <2>2 DEF ZeroRegister
<1> QED BY <1>5, <1>6, <1>7, <1>8, <1>9, <1>10, <1>11

\* The free station u takes the instruction that enters.
Takes(u) ==
  /\ ~rs[u].busy /\ rs'[u].busy /\ ~rs'[u].executing
  /\ rs'[u].rob_tag = rob_tail /\ rs'[u].pc = fetch_pc
  /\ Fetched.op \in UnitOps(u)
  /\ Fetched.op \notin VArithOps => \A k \in 1 .. 3 : rs'[u].src[k] = Source(Fetched, k)
  /\ u = "vec" => rs'[u].vl = csr_vl

\* The busy stations stay as they are; the one that joins, if any, takes the
\* instruction, and a vector instruction always has the vector station.
Admits(complete) ==
  /\ \A u \in Units : rs[u].busy => rs'[u] = rs[u]
  /\ \A u \in Units : rs'[u].busy => rs[u].busy \/ (Takes(u) /\ ~complete)
  /\ Fetched.op \in VecOps => Takes("vec")
  /\ fetch_stalled' <=> rs'["br"].busy

LEMMA SourceTyped == ASSUME WellTyped, NEW k \in 1 .. 3 PROVE Source(Fetched, k) \in Operand
<1>1. /\ read_operand(Fetched.rs1) \in Operand /\ read_operand(Fetched.rs2) \in Operand
      /\ read_operand(Fetched.rs3) \in Operand /\ Fetched.imm \in Word
  BY CodeTyped, ReadOperandTyped DEF OooInstr
<1>2. Ready(Fetched.imm) \in Operand /\ Ready(0) \in Operand
  BY <1>1, OperandsTyped, SmallWords
<1>3. CASE k = 1
  BY <1>1, <1>2, <1>3 DEF Source
<1>4. CASE k = 2
  BY <1>1, <1>2, <1>4 DEF Source
<1>5. CASE k = 3
  BY <1>1, <1>2, <1>5 DEF Source
<1> QED BY <1>3, <1>4, <1>5

\* An instruction enters: it finds everything it needs of program order.
LEMMA EnterOrder ==
  ASSUME OrderCore, MayFetch, NEW complete \in BOOLEAN, NEW p, Enter(complete, p), Admits(complete),
         UNCHANGED <<prog, arch, regfile, vregs, dmem>>,
         Fetched.op \in PlainOps \cup NeedUnit \cup VSetOps, complete <=> Fetched.op \notin NeedUnit,
         Fetched.op \notin VSetOps => UNCHANGED <<csr_vl, csr_vtype>>,
         Fetched.op \notin JumpOps =>
           fetch_pc' = IF Fetched.op = "jal" THEN Fetched.imm ELSE NextPc(fetch_pc),
         NEW tail \in Tags, tail = rob_tail, complete => Explained(tail)'
  PROVE  /\ Decoded' /\ OperandsRight' /\ PathRight' /\ ConfigRight' /\ VectorRight' /\ ResultsRight'
         /\ ZeroRegister'
<1>0. /\ PipeCore /\ WellTyped /\ RobWindow /\ StationsOwn /\ WaitsForWriter
      /\ Decoded /\ OperandsRight /\ PathRight /\ ConfigRight /\ VectorRight /\ ResultsRight /\ ZeroRegister
  BY DEF OrderCore, OrderInv, PipeCore, PipelineInv
<1>1. PICK N \in Nat : N = rob_count
  BY <1>0, Counters, OooAssumption
<1>2. /\ rob_head' = rob_head /\ rob_tail' = Inc(rob_tail) /\ rob_count' = N + 1 /\ fetch_done' = fetch_done
      /\ ~fetch_done /\ ~fetch_stalled /\ rob_head \in Tags
      /\ ~InFlight(tail) /\ Age(tail) = N
      /\ \A x \in Tags : Age(x) \in Nat
  BY <1>0, <1>1, TailIsFree, Counters, Ages, OooAssumption DEF MayFetch, Enter
<1>3. /\ \A x \in Tags : InFlight(x)' <=> InFlight(x) \/ x = tail
      /\ \A x \in Tags : Age(x)' = Age(x)
      /\ \A x \in Tags : x # tail => rob'[x] = rob[x] /\ eff'[x] = eff[x]
      /\ rob'[tail].ready = complete /\ rob'[tail].dest = DestOf(Fetched) /\ eff'[tail].pc = fetch_pc
  BY <1>0, EnterWindow
<1>4. /\ \A t \in Tags : InFlight(t) =>
           ConfigAt(t)' = ConfigAt(t) /\ Follower(t)' = Follower(t) /\ InsAt(t)' = InsAt(t)
      /\ ConfigAt(tail)' = [vl |-> csr_vl, vtype |-> csr_vtype]
      /\ Follower(tail)' = fetch_pc' /\ InsAt(tail)' = Fetched
      /\ Leaves(tail)' = [vl |-> csr_vl', vtype |-> csr_vtype']
      /\ Prev(rob_tail') = tail
      /\ \A n \in 0 .. N : \A V : VSees(n, V) => VSees(n, V)'
      /\ Fetched.op \notin VecWrites => \A V : VSees(N, V) => VSees(N + 1, V)'
  BY <1>0, <1>1, EnterVectors
<1>5. /\ \A u \in Units : rs[u].busy => rs'[u] = rs[u]
      /\ \A u \in Units : rs'[u].busy => rs[u].busy \/ (Takes(u) /\ ~complete)
      /\ Fetched.op \in VecOps => Takes("vec")
      /\ fetch_stalled' <=> rs'["br"].busy
  BY DEF Admits
<1>6. ASSUME NEW u \in Units, rs[u].busy
      PROVE  /\ rs[u].rob_tag \in Tags /\ InFlight(rs[u].rob_tag) /\ InsOf(u)' = InsOf(u)
             /\ rs'[u] = rs[u]
  BY <1>0, <1>5, <1>6, StationIns DEF InsOf
<1>7. ASSUME NEW u \in Units, rs'[u].busy, ~rs[u].busy
      PROVE  Takes(u) /\ rs'[u].rob_tag = tail /\ InsOf(u)' = Fetched /\ ~complete
  BY <1>5, <1>7 DEF Takes, InsOf, Fetched
<1>8. Decoded'
  <2>1. ASSUME NEW t \in Tags, InFlight(t)' PROVE EntryDecoded(t)'
    <3>1. CASE t # tail
      <4>1. EntryDecoded(t) /\ rob'[t] = rob[t] /\ InsAt(t)' = InsAt(t)
        BY <1>0, <1>3, <1>4, <2>1, <3>1 DEF Decoded
      <4> QED BY <4>1 DEF EntryDecoded
    <3>2. CASE t = tail
      <4>1. rob[tail] \in RobEntry /\ rob \in [Tags -> RobEntry]
        BY <1>0 DEF WellTyped, OooTypeOK
      <4>2. /\ rob'[tail].is_store <=> Fetched.op \in StoreOps
            /\ rob'[tail].is_ecall <=> Fetched.op \in HaltOps
        BY <4>1 DEF Enter, RobEntry
      <4> QED BY <1>3, <1>4, <3>2, <4>2 DEF EntryDecoded
    <3> QED BY <3>1, <3>2
  <2>2. ASSUME NEW u \in Units, rs'[u].busy PROVE StationDecoded(u)'
    <3>1. UnitOps(u)' = UnitOps(u)
      BY DEF UnitOps
    <3>2. CASE rs[u].busy
      <4>1. StationDecoded(u) /\ InsOf(u)' = InsOf(u) /\ rs'[u] = rs[u]
        BY <1>0, <1>6, <3>2 DEF Decoded
      <4> QED BY <3>1, <4>1 DEF StationDecoded, OperandsReady
    <3>3. CASE ~rs[u].busy
      <4>1. Takes(u) /\ InsOf(u)' = Fetched
        BY <1>7, <2>2, <3>3
      <4> QED BY <3>1, <4>1 DEF StationDecoded, Takes
    <3> QED BY <3>2, <3>3
  <2> QED BY <2>1, <2>2 DEF Decoded
<1>9. OperandsRight'
  <2> SUFFICES ASSUME NEW u \in Units, Listens(u)', NEW k \in 1 .. 3 PROVE OperandRight(u, k)'
    BY DEF OperandsRight
  <2>0. rs'[u].busy
    BY DEF Listens
  <2>1. CASE rs[u].busy
    <3>0. Listens(u) /\ OperandRight(u, k)
      <4>1. u = "vec" => VecIns' = VecIns
        BY <1>6, <2>1 DEF VecIns
      <4>2. Listens(u)
        BY <2>1, <4>1 DEF Listens
      <4> QED BY <1>0, <4>2 DEF OperandsRight
    <3>1. PICK i, t, w :
            /\ i = InsOf(u) /\ i = InsOf(u)' /\ t = rs[u].rob_tag
            /\ w = rs[u].src[k].tag /\ OooInstr(i) /\ t \in Tags /\ w \in Tags
            /\ InFlight(t)
      BY <1>0, <1>6, <2>1, StationTyped, CodeTyped
    <3>2. rs'[u] = rs[u]
      BY <1>6, <2>1
    <3>3. CASE rs[u].src[k].ready
      <4>1. PICK v : v = rs[u].src[k].val
        OBVIOUS
      <4>2. Reads(i, k, t, v)
        BY <3>0, <3>1, <3>3, <4>1 DEF OperandRight
      <4>3. Reads(i, k, t, v)'
        BY <1>0, <3>1, <4>2, EnterReads
      <4> QED BY <3>1, <3>2, <3>3, <4>1, <4>3 DEF OperandRight
    <3>4. CASE ~rs[u].src[k].ready
      <4>1. PICK r \in Regs : r = SrcReg(i, k)
        BY <3>1, ArgumentsTyped
      <4>2. ReadsReg(i, k) /\ r # X0 /\ LastWriter(w, r, t)
        BY <3>0, <3>1, <3>4, <4>1 DEF OperandRight
      <4>3. LastWriter(w, r, t)'
        BY <1>0, <3>1, <4>2, EnterSees
      <4> QED BY <3>1, <3>2, <3>4, <4>1, <4>2, <4>3 DEF OperandRight
    <3> QED BY <3>3, <3>4
  <2>2. CASE ~rs[u].busy
    <3>1. Takes(u) /\ rs'[u].rob_tag = tail /\ InsOf(u)' = Fetched /\ ~complete
      BY <1>7, <2>0, <2>2
    <3>2. Fetched.op \notin VArithOps
      <4>1. ASSUME Fetched.op \in VArithOps PROVE FALSE
        <5>1. u = "vec"
          <6>1. Takes("vec") /\ "vec" \in Units
            BY <1>5, <4>1 DEF VecOps, Units
          <6>2. Fetched.op \in UnitOps(u)
            BY <3>1 DEF Takes
          <6>3. u \in {"alu0", "alu1", "md", "fpu", "br", "lsu", "vec", "sys"}
            BY DEF Units, Timed, AluUnits
          <6> QED BY <4>1, <6>2, <6>3 DEF UnitOps, AluUnits, VArithOps, AluOps, MdOps, FpuOps, JumpOps,
                                          BranchOps, LoadOps, StoreOps, CsrOps
        <5>2. VecIns'.op \in VMemOps
          BY <5>1 DEF Listens
        <5> QED BY <3>1, <4>1, <5>1, <5>2 DEF VecIns, VMemOps, VArithOps
      <4> QED BY <4>1
    <3>3. PICK i, s : i = Fetched /\ i = InsOf(u)' /\ s = Source(Fetched, k) /\ s = rs'[u].src[k] /\ OooInstr(i)
      BY <1>0, <3>1, <3>2, CodeTyped DEF Takes
    <3>4. /\ s.ready => Reads(i, k, tail, s.val)
          /\ ~s.ready => ReadsReg(i, k) /\ SrcReg(i, k) # X0 /\ LastWriter(s.tag, SrcReg(i, k), tail)
      BY <1>0, <1>5, <3>1, <3>2, <3>3, SourceRight
    <3>5. CASE s.ready
      <4>1. PICK v : v = s.val
        OBVIOUS
      <4>2. Reads(i, k, tail, v)'
        BY <1>0, <3>4, <3>5, <4>1, EnterReads
      <4> QED BY <3>1, <3>3, <3>5, <4>1, <4>2 DEF OperandRight
    <3>6. CASE ~s.ready
      <4>1. PICK r \in Regs, w \in Tags : r = SrcReg(i, k) /\ w = s.tag
        <5>1. s.tag \in Tags
          BY <1>0, <3>3, SourceTyped DEF Operand
        <5>2. SrcReg(i, k) \in Regs
          BY <3>3, ArgumentsTyped
        <5> QED BY <5>1, <5>2
      <4>2. LastWriter(w, r, tail)'
        BY <1>0, <3>4, <3>6, <4>1, EnterSees
      <4> QED BY <3>1, <3>3, <3>4, <3>6, <4>1, <4>2 DEF OperandRight
    <3> QED BY <3>5, <3>6
  <2> QED BY <2>1, <2>2
<1>10. PathRight'
  <2>1. ASSUME NEW t \in Tags, InFlight(t)', InsAt(t)'.op \notin JumpOps
        PROVE  Follower(t)' = IF InsAt(t)'.op = "jal" THEN InsAt(t)'.imm ELSE NextPc(eff'[t].pc)
    <3>1. CASE t = tail
      BY <1>3, <1>4, <2>1, <3>1
    <3>2. CASE t # tail
      <4>1. InFlight(t) /\ InsAt(t)' = InsAt(t) /\ Follower(t)' = Follower(t) /\ eff'[t] = eff[t]
        BY <1>3, <1>4, <2>1, <3>2
      <4> QED BY <1>0, <2>1, <4>1 DEF PathRight
    <3> QED BY <3>1, <3>2
  <2>2. rs'["br"].busy => (Age(rs["br"].rob_tag) = rob_count - 1)'
    <3> SUFFICES ASSUME rs'["br"].busy PROVE (Age(rs["br"].rob_tag) = rob_count - 1)'
      OBVIOUS
    <3>1. ~rs["br"].busy /\ "br" \in Units
      BY <1>0, <1>2 DEF PathRight, Units, Timed
    <3>2. rs'["br"].rob_tag = tail
      BY <1>7, <3>1
    <3>3. Age(tail)' = N
      BY <1>2, <1>3
    <3>4. Age(rs["br"].rob_tag)' = Age(tail)'
      BY <3>2 DEF Age
    <3> QED BY <1>2, <3>3, <3>4
  <2>3. (fetch_stalled <=> rs["br"].busy)'
    BY <1>5
  <2>4. ~fetch_done'
    BY <1>2
  <2> QED BY <2>1, <2>2, <2>3, <2>4 DEF PathRight
<1>11. ConfigRight'
  <2>1. ASSUME NEW t \in Tags, InFlight(t)', InsAt(t)'.op \notin VSetOps PROVE Leaves(t)' = ConfigAt(t)'
    <3>1. CASE t = tail
      BY <1>4, <2>1, <3>1
    <3>2. CASE t # tail
      <4>1. InFlight(t) /\ InsAt(t)' = InsAt(t) /\ ConfigAt(t)' = ConfigAt(t) /\ Leaves(t)' = Leaves(t)
        BY <1>3, <1>4, <2>1, <3>2 DEF Leaves
      <4> QED BY <1>0, <2>1, <4>1 DEF ConfigRight
    <3> QED BY <3>1, <3>2
  <2>2. ([vl |-> csr_vl, vtype |-> csr_vtype] = IF rob_count = 0 THEN Retires ELSE Leaves(Prev(rob_tail)))'
    <3>1. Leaves(Prev(rob_tail))' = Leaves(tail)'
      BY <1>4 DEF Leaves, Prev
    <3> QED BY <1>1, <1>2, <1>4, <3>1
  <2>3. rs'["vec"].busy => rs'["vec"].vl = eff'[rs'["vec"].rob_tag].vl
    <3> SUFFICES ASSUME rs'["vec"].busy PROVE rs'["vec"].vl = eff'[rs'["vec"].rob_tag].vl
      OBVIOUS
    <3>0. "vec" \in Units
      BY DEF Units
    <3>1. CASE rs["vec"].busy
      <4>1. PICK t \in Tags : t = rs["vec"].rob_tag /\ t = rs'["vec"].rob_tag /\ InFlight(t)
        BY <1>6, <3>0, <3>1
      <4>2. eff'[t] = eff[t] /\ rs'["vec"].vl = rs["vec"].vl
        BY <1>2, <1>3, <1>6, <3>0, <3>1, <4>1
      <4> QED BY <1>0, <3>1, <4>1, <4>2 DEF ConfigRight
    <3>2. CASE ~rs["vec"].busy
      <4>1. Takes("vec") /\ rs'["vec"].rob_tag = tail
        BY <1>7, <3>0, <3>2
      <4>2. rs'["vec"].vl = csr_vl /\ Fetched.op \notin VSetOps
        BY <4>1 DEF Takes, UnitOps, AluUnits, VecOps, VArithOps, VMemOps, VSetOps
      <4>3. eff'[tail].vl = csr_vl'
        BY <1>4 DEF Leaves
      <4> QED BY <4>1, <4>2, <4>3
    <3> QED BY <3>1, <3>2
  <2> QED BY <2>1, <2>2, <2>3 DEF ConfigRight
<1>12. VectorRight'
  <2>0. "vec" \in Units
    BY DEF Units
  <2>1. ASSUME NEW t \in Tags, InFlight(t)', InsAt(t)'.op \in VecOps
        PROVE  \/ rob'[t].ready /\ (rs'["vec"].busy => (Age(t) < Age(rs["vec"].rob_tag))')
               \/ rs'["vec"].busy /\ rs'["vec"].rob_tag = t
    <3>1. CASE t = tail
      BY <1>4, <1>5, <2>1, <3>1 DEF Takes
    <3>2. CASE t # tail
      <4>1. InFlight(t) /\ InsAt(t)' = InsAt(t) /\ rob'[t] = rob[t] /\ Age(t)' = Age(t)
        BY <1>3, <1>4, <2>1, <3>2
      <4>2. \/ rob[t].ready /\ (rs["vec"].busy => Age(t) < Age(rs["vec"].rob_tag))
            \/ rs["vec"].busy /\ rs["vec"].rob_tag = t
        BY <1>0, <2>1, <4>1 DEF VectorRight
      <4>3. CASE rs["vec"].busy
        <5>1. rs'["vec"] = rs["vec"]
          BY <1>6, <2>0, <4>3
        <5>2. Age(rs["vec"].rob_tag)' = Age(rs["vec"].rob_tag)
          BY <1>2, <5>1 DEF Age
        <5> QED BY <4>1, <4>2, <4>3, <5>1, <5>2
      <4>4. CASE ~rs["vec"].busy
        <5>1. rob'[t].ready /\ Age(t)' < N
          BY <1>1, <4>1, <4>2, <4>4 DEF InFlight
        <5>2. rs'["vec"].busy => Age(rs["vec"].rob_tag)' = N
          <6>1. rs'["vec"].busy => rs'["vec"].rob_tag = tail
            BY <1>7, <2>0, <4>4
          <6>2. Age(tail)' = N
            BY <1>2, <1>3
          <6> QED BY <6>1, <6>2 DEF Age
        <5> QED BY <5>1, <5>2
      <4> QED BY <4>3, <4>4
    <3> QED BY <3>1, <3>2
  <2>2. VSees(IF rs["vec"].busy THEN Age(rs["vec"].rob_tag) ELSE rob_count, vregs)'
    <3>1. PICK V : V = vregs /\ V = vregs'
      OBVIOUS
    <3>2. CASE rs["vec"].busy
      <4>1. PICK t \in Tags : t = rs["vec"].rob_tag /\ t = rs'["vec"].rob_tag /\ InFlight(t)
        BY <1>6, <2>0, <3>2
      <4>2. PICK n \in 0 .. N : n = Age(t) /\ n = Age(rs["vec"].rob_tag)'
        <5>1. Age(rs["vec"].rob_tag)' = Age(t)'
          BY <4>1 DEF Age
        <5> QED BY <1>1, <1>2, <1>3, <4>1, <5>1 DEF InFlight
      <4>3. VSees(n, V)
        BY <1>0, <3>1, <3>2, <4>1, <4>2 DEF VectorRight
      <4>4. VSees(n, V)'
        BY <1>4, <4>3
      <4>5. rs'["vec"].busy
        BY <1>6, <2>0, <3>2
      <4> QED BY <3>1, <4>2, <4>4, <4>5 DEF VSees
    <3>3. CASE ~rs["vec"].busy
      <4>1. VSees(N, V)
        BY <1>0, <1>1, <3>1, <3>3 DEF VectorRight
      <4>2. CASE rs'["vec"].busy
        <5>1. rs'["vec"].rob_tag = tail
          BY <1>7, <2>0, <3>3, <4>2
        <5>2. N = Age(rs["vec"].rob_tag)'
          <6>1. Age(rs["vec"].rob_tag)' = Age(tail)'
            BY <5>1 DEF Age
          <6> QED BY <1>2, <1>3, <6>1
        <5>3. VSees(N, V)'
          <6>1. N \in 0 .. N
            OBVIOUS
          <6> QED BY <1>4, <4>1, <6>1
        <5> QED BY <3>1, <4>2, <5>2, <5>3 DEF VSees
      <4>3. CASE ~rs'["vec"].busy
        <5>1. Fetched.op \notin VecWrites
          BY <1>5, <4>3 DEF Takes, VecWrites, VecOps, VMemOps
        <5>2. VSees(N + 1, V)'
          BY <1>4, <4>1, <5>1
        <5> QED BY <1>2, <3>1, <4>3, <5>2 DEF VSees
      <4> QED BY <4>2, <4>3
    <3> QED BY <3>2, <3>3
  <2> QED BY <2>1, <2>2 DEF VectorRight
<1>13. ResultsRight'
  <2> SUFFICES ASSUME NEW t \in Tags, InFlight(t)', rob'[t].ready PROVE Explained(t)'
    BY DEF ResultsRight
  <2>1. CASE t = tail
    BY <1>3, <2>1
  <2>2. CASE t # tail
    <3>1. InFlight(t) /\ rob'[t] = rob[t] /\ eff'[t] = eff[t] /\ Explained(t)
      BY <1>0, <1>3, <2>2 DEF ResultsRight
    <3>2. \A i, v : \A k \in 1 .. 3 : OooInstr(i) /\ Reads(i, k, t, v) => Reads(i, k, t, v)'
      BY <1>0, <3>1, EnterReads
    <3>3. \A V : VSees(Age(t), V) => VSees(Age(t), V)'
      <4>1. PICK n \in 0 .. N : n = Age(t) /\ n = Age(t)'
        BY <1>1, <1>2, <1>3, <3>1 DEF InFlight
      <4>2. \A V : VSees(Age(t), V) => VSees(n, V)
        BY <4>1
      <4>3. \A V : VSees(n, V) => VSees(n, V)'
        BY <1>4, <4>1
      <4>4. \A V : VSees(n, V)' => VSees(Age(t), V)'
        BY <4>1 DEF VSees
      <4> QED BY <4>2, <4>3, <4>4
    <3> QED BY <1>0, <1>2, <1>4, <3>1, <3>2, <3>3, ExplainedKept
  <2> QED BY <2>1, <2>2
<1>14. ZeroRegister'
  BY <1>0 DEF ZeroRegister
<1> QED BY <1>8, <1>9, <1>10, <1>11, <1>12, <1>13, <1>14

-----------------------------------------------------------------------------
(* The blocks of the tick.                                                 *)

OrderParts == /\ Decoded /\ OperandsRight /\ PathRight /\ ConfigRight /\ VectorRight /\ ResultsRight
              /\ ZeroRegister

\* The fetch stays where it is.
LEMMA PathStays ==
  ASSUME OrderCore, KeepsFlight, UNCHANGED <<fetch_pc, fetch_stalled>>,
         rs'["br"].busy = rs["br"].busy, rs["br"].busy => rs'["br"].rob_tag = rs["br"].rob_tag,
         fetch_done' => fetch_done \/ (Fetched.op = "end" /\ ~fetch_stalled)
  PROVE  PathRight' /\ \A t \in Tags : Follower(t)' = Follower(t)
<1>0. WellTyped /\ PathRight
  BY DEF OrderCore, OrderInv, PipeCore
<1>1. \A t \in Tags : Follower(t)' = Follower(t) /\ InsAt(t)' = InsAt(t)
  BY <1>0, KeptVectors
<1>2. \A t \in Tags : (InFlight(t)' <=> InFlight(t)) /\ eff'[t].pc = eff[t].pc
  BY DEF KeepsFlight, InFlight, Age
<1>3. UNCHANGED <<rob_head, rob_count, prog>>
  BY DEF KeepsFlight
<1>4. \A t \in Tags : InFlight(t)' /\ InsAt(t)'.op \notin JumpOps =>
        Follower(t)' = IF InsAt(t)'.op = "jal" THEN InsAt(t)'.imm ELSE NextPc(eff'[t].pc)
  BY <1>0, <1>1, <1>2 DEF PathRight
<1>5. rs'["br"].busy => (Age(rs["br"].rob_tag) = rob_count - 1)'
  BY <1>0, <1>3 DEF PathRight, Age
<1>6. (fetch_done => Fetched.op = "end" /\ ~fetch_stalled)'
  BY <1>0, <1>3 DEF PathRight, Fetched
<1> QED BY <1>0, <1>1, <1>4, <1>5, <1>6 DEF PathRight

\* The vector station and the vector registers stay as they are.
LEMMA VecStays ==
  ASSUME OrderCore, KeepsFlight, vregs' = vregs,
         rs'["vec"].busy = rs["vec"].busy, rs["vec"].busy => rs'["vec"].rob_tag = rs["vec"].rob_tag
  PROVE  VectorRight'
<1>0. WellTyped /\ VectorRight
  BY DEF OrderCore, OrderInv, PipeCore
<1>1. /\ \A t \in Tags : InsAt(t)' = InsAt(t)
      /\ \A n, V : VSees(n, V) => VSees(n, V)'
  BY <1>0, KeptVectors
<1>2. /\ UNCHANGED <<rob_head, rob_count>>
      /\ \A t \in Tags : /\ (InFlight(t)' <=> InFlight(t)) /\ Age(t)' = Age(t)
                         /\ InFlight(t) /\ rob[t].ready => rob'[t] = rob[t]
  BY DEF KeepsFlight, InFlight, Age
<1>3. rs["vec"].busy => Age(rs["vec"].rob_tag)' = Age(rs["vec"].rob_tag)
  BY <1>2 DEF Age
<1>4. ASSUME NEW t \in Tags, InFlight(t)', InsAt(t)'.op \in VecOps
      PROVE  \/ rob'[t].ready /\ (rs'["vec"].busy => (Age(t) < Age(rs["vec"].rob_tag))')
             \/ rs'["vec"].busy /\ rs'["vec"].rob_tag = t
  BY <1>0, <1>1, <1>2, <1>3, <1>4 DEF VectorRight
<1>5. VSees(IF rs["vec"].busy THEN Age(rs["vec"].rob_tag) ELSE rob_count, vregs)'
  <2>1. PICK n, V : /\ V = vregs /\ V = vregs'
                    /\ n = IF rs["vec"].busy THEN Age(rs["vec"].rob_tag) ELSE rob_count
                    /\ n = (IF rs["vec"].busy THEN Age(rs["vec"].rob_tag) ELSE rob_count)'
    BY <1>2, <1>3
  <2>2. VSees(n, V)
    BY <1>0, <2>1 DEF VectorRight
  <2>3. VSees(n, V)'
    BY <1>1, <2>2
  <2> QED BY <2>1, <2>3 DEF VSees
<1> QED BY <1>4, <1>5 DEF VectorRight

\* A step that only counts or starts a unit.
LEMMA QuietOrder ==
  ASSUME OrderCore,
         UNCHANGED <<prog, rob_head, rob_tail, rob_count, regfile, arch, csr_vl, csr_vtype, dmem, vregs,
                     eff, fetch_pc, fetch_stalled>>,
         fetch_done' => fetch_done \/ (Fetched.op = "end" /\ ~fetch_stalled),
         \A t \in Tags : InFlight(t) => rob'[t] = rob[t],
         \A u \in Units : /\ rs'[u].busy = rs[u].busy /\ rs'[u].rob_tag = rs[u].rob_tag
                          /\ rs'[u].pc = rs[u].pc /\ rs'[u].src = rs[u].src /\ rs'[u].vl = rs[u].vl
                          /\ rs'[u].executing => rs[u].executing \/ u = "vec" \/ OperandsReady(u)
  PROVE  OrderParts'
<1>1. KeepsFlight
  BY DEF KeepsFlight
<1>2. "br" \in Units /\ "vec" \in Units
  BY DEF Units, Timed
<1>3. PathRight' /\ \A t \in Tags : Follower(t)' = Follower(t)
  BY <1>1, <1>2, PathStays
<1>4. VectorRight'
  BY <1>1, <1>2, VecStays
<1>5. \A u \in Units : rs'[u].busy => HearsOnly(u)
  BY DEF HearsOnly
<1>6. Decoded' /\ OperandsRight' /\ ConfigRight' /\ ResultsRight' /\ ZeroRegister'
  BY <1>1, <1>3, <1>5, WorkOrder
<1> QED BY <1>3, <1>4, <1>6 DEF OrderParts

\* What a station works with is what its instruction reads.
LEMMA StationReads ==
  ASSUME OrderCore, NEW u \in Units, Listens(u), NEW k \in 1 .. 3, rs[u].src[k].ready
  PROVE  /\ Val(u, k) \in Word /\ OooInstr(InsAt(rs[u].rob_tag))
         /\ Reads(InsAt(rs[u].rob_tag), k, rs[u].rob_tag, Val(u, k))
<1>0. PipeCore /\ WellTyped /\ OperandsRight /\ rs[u].busy
  BY DEF OrderCore, OrderInv, PipeCore, Listens
<1>1. OperandRight(u, k)
  BY <1>0 DEF OperandsRight
<1>2. InsOf(u) = InsAt(rs[u].rob_tag)
  BY <1>0, StationIns
<1>3. Val(u, k) \in Word /\ OooInstr(InsOf(u))
  BY <1>0, StationTyped, CodeTyped
<1> QED BY <1>1, <1>2, <1>3 DEF OperandRight, Val

\* What an instruction does not read from a register is always there.
LEMMA NoOperand ==
  ASSUME NEW i, OooInstr(i), NEW k \in 1 .. 3, NEW t, ~ReadsReg(i, k)
  PROVE  SrcImm(i, k) \in Word /\ Reads(i, k, t, SrcImm(i, k))
  BY ArgumentsTyped DEF Reads

\* A unit that delivers.
LEMMA DoneUnit ==
  ASSUME OrderCore, NEW u \in Done
  PROVE  /\ u \in Units /\ u \in Timed /\ rs[u].busy /\ OperandsReady(u) /\ Listens(u)
         /\ rs[u].rob_tag \in Tags /\ InFlight(rs[u].rob_tag) /\ ~rob[rs[u].rob_tag].ready
         /\ InsOf(u) = InsAt(rs[u].rob_tag) /\ InsOf(u).op \in UnitOps(u)
         /\ rs[u].pc = eff[rs[u].rob_tag].pc
         /\ Results[rs[u].rob_tag] = Result(u)
<1>0. PipeCore /\ Decoded /\ StationsOwn
  BY DEF OrderCore, OrderInv, PipeCore, PipelineInv
<1>1. u \in Units /\ u \in Timed /\ rs[u].busy /\ rs[u].executing
  BY DEF Done, Units
<1>2. OperandsReady(u) /\ InsOf(u).op \in UnitOps(u)
  BY <1>0, <1>1 DEF Decoded, StationDecoded
<1>3. Listens(u)
  BY <1>1 DEF Listens, Timed, AluUnits
<1>4. rs[u].pc = eff[rs[u].rob_tag].pc
  BY <1>0, <1>1 DEF StationsOwn
<1>5. Results[rs[u].rob_tag] = Result(u)
  <2>1. \A w \in Done : rs[w].rob_tag = rs[u].rob_tag => w = u
    BY <1>0, <1>1 DEF StationsOwn, Done, Units
  <2>2. (CHOOSE w \in Done : rs[w].rob_tag = rs[u].rob_tag) = u
    BY <2>1
  <2> QED BY <2>2 DEF Results
<1> QED BY <1>0, <1>1, <1>2, <1>3, <1>4, <1>5, StationIns

\* What the timed units execute is not of the other kinds.
LEMMA TimedOps ==
  ASSUME NEW u \in Timed, NEW op, op \in UnitOps(u)
  PROVE  /\ op \notin StoreOps \cup VSetOps \cup HeadOps \cup LoadOps \cup VecOps \cup {"lui", "jal"}
         /\ u \in AluUnits <=> op \in AluOps
         /\ u = "md" <=> op \in MdOps
         /\ u = "fpu" <=> op \in FpuOps
         /\ u = "br" <=> op \in JumpOps
<1>1. u \in {"alu0", "alu1", "md", "fpu", "br"}
  BY DEF Timed, AluUnits
<1>2. CASE u \in AluUnits
  BY <1>2 DEF UnitOps, AluUnits, StoreOps, VSetOps, HeadOps, LoadOps, VecOps, VArithOps, VMemOps, CsrOps,
              AluOps, MdOps, FpuOps, JumpOps, BranchOps
<1>3. CASE u = "md"
  BY <1>3 DEF UnitOps, AluUnits, StoreOps, VSetOps, HeadOps, LoadOps, VecOps, VArithOps, VMemOps, CsrOps,
              AluOps, MdOps, FpuOps, JumpOps, BranchOps
<1>4. CASE u = "fpu"
  BY <1>4 DEF UnitOps, AluUnits, StoreOps, VSetOps, HeadOps, LoadOps, VecOps, VArithOps, VMemOps, CsrOps,
              AluOps, MdOps, FpuOps, JumpOps, BranchOps
<1>5. CASE u = "br"
  BY <1>5 DEF UnitOps, AluUnits, StoreOps, VSetOps, HeadOps, LoadOps, VecOps, VArithOps, VMemOps, CsrOps,
              AluOps, MdOps, FpuOps, JumpOps, BranchOps
<1> QED BY <1>1, <1>2, <1>3, <1>4, <1>5 DEF AluUnits

\* A broadcast changes nothing but operands.
LEMMA HeardOnly ==
  ASSUME WellTyped, NEW S, NEW res \in [S -> Word], NEW u \in Units
  PROVE  /\ cdb_broadcast(res)[u].busy = rs[u].busy
         /\ cdb_broadcast(res)[u].executing = rs[u].executing
         /\ cdb_broadcast(res)[u].rob_tag = rs[u].rob_tag
         /\ cdb_broadcast(res)[u].pc = rs[u].pc
         /\ cdb_broadcast(res)[u].vl = rs[u].vl
  BY BroadcastTyped

\* A broadcast, and what a busy station hears of it.
LEMMA HeardResult ==
  ASSUME WellTyped, NEW S, NEW res \in [S -> Word], NEW u \in Units, rs[u].busy, NEW k \in 1 .. 3,
         NEW h, h = cdb_broadcast(res)[u].src[k]
  PROVE  \/ h = rs[u].src[k]
         \/ /\ ~rs[u].src[k].ready /\ rs[u].src[k].tag \in S
            /\ h.ready /\ h.val = res[rs[u].src[k].tag]
<1>0. cdb_broadcast(res)[u].src = [j \in 1 .. 3 |-> Hear(rs[u].src[j], res)]
  BY BroadcastTyped
<1>1. h = Hear(rs[u].src[k], res) /\ DOMAIN res = S
  BY <1>0
<1> QED BY <1>1 DEF Hear, Ready

LEMMA ExecuteOrder == ASSUME OrderCore, Execute PROVE OrderParts'
<1>0. /\ PipeCore /\ WellTyped /\ StationsOwn /\ PathRight /\ "br" \in Units /\ "vec" \in Units
      /\ rob \in [Tags -> RobEntry]
      /\ UNCHANGED <<prog, rob_head, rob_tail, rob_count, regfile, arch, csr_vl, csr_vtype, dmem, vregs,
                     eff, fetch_done>>
  BY DEF OrderCore, OrderInv, PipeCore, PipelineInv, Units, Timed, Execute, vcfg, WellTyped, OooTypeOK
<1>1. DOMAIN Results = {rs[u].rob_tag : u \in Done} /\ Results \in [DOMAIN Results -> Word]
  BY <1>0, ResultsTyped
<1>2. ASSUME NEW t \in Tags
      PROVE  /\ rob'[t].valid = rob[t].valid /\ rob'[t].dest = rob[t].dest
             /\ rob'[t].is_store = rob[t].is_store /\ rob'[t].is_ecall = rob[t].is_ecall
             /\ t \in DOMAIN Results => rob'[t].value = Results[t] /\ rob'[t].ready
             /\ t \notin DOMAIN Results => rob'[t] = rob[t]
  <2>1. rob[t] \in RobEntry
    BY <1>0
  <2>2. rob'[t] = IF t \in DOMAIN Results THEN [rob[t] EXCEPT !.value = Results[t], !.ready = TRUE] ELSE rob[t]
    BY DEF Execute
  <2>3. t \in DOMAIN Results => rob'[t] = [rob[t] EXCEPT !.value = Results[t], !.ready = TRUE]
    BY <2>2
  <2> QED BY <2>1, <2>2, <2>3 DEF RobEntry
<1>3. \A t \in Tags : InFlight(t) /\ rob[t].ready => t \notin DOMAIN Results
  BY <1>1, DoneUnit
<1>4. KeepsFlight
  BY <1>0, <1>2, <1>3 DEF KeepsFlight
<1>5. ASSUME NEW u \in Units
      PROVE  /\ rs'[u].busy <=> rs[u].busy /\ u \notin Done
             /\ rs'[u].rob_tag = rs[u].rob_tag
             /\ rs'[u].busy => HearsOnly(u)
  <2> DEFINE h == cdb_broadcast(Results)[u]
  <2>1. /\ h \in Station /\ h.busy = rs[u].busy /\ h.executing = rs[u].executing
        /\ h.rob_tag = rs[u].rob_tag /\ h.pc = rs[u].pc /\ h.vl = rs[u].vl
    <3>1. cdb_broadcast(Results) \in [Units -> Station]
      BY <1>0, <1>1, BroadcastTyped
    <3>2. /\ h.busy = rs[u].busy /\ h.executing = rs[u].executing
          /\ h.rob_tag = rs[u].rob_tag /\ h.pc = rs[u].pc /\ h.vl = rs[u].vl
      BY <1>0, <1>1, BroadcastTyped
    <3> QED BY <3>1, <3>2
  <2>2. ASSUME rs[u].busy, NEW k \in 1 .. 3
        PROVE  \/ h.src[k] = rs[u].src[k]
               \/ /\ ~rs[u].src[k].ready /\ rs[u].src[k].tag \in DOMAIN Results
                  /\ h.src[k].ready /\ h.src[k].val = Results[rs[u].src[k].tag]
    BY <1>0, <1>1, <2>2, HeardResult
  <2>3. rs'[u] = IF u \in Done
                 THEN [h EXCEPT !.busy = FALSE, !.executing = FALSE, !.remaining = 0]
                 ELSE IF u \in Timed /\ h.busy /\ h.executing
                 THEN [h EXCEPT !.remaining = h.remaining - 1]
                 ELSE h
    BY DEF Execute
  <2> HIDE DEF h
  <2>4. /\ rs'[u].rob_tag = h.rob_tag /\ rs'[u].pc = h.pc /\ rs'[u].vl = h.vl /\ rs'[u].src = h.src
        /\ u \in Done => ~rs'[u].busy
        /\ u \notin Done => rs'[u].busy = h.busy /\ rs'[u].executing = h.executing
    BY <2>1, <2>3 DEF Station
  <2>5. u \in Done => rs[u].busy
    BY DEF Done
  <2>6. ASSUME rs'[u].busy PROVE HearsOnly(u)
    <3>1. rs[u].busy /\ u \notin Done
      BY <2>1, <2>4, <2>6
    <3>2. ASSUME NEW k \in 1 .. 3, rs'[u].src[k] # rs[u].src[k]
          PROVE  /\ ~rs[u].src[k].ready /\ rs'[u].src[k].ready /\ rob'[rs[u].src[k].tag].ready
                 /\ rs'[u].src[k].val = rob'[rs[u].src[k].tag].value
      <4>1. PICK w \in Tags : w = rs[u].src[k].tag
        BY <1>0, StationTyped
      <4>2. ~rs[u].src[k].ready /\ w \in DOMAIN Results /\ rs'[u].src[k].ready /\ rs'[u].src[k].val = Results[w]
        BY <2>2, <2>4, <3>1, <3>2, <4>1
      <4> QED BY <1>2, <4>1, <4>2
    <3> QED BY <2>1, <2>4, <3>1, <3>2 DEF HearsOnly
  <2> QED BY <2>1, <2>4, <2>5, <2>6
\* The unit that resolves a jump works for the youngest entry.
<1>6. "br" \in Done => Age(rs["br"].rob_tag) = rob_count - 1
  BY <1>0, DoneUnit DEF PathRight
<1>7. ASSUME NEW t \in Tags, InFlight(t), "br" \in Done => t # rs["br"].rob_tag
      PROVE  Follower(t)' = Follower(t)
  <2>1. CASE "br" \notin Done
    <3>1. fetch_pc' = fetch_pc
      BY <2>1 DEF Execute, ResumeFetch
    <3> QED BY <1>0, <1>4, <3>1, KeptVectors
  <2>2. CASE "br" \in Done
    <3>1. PICK x \in Tags : x = rs["br"].rob_tag /\ Age(x) = rob_count - 1
      BY <1>6, <2>2, DoneUnit
    <3>2. Age(t) # rob_count - 1
      BY <1>0, <1>7, <2>2, <3>1, Ages
    <3>3. Inc(t) \in Tags
      BY IncIsTag
    <3> QED BY <1>0, <3>2, <3>3 DEF Follower, Inc, Age
  <2> QED BY <2>1, <2>2
<1>8. ASSUME NEW t \in Tags, InFlight(t), ~rob[t].ready, rob'[t].ready PROVE Explained(t)'
  <2>1. PICK u \in Done : t = rs[u].rob_tag
    BY <1>1, <1>2, <1>8
  <2>2. PICK i : /\ i = InsAt(t) /\ i = InsAt(t)' /\ i = InsOf(u) /\ OooInstr(i) /\ i.op \in UnitOps(u)
                 /\ u \in Timed /\ u \in Units
    BY <1>0, <2>1, DoneUnit, CodeTyped DEF InsAt
  <2>3. PICK a \in Word, b \in Word, c \in Word :
          /\ a = Val(u, 1) /\ b = Val(u, 2) /\ c = Val(u, 3)
          /\ Reads(i, 1, t, a) /\ Reads(i, 2, t, b) /\ Reads(i, 3, t, c)
    <3>1. OperandsReady(u) /\ Listens(u) /\ u \in Units
      BY DoneUnit
    <3>2. \A k \in 1 .. 3 : rs[u].src[k].ready
      BY <3>1 DEF OperandsReady
    <3>3. 1 \in 1 .. 3 /\ 2 \in 1 .. 3 /\ 3 \in 1 .. 3
      OBVIOUS
    <3>4. \A k \in 1 .. 3 : Val(u, k) \in Word /\ Reads(InsAt(rs[u].rob_tag), k, rs[u].rob_tag, Val(u, k))
      BY <3>1, <3>2, StationReads
    <3> QED BY <2>1, <2>2, <3>3, <3>4
  <2>4. Reads(i, 1, t, a)' /\ Reads(i, 2, t, b)' /\ Reads(i, 3, t, c)'
    <3>3. 1 \in 1 .. 3 /\ 2 \in 1 .. 3 /\ 3 \in 1 .. 3
      OBVIOUS
    <3> QED BY <1>4, <2>3, <3>3, ReadsKept
  <2>5. /\ i.op \notin StoreOps \cup VSetOps \cup HeadOps \cup LoadOps \cup VecOps \cup {"lui", "jal"}
        /\ u \in AluUnits <=> i.op \in AluOps
        /\ u = "md" <=> i.op \in MdOps
        /\ u = "fpu" <=> i.op \in FpuOps
        /\ u = "br" <=> i.op \in JumpOps
    BY <2>2, TimedOps
  <2>6. rob'[t].value = Result(u)
    BY <1>1, <1>2, <2>1, DoneUnit
  <2>7. ScalarOutcome(t, a, b, c)'
    <3>1. i.op \in AluOps => rob'[t].value = alu_compute(i, a, b)
      BY <2>2, <2>3, <2>5, <2>6 DEF Result, AluUnits
    <3>2. i.op \in MdOps => rob'[t].value = md_compute(i, a, b)
      BY <2>2, <2>3, <2>5, <2>6 DEF Result, AluUnits
    <3>3. i.op \in FpuOps => rob'[t].value = fpu_compute(i, a, b, c)
      BY <2>2, <2>3, <2>5, <2>6 DEF Result, AluUnits
    <3>4. i.op = "jalr" => rob'[t].value = NextPc(eff'[t].pc)
      <4> SUFFICES ASSUME i.op = "jalr" PROVE rob'[t].value = NextPc(eff'[t].pc)
        OBVIOUS
      <4>1. u = "br"
        BY <2>5 DEF JumpOps
      <4>2. Result(u) = NextPc(rs[u].pc)
        BY <2>2, <4>1 DEF Result, AluUnits
      <4> QED BY <1>0, <2>1, <2>6, <4>2, DoneUnit
    <3> QED BY <2>2, <2>5, <3>1, <3>2, <3>3, <3>4 DEF ScalarOutcome
  <2>8. JumpOutcome(t, a, b)'
    <3> SUFFICES ASSUME i.op \in JumpOps PROVE JumpOutcome(t, a, b)'
      BY <2>2 DEF JumpOutcome, JumpOps
    <3>1. u = "br"
      BY <2>5
    <3>2. fetch_pc' = IF i.op = "jalr" THEN Plus(a, i.imm)
                      ELSE IF branch_taken(i, a, b) THEN i.imm ELSE NextPc(rs[u].pc)
      BY <2>2, <2>3, <3>1 DEF Execute, ResumeFetch
    <3>3. rs[u].pc = eff'[t].pc
      BY <1>0, <2>1, DoneUnit
    <3>4. Follower(t)' = fetch_pc'
      BY <1>0, <1>6, <2>1, <3>1 DEF Follower, Age
    <3>5. i.op \in BranchOps => i.op # "jalr"
      BY DEF BranchOps
    <3> QED BY <2>2, <3>2, <3>3, <3>4, <3>5 DEF JumpOutcome
  <2>9. VsetOutcome(t, a, b)' /\ LoadOutcome(t, a)' /\ ArithOutcome(t)'
    <3>1. i.op \notin VSetOps /\ i.op \notin HeadOps /\ i.op \notin LoadOps /\ i.op # "vle32" /\ i.op \notin VArithOps
      BY <2>5 DEF VecOps, VMemOps
    <3>2. VsetOutcome(t, a, b)'
      BY <2>2, <3>1 DEF VsetOutcome
    <3>3. LoadOutcome(t, a)'
      BY <2>2, <3>1 DEF LoadOutcome
    <3>4. ArithOutcome(t)'
      BY <2>2, <3>1 DEF ArithOutcome
    <3> QED BY <3>2, <3>3, <3>4
  <2> QED BY <2>2, <2>4, <2>7, <2>8, <2>9 DEF Explained
<1>9. Decoded' /\ OperandsRight' /\ ConfigRight' /\ ResultsRight' /\ ZeroRegister'
  <2>1. ASSUME NEW t \in Tags, InFlight(t), rob[t].ready PROVE Follower(t)' = Follower(t)
    <3>1. "br" \in Done => ~rob[rs["br"].rob_tag].ready
      BY DoneUnit
    <3> QED BY <1>7, <2>1, <3>1
  <2> QED BY <1>4, <1>5, <1>8, <2>1, WorkOrder
<1>10. PathRight'
  <2>1. ASSUME NEW t \in Tags, InFlight(t)', InsAt(t)'.op \notin JumpOps
        PROVE  Follower(t)' = IF InsAt(t)'.op = "jal" THEN InsAt(t)'.imm ELSE NextPc(eff'[t].pc)
    <3>1. InFlight(t) /\ InsAt(t)' = InsAt(t) /\ eff'[t] = eff[t]
      BY <1>0, <2>1 DEF InFlight, Age, InsAt
    <3>2. "br" \in Done => t # rs["br"].rob_tag
      <4>1. "br" \in Done => InsAt(rs["br"].rob_tag).op \in JumpOps
        BY DoneUnit DEF UnitOps, AluUnits
      <4> QED BY <2>1, <3>1, <4>1
    <3>3. Follower(t)' = Follower(t)
      BY <1>7, <3>1, <3>2
    <3> QED BY <1>0, <2>1, <3>1, <3>3 DEF PathRight
  <2>2. fetch_stalled' <=> rs'["br"].busy
    BY <1>0, <1>5 DEF PathRight, Execute, ResumeFetch
  <2>3. rs'["br"].busy => (Age(rs["br"].rob_tag) = rob_count - 1)'
    BY <1>0, <1>5 DEF PathRight, Age
  <2>4. fetch_done' => Fetched'.op = "end" /\ ~fetch_stalled'
    <3> SUFFICES ASSUME fetch_done PROVE Fetched'.op = "end" /\ ~fetch_stalled'
      BY <1>0
    <3>1. ~rs["br"].busy
      BY <1>0 DEF PathRight
    <3>2. "br" \notin Done
      BY <3>1 DEF Done
    <3> QED BY <1>0, <3>2 DEF PathRight, Execute, ResumeFetch, Fetched
  <2> QED BY <2>1, <2>2, <2>3, <2>4 DEF PathRight
<1>11. VectorRight'
  <2>1. "vec" \notin Done
    BY DEF Done, Timed, AluUnits
  <2>2. rs'["vec"].busy = rs["vec"].busy
    <3>1. rs["vec"].busy \in BOOLEAN /\ rs'["vec"].busy \in BOOLEAN
      BY <1>0, StationTyped, ExecuteTyped DEF WellTyped, OooTypeOK, Station
    <3> QED BY <1>0, <1>5, <2>1, <3>1
  <2> QED BY <1>0, <1>4, <1>5, <2>2, VecStays
<1> QED BY <1>9, <1>10, <1>11 DEF OrderParts

\* A unit that answers at the head of the ROB.
LEMMA AnswerOrder ==
  ASSUME OrderCore, NEW w \in {"lsu", "sys"}, rs[w].busy, NEW v \in Word, Answer(w, v),
         UNCHANGED <<prog, fetch_pc, fetch_stalled, fetch_done, rob_head, rob_tail, rob_count, regfile, arch,
                     csr_vl, csr_vtype, dmem, vregs, eff>>,
         NEW tag \in Tags, tag = rs[w].rob_tag,
         KeepsFlight /\ rob'[tag].value = v => Explained(tag)'
  PROVE  OrderParts'
<1>0. /\ PipeCore /\ WellTyped /\ StationsOwn /\ "br" \in Units /\ "vec" \in Units /\ w \in Units
      /\ rob \in [Tags -> RobEntry]
  BY DEF OrderCore, OrderInv, PipeCore, PipelineInv, Units, Timed, WellTyped, OooTypeOK
<1>1. InFlight(tag) /\ ~rob[tag].ready
  BY <1>0, StationIns
<1>2. ASSUME NEW t \in Tags
      PROVE  /\ rob'[t].dest = rob[t].dest
             /\ rob'[t].is_store = rob[t].is_store /\ rob'[t].is_ecall = rob[t].is_ecall
             /\ t # tag => rob'[t] = rob[t]
             /\ t = tag => rob'[t].value = v /\ rob'[t].ready
  <2>1. rob[t] \in RobEntry
    BY <1>0
  <2>2. rob' = [rob EXCEPT ![tag].value = v, ![tag].ready = TRUE]
    BY DEF Answer
  <2>3. CASE t = tag
    <3>1. rob'[t] = [rob[t] EXCEPT !.value = v, !.ready = TRUE]
      BY <1>0, <2>1, <2>2, <2>3 DEF RobEntry
    <3> QED BY <2>1, <2>3, <3>1 DEF RobEntry
  <2>4. CASE t # tag
    <3>1. rob'[t] = rob[t]
      BY <1>0, <2>2, <2>4
    <3> QED BY <2>4, <3>1
  <2> QED BY <2>3, <2>4
<1>3. KeepsFlight
  BY <1>1, <1>2 DEF KeepsFlight
<1> DEFINE res == [t \in {tag} |-> v]
           heard == cdb_broadcast(res)
<1>4. res \in [{tag} -> Word] /\ res[tag] = v
  OBVIOUS
<1>6. rs' = [heard EXCEPT ![w].busy = FALSE]
  BY DEF Answer
<1> HIDE DEF res
<1>5. heard \in [Units -> Station]
  BY <1>0, <1>4, BroadcastTyped
<1>7. ASSUME NEW u \in Units
      PROVE  /\ heard[u].busy = rs[u].busy /\ heard[u].executing = rs[u].executing
             /\ heard[u].rob_tag = rs[u].rob_tag /\ heard[u].pc = rs[u].pc /\ heard[u].vl = rs[u].vl
  <2>1. WellTyped /\ res \in [{tag} -> Word]
    BY <1>0, <1>4
  <2> QED BY <2>1, HeardOnly
<1>8. ASSUME NEW u \in Units, rs[u].busy, NEW k \in 1 .. 3
      PROVE  \/ heard[u].src[k] = rs[u].src[k]
             \/ /\ ~rs[u].src[k].ready /\ rs[u].src[k].tag \in {tag}
                /\ heard[u].src[k].ready /\ heard[u].src[k].val = res[rs[u].src[k].tag]
  BY <1>0, <1>4, <1>8, HeardResult
<1> HIDE DEF heard
<1>9. ASSUME NEW u \in Units
      PROVE  /\ u # w => rs'[u] = heard[u]
             /\ rs'[u].busy => u # w
             /\ rs'[u].rob_tag = rs[u].rob_tag
  <2>1. CASE u = w
    <3>1. rs'[u] = [heard[u] EXCEPT !.busy = FALSE]
      BY <1>5, <1>6, <2>1
    <3>2. heard[u] \in Station
      BY <1>5
    <3> QED BY <1>7, <2>1, <3>1, <3>2 DEF Station
  <2>2. CASE u # w
    <3>1. rs'[u] = heard[u]
      BY <1>5, <1>6, <2>2
    <3> QED BY <1>7, <2>2, <3>1
  <2> QED BY <2>1, <2>2
<1>10. ASSUME NEW u \in Units, rs'[u].busy PROVE HearsOnly(u)
  <2>1. u # w /\ rs'[u] = heard[u]
    BY <1>9, <1>10
  <2>2. rs[u].busy
    BY <1>7, <1>10, <2>1
  <2>3. ASSUME NEW k \in 1 .. 3, rs'[u].src[k] # rs[u].src[k]
        PROVE  /\ ~rs[u].src[k].ready /\ rs'[u].src[k].ready /\ rob'[rs[u].src[k].tag].ready
               /\ rs'[u].src[k].val = rob'[rs[u].src[k].tag].value
    <3>1. /\ ~rs[u].src[k].ready /\ rs[u].src[k].tag = tag
          /\ rs'[u].src[k].ready /\ rs'[u].src[k].val = v
      BY <1>4, <1>8, <2>1, <2>2, <2>3
    <3> QED BY <1>2, <3>1
  <2> QED BY <1>7, <2>1, <2>2, <2>3 DEF HearsOnly
<1>11. /\ \A u \in {"br", "vec"} : rs'[u].busy = rs[u].busy /\ rs'[u].rob_tag = rs[u].rob_tag
  BY <1>0, <1>7, <1>9
<1>12. PathRight' /\ \A t \in Tags : Follower(t)' = Follower(t)
  BY <1>3, <1>11, PathStays
<1>13. VectorRight'
  BY <1>3, <1>11, VecStays
<1>14. Decoded' /\ OperandsRight' /\ ConfigRight' /\ ResultsRight' /\ ZeroRegister'
  <2>1. ASSUME NEW t \in Tags, InFlight(t), ~rob[t].ready, rob'[t].ready PROVE Explained(t)'
    <3>1. t = tag
      BY <1>2, <2>1
    <3> QED BY <1>2, <1>3, <3>1
  <2> QED BY <1>3, <1>10, <1>12, <2>1, WorkOrder
<1> QED BY <1>12, <1>13, <1>14 DEF OrderParts

\* The instructions of the LSU, and of the unit for CSR instructions.
LEMMA LateOps ==
  /\ \A op \in LoadOps \cup StoreOps \cup CsrOps :
       op \notin AluOps \cup MdOps \cup FpuOps \cup JumpOps \cup BranchOps \cup VSetOps \cup VecOps
                 \cup VArithOps \cup {"lui", "jal", "jalr", "vle32"}
  /\ \A op \in LoadOps : op \notin StoreOps \cup CsrOps
  /\ \A op \in StoreOps : op \notin LoadOps \cup CsrOps \cup HeadOps
  /\ \A op \in CsrOps : op \notin LoadOps \cup StoreOps
  BY DEF LoadOps, StoreOps, CsrOps, AluOps, MdOps, FpuOps, JumpOps, BranchOps, VSetOps, VecOps, VArithOps,
         VMemOps, HeadOps

LEMMA LsuOrder == ASSUME OrderCore, LsuStore \/ LsuLoad \/ LsuIdle PROVE OrderParts'
<1>0. /\ PipeCore /\ WellTyped /\ Decoded /\ StationsOwn /\ "lsu" \in Units /\ "br" \in Units /\ "vec" \in Units
      /\ rob \in [Tags -> RobEntry] /\ rs \in [Units -> Station]
      /\ UNCHANGED <<prog, fetch_pc, fetch_stalled, fetch_done, rob_head, rob_tail, rob_count, regfile, arch,
                     csr_vl, csr_vtype, dmem, vregs, eff>>
  BY DEF OrderCore, OrderInv, PipeCore, PipelineInv, Units, Timed, WellTyped, OooTypeOK, LsuStore, LsuLoad, LsuIdle,
         LsuRest, front, vcfg
<1>1. CASE LsuIdle
  BY <1>0, <1>1, QuietOrder DEF LsuIdle
<1>2. CASE LsuStore \/ LsuLoad
  <2>1. rs["lsu"].busy /\ OperandsReady("lsu") /\ Listens("lsu")
    BY <1>2 DEF LsuStore, LsuLoad, LoadMayExecute, LsuReady, Listens
  <2>2. PICK tag \in Tags, i \in {InsOf("lsu")} :
                               /\ tag = rs["lsu"].rob_tag /\ InFlight(tag) /\ ~rob[tag].ready
                               /\ i = InsAt(tag) /\ i = InsAt(tag)' /\ i = InsOf("lsu") /\ OooInstr(i)
                               /\ i.op \in LoadOps \cup StoreOps
    <3>1. InsOf("lsu").op \in UnitOps("lsu")
      BY <1>0, <2>1 DEF Decoded, StationDecoded
    <3>2. InsOf("lsu").op \in LoadOps \cup StoreOps
      BY <3>1 DEF UnitOps, AluUnits
    <3>3. PICK tag \in Tags : tag = rs["lsu"].rob_tag
      BY <1>0, StationTyped
    <3>4. InsAt(tag)' = InsAt(tag)
      BY <1>0 DEF InsAt
    <3> QED BY <1>0, <2>1, <3>2, <3>3, <3>4, StationIns, CodeTyped
  <2>3. PICK a \in Word, b \in Word, c \in Word :
          /\ a = Val("lsu", 1) /\ b = Val("lsu", 2) /\ c = Val("lsu", 3)
          /\ Reads(i, 1, tag, a) /\ Reads(i, 2, tag, b) /\ Reads(i, 3, tag, c)
    <3>1. \A k \in 1 .. 3 : rs["lsu"].src[k].ready
      BY <2>1 DEF OperandsReady
    <3>2. \A k \in 1 .. 3 : Val("lsu", k) \in Word
                            /\ Reads(InsAt(rs["lsu"].rob_tag), k, rs["lsu"].rob_tag, Val("lsu", k))
      BY <1>0, <2>1, <3>1, StationReads
    <3>3. 1 \in 1 .. 3 /\ 2 \in 1 .. 3 /\ 3 \in 1 .. 3
      OBVIOUS
    <3> QED BY <2>2, <3>2, <3>3
  <2>4. KeepsFlight => Reads(i, 1, tag, a)' /\ Reads(i, 2, tag, b)' /\ Reads(i, 3, tag, c)'
    <3>3. 1 \in 1 .. 3 /\ 2 \in 1 .. 3 /\ 3 \in 1 .. 3
      OBVIOUS
    <3> QED BY <2>3, <3>3, ReadsKept
  <2>5. JumpOutcome(tag, a, b)' /\ VsetOutcome(tag, a, b)' /\ ArithOutcome(tag)'
    <3>1. i.op \notin JumpOps \cup BranchOps \cup VSetOps \cup VArithOps \cup {"jalr"}
      BY <2>2, LateOps
    <3>2. JumpOutcome(tag, a, b)'
      BY <2>2, <3>1 DEF JumpOutcome
    <3>3. VsetOutcome(tag, a, b)'
      BY <2>2, <3>1 DEF VsetOutcome
    <3>4. ArithOutcome(tag)'
      BY <2>2, <3>1 DEF ArithOutcome
    <3> QED BY <3>2, <3>3, <3>4
  <2>6. i.op \notin AluOps \cup MdOps \cup FpuOps \cup {"lui", "jal", "jalr", "vle32"}
    BY <2>2, LateOps
  <2>7. CASE LsuLoad
    <3> DEFINE v == dmem[MemIndex(LsuAddr)]
    <3>1. /\ i.op \in LoadOps /\ i.op \notin StoreOps /\ tag = rob_head /\ LsuAddr = Plus(a, i.imm)
          /\ Answer("lsu", v)
      BY <2>2, <2>3, <2>7, LateOps DEF LsuLoad, LoadMayExecute, LsuIsLoad, AtHead, LsuAddr
    <3>2. v \in Word
      <4>1. LsuAddr \in Word
        BY <2>2, <3>1, PlusIsWord DEF OooInstr
      <4> QED BY <1>0, <4>1, MemIndexTyped DEF WellTyped, OooTypeOK
    <3>3. ASSUME KeepsFlight, rob'[tag].value = v PROVE Explained(tag)'
      <4>1. ScalarOutcome(tag, a, b, c)'
        BY <2>2, <2>6, <3>1 DEF ScalarOutcome
      <4>2. LoadOutcome(tag, a)'
        BY <1>0, <2>2, <2>6, <3>1, <3>3 DEF LoadOutcome
      <4> QED BY <2>2, <2>4, <2>5, <3>3, <4>1, <4>2 DEF Explained
    <3> HIDE DEF v
    <3> QED BY <1>0, <2>1, <2>2, <3>1, <3>2, <3>3, AnswerOrder
  <2>8. CASE LsuStore
    <3>1. i.op \in StoreOps /\ i.op \notin LoadOps \cup HeadOps /\ LsuAddr = Plus(a, i.imm)
      BY <2>2, <2>3, <2>8, LateOps DEF LsuStore, LsuIsLoad, LsuAddr
    <3>2. /\ rs' = [rs EXCEPT !["lsu"].busy = FALSE]
          /\ rob' = [rob EXCEPT ![tag] = [rob[tag] EXCEPT !.addr = LsuAddr, !.sdata = b, !.ready = TRUE]]
      BY <2>2, <2>3, <2>8 DEF LsuStore
    <3>3. ASSUME NEW t \in Tags
          PROVE  /\ rob'[t].dest = rob[t].dest
                 /\ rob'[t].is_store = rob[t].is_store /\ rob'[t].is_ecall = rob[t].is_ecall
                 /\ t # tag => rob'[t] = rob[t]
                 /\ t = tag => rob'[t].addr = LsuAddr /\ rob'[t].sdata = b
      <4>1. rob[t] \in RobEntry
        BY <1>0
      <4> QED BY <1>0, <3>2, <4>1 DEF RobEntry
    <3>4. KeepsFlight
      BY <1>0, <2>2, <3>3 DEF KeepsFlight
    <3>5. ASSUME NEW u \in Units PROVE u # "lsu" => rs'[u] = rs[u]
      BY <1>0, <3>2
    <3>6. ~rs'["lsu"].busy
      <4>1. rs'["lsu"] = [rs["lsu"] EXCEPT !.busy = FALSE]
        BY <1>0, <3>2
      <4> QED BY <1>0, <4>1 DEF Station
    <3>7. \A u \in Units : rs'[u].busy => HearsOnly(u)
      BY <3>5, <3>6 DEF HearsOnly
    <3>8. PathRight' /\ \A t \in Tags : Follower(t)' = Follower(t)
      BY <1>0, <3>4, <3>5, PathStays
    <3>9. VectorRight'
      BY <1>0, <3>4, <3>5, VecStays
    <3>10. Explained(tag)'
      <4>1. ScalarOutcome(tag, a, b, c)'
        BY <2>2, <2>6, <3>1, <3>3 DEF ScalarOutcome
      <4>2. LoadOutcome(tag, a)'
        BY <2>2, <2>6, <3>1 DEF LoadOutcome
      <4> QED BY <2>2, <2>4, <2>5, <3>4, <4>1, <4>2 DEF Explained
    <3>11. Decoded' /\ OperandsRight' /\ ConfigRight' /\ ResultsRight' /\ ZeroRegister'
      <4>1. ASSUME NEW t \in Tags, InFlight(t), ~rob[t].ready, rob'[t].ready PROVE Explained(t)'
        BY <3>3, <3>10, <4>1
      <4> QED BY <3>4, <3>7, <3>8, <4>1, WorkOrder
    <3> QED BY <3>8, <3>9, <3>11 DEF OrderParts
  <2> QED BY <1>2, <2>7, <2>8
<1> QED BY <1>1, <1>2

LEMMA SysOrder == ASSUME OrderCore, SysExecute \/ SysIdle PROVE OrderParts'
<1>0. /\ PipeCore /\ WellTyped /\ Decoded /\ "sys" \in Units
      /\ UNCHANGED <<prog, fetch_pc, fetch_stalled, fetch_done, rob_head, rob_tail, rob_count, regfile, arch,
                     csr_vl, csr_vtype, dmem, vregs, eff>>
  BY DEF OrderCore, OrderInv, PipeCore, PipelineInv, Units, SysExecute, SysIdle, front, vcfg, robs
<1>1. CASE SysIdle
  BY <1>0, <1>1, QuietOrder DEF SysIdle, robs
<1>2. CASE SysExecute
  <2>1. rs["sys"].busy /\ rs["sys"].src[1].ready /\ Listens("sys") /\ AtHead("sys")
    BY <1>2 DEF SysExecute, SysMayExecute, Listens
  <2>2. PICK tag \in Tags, i \in {InsOf("sys")} :
                               /\ tag = rs["sys"].rob_tag /\ tag = rob_head
                               /\ i = InsAt(tag) /\ i = InsAt(tag)' /\ i = InsOf("sys") /\ OooInstr(i)
                               /\ i.op \in CsrOps
    <3>1. InsOf("sys").op \in UnitOps("sys")
      BY <1>0, <2>1 DEF Decoded, StationDecoded
    <3>2. InsOf("sys").op \in CsrOps
      BY <3>1 DEF UnitOps, AluUnits
    <3>3. PICK tag \in Tags : tag = rs["sys"].rob_tag
      BY <1>0, StationTyped
    <3>4. InsAt(tag)' = InsAt(tag)
      BY <1>0 DEF InsAt
    <3> QED BY <1>0, <2>1, <3>2, <3>3, <3>4, StationIns, CodeTyped DEF AtHead
  <2>3. PICK a \in Word, b \in Word, c \in Word : Reads(i, 1, tag, a) /\ Reads(i, 2, tag, b) /\ Reads(i, 3, tag, c)
    <3>1. Val("sys", 1) \in Word /\ Reads(InsAt(rs["sys"].rob_tag), 1, rs["sys"].rob_tag, Val("sys", 1))
      <4>1. 1 \in 1 .. 3
        OBVIOUS
      <4> QED BY <1>0, <2>1, <4>1, StationReads
    <3>2. ~ReadsReg(i, 2) /\ ~ReadsReg(i, 3)
      BY <2>2 DEF ReadsReg, CsrOps, MdOps, StoreOps, BranchOps
    <3>3. SrcImm(i, 2) \in Word /\ Reads(i, 2, tag, SrcImm(i, 2)) /\ SrcImm(i, 3) \in Word /\ Reads(i, 3, tag, SrcImm(i, 3))
      <4>1. 2 \in 1 .. 3 /\ 3 \in 1 .. 3
        OBVIOUS
      <4> QED BY <2>2, <3>2, <4>1, NoOperand
    <3> QED BY <2>2, <3>1, <3>3
  <2>4. KeepsFlight => Reads(i, 1, tag, a)' /\ Reads(i, 2, tag, b)' /\ Reads(i, 3, tag, c)'
    <3>3. 1 \in 1 .. 3 /\ 2 \in 1 .. 3 /\ 3 \in 1 .. 3
      OBVIOUS
    <3> QED BY <2>3, <3>3, ReadsKept
  <2>5. KeepsFlight => Explained(tag)'
    <3>1. i.op \notin AluOps \cup MdOps \cup FpuOps \cup JumpOps \cup BranchOps \cup VSetOps \cup VArithOps \cup LoadOps
                      \cup StoreOps \cup {"lui", "jal", "jalr", "vle32"}
      BY <2>2, LateOps
    <3>2. ScalarOutcome(tag, a, b, c)'
      BY <2>2, <3>1 DEF ScalarOutcome
    <3>3. JumpOutcome(tag, a, b)'
      BY <2>2, <3>1 DEF JumpOutcome
    <3>4. VsetOutcome(tag, a, b)'
      BY <2>2, <3>1 DEF VsetOutcome
    <3>5. LoadOutcome(tag, a)'
      BY <1>0, <2>2, <3>1 DEF LoadOutcome
    <3>6. ArithOutcome(tag)'
      BY <2>2, <3>1 DEF ArithOutcome
    <3> QED BY <2>2, <2>4, <3>2, <3>3, <3>4, <3>5, <3>6 DEF Explained
  <2> DEFINE old == ReadCsr(csr, csr_vl, csr_vtype, InsOf("sys").csr)
  <2>6. old \in Word
    <3>1. /\ csr \in [MCsrs -> Word] /\ csr_vl \in 0 .. VLMAX /\ csr_vtype \in Word /\ Val("sys", 1) \in Word
      BY <1>0, StationTyped DEF WellTyped, OooTypeOK
    <3> QED BY <3>1, CsrWords
  <2>7. Answer("sys", old)
    BY <1>2 DEF SysExecute
  <2> HIDE DEF old
  <2> QED BY <1>0, <2>1, <2>2, <2>5, <2>6, <2>7, AnswerOrder
<1> QED BY <1>1, <1>2

LEMMA IssueOrder == ASSUME OrderCore, Issue PROVE OrderParts'
<1>0. UNCHANGED <<prog, fetch_pc, fetch_stalled, fetch_done, rob_head, rob_tail, rob_count, regfile, arch,
                  csr_vl, csr_vtype, dmem, vregs, eff, rob>>
  BY DEF Issue, front, vcfg, robs
<1>1. ASSUME NEW u \in Units
      PROVE  /\ rs'[u].busy = rs[u].busy /\ rs'[u].rob_tag = rs[u].rob_tag
             /\ rs'[u].pc = rs[u].pc /\ rs'[u].src = rs[u].src /\ rs'[u].vl = rs[u].vl
             /\ rs'[u].executing => rs[u].executing \/ u = "vec" \/ OperandsReady(u)
  <2>1. rs[u] \in Station
    BY StationTyped DEF OrderCore, PipeCore
  <2>2. rs'[u] = IF MayIssue(u) THEN [rs[u] EXCEPT !.executing = TRUE, !.remaining = Latency(u)] ELSE rs[u]
    BY DEF Issue
  <2>3. MayIssue(u) => u = "vec" \/ OperandsReady(u)
    BY DEF MayIssue
  <2> QED BY <2>1, <2>2, <2>3 DEF Station
<1> QED BY <1>0, <1>1, QuietOrder

LEMMA VectorOps ==
  /\ \A op \in VecOps : op \notin AluOps \cup MdOps \cup FpuOps \cup JumpOps \cup BranchOps \cup VSetOps
                                  \cup StoreOps \cup LoadOps \cup {"lui", "jal", "jalr"}
  /\ \A op \in VArithOps : op \notin HeadOps \cup VMemOps \cup {"vle32", "vse32"}
  /\ "vle32" \in VMemOps /\ "vse32" \in VMemOps /\ "vse32" \notin VecWrites
  /\ VecWrites \subseteq VecOps
  BY DEF LoadOps, StoreOps, CsrOps, AluOps, MdOps, FpuOps, JumpOps, BranchOps, VSetOps, VecOps, VArithOps,
         VMemOps, HeadOps, VecWrites

\* The oldest instruction finds the vector registers of the last retirement.
LEMMA HeadVectors ==
  ASSUME WellTyped, NEW V, VSees(0, V) PROVE V = arch.vregs
<1>1. \A x \in Tags : Age(x) >= 0 /\ ~(Age(x) < 0)
  BY Ages, Counters
<1> QED BY <1>1 DEF VSees

LEMMA VecOrder ==
  ASSUME OrderCore, VecCount \/ VecComplete \/ VecLoad \/ VecStore \/ VecIdle PROVE OrderParts'
<1>0. /\ PipeCore /\ WellTyped /\ Decoded /\ StationsOwn /\ ConfigRight /\ VectorRight
      /\ "vec" \in Units /\ "br" \in Units
      /\ rob \in [Tags -> RobEntry] /\ rs \in [Units -> Station] /\ rs["vec"] \in Station
      /\ eff \in [Tags -> [pc : Word, vregs : VecFile, vl : 0 .. VLMAX, vtype : Word]]
      /\ vregs \in VecFile
      /\ UNCHANGED <<prog, fetch_pc, fetch_stalled, fetch_done, rob_head, rob_tail, rob_count, regfile, arch,
                     csr_vl, csr_vtype>>
  <2>1. VecRest
    BY DEF VecCount, VecComplete, VecLoad, VecStore, VecIdle
  <2>2. /\ PipeCore /\ WellTyped /\ Decoded /\ StationsOwn /\ ConfigRight /\ VectorRight
        /\ "vec" \in Units /\ "br" \in Units
    BY DEF OrderCore, OrderInv, PipeCore, PipelineInv, Units, Timed
  <2>3. /\ rob \in [Tags -> RobEntry] /\ rs \in [Units -> Station] /\ rs["vec"] \in Station
        /\ eff \in [Tags -> [pc : Word, vregs : VecFile, vl : 0 .. VLMAX, vtype : Word]]
        /\ vregs \in VecFile
    BY <2>2 DEF WellTyped, OooTypeOK
  <2> QED BY <2>1, <2>2, <2>3 DEF VecRest, front, vcfg
<1>1. CASE VecIdle
  BY <1>0, <1>1, QuietOrder DEF VecIdle
<1>2. CASE VecCount
  <2>1. rs' = [rs EXCEPT !["vec"] = [rs["vec"] EXCEPT !.remaining = rs["vec"].remaining - 1]]
        /\ UNCHANGED <<rob, vregs, dmem, eff>>
    BY <1>2 DEF VecCount
  <2>2. ASSUME NEW u \in Units
        PROVE  /\ rs'[u].busy = rs[u].busy /\ rs'[u].rob_tag = rs[u].rob_tag
               /\ rs'[u].pc = rs[u].pc /\ rs'[u].src = rs[u].src /\ rs'[u].vl = rs[u].vl
               /\ rs'[u].executing => rs[u].executing \/ u = "vec" \/ OperandsReady(u)
    <3>1. CASE u = "vec"
      <4>1. rs'[u] = [rs["vec"] EXCEPT !.remaining = rs["vec"].remaining - 1]
        BY <1>0, <2>1, <3>1
      <4> QED BY <1>0, <3>1, <4>1 DEF Station
    <3>2. CASE u # "vec"
      <4>1. rs'[u] = rs[u]
        BY <1>0, <2>1, <3>2
      <4> QED BY <4>1
    <3> QED BY <3>1, <3>2
  <2> QED BY <1>0, <2>1, <2>2, QuietOrder
<1>3. CASE VecComplete \/ VecLoad \/ VecStore
  <2>1. rs["vec"].busy /\ Complete("vec")
    BY <1>3 DEF VecComplete, VecLoad, VecStore, ArithRuns, MemMayMove
  <2>2. PICK tag \in Tags, i \in {VecIns} :
                               /\ tag = rs["vec"].rob_tag /\ InFlight(tag) /\ ~rob[tag].ready
                               /\ i = InsAt(tag) /\ i = VecIns /\ OooInstr(i) /\ i.op \in VecOps
                               /\ rs["vec"].vl = eff[tag].vl
    <3>1. InsOf("vec").op \in UnitOps("vec")
      BY <1>0, <2>1 DEF Decoded, StationDecoded
    <3>2. InsOf("vec").op \in VecOps
      BY <3>1 DEF UnitOps, AluUnits
    <3>3. PICK tag \in Tags : tag = rs["vec"].rob_tag
      BY <1>0, StationTyped
    <3> QED BY <1>0, <2>1, <3>2, <3>3, StationIns, CodeTyped DEF ConfigRight, VecIns
  <2>3. /\ rob' = [rob EXCEPT ![tag].ready = TRUE]
        /\ rs' = [rs EXCEPT !["vec"].busy = FALSE, !["vec"].executing = FALSE, !["vec"].remaining = 0]
    BY <2>1, <2>2 DEF Complete
  <2>4. ~rs'["vec"].busy /\ \A u \in Units \ {"vec"} : rs'[u] = rs[u]
    BY <1>0, <2>3 DEF Station
  <2>5. ASSUME NEW t \in Tags
        PROVE  /\ rob'[t].dest = rob[t].dest /\ rob'[t].value = rob[t].value
               /\ rob'[t].is_store = rob[t].is_store /\ rob'[t].is_ecall = rob[t].is_ecall
               /\ t # tag => rob'[t] = rob[t]
               /\ t = tag => rob'[t].ready
    <3>1. rob[t] \in RobEntry
      BY <1>0
    <3> QED BY <1>0, <2>3, <3>1 DEF RobEntry
  <2>6. /\ eff' = eff \/ eff' = [eff EXCEPT ![tag].vregs = vregs']
        /\ dmem' = dmem \/ (tag = rob_head /\ i.op = "vse32")
    BY <1>3, <2>2 DEF VecComplete, VecLoad, VecStore, MemMayMove, AtHead
  <2>7. ASSUME NEW t \in Tags
        PROVE  /\ eff'[t].pc = eff[t].pc /\ eff'[t].vl = eff[t].vl /\ eff'[t].vtype = eff[t].vtype
               /\ t # tag => eff'[t] = eff[t]
    BY <1>0, <2>6
  <2>8. KeepsFlight
    BY <1>0, <2>2, <2>5, <2>6, <2>7 DEF KeepsFlight
  <2>9. \A u \in Units : rs'[u].busy => HearsOnly(u)
    BY <2>4 DEF HearsOnly
  <2>10. PathRight' /\ \A t \in Tags : Follower(t)' = Follower(t)
    <3>1. rs'["br"] = rs["br"]
      BY <1>0, <2>4
    <3> QED BY <1>0, <2>8, <3>1, PathStays
  <2>11. InsAt(tag)' = i /\ \A t \in Tags : InsAt(t)' = InsAt(t) /\ Age(t)' = Age(t) /\ (InFlight(t)' <=> InFlight(t))
    BY <1>0, <2>2, <2>7 DEF InsAt, Age, InFlight
  <2>12. VSees(Age(tag), vregs)
    BY <1>0, <2>1, <2>2 DEF VectorRight
  <2>13. PICK a \in Word, b \in Word, c \in Word :
           /\ Reads(i, 1, tag, a) /\ Reads(i, 2, tag, b) /\ Reads(i, 3, tag, c)
           /\ i.op \in VMemOps => a = Val("vec", 1)
    <3>0. 1 \in 1 .. 3 /\ 2 \in 1 .. 3 /\ 3 \in 1 .. 3
      OBVIOUS
    <3>1. ~ReadsReg(i, 2) /\ ~ReadsReg(i, 3)
      <4>1. i.op \notin {"add", "sub", "fadd", "fdiv", "fmadd", "vsetvl"} \cup MdOps \cup StoreOps \cup BranchOps
        BY <2>2, VectorOps DEF AluOps, FpuOps, VSetOps
      <4> QED BY <4>1 DEF ReadsReg
    <3>2. SrcImm(i, 2) \in Word /\ Reads(i, 2, tag, SrcImm(i, 2)) /\ SrcImm(i, 3) \in Word /\ Reads(i, 3, tag, SrcImm(i, 3))
      BY <2>2, <3>0, <3>1, NoOperand
    <3>3. CASE i.op \in VMemOps
      <4>1. Listens("vec") /\ rs["vec"].src[1].ready
        <5>1. i.op \notin VArithOps
          BY <3>3, VectorOps
        <5>2. MemMayMove
          BY <1>3, <2>2, <5>1 DEF VecComplete, VecLoad, VecStore, ArithRuns
        <5> QED BY <2>1, <2>2, <3>3, <5>2 DEF Listens, MemMayMove
      <4>2. Val("vec", 1) \in Word /\ Reads(InsAt(rs["vec"].rob_tag), 1, rs["vec"].rob_tag, Val("vec", 1))
        BY <1>0, <3>0, <4>1, StationReads
      <4> QED BY <2>2, <3>2, <4>2
    <3>4. CASE i.op \notin VMemOps
      <4>1. i.op \in VArithOps
        BY <2>2, <3>4 DEF VecOps
      <4>2. ~ReadsReg(i, 1)
        BY <4>1 DEF ReadsReg
      <4>3. SrcImm(i, 1) \in Word /\ Reads(i, 1, tag, SrcImm(i, 1))
        BY <2>2, <3>0, <4>2, NoOperand
      <4> QED BY <3>2, <3>4, <4>3
    <3> QED BY <3>3, <3>4
  <2>14. Reads(i, 1, tag, a)' /\ Reads(i, 2, tag, b)' /\ Reads(i, 3, tag, c)'
    <3>1. 1 \in 1 .. 3 /\ 2 \in 1 .. 3 /\ 3 \in 1 .. 3
      OBVIOUS
    <3> QED BY <2>8, <2>13, <3>1, ReadsKept
  <2>15. i.op \in VMemOps => tag = rob_head /\ vregs = arch.vregs
    <3> SUFFICES ASSUME i.op \in VMemOps PROVE tag = rob_head /\ vregs = arch.vregs
      OBVIOUS
    <3>1. i.op \notin VArithOps
      BY VectorOps
    <3>2. tag = rob_head
      BY <1>3, <2>2, <3>1 DEF VecComplete, VecLoad, VecStore, ArithRuns, MemMayMove, AtHead
    <3>3. Age(tag) = 0
      BY <1>0, <3>2, Ages
    <3>4. PICK V : V = vregs
      OBVIOUS
    <3>5. VSees(0, V)
      BY <2>12, <3>3, <3>4
    <3> QED BY <1>0, <3>2, <3>4, <3>5, HeadVectors
  <2>16. i.op \in VecWrites => eff'[tag].vregs = vregs'
    <3> SUFFICES ASSUME i.op \in VecWrites PROVE eff'[tag].vregs = vregs'
      OBVIOUS
    <3>1. i.op # "vse32"
      BY VectorOps
    <3>2. eff' = [eff EXCEPT ![tag].vregs = vregs']
      BY <1>3, <2>2, <3>1 DEF VecComplete, VecLoad, VecStore
    <3> QED BY <1>0, <3>2
  <2>17. Explained(tag)'
    <3>1. i.op \notin AluOps \cup MdOps \cup FpuOps \cup JumpOps \cup BranchOps \cup VSetOps
                                  \cup StoreOps \cup LoadOps \cup {"lui", "jal", "jalr"}
      BY <2>2, VectorOps
    <3>2. ScalarOutcome(tag, a, b, c)'
      BY <2>11, <3>1 DEF ScalarOutcome
    <3>3. JumpOutcome(tag, a, b)'
      BY <2>11, <3>1 DEF JumpOutcome
    <3>4. VsetOutcome(tag, a, b)'
      BY <2>11, <3>1 DEF VsetOutcome
    <3>5. LoadOutcome(tag, a)'
      <4>1. i.op \in HeadOps => i.op \in VMemOps
        BY <2>2, VectorOps DEF HeadOps, VecOps
      <4>2. ASSUME i.op = "vle32"
            PROVE  eff'[tag].vregs = VectorLoaded(i, arch'.vregs, dmem', a, eff'[tag].vl)
        <5>1. i.op \in VMemOps /\ i.op \notin VArithOps /\ i.op \in VecWrites
          BY <4>2, VectorOps DEF VecWrites
        <5>2. VecLoad
          BY <1>3, <2>2, <4>2, <5>1 DEF VecComplete, VecStore, ArithRuns
        <5>3. vregs' = VectorLoaded(i, vregs, dmem, a, rs["vec"].vl) /\ dmem' = dmem
          BY <2>2, <2>13, <5>1, <5>2 DEF VecLoad
        <5>4. eff'[tag].vl = rs["vec"].vl
          BY <2>2, <2>7
        <5> QED BY <1>0, <2>15, <2>16, <5>1, <5>3, <5>4
      <4> QED BY <1>0, <2>11, <2>15, <3>1, <4>1, <4>2 DEF LoadOutcome
    <3>6. ArithOutcome(tag)'
      <4> SUFFICES ASSUME i.op \in VArithOps
                   PROVE  \E V \in VecFile : VSees(Age(tag), V)' /\ eff'[tag].vregs = vec_arith_compute(i, V, eff'[tag].vl)
        BY <2>11 DEF ArithOutcome
      <4>1. PICK V \in VecFile : V = vregs
        BY <1>0
      <4>2. VSees(Age(tag), V)'
        <5>1. PICK n : n = Age(tag) /\ n = Age(tag)'
          BY <2>11
        <5>2. VSees(n, V)
          BY <2>12, <4>1, <5>1
        <5>3. VSees(n, V)'
          BY <1>0, <2>8, <5>2, KeptVectors
        <5> QED BY <5>1, <5>3 DEF VSees
      <4>3. vregs' = vec_arith_compute(i, V, rs["vec"].vl)
        <5>1. i.op \notin VMemOps
          BY VectorOps
        <5> QED BY <1>3, <2>2, <4>1, <5>1, VectorOps DEF VecComplete, VecLoad, VecStore, MemMayMove
      <4>4. eff'[tag].vregs = vregs' /\ eff'[tag].vl = rs["vec"].vl
        BY <2>2, <2>7, <2>16 DEF VecWrites
      <4> QED BY <4>1, <4>2, <4>3, <4>4
    <3> QED BY <2>11, <2>14, <3>2, <3>3, <3>4, <3>5, <3>6 DEF Explained
  <2>18. VectorRight'
    <3>1. \A t \in Tags : InFlight(t)' /\ InsAt(t)'.op \in VecOps =>
            rob'[t].ready /\ (t = tag \/ Age(t) < Age(tag))
      BY <1>0, <2>1, <2>2, <2>5, <2>11 DEF VectorRight
    <3>2. rob_count' = rob_count /\ Age(tag) < rob_count /\ rob_count \in Nat
          /\ \A t \in Tags : Age(t) \in Nat
      BY <1>0, <2>2, Ages, Counters, OooAssumption DEF InFlight
    <3>3. \A x \in Tags : VecWriter(x)' <=> VecWriter(x)
      BY <2>11 DEF VecWriter
    <3>4. PICK N \in Nat : N = rob_count
      BY <3>2
    <3>5. PICK V : V = vregs'
      OBVIOUS
    <3>6. VSees(N, V)'
      <4>1. CASE i.op \in VecWrites
        <5>1. VecWriter(tag)' /\ (Age(tag) < N)' /\ rob'[tag].ready /\ V = eff'[tag].vregs
          BY <2>2, <2>5, <2>11, <2>16, <3>2, <3>4, <3>5, <4>1 DEF VecWriter
        <5>2. \A x \in Tags : VecWriter(x)' /\ (Age(x) < N)' => (Age(x) <= Age(tag))'
          BY <2>11, <3>1, <3>2, VectorOps DEF VecWriter
        <5> QED BY <5>1, <5>2 DEF VSees
      <4>2. CASE i.op \notin VecWrites
        <5>1. i.op = "vse32"
          BY <2>2, <4>2 DEF VecOps, VArithOps, VMemOps, VecWrites
        <5>2. V = vregs
          BY <1>3, <2>2, <3>5, <5>1, VectorOps DEF VecComplete, VecLoad, VecStore, ArithRuns
        <5>3. \A x \in Tags : VecWriter(x)' => Age(x)' < Age(tag)
          BY <2>2, <2>11, <3>1, <4>2, VectorOps DEF VecWriter
        <5>4. PICK n \in Nat : n = Age(tag)
          BY <3>2
        <5>5. VSees(n, V)'
          <6>1. VSees(n, V)
            BY <2>12, <5>2, <5>4
          <6> QED BY <1>0, <2>8, <6>1, KeptVectors
        <5>6. \A x \in Tags : VecWriter(x)' => Age(x)' < n /\ Age(x)' < N
          BY <2>11, <3>2, <3>4, <5>3, <5>4
        <5>7. \A x \in Tags : Age(x)' \in Nat
          BY <2>11, <3>2
        <5> QED BY <5>5, <5>6, <5>7 DEF VSees
      <4> QED BY <4>1, <4>2
    <3>7. VSees(IF rs["vec"].busy THEN Age(rs["vec"].rob_tag) ELSE rob_count, vregs)'
      BY <2>4, <3>2, <3>4, <3>5, <3>6 DEF VSees
    <3> QED BY <2>4, <3>1, <3>7 DEF VectorRight
  <2>19. Decoded' /\ OperandsRight' /\ ConfigRight' /\ ResultsRight' /\ ZeroRegister'
    <3>1. ASSUME NEW t \in Tags, InFlight(t), ~rob[t].ready, rob'[t].ready PROVE Explained(t)'
      BY <2>5, <2>17, <3>1
    <3> QED BY <2>8, <2>9, <2>10, <3>1, WorkOrder
  <2> QED BY <2>10, <2>18, <2>19 DEF OrderParts
<1> QED BY <1>1, <1>2, <1>3

\* The operations that are complete when they enter.
LEMMA QuickOps0 ==
  /\ \A op \in PlainOps : op \notin NeedUnit \cup VSetOps \cup JumpOps \cup VecOps \cup AluOps \cup MdOps \cup FpuOps
                                    \cup StoreOps \cup LoadOps \cup HeadOps \cup VArithOps \cup BranchOps
                                    \cup {"jalr", "vle32"}
  /\ \A op \in VSetOps : op \notin NeedUnit \cup JumpOps \cup VecOps \cup AluOps \cup MdOps \cup FpuOps \cup PlainOps
                                   \cup StoreOps \cup LoadOps \cup HeadOps \cup VArithOps \cup BranchOps
                                   \cup {"jalr", "vle32", "lui", "jal", "csrrwi"}
  BY DEF PlainOps, HaltOps, NoOps, NeedUnit, VSetOps, LoadOps, StoreOps, CsrOps, AluOps, MdOps, FpuOps, JumpOps,
         BranchOps, VecOps, VArithOps, VMemOps, HeadOps

\* The unit an instruction goes to executes it.
LEMMA UnitForExecutes ==
  ASSUME NEW op \in NeedUnit
  PROVE  /\ UnitFor(op) \in Units /\ op \in UnitOps(UnitFor(op)) /\ op \notin PlainOps \cup VSetOps \cup {"jal"}
         /\ op \in JumpOps <=> UnitFor(op) = "br"
         /\ op \in VecOps <=> UnitFor(op) = "vec"
<1>1. op \notin PlainOps \cup VSetOps \cup {"jal"}
  BY QuickOps0 DEF PlainOps
<1> USE DEF NeedUnit, LoadOps, StoreOps, CsrOps, AluOps, MdOps, FpuOps, JumpOps,
         BranchOps, VecOps, VArithOps, VMemOps, UnitFor, UnitOps, AluUnits, Units, Timed
<1>2. CASE op \in AluOps
  BY <1>1, <1>2
<1>3. CASE op \in MdOps
  BY <1>1, <1>3
<1>4. CASE op \in FpuOps
  BY <1>1, <1>4
<1>5. CASE op \in LoadOps \cup StoreOps
  BY <1>1, <1>5
<1>6. CASE op \in JumpOps
  BY <1>1, <1>6
<1>7. CASE op \in VecOps
  BY <1>1, <1>7
<1>8. CASE op \in CsrOps
  BY <1>1, <1>8
<1>9. op \in AluOps \cup MdOps \cup FpuOps \cup LoadOps \cup StoreOps \cup JumpOps \cup VecOps \cup CsrOps
  OBVIOUS
<1> HIDE DEF NeedUnit, LoadOps, StoreOps, CsrOps, AluOps, MdOps, FpuOps, JumpOps,
         BranchOps, VecOps, VArithOps, VMemOps, UnitFor, UnitOps, AluUnits, Units, Timed
<1> QED BY <1>2, <1>3, <1>4, <1>5, <1>6, <1>7, <1>8, <1>9

LEMMA QuickOrder == ASSUME OrderCore, DispatchQuick PROVE OrderParts'
<1>0. /\ PipeCore /\ WellTyped /\ RobWindow /\ PathRight /\ ConfigRight /\ MayFetch
      /\ rob \in [Tags -> RobEntry] /\ Fetched.op \in PlainOps /\ OooInstr(Fetched)
      /\ UNCHANGED <<prog, arch, regfile, vregs, dmem, rs, fetch_stalled, csr_vl, csr_vtype>>
      /\ fetch_pc' = IF Fetched.op = "jal" THEN Fetched.imm ELSE NextPc(fetch_pc)
  <2>1. PipeCore /\ WellTyped /\ RobWindow /\ PathRight /\ ConfigRight
    BY DEF OrderCore, OrderInv, PipeCore, PipelineInv
  <2>2. rob \in [Tags -> RobEntry] /\ OooInstr(Fetched)
    BY <2>1, CodeTyped DEF WellTyped, OooTypeOK
  <2> QED BY <2>1, <2>2 DEF DispatchQuick, Dispatch, PlainOps, EndOfTick, vcfg
<1>1. PICK v : /\ Enter(TRUE, v)
               /\ Fetched.op = "lui" => v = Fetched.imm
               /\ Fetched.op = "jal" => v = NextPc(fetch_pc)
  <2> DEFINE v == CASE Fetched.op = "lui" -> Fetched.imm
                    [] Fetched.op = "jal" -> NextPc(fetch_pc)
                    [] OTHER              -> 0
  <2>1. Enter(TRUE, v)
    BY DEF DispatchQuick
  <2>2. /\ Fetched.op = "lui" => v = Fetched.imm
        /\ Fetched.op = "jal" => v = NextPc(fetch_pc)
    OBVIOUS
  <2> HIDE DEF v
  <2> QED BY <2>1, <2>2
<1>2. PICK tail \in Tags, N \in Nat : tail = rob_tail /\ N = rob_count
  BY <1>0, Counters, OooAssumption
<1>3. PICK i : i = Fetched /\ i = InsAt(tail)' /\ OooInstr(i)
  BY <1>0, <1>1, <1>2, EnterVectors
<1>4. i.op \notin NeedUnit \cup VSetOps \cup JumpOps \cup VecOps \cup AluOps \cup MdOps \cup FpuOps
                  \cup StoreOps \cup LoadOps \cup HeadOps \cup VArithOps \cup BranchOps \cup {"jalr", "vle32"}
  BY <1>0, <1>3, QuickOps0
<1>5. Admits(TRUE)
  BY <1>0, <1>3, <1>4 DEF Admits, PathRight
<1>6. Explained(tail)'
  <2>0. 1 \in 1 .. 3 /\ 2 \in 1 .. 3 /\ 3 \in 1 .. 3
    OBVIOUS
  <2>1. ~ReadsReg(i, 1) /\ ~ReadsReg(i, 2) /\ ~ReadsReg(i, 3)
    <3>1. i.op \notin {"add", "sub", "fadd", "fdiv", "fmadd", "vsetvl"} \cup MdOps \cup StoreOps \cup BranchOps
      BY <1>4 DEF AluOps, FpuOps, VSetOps
    <3> QED BY <1>0, <1>3, <3>1 DEF ReadsReg
  <2>2. PICK a \in Word, b \in Word, c \in Word : a = SrcImm(i, 1) /\ b = SrcImm(i, 2) /\ c = SrcImm(i, 3)
    BY <1>3, <2>0, ArgumentsTyped
  <2>3. Reads(i, 1, tail, a)' /\ Reads(i, 2, tail, b)' /\ Reads(i, 3, tail, c)'
    BY <2>1, <2>2 DEF Reads
  <2>4. rob'[tail].value = v /\ eff'[tail].pc = fetch_pc
    <3>1. eff'[tail].pc = fetch_pc
      BY <1>0, <1>1, <1>2, EnterWindow
    <3>2. rob[tail] \in RobEntry
      BY <1>0
    <3> QED BY <1>0, <1>1, <1>2, <3>1, <3>2 DEF Enter, RobEntry
  <2>5. ScalarOutcome(tail, a, b, c)'
    BY <1>1, <1>3, <1>4, <2>4 DEF ScalarOutcome
  <2>6. JumpOutcome(tail, a, b)'
    BY <1>3, <1>4 DEF JumpOutcome
  <2>7. VsetOutcome(tail, a, b)'
    BY <1>3, <1>4 DEF VsetOutcome
  <2>8. LoadOutcome(tail, a)'
    BY <1>3, <1>4 DEF LoadOutcome
  <2>9. ArithOutcome(tail)'
    BY <1>3, <1>4 DEF ArithOutcome
  <2> QED BY <1>3, <2>3, <2>5, <2>6, <2>7, <2>8, <2>9 DEF Explained
<1>7. Fetched.op \in PlainOps \cup NeedUnit \cup VSetOps /\ Fetched.op \notin NeedUnit
  BY <1>0, <1>3, <1>4
<1> QED BY <1>0, <1>1, <1>2, <1>5, <1>6, <1>7, EnterOrder DEF OrderParts

LEMMA VsetOrder == ASSUME OrderCore, DispatchVset PROVE OrderParts'
<1>0. /\ PipeCore /\ WellTyped /\ RobWindow /\ PathRight /\ ConfigRight /\ MayFetch
      /\ rob \in [Tags -> RobEntry] /\ Fetched.op \in VSetOps /\ OooInstr(Fetched)
      /\ UNCHANGED <<prog, arch, regfile, vregs, dmem, rs, fetch_stalled>>
      /\ fetch_pc' = NextPc(fetch_pc) /\ Enter(TRUE, csr_vl') /\ VsetOperandsReady
      /\ csr_vtype' = VsetType(Fetched, read_operand(Fetched.rs2).val)
      /\ csr_vl' = VsetLength(Fetched, csr_vtype', read_operand(Fetched.rs1).val, csr_vl)
  <2>1. PipeCore /\ WellTyped /\ RobWindow /\ PathRight /\ ConfigRight
    BY DEF OrderCore, OrderInv, PipeCore, PipelineInv
  <2>2. rob \in [Tags -> RobEntry] /\ OooInstr(Fetched)
    BY <2>1, CodeTyped DEF WellTyped, OooTypeOK
  <2> QED BY <2>1, <2>2 DEF DispatchVset, Dispatch, EndOfTick
<1>2. PICK tail \in Tags, N \in Nat : tail = rob_tail /\ N = rob_count
  BY <1>0, Counters, OooAssumption
<1>3. PICK i : i = Fetched /\ i = InsAt(tail)' /\ OooInstr(i) /\ i.op \in VSetOps
  BY <1>0, <1>2, EnterVectors
<1>4. i.op \notin NeedUnit \cup JumpOps \cup VecOps \cup AluOps \cup MdOps \cup FpuOps \cup PlainOps
                  \cup StoreOps \cup LoadOps \cup HeadOps \cup VArithOps \cup BranchOps
                  \cup {"jalr", "vle32", "lui", "jal", "csrrwi"}
  BY <1>3, QuickOps0
<1>5. Admits(TRUE)
  BY <1>0, <1>3, <1>4 DEF Admits, PathRight
<1>6. Explained(tail)'
  <2>0. 1 \in 1 .. 3 /\ 2 \in 1 .. 3 /\ 3 \in 1 .. 3
    OBVIOUS
  <2>1. PICK x1 \in Word, x2 \in Word : x1 = read_operand(i.rs1).val /\ x2 = read_operand(i.rs2).val
    BY <1>0, <1>3, ReadOperandTyped DEF OooInstr
  <2>2. PICK a \in Word : /\ Reads(i, 1, tail, a) /\ i.op # "vsetivli" => a = x1
                          /\ Reads(i, 1, tail, a)
    <3>1. CASE i.op = "vsetivli"
      <4>1. ~ReadsReg(i, 1)
        BY <3>1 DEF ReadsReg
      <4> QED BY <1>3, <2>0, <3>1, <4>1, NoOperand
    <3>2. CASE i.op # "vsetivli"
      <4>1. ReadsReg(i, 1) /\ SrcReg(i, 1) = i.rs1 /\ i.rs1 \in Regs
        BY <1>3, <1>4, <3>2 DEF ReadsReg, SrcReg, OooInstr
      <4>2. read_operand(i.rs1).ready
        BY <1>0, <1>3, <3>2 DEF VsetOperandsReady
      <4>3. Sees(i.rs1, tail, x1)
        BY <1>0, <1>2, <2>1, <4>1, <4>2, ReadRight
      <4> QED BY <2>1, <4>1, <4>3 DEF Reads
    <3> QED BY <3>1, <3>2
  <2>3. PICK b \in Word : Reads(i, 2, tail, b) /\ (i.op = "vsetvl" => b = x2)
    <3>1. CASE i.op # "vsetvl"
      <4>1. ~ReadsReg(i, 2)
        BY <1>3, <1>4, <3>1 DEF ReadsReg, VSetOps
      <4> QED BY <1>3, <2>0, <3>1, <4>1, NoOperand
    <3>2. CASE i.op = "vsetvl"
      <4>1. ReadsReg(i, 2) /\ SrcReg(i, 2) = i.rs2 /\ i.rs2 \in Regs
        BY <1>3, <3>2 DEF ReadsReg, SrcReg, OooInstr
      <4>2. read_operand(i.rs2).ready
        BY <1>0, <1>3, <3>2 DEF VsetOperandsReady
      <4>3. Sees(i.rs2, tail, x2)
        BY <1>0, <1>2, <2>1, <4>1, <4>2, ReadRight
      <4> QED BY <2>1, <4>1, <4>3 DEF Reads
    <3> QED BY <3>1, <3>2
  <2>4. PICK c \in Word : Reads(i, 3, tail, c)
    <3>1. ~ReadsReg(i, 3)
      BY <1>3 DEF ReadsReg, VSetOps
    <3> QED BY <1>3, <2>0, <3>1, NoOperand
  <2>5. Reads(i, 1, tail, a)' /\ Reads(i, 2, tail, b)' /\ Reads(i, 3, tail, c)'
    BY <1>0, <1>2, <2>0, <2>2, <2>3, <2>4, EnterReads
  <2>6. /\ rob'[tail].value = csr_vl' /\ eff'[tail].vl = csr_vl' /\ eff'[tail].vtype = csr_vtype'
        /\ ConfigAt(tail)'.vl = csr_vl
    <3>1. Leaves(tail)' = [vl |-> csr_vl', vtype |-> csr_vtype'] /\ ConfigAt(tail)' = [vl |-> csr_vl, vtype |-> csr_vtype]
      BY <1>0, <1>2, EnterVectors
    <3>2. rob[tail] \in RobEntry
      BY <1>0
    <3>3. rob'[tail].value = csr_vl'
      BY <1>0, <1>2, <3>2 DEF Enter, RobEntry
    <3> QED BY <3>1, <3>3 DEF Leaves
  <2>7. VsetOutcome(tail, a, b)'
    <3>1. VsetType(i, b) = VsetType(i, x2)
      BY <2>3 DEF VsetType
    <3>2. \A vt, old : VsetLength(i, vt, a, old) = VsetLength(i, vt, x1, old)
      BY <2>2 DEF VsetLength
    <3> QED BY <1>0, <1>3, <2>1, <2>6, <3>1, <3>2 DEF VsetOutcome
  <2>8. ScalarOutcome(tail, a, b, c)'
    BY <1>3, <1>4 DEF ScalarOutcome
  <2>9. JumpOutcome(tail, a, b)'
    BY <1>3, <1>4 DEF JumpOutcome
  <2>10. LoadOutcome(tail, a)'
    BY <1>3, <1>4 DEF LoadOutcome
  <2>11. ArithOutcome(tail)'
    BY <1>3, <1>4 DEF ArithOutcome
  <2> QED BY <1>3, <2>5, <2>7, <2>8, <2>9, <2>10, <2>11 DEF Explained
<1>7. Fetched.op \in PlainOps \cup NeedUnit \cup VSetOps /\ Fetched.op \notin NeedUnit /\ Fetched.op # "jal"
  BY <1>0, <1>3, <1>4
<1> QED BY <1>0, <1>2, <1>5, <1>6, <1>7, EnterOrder DEF OrderParts

LEMMA ToUnitOrder == ASSUME OrderCore, DispatchToUnit PROVE OrderParts'
<1>0. /\ PipeCore /\ WellTyped /\ PathRight /\ MayFetch
      /\ rs \in [Units -> Station] /\ Fetched.op \in NeedUnit
      /\ UNCHANGED <<prog, arch, regfile, vregs, dmem, csr_vl, csr_vtype>>
      /\ fetch_pc' = NextPc(fetch_pc) /\ Enter(FALSE, 0)
      /\ fetch_stalled' = (Fetched.op \in JumpOps)
  <2>1. PipeCore /\ WellTyped /\ PathRight
    BY DEF OrderCore, OrderInv, PipeCore
  <2>2. rs \in [Units -> Station]
    BY <2>1 DEF WellTyped, OooTypeOK
  <2> QED BY <2>1, <2>2 DEF DispatchToUnit, Dispatch, EndOfTick, vcfg, JumpOps
<1>1. PICK u \in Units : /\ u = UnitFor(Fetched.op) /\ Fetched.op \in UnitOps(u)
                         /\ Fetched.op \notin PlainOps \cup VSetOps \cup {"jal"}
                         /\ Fetched.op \in JumpOps <=> u = "br"
                         /\ Fetched.op \in VecOps <=> u = "vec"
  BY <1>0, UnitForExecutes
<1>2. ~rs[u].busy /\ rs' = [rs EXCEPT ![u] = FilledStation(rs[u], Fetched)]
  BY <1>1 DEF DispatchToUnit
<1>3. rs'[u] = FilledStation(rs[u], Fetched) /\ \A w \in Units \ {u} : rs'[w] = rs[w]
  BY <1>0, <1>2
<1>4. Takes(u)
  <2> DEFINE src == IF Fetched.op \in VArithOps THEN rs[u].src ELSE [k \in 1 .. 3 |-> Source(Fetched, k)]
             vl  == IF Fetched.op \in VArithOps \cup VMemOps THEN csr_vl ELSE rs[u].vl
  <2>1. rs'[u] = [rs[u] EXCEPT !.busy = TRUE, !.executing = FALSE, !.rob_tag = rob_tail,
                               !.pc = fetch_pc, !.src = src, !.vl = vl]
    BY <1>0, <1>3 DEF FilledStation, Station
  <2>2. rs[u] \in Station
    BY <1>0
  <2>3. u = "vec" => vl = csr_vl
    BY <1>1 DEF VecOps
  <2>4. Fetched.op \notin VArithOps => \A k \in 1 .. 3 : src[k] = Source(Fetched, k)
    OBVIOUS
  <2> HIDE DEF src, vl
  <2>5. /\ rs'[u].busy /\ ~rs'[u].executing /\ rs'[u].rob_tag = rob_tail /\ rs'[u].pc = fetch_pc
        /\ rs'[u].src = src /\ rs'[u].vl = vl
    BY <2>1, <2>2 DEF Station
  <2> QED BY <1>1, <1>2, <2>3, <2>4, <2>5 DEF Takes
<1>5. Admits(FALSE)
  <2>1. ~rs["br"].busy /\ "br" \in Units
    BY <1>0 DEF PathRight, MayFetch, Units, Timed
  <2>2. rs'["br"].busy <=> u = "br"
    BY <1>3, <1>4, <2>1 DEF Takes
  <2>3. \A w \in Units : rs[w].busy => rs'[w] = rs[w]
    BY <1>2, <1>3
  <2>4. \A w \in Units : rs'[w].busy => rs[w].busy \/ (Takes(w) /\ ~FALSE)
    BY <1>3, <1>4
  <2> QED BY <1>0, <1>1, <1>4, <2>2, <2>3, <2>4 DEF Admits
<1>6. PICK tail \in Tags : tail = rob_tail
  BY <1>0, Counters
<1> QED BY <1>0, <1>1, <1>5, <1>6, EnterOrder DEF OrderParts

LEMMA DispatchOrder ==
  ASSUME OrderCore,
         DispatchQuick \/ DispatchToUnit \/ DispatchVset \/ DispatchStall \/ FetchEnd \/ FetchIdle
  PROVE  OrderParts'
<1>1. CASE DispatchStall \/ FetchEnd \/ FetchIdle
  <2>1. /\ UNCHANGED <<prog, fetch_pc, fetch_stalled, rob_head, rob_tail, rob_count, regfile, arch,
                       csr_vl, csr_vtype, dmem, vregs, eff, rs>>
        /\ fetch_done' => fetch_done \/ (Fetched.op = "end" /\ ~fetch_stalled)
    BY <1>1 DEF DispatchStall, FetchEnd, FetchIdle, Dispatch, MayFetch, EndOfTick, front, robs, vcfg
  <2>2. \A t \in Tags : InFlight(t) => rob'[t] = rob[t]
    <3>1. CASE DispatchStall
      <4>1. ~InFlight(rob_tail) /\ rob \in [Tags -> RobEntry] /\ rob_tail \in Tags
        BY <3>1, TailIsFree, Counters
           DEF OrderCore, PipeCore, PipelineInv, WellTyped, OooTypeOK, DispatchStall, Dispatch, MayFetch
      <4>2. rob' = [rob EXCEPT ![rob_tail].is_ecall = FALSE]
        BY <3>1 DEF DispatchStall
      <4> QED BY <4>1, <4>2
    <3>2. CASE FetchEnd \/ FetchIdle
      BY <3>2 DEF FetchEnd, FetchIdle, robs
    <3> QED BY <1>1, <3>1, <3>2
  <2> QED BY <2>1, <2>2, QuietOrder
<1> QED BY <1>1, QuickOrder, VsetOrder, ToUnitOrder

-----------------------------------------------------------------------------
(* The order is kept by every step.                                        *)

LEMMA OrderStart == Init => OrderInv
<1> SUFFICES ASSUME Init PROVE OrderInv
  OBVIOUS
<1>1. WellTyped
  BY InitTyped
<1>2. /\ rob_head = 0 /\ rob_tail = 0 /\ rob_count = 0 /\ ~fetch_stalled /\ ~fetch_done
      /\ (\A u \in Units : ~rs[u].busy) /\ regfile = [r \in Regs |-> 0]
      /\ csr_vl = 0 /\ csr_vtype = VILL /\ vregs = NoVectors /\ ~ecall_halt
      /\ arch = [vregs |-> NoVectors, vl |-> 0, vtype |-> VILL]
  BY DEF Init
<1>3. \A t \in Tags : ~InFlight(t)
  BY <1>1, <1>2, Ages, Counters DEF InFlight
<1>4. "vec" \in Units /\ "br" \in Units
  BY DEF Units, Timed
<1>5. Decoded
  BY <1>2, <1>3 DEF Decoded
<1>6. OperandsRight
  BY <1>2 DEF OperandsRight, Listens
<1>7. PathRight
  BY <1>2, <1>3, <1>4 DEF PathRight
<1>8. ConfigRight
  BY <1>2, <1>3, <1>4 DEF ConfigRight, Retires
<1>9. VectorRight
  <2>1. \A x \in Tags : ~VecWriter(x)
    BY <1>3 DEF VecWriter
  <2>2. VSees(rob_count, vregs)
    BY <1>2, <2>1 DEF VSees
  <2> QED BY <1>2, <1>3, <1>4, <2>2 DEF VectorRight
<1>10. ResultsRight
  BY <1>3 DEF ResultsRight
<1>11. ZeroRegister
  BY <1>2, RegAssumption DEF ZeroRegister, Regs
<1>12. Halts
  BY <1>2 DEF Halts
<1> QED BY <1>5, <1>6, <1>7, <1>8, <1>9, <1>10, <1>11, <1>12 DEF OrderInv

LEMMA HaltsKept == ASSUME Halts, Tick PROVE Halts'
<1>1. CASE stage' # "commit"
  BY <1>1 DEF Halts
<1>2. CASE stage' = "commit"
  <2>1. DispatchQuick \/ DispatchToUnit \/ DispatchVset \/ DispatchStall \/ FetchEnd \/ FetchIdle
    BY <1>2 DEF Tick, Commit, NoCommit, Execute, LsuStore, LsuLoad, LsuIdle, VecCount, VecComplete, VecLoad,
                VecStore, VecIdle, SysExecute, SysIdle, Issue
  <2>2. EndOfTick
    BY <2>1 DEF DispatchQuick, DispatchToUnit, DispatchVset, DispatchStall, FetchEnd, FetchIdle
  <2> QED BY <2>2 DEF EndOfTick, Halts
<1> QED BY <1>1, <1>2

LEMMA OrderStep == OrderCore /\ [Tick \/ Stopped]_vars => OrderCore'
<1> SUFFICES ASSUME OrderCore, [Tick \/ Stopped]_vars PROVE OrderInv'
  BY PipelineStep DEF OrderCore
<1>1. CASE UNCHANGED vars
  <2>1. OrderParts'
    BY <1>1, QuietOrder DEF vars, front, robs, vcfg
  <2>2. Halts'
    BY <1>1 DEF OrderCore, OrderInv, Halts, vars
  <2> QED BY <2>1, <2>2 DEF OrderParts, OrderInv
<1>2. CASE Tick
  <2>1. Halts'
    BY <1>2, HaltsKept DEF OrderCore, OrderInv
  <2>2. CASE Commit
    BY <2>1, <2>2, RetireOrder DEF OrderInv
  <2>3. CASE NoCommit
    <3>1. OrderParts'
      BY <2>3, QuietOrder DEF NoCommit, front, robs, vcfg
    <3> QED BY <2>1, <3>1 DEF OrderParts, OrderInv
  <2>4. CASE ~Commit /\ ~NoCommit
    <3>1. OrderParts'
      BY <1>2, <2>4, ExecuteOrder, LsuOrder, VecOrder, SysOrder, IssueOrder, DispatchOrder DEF Tick
    <3> QED BY <2>1, <3>1 DEF OrderParts, OrderInv
  <2> QED BY <2>2, <2>3, <2>4
<1> QED BY <1>1, <1>2 DEF Stopped

LEMMA OrderInvariant == Spec => []OrderCore
<1>1. Init => OrderCore
  BY InitTyped, PipelineStart, OrderStart DEF OrderCore, PipeCore
<1> QED BY <1>1, OrderStep, PTL DEF Spec

-----------------------------------------------------------------------------
(* The machine has the same instructions as the core.                      *)

LEMMA SameOps ==
  /\ Ooo!AluOps = AluOps /\ Ooo!MdOps = MdOps /\ Ooo!FpuOps = FpuOps
  /\ Ooo!LoadOps = LoadOps /\ Ooo!StoreOps = StoreOps /\ Ooo!BranchOps = BranchOps
  /\ Ooo!CsrOps = CsrOps /\ Ooo!VSetOps = VSetOps /\ Ooo!VArithOps = VArithOps
  /\ Ooo!NoOps = NoOps /\ Ooo!HaltOps = HaltOps
  BY DEF Ooo!AluOps, AluOps, Ooo!MdOps, MdOps, Ooo!FpuOps, FpuOps, Ooo!LoadOps, LoadOps,
         Ooo!StoreOps, StoreOps, Ooo!BranchOps, BranchOps, Ooo!CsrOps, CsrOps, Ooo!VSetOps, VSetOps,
         Ooo!VArithOps, VArithOps, Ooo!NoOps, NoOps, Ooo!HaltOps, HaltOps

LEMMA SameResults ==
  /\ \A a, b : Ooo!Plus(a, b) = Plus(a, b)
  /\ \A p : Ooo!NextPc(p) = NextPc(p)
  /\ \A a : Ooo!MemIndex(a) = MemIndex(a)
  /\ \A i, a, b : /\ Ooo!branch_taken(i, a, b) <=> branch_taken(i, a, b)
                  /\ Ooo!alu_compute(i, a, b) = alu_compute(i, a, b)
                  /\ Ooo!md_compute(i, a, b) = md_compute(i, a, b)
  /\ \A i, a, b, c : Ooo!fpu_compute(i, a, b, c) = fpu_compute(i, a, b, c)
<1>1. \A i, a, b, c : Ooo!fpu_compute(i, a, b, c) = fpu_compute(i, a, b, c)
  BY Zenon DEF Ooo!fpu_compute, fpu_compute, Ooo!Plus, Plus
<1> QED BY <1>1 DEF Ooo!NextPc, Ooo!Plus, NextPc, Plus, Ooo!MemIndex, MemIndex,
                    Ooo!branch_taken, branch_taken, Ooo!alu_compute, alu_compute,
                    Ooo!md_compute, md_compute

LEMMA SameCsrs ==
  /\ \A c, l, t, name : Ooo!ReadCsr(c, l, t, name) = ReadCsr(c, l, t, name)
  /\ \A c, name, v : Ooo!WriteCsr(c, name, v) = WriteCsr(c, name, v)
  /\ \A i, old, src : Ooo!CsrNewValue(i, old, src) = CsrNewValue(i, old, src)
<1>1. \A c, l, t, name : Ooo!ReadCsr(c, l, t, name) = ReadCsr(c, l, t, name)
  <2>1. Ooo!MISA = MISA
    BY SMT DEF Ooo!MISA, MISA
  <2> QED BY <2>1, Zenon DEF Ooo!ReadCsr, ReadCsr, Ooo!MCsrs, MCsrs
<1>2. \A c, name, v : Ooo!WriteCsr(c, name, v) = WriteCsr(c, name, v)
  BY Zenon DEF Ooo!WriteCsr, WriteCsr, Ooo!MCsrs, MCsrs
<1>3. \A i, old, src : Ooo!CsrNewValue(i, old, src) = CsrNewValue(i, old, src)
  BY Zenon DEF Ooo!CsrNewValue, CsrNewValue
<1> QED BY <1>1, <1>2, <1>3

LEMMA SameVectors ==
  /\ \A i, x : Ooo!VsetType(i, x) = VsetType(i, x)
  /\ \A i, t, x, l : Ooo!VsetLength(i, t, x, l) = VsetLength(i, t, x, l)
  /\ \A i, V, n : Ooo!vec_arith_compute(i, V, n) = vec_arith_compute(i, V, n)
  /\ \A i, V, m, b, n : Ooo!VectorLoaded(i, V, m, b, n) = VectorLoaded(i, V, m, b, n)
  /\ \A i, V, m, b, n : Ooo!VectorStored(i, V, m, b, n) = VectorStored(i, V, m, b, n)
<1>1. \A i, x : Ooo!VsetType(i, x) = VsetType(i, x)
  BY Zenon DEF Ooo!VsetType, VsetType, Ooo!Supported, Supported, Ooo!VILL, VILL
<1>2. \A i, t, x, l : Ooo!VsetLength(i, t, x, l) = VsetLength(i, t, x, l)
  BY Zenon DEF Ooo!VsetLength, VsetLength, Ooo!VILL, VILL, Ooo!VLMAX, VLMAX
<1>3. \A i, V, n : Ooo!vec_arith_compute(i, V, n) = vec_arith_compute(i, V, n)
  BY Zenon DEF Ooo!vec_arith_compute, vec_arith_compute, Ooo!Lanes, Lanes, Ooo!Plus, Plus
<1>4. \A i, V, m, b, n : Ooo!VectorLoaded(i, V, m, b, n) = VectorLoaded(i, V, m, b, n)
  BY Zenon DEF Ooo!VectorLoaded, VectorLoaded, Ooo!Lanes, Lanes, Ooo!Plus, Plus, Ooo!MemIndex, MemIndex
<1>5. \A i, V, m, b, n : Ooo!VectorStored(i, V, m, b, n) = VectorStored(i, V, m, b, n)
  BY Zenon DEF Ooo!VectorStored, VectorStored, Ooo!Plus, Plus, Ooo!MemIndex, MemIndex
<1> QED BY <1>1, <1>2, <1>3, <1>4, <1>5

-----------------------------------------------------------------------------
(* The head of the ROB and the architectural state.                        *)

HeadFacts ==
  rob_count > 0 =>
    /\ rob_head \in Tags /\ InFlight(rob_head) /\ Age(rob_head) = 0
    /\ HeadEntry = rob[rob_head] /\ HeadIns = InsAt(rob_head)
    /\ OooInstr(HeadIns) /\ EntryDecoded(rob_head)
    /\ HeadReady <=> rob[rob_head].ready

LEMMA HeadIs == OrderCore => HeadFacts
<1> SUFFICES ASSUME OrderCore, rob_count > 0 PROVE HeadFacts
  BY DEF HeadFacts
<1>1. WellTyped /\ RobWindow /\ Decoded
  BY DEF OrderCore, OrderInv, PipeCore, PipelineInv
<1>2. /\ rob_head \in Tags /\ InFlight(rob_head) /\ Age(rob_head) = 0
      /\ HeadEntry = rob[rob_head] /\ HeadIns = InsAt(rob_head)
  BY <1>1, HeadInFlight, Counters, Ages DEF HeadEntry, HeadIns, InsAt
<1>3. OooInstr(InsAt(rob_head))
  BY <1>1, <1>2, EffTyped
<1> QED BY <1>1, <1>2, <1>3 DEF HeadFacts, Decoded, RobWindow, HeadReady

\* The machine is at the head of the ROB, or behind it if it has taken
\* effect; with nothing in flight, at the fetch.
ArchFacts ==
  /\ rob_count = 0 => ~HeadDone /\ ArchPc = fetch_pc
  /\ HeadDone => rob_count > 0 /\ ArchPc = Follower(rob_head)
  /\ rob_count > 0 /\ ~HeadDone => ArchPc = eff[rob_head].pc
  /\ ~HeadDone => ArchRegs = regfile
  /\ HeadDone => ArchRegs = IF HeadEntry.dest = X0 THEN regfile
                            ELSE [regfile EXCEPT ![HeadEntry.dest] = HeadEntry.value]

LEMMA ArchIs == OrderCore => ArchFacts
<1> SUFFICES ASSUME OrderCore PROVE ArchFacts
  OBVIOUS
<1>1. rob_count \in Nat
  BY Counters DEF OrderCore, PipeCore
<1>2. HeadDone => rob_count > 0
  BY DEF HeadDone, HeadReady
<1>3. ASSUME HeadDone PROVE ArchPc = Follower(rob_head)
  <2>1. Age(rob_head) = 0 /\ rob_count > 0
    BY <1>2, <1>3, HeadIs DEF HeadFacts
  <2> QED BY <1>1, <1>3, <2>1 DEF ArchPc, Follower
<1>4. /\ ~HeadDone => ArchRegs = regfile
      /\ HeadDone => ArchRegs = IF HeadEntry.dest = X0 THEN regfile
                                ELSE [regfile EXCEPT ![HeadEntry.dest] = HeadEntry.value]
  BY DEF ArchRegs
<1> QED BY <1>1, <1>2, <1>3, <1>4 DEF ArchFacts, ArchPc

\* Both before and after a step.
LEMMA FactsHold ==
  ASSUME OrderCore, OrderCore'
  PROVE  HeadFacts /\ ArchFacts /\ HeadFacts' /\ ArchFacts'
  BY HeadIs, ArchIs, PTL

\* Nothing is older than the head: it reads the register file.
LEMMA HeadReads ==
  ASSUME OrderCore, rob_count > 0, NEW i, NEW k \in 1 .. 3, NEW v, Reads(i, k, rob_head, v)
  PROVE  v = IF ReadsReg(i, k) THEN regfile[SrcReg(i, k)] ELSE SrcImm(i, k)
<1>1. Age(rob_head) = 0 /\ \A t \in Tags : Age(t) \in Nat
  BY HeadIs, Ages, Counters DEF HeadFacts, OrderCore, PipeCore
<1>2. regfile[X0] = 0
  BY DEF OrderCore, OrderInv, ZeroRegister
<1>3. \A w \in Tags : ~LastWriter(w, SrcReg(i, k), rob_head)
  BY <1>1 DEF LastWriter
<1> QED BY <1>2, <1>3 DEF Reads, Sees

LEMMA WhatIsRead ==
  ASSUME NEW i
  PROVE  /\ i.op \in (NeedUnit \cup VSetOps) \ (VArithOps \cup {"csrrwi", "vsetivli"}) => ReadsReg(i, 1)
         /\ i.op = "csrrwi" => ~ReadsReg(i, 1)
         /\ i.op \in {"add", "sub", "fadd", "fdiv", "fmadd", "vsetvl"} \cup MdOps \cup StoreOps \cup BranchOps
              <=> ReadsReg(i, 2)
         /\ i.op = "fmadd" <=> ReadsReg(i, 3)
         /\ SrcReg(i, 1) = i.rs1 /\ SrcReg(i, 2) = i.rs2 /\ SrcReg(i, 3) = i.rs3
         /\ SrcImm(i, 1) = i.imm /\ (i.op = "addi" => SrcImm(i, 2) = i.imm)
<1>1. ReadsReg(i, 1) <=> i.op \notin {"csrrwi", "vsetivli"} \cup PlainOps \cup VArithOps
  BY DEF ReadsReg
<1>2. ReadsReg(i, 2) <=> i.op \in {"add", "sub", "fadd", "fdiv", "fmadd", "vsetvl"} \cup MdOps \cup StoreOps \cup BranchOps
  BY DEF ReadsReg
<1>3. ReadsReg(i, 3) <=> i.op = "fmadd"
  BY DEF ReadsReg
<1>4. i.op \in NeedUnit \cup VSetOps => i.op \notin PlainOps
  BY DEF NeedUnit, VSetOps, PlainOps, HaltOps, NoOps, AluOps, MdOps, FpuOps, LoadOps, StoreOps, BranchOps,
         VArithOps, VMemOps, CsrOps
<1> QED BY <1>1, <1>2, <1>3, <1>4 DEF SrcReg, SrcImm

\* The entry that retires holds what its instruction computes from the state
\* of the last retirement.
HeadHolds(a, b, c) ==
  /\ ScalarOutcome(rob_head, a, b, c) /\ JumpOutcome(rob_head, a, b) /\ VsetOutcome(rob_head, a, b)
  /\ LoadOutcome(rob_head, a)
  /\ HeadIns.op \in (NeedUnit \cup VSetOps) \ (VArithOps \cup {"csrrwi", "vsetivli"}) => a = regfile[HeadIns.rs1]
  /\ HeadIns.op \in {"add", "sub", "fadd", "fdiv", "fmadd", "vsetvl"} \cup MdOps \cup StoreOps \cup BranchOps
       => b = regfile[HeadIns.rs2]
  /\ HeadIns.op = "addi" => b = HeadIns.imm
  /\ HeadIns.op = "fmadd" => c = regfile[HeadIns.rs3]

LEMMA HeadOutcome ==
  ASSUME OrderCore, HeadReady
  PROVE  /\ \E a, b, c \in Word : HeadHolds(a, b, c)
         /\ HeadIns.op \in VArithOps =>
              eff[rob_head].vregs = vec_arith_compute(HeadIns, arch.vregs, arch.vl)
         /\ HeadIns.op \notin VSetOps => eff[rob_head].vl = arch.vl /\ eff[rob_head].vtype = arch.vtype
<1>1. /\ rob_count > 0 /\ rob_head \in Tags /\ InFlight(rob_head) /\ Age(rob_head) = 0
      /\ rob[rob_head].ready /\ HeadIns = InsAt(rob_head)
  BY HeadIs DEF HeadFacts, HeadReady
<1>2. Explained(rob_head)
  BY <1>1 DEF OrderCore, OrderInv, ResultsRight
<1>3. PICK a \in Word, b \in Word, c \in Word :
        /\ Reads(HeadIns, 1, rob_head, a) /\ Reads(HeadIns, 2, rob_head, b) /\ Reads(HeadIns, 3, rob_head, c)
        /\ ScalarOutcome(rob_head, a, b, c) /\ JumpOutcome(rob_head, a, b) /\ VsetOutcome(rob_head, a, b)
        /\ LoadOutcome(rob_head, a)
  BY <1>1, <1>2 DEF Explained
<1>4. 1 \in 1 .. 3 /\ 2 \in 1 .. 3 /\ 3 \in 1 .. 3
  OBVIOUS
<1>5. /\ a = IF ReadsReg(HeadIns, 1) THEN regfile[SrcReg(HeadIns, 1)] ELSE SrcImm(HeadIns, 1)
      /\ b = IF ReadsReg(HeadIns, 2) THEN regfile[SrcReg(HeadIns, 2)] ELSE SrcImm(HeadIns, 2)
      /\ c = IF ReadsReg(HeadIns, 3) THEN regfile[SrcReg(HeadIns, 3)] ELSE SrcImm(HeadIns, 3)
  BY <1>1, <1>3, <1>4, HeadReads
<1>6. HeadIns.op = "addi" => ~ReadsReg(HeadIns, 2)
  BY WhatIsRead DEF MdOps, StoreOps, BranchOps
<1>7. HeadHolds(a, b, c)
  <2>1. HeadIns.op \in (NeedUnit \cup VSetOps) \ (VArithOps \cup {"csrrwi", "vsetivli"}) => a = regfile[HeadIns.rs1]
    BY <1>5, WhatIsRead
  <2>2. HeadIns.op \in {"add", "sub", "fadd", "fdiv", "fmadd", "vsetvl"} \cup MdOps \cup StoreOps \cup BranchOps
          => b = regfile[HeadIns.rs2]
    BY <1>5, WhatIsRead
  <2>3. HeadIns.op = "addi" => b = HeadIns.imm
    BY <1>5, <1>6, WhatIsRead
  <2>4. HeadIns.op = "fmadd" => c = regfile[HeadIns.rs3]
    BY <1>5, WhatIsRead
  <2> QED BY <1>3, <2>1, <2>2, <2>3, <2>4 DEF HeadHolds
<1>8. HeadIns.op \notin VSetOps => eff[rob_head].vl = arch.vl /\ eff[rob_head].vtype = arch.vtype
  <2>1. HeadIns.op \notin VSetOps => Leaves(rob_head) = Retires
    BY <1>1 DEF OrderCore, OrderInv, ConfigRight, ConfigAt
  <2> QED BY <2>1 DEF Leaves, Retires
<1>9. ASSUME HeadIns.op \in VArithOps
      PROVE  eff[rob_head].vregs = vec_arith_compute(HeadIns, arch.vregs, arch.vl)
  <2>1. PICK V \in VecFile : VSees(0, V) /\ eff[rob_head].vregs = vec_arith_compute(HeadIns, V, eff[rob_head].vl)
    BY <1>1, <1>2, <1>9 DEF Explained, ArithOutcome
  <2>2. V = arch.vregs
    BY <2>1, HeadVectors DEF OrderCore, PipeCore
  <2>3. HeadIns.op \notin VSetOps
    BY <1>9 DEF VArithOps, VSetOps
  <2> QED BY <1>8, <2>1, <2>2, <2>3
<1> QED BY <1>7, <1>8, <1>9

-----------------------------------------------------------------------------
(* How each kind of step moves the architectural state.                    *)

Effects == CsrOps \cup {"vse32"}

\* Units work: the machine sees nothing, unless the head takes effect.
LEMMA WorkSeen ==
  ASSUME OrderCore, OrderCore', UNCHANGED <<prog, rob_head, rob_count, regfile>>,
         \A t \in Tags : eff'[t].pc = eff[t].pc,
         rob_count > 0 /\ rob'[rob_head].ready => rob[rob_head].ready \/ HeadIns.op \notin Effects,
         rob_count > 0 /\ rob[rob_head].ready => rob'[rob_head] = rob[rob_head],
         fetch_pc' = fetch_pc \/ rob_count > 1 \/ (rob_count > 0 /\ ~rob[rob_head].ready)
  PROVE  ArchPc' = ArchPc /\ ArchRegs' = ArchRegs
<1>0. HeadFacts /\ ArchFacts /\ HeadFacts' /\ ArchFacts' /\ rob_count \in Nat
  BY FactsHold, Counters DEF OrderCore, PipeCore
<1>1. CASE rob_count = 0
  BY <1>0, <1>1 DEF ArchFacts
<1>2. CASE rob_count > 0
  <2>1. PICK h \in Tags : h = rob_head /\ h = rob_head'
    BY <1>0, <1>2 DEF HeadFacts
  <2>2. /\ HeadEntry = rob[h] /\ HeadEntry' = rob'[h] /\ eff'[h].pc = eff[h].pc
        /\ HeadReady <=> rob[h].ready
        /\ HeadReady' <=> rob'[h].ready
        /\ HeadIns' = HeadIns
    BY <1>0, <1>2, <2>1 DEF HeadFacts, InsAt
  <2>3. HeadDone' <=> HeadDone
    BY <1>2, <2>1, <2>2 DEF HeadDone, Effects
  <2>4. CASE HeadDone
    <3>1. rob'[h] = rob[h]
      BY <1>2, <2>1, <2>2, <2>4 DEF HeadDone
    <3>2. ArchRegs' = ArchRegs
      BY <1>0, <2>2, <2>3, <2>4, <3>1 DEF ArchFacts
    <3>3. rob[h].ready /\ (fetch_pc' = fetch_pc \/ rob_count > 1)
      BY <2>1, <2>2, <2>4 DEF HeadDone
    <3>4. PICK n \in Tags : n = Inc(rob_head) /\ n = Inc(rob_head')
      BY <2>1, Neighbours DEF OrderCore, PipeCore
    <3>5. ArchPc = IF rob_count > 1 THEN eff[n].pc ELSE fetch_pc
      BY <2>4, <3>4 DEF ArchPc
    <3>6. ArchPc' = IF rob_count' > 1 THEN eff'[n].pc ELSE fetch_pc'
      BY <2>3, <2>4, <3>4 DEF ArchPc
    <3> QED BY <3>2, <3>3, <3>4, <3>5, <3>6
  <2>5. CASE ~HeadDone
    BY <1>0, <1>2, <2>1, <2>2, <2>3, <2>5 DEF ArchFacts
  <2> QED BY <2>4, <2>5
<1> QED BY <1>0, <1>1, <1>2

\* One unit completes its entry.
LEMMA UnitSeen ==
  ASSUME OrderCore, OrderCore', UNCHANGED <<prog, rob_head, rob_count, regfile, fetch_pc>>,
         \A t \in Tags : eff'[t].pc = eff[t].pc,
         NEW u \in Units, rs[u].busy, InsOf(u).op \notin Effects,
         \A t \in Tags : t # rs[u].rob_tag => rob'[t] = rob[t]
  PROVE  ArchPc' = ArchPc /\ ArchRegs' = ArchRegs
<1>1. InsOf(u) = InsAt(rs[u].rob_tag) /\ ~rob[rs[u].rob_tag].ready
  BY StationIns DEF OrderCore
<1>2. rob_count > 0 => rob_head \in Tags /\ HeadIns = InsAt(rob_head)
  BY HeadIs DEF HeadFacts
<1> QED BY <1>1, <1>2, WorkSeen

\* A block of the tick that finds nothing to do, or only starts a countdown.
LEMMA QuietSeen ==
  ASSUME UNCHANGED <<prog, fetch_pc, rob, rob_head, rob_count, regfile, eff>>
  PROVE  ArchPc' = ArchPc /\ ArchRegs' = ArchRegs
  BY DEF ArchPc, ArchRegs, HeadDone, HeadReady, HeadEntry, HeadIns, Inc

\* The head leaves: the machine goes on behind it, and sees its register.
LEMMA RetireSeen ==
  ASSUME OrderCore, OrderCore', Commit
  PROVE  ArchPc' = Follower(rob_head) /\ ArchRegs' = regfile'
<1>0. /\ HeadFacts /\ ArchFacts /\ HeadFacts' /\ ArchFacts' /\ WellTyped /\ RobWindow /\ ResultsRight
      /\ stage = "commit" /\ HeadReady
  BY FactsHold DEF OrderCore, OrderInv, PipeCore, PipelineInv, Commit
<1>1. /\ rob_count > 0 /\ rob_count \in Nat /\ rob_head' = Inc(rob_head) /\ rob_count' = rob_count - 1
      /\ rob_head \in Tags /\ InFlight(rob_head) /\ Age(rob_head) = 0
      /\ UNCHANGED <<prog, fetch_pc, eff>>
  BY <1>0, Counters DEF HeadFacts, HeadReady, Commit, front
<1>2. CASE rob_count = 1
  BY <1>0, <1>1, <1>2 DEF ArchFacts, Follower
<1>3. CASE rob_count # 1
  <2>1. PICK h \in Tags : h = Inc(rob_head) /\ h = rob_head' /\ h # rob_head /\ InFlight(h)
    <3>1. InFlight(Inc(rob_head)) /\ Age(Inc(rob_head)) = 1 /\ Inc(rob_head) \in Tags
      BY <1>0, <1>1, <1>3, FollowedBy, Neighbours
    <3> QED BY <1>1, <3>1
  <2>2. rob'[h] = rob[h]
    BY <1>0, <2>1, RetireWindow
  <2>3. /\ rob_count' > 0 /\ HeadIns' = InsAt(h) /\ (HeadReady' <=> rob[h].ready)
        /\ eff'[rob_head'] = eff[h]
    BY <1>0, <1>1, <1>3, <2>1, <2>2 DEF HeadFacts, InsAt
  <2>4. Follower(rob_head) = eff[h].pc
    BY <1>1, <1>3, <2>1 DEF Follower
  <2>5. ~HeadDone'
    <3> SUFFICES ASSUME HeadDone' PROVE FALSE
      OBVIOUS
    <3>1. rob[h].ready /\ InsAt(h).op \in HeadOps
      BY <2>3 DEF HeadDone, HeadOps, VMemOps
    <3>2. Explained(h)
      BY <1>0, <2>1, <3>1 DEF ResultsRight
    <3> QED BY <2>1, <3>1, <3>2, ReadersAreHead
  <2> QED BY <1>0, <2>3, <2>4, <2>5 DEF ArchFacts
<1> QED BY <1>2, <1>3

\* An instruction enters: the machine does not see it.
LEMMA EnterSeen ==
  ASSUME OrderCore, OrderCore', MayFetch, NEW complete \in BOOLEAN, NEW v, Enter(complete, v),
         UNCHANGED <<prog, regfile>>, complete => Fetched.op \notin Effects
  PROVE  ArchPc' = ArchPc /\ ArchRegs' = ArchRegs
<1>0. HeadFacts /\ ArchFacts /\ HeadFacts' /\ ArchFacts' /\ WellTyped /\ RobWindow
  BY FactsHold DEF OrderCore, PipeCore, PipelineInv
<1>1. /\ rob_head' = rob_head /\ rob_count' = rob_count + 1 /\ rob_count \in Nat
      /\ \A t \in Tags : t # rob_tail => rob'[t] = rob[t] /\ eff'[t] = eff[t]
      /\ rob_tail \in Tags /\ rob_head \in Tags /\ rob_count < ROB_SZ
  <2>1. /\ \A t \in Tags : t # rob_tail => rob'[t] = rob[t] /\ eff'[t] = eff[t]
    BY <1>0, EnterWindow
  <2> QED BY <1>0, <2>1, Counters DEF Enter, MayFetch
<1>2. rob'[rob_tail].ready = complete /\ eff'[rob_tail].pc = fetch_pc
  BY <1>0, EnterWindow
<1>3. PICK h \in Tags : h = rob_head /\ h = rob_head'
  BY <1>1
<1>4. rob_count' > 0 /\ HeadEntry' = rob'[h] /\ (HeadReady' <=> rob'[h].ready) /\ HeadIns' = prog[eff'[h].pc]
  BY <1>0, <1>1, <1>3 DEF HeadFacts, InsAt
<1>5. CASE rob_count = 0
  <2>1. h = rob_tail
    BY <1>0, <1>3, <1>5, Counters DEF RobWindow, Tags
  <2>2. ~HeadDone'
    BY <1>2, <1>4, <2>1 DEF HeadDone, Fetched, Effects
  <2> QED BY <1>0, <1>2, <1>3, <1>4, <1>5, <2>1, <2>2 DEF ArchFacts
<1>6. CASE rob_count > 0
  <2>1. HeadEntry = rob[h] /\ (HeadReady <=> rob[h].ready) /\ HeadIns = prog[eff[h].pc] /\ InFlight(h)
    BY <1>0, <1>3, <1>6 DEF HeadFacts, InsAt
  <2>2. h # rob_tail
    BY <1>0, <1>1, <2>1, TailIsFree
  <2>3. rob'[h] = rob[h] /\ eff'[h] = eff[h]
    BY <1>1, <2>2
  <2>4. HeadDone' <=> HeadDone
    BY <1>4, <2>1, <2>3 DEF HeadDone
  <2>5. CASE HeadDone
    <3>1. PICK n \in Tags : n = Inc(rob_head) /\ n = Inc(rob_head')
      BY <1>0, <1>1, Neighbours
    <3>2. ArchPc = IF rob_count > 1 THEN eff[n].pc ELSE fetch_pc
      BY <2>5, <3>1 DEF ArchPc
    <3>3. ArchPc' = eff'[n].pc
      BY <1>1, <1>6, <2>4, <2>5, <3>1 DEF ArchPc
    <3>4. Age(h) = 0
      BY <1>0, <1>3, <1>6 DEF HeadFacts
    <3>5. rob_count > 1 => n # rob_tail
      <4>1. rob_count > 1 => InFlight(n)
        BY <1>0, <1>1, <1>3, <2>1, <3>1, <3>4, FollowedBy
      <4> QED BY <1>0, <1>1, <4>1, TailIsFree
    <3>6. rob_count = 1 => n = rob_tail
      <4>1. rob_count = 1 => Age(n) = 1
        <5>1. 1 \in 0 .. ROB_SZ - 1 /\ 0 < ROB_SZ - 1
          BY <1>0, Counters
        <5> QED BY <1>0, <1>3, <3>1, <3>4, <5>1, Neighbours
      <4> QED BY <1>0, <1>1, <4>1, TailIsFree, Ages
    <3>7. ArchPc' = ArchPc
      BY <1>1, <1>2, <1>6, <3>2, <3>3, <3>5, <3>6
    <3> QED BY <1>0, <1>4, <2>1, <2>3, <2>4, <2>5, <3>7 DEF ArchFacts
  <2>6. CASE ~HeadDone
    BY <1>0, <1>3, <1>4, <1>6, <2>1, <2>3, <2>4, <2>6 DEF ArchFacts
  <2> QED BY <2>5, <2>6
<1> QED BY <1>1, <1>5, <1>6

-----------------------------------------------------------------------------
(* Every retirement is the step of the machine that executes the           *)
(* instruction at the head, unless it has taken effect before.             *)

\* What an instruction that is not a jump leaves, and where it goes on.
HeadGoesOn ==
  IF HeadIns.op = "jal" THEN HeadIns.imm ELSE NextPc(eff[rob_head].pc)

LEMMA CommitFacts ==
  ASSUME OrderCore, OrderCore', ~halted, Commit
  PROVE  /\ ecall_halt = FALSE /\ halted = FALSE /\ UNCHANGED <<prog, csr, halted>>
         /\ ecall_halt' <=> HeadIns.op \in HaltOps
         /\ dmem' = IF HeadIns.op \in StoreOps
                    THEN [dmem EXCEPT ![MemIndex(rob[rob_head].addr)] = rob[rob_head].sdata] ELSE dmem
         /\ ArchRegs' = IF DestOf(HeadIns) = X0 THEN regfile
                        ELSE [regfile EXCEPT ![DestOf(HeadIns)] = rob[rob_head].value]
         /\ arch'.vl = eff[rob_head].vl /\ arch'.vtype = eff[rob_head].vtype
         /\ arch'.vregs = IF HeadIns.op \in VecWrites THEN eff[rob_head].vregs ELSE arch.vregs
         /\ ArchPc' = Follower(rob_head)
         /\ HeadIns.op \notin JumpOps => Follower(rob_head) = HeadGoesOn
         /\ HeadIns.op \in PlainOps \cup NeedUnit \cup VSetOps
         /\ HeadReady /\ HeadEntry = rob[rob_head]
<1>1. /\ rob_head \in Tags /\ InFlight(rob_head) /\ HeadEntry = rob[rob_head] /\ EntryDecoded(rob_head)
      /\ HeadIns = InsAt(rob_head) /\ HeadReady
      /\ regfile' = IF HeadEntry.dest = X0 THEN regfile
                    ELSE [regfile EXCEPT ![HeadEntry.dest] = HeadEntry.value]
  BY RetireWrites DEF OrderCore, OrderInv, Commit
<1>2. ecall_halt = FALSE /\ halted = FALSE
  <2>1. ecall_halt \in BOOLEAN /\ halted \in BOOLEAN
    BY DEF OrderCore, PipeCore, WellTyped, OooTypeOK
  <2> QED BY <2>1 DEF OrderCore, OrderInv, Halts, Commit
<1>3. /\ HeadIns.op \in PlainOps \cup NeedUnit \cup VSetOps /\ HeadEntry.dest = DestOf(HeadIns)
      /\ HeadEntry.is_store <=> HeadIns.op \in StoreOps
      /\ HeadEntry.is_ecall <=> HeadIns.op \in HaltOps
  BY <1>1 DEF EntryDecoded
<1>4. ArchPc' = Follower(rob_head) /\ ArchRegs' = regfile'
  BY RetireSeen
<1>5. HeadIns.op \notin JumpOps => Follower(rob_head) = HeadGoesOn
  BY <1>1 DEF OrderCore, OrderInv, PathRight, HeadGoesOn
<1>6. /\ arch'.vl = eff[rob_head].vl /\ arch'.vtype = eff[rob_head].vtype
      /\ arch'.vregs = IF HeadIns.op \in VecWrites THEN eff[rob_head].vregs ELSE arch.vregs
  <2>1. arch \in VecState
    BY DEF OrderCore, PipeCore, WellTyped, OooTypeOK
  <2>2. arch' = Retired
    BY DEF Commit
  <2> QED BY <2>1, <2>2 DEF Retired, VecState, VecWrites
<1>7. UNCHANGED <<prog, csr, halted>>
  BY DEF Commit
<1>8. ecall_halt' <=> HeadIns.op \in HaltOps
  BY <1>2, <1>3 DEF Commit
<1>9. dmem' = IF HeadIns.op \in StoreOps
              THEN [dmem EXCEPT ![MemIndex(rob[rob_head].addr)] = rob[rob_head].sdata] ELSE dmem
  BY <1>1, <1>3 DEF Commit
<1> QED BY <1>1, <1>2, <1>3, <1>4, <1>5, <1>6, <1>7, <1>8, <1>9

\* The instruction of the machine is that of the head.
LEMMA HeadIsNext ==
  ASSUME OrderCore, rob_count > 0, ~HeadDone
  PROVE  /\ ArchPc = eff[rob_head].pc /\ ArchRegs = regfile /\ Ooo!instr = HeadIns
         /\ Ooo!s1 = regfile[HeadIns.rs1] /\ Ooo!s2 = regfile[HeadIns.rs2]
<1>1. ArchPc = eff[rob_head].pc /\ ArchRegs = regfile
  BY ArchIs DEF ArchFacts
<1>2. Ooo!instr = HeadIns
  BY <1>1 DEF Ooo!instr, HeadIns
<1> QED BY <1>1, <1>2 DEF Ooo!s1, Ooo!s2

\* The ops in classes that exclude each other.
LEMMA OpClasses ==
  ASSUME NEW op, op \in PlainOps \cup NeedUnit \cup VSetOps
  PROVE  /\ \/ op \in AluOps \/ op \in MdOps \/ op \in FpuOps \/ op \in LoadOps \/ op = "lui"
            \/ op \in BranchOps \/ op \in {"jal", "jalr"} \/ op \in StoreOps \/ op \in VSetOps
            \/ op \in VArithOps \/ op = "vle32" \/ op \in HaltOps \/ op \in NoOps \/ op \in Effects
         /\ op \in AluOps \cup MdOps \cup FpuOps \cup LoadOps \cup {"lui"} =>
              op \notin JumpOps \cup StoreOps \cup VSetOps \cup VecWrites \cup HaltOps \cup NoOps \cup BranchOps
                        \cup VArithOps \cup VMemOps \cup {"jal"}
         /\ op \in AluOps => op \notin MdOps \cup FpuOps \cup LoadOps \cup {"lui"}
         /\ op \in MdOps => op \notin AluOps \cup FpuOps \cup LoadOps \cup {"lui", "addi"}
         /\ op \in FpuOps => op \notin AluOps \cup MdOps \cup LoadOps \cup {"lui", "addi"}
         /\ op \in LoadOps => op \notin AluOps \cup MdOps \cup FpuOps \cup {"lui", "addi"}
         /\ op \in {"lui"} => op \notin AluOps \cup MdOps \cup FpuOps \cup LoadOps \cup {"addi"}
<1>1. /\ \/ op \in AluOps \/ op \in MdOps \/ op \in FpuOps \/ op \in LoadOps \/ op = "lui"
         \/ op \in BranchOps \/ op \in {"jal", "jalr"} \/ op \in StoreOps \/ op \in VSetOps
         \/ op \in VArithOps \/ op = "vle32" \/ op \in HaltOps \/ op \in NoOps \/ op \in Effects
  BY DEF PlainOps, NeedUnit, VMemOps, Effects
<1>2. op \in AluOps \cup MdOps \cup FpuOps \cup LoadOps \cup {"lui"} =>
        op \notin JumpOps \cup StoreOps \cup VSetOps \cup VecWrites \cup HaltOps \cup NoOps \cup BranchOps
                  \cup VArithOps \cup VMemOps \cup {"jal"}
  BY DEF AluOps, MdOps, FpuOps, LoadOps, JumpOps, StoreOps, VSetOps, VecWrites, HaltOps, NoOps, BranchOps,
         VArithOps, VMemOps
<1>3. /\ op \in AluOps => op \notin MdOps \cup FpuOps \cup LoadOps \cup {"lui"}
      /\ op \in MdOps => op \notin AluOps \cup FpuOps \cup LoadOps \cup {"lui", "addi"}
      /\ op \in FpuOps => op \notin AluOps \cup MdOps \cup LoadOps \cup {"lui", "addi"}
      /\ op \in LoadOps => op \notin AluOps \cup MdOps \cup FpuOps \cup {"lui", "addi"}
      /\ op \in {"lui"} => op \notin AluOps \cup MdOps \cup FpuOps \cup LoadOps \cup {"addi"}
  BY DEF AluOps, MdOps, FpuOps, LoadOps
<1> QED BY <1>1, <1>2, <1>3

LEMMA ComputeSeen ==
  ASSUME OrderCore, OrderCore', ~halted, Commit,
         HeadIns.op \in AluOps \cup MdOps \cup FpuOps \cup LoadOps \cup {"lui"}
  PROVE  Ooo!Compute
<1> DEFINE i == HeadIns
<1>0. rob_count > 0 /\ HeadReady /\ i.op \in PlainOps \cup NeedUnit \cup VSetOps /\ ~HeadDone /\ i = InsAt(rob_head)
  <2>1. HeadReady /\ rob_count > 0 /\ i.op \in PlainOps \cup NeedUnit \cup VSetOps
    BY CommitFacts DEF HeadReady
  <2>2. i.op \notin CsrOps \cup {"vse32"}
    BY DEF AluOps, MdOps, FpuOps, LoadOps, CsrOps
  <2>3. i = InsAt(rob_head)
    BY DEF HeadIns, InsAt
  <2> QED BY <2>1, <2>2, <2>3 DEF HeadDone
<1>1. i.op \notin JumpOps \cup StoreOps \cup VSetOps \cup VecWrites \cup HaltOps \cup NoOps \cup BranchOps
                  \cup VArithOps \cup VMemOps \cup {"jal"}
  BY <1>0, OpClasses
<1>2. DestOf(i) = i.rd
  BY <1>1 DEF DestOf
<1>3. PICK a \in Word, b \in Word, c \in Word : HeadHolds(a, b, c)
  BY <1>0, HeadOutcome
<1>4. /\ ArchPc = eff[rob_head].pc /\ ArchRegs = regfile /\ Ooo!instr = i
      /\ Ooo!s1 = regfile[i.rs1] /\ Ooo!s2 = regfile[i.rs2]
  BY <1>0, HeadIsNext
<1>5. Ooo!Value = rob[rob_head].value
  <2>1. CASE i.op = "lui"
    <3>1. rob[rob_head].value = i.imm
      BY <1>0, <1>3, <2>1 DEF HeadHolds, ScalarOutcome
    <3>2. i.op \notin AluOps \cup MdOps \cup FpuOps \cup LoadOps \cup {"addi"}
      BY <1>0, <2>1, OpClasses
    <3> QED BY <1>4, <2>1, <3>1, <3>2, SameOps DEF Ooo!Value
  <2>2. i.op \in AluOps \cup MdOps \cup FpuOps \cup LoadOps =>
          i.op \in (NeedUnit \cup VSetOps) \ (VArithOps \cup {"csrrwi", "vsetivli"})
    BY <1>1 DEF NeedUnit, VSetOps, AluOps, MdOps, FpuOps, LoadOps
  <2>3. CASE i.op \in AluOps
    <3>0. i.op \notin MdOps \cup FpuOps \cup LoadOps \cup {"lui"}
      BY <1>0, <2>3, OpClasses
    <3>1. rob[rob_head].value = alu_compute(i, a, b) /\ a = regfile[i.rs1]
      BY <1>0, <1>3, <2>2, <2>3 DEF HeadHolds, ScalarOutcome
    <3>2. CASE i.op = "addi"
      BY <1>3, <1>4, <2>3, <3>0, <3>1, <3>2, SameOps, SameResults DEF HeadHolds, Ooo!Value
    <3>3. CASE i.op # "addi"
      <4>1. i.op \in {"add", "sub"}
        BY <2>3, <3>3 DEF AluOps
      <4>2. b = regfile[i.rs2]
        BY <1>3, <4>1 DEF HeadHolds
      <4> QED BY <1>4, <2>3, <3>0, <3>1, <3>3, <4>2, SameOps, SameResults DEF Ooo!Value
    <3> QED BY <3>2, <3>3
  <2>4. CASE i.op \in MdOps
    <3>1. rob[rob_head].value = md_compute(i, regfile[i.rs1], regfile[i.rs2])
      BY <1>0, <1>3, <2>2, <2>4 DEF HeadHolds, ScalarOutcome
    <3>2. i.op \notin AluOps \cup FpuOps \cup LoadOps \cup {"lui", "addi"}
      BY <1>0, <2>4, OpClasses
    <3> QED BY <1>4, <2>4, <3>1, <3>2, SameOps, SameResults DEF Ooo!Value
  <2>5. CASE i.op \in FpuOps
    <3>1. rob[rob_head].value = fpu_compute(i, a, b, c) /\ a = regfile[i.rs1]
      BY <1>0, <1>3, <2>2, <2>5 DEF HeadHolds, ScalarOutcome
    <3>2. fpu_compute(i, a, b, c) = fpu_compute(i, a, regfile[i.rs2], regfile[i.rs3])
      <4>1. CASE i.op \in {"fadd", "fdiv"}
        BY <1>3, <4>1 DEF HeadHolds, fpu_compute
      <4>2. CASE i.op = "fmadd"
        BY <1>3, <4>2 DEF HeadHolds, fpu_compute
      <4>3. CASE i.op \notin {"fadd", "fdiv", "fmadd"}
        BY <4>3 DEF fpu_compute
      <4> QED BY <4>1, <4>2, <4>3
    <3>3. i.op \notin AluOps \cup MdOps \cup LoadOps \cup {"lui", "addi"}
      BY <1>0, <2>5, OpClasses
    <3> QED BY <1>4, <2>5, <3>1, <3>2, <3>3, SameOps, SameResults DEF Ooo!Value
  <2>6. CASE i.op \in LoadOps
    <3>1. rob[rob_head].value = dmem[MemIndex(Plus(regfile[i.rs1], i.imm))]
      BY <1>0, <1>3, <2>2, <2>6 DEF HeadHolds, LoadOutcome
    <3>2. i.op \notin AluOps \cup MdOps \cup FpuOps \cup {"lui", "addi"}
      BY <1>0, <2>6, OpClasses
    <3> QED BY <1>4, <2>6, <3>1, <3>2, SameOps, SameResults DEF Ooo!Value
  <2> QED BY <2>1, <2>3, <2>4, <2>5, <2>6
<1>6. Ooo!Write(i.rd, rob[rob_head].value)
  <2>1. ArchRegs' = IF i.rd = X0 THEN ArchRegs ELSE [ArchRegs EXCEPT ![i.rd] = rob[rob_head].value]
    BY <1>2, <1>4, CommitFacts
  <2> QED BY <2>1 DEF Ooo!Write
<1>7. Ooo!GoOn
  <2>1. ArchPc' = NextPc(ArchPc)
    BY <1>1, <1>4, CommitFacts DEF HeadGoesOn
  <2>2. (ecall_halt \/ halted)' = (ecall_halt \/ halted)
    BY <1>1, CommitFacts
  <2> QED BY <2>1, <2>2, SameResults DEF Ooo!GoOn
<1>8. /\ UNCHANGED <<dmem, csr>>
      /\ arch'.vregs = arch.vregs /\ arch'.vl = arch.vl /\ arch'.vtype = arch.vtype
  BY <1>0, <1>1, CommitFacts, HeadOutcome
<1> QED BY <1>4, <1>5, <1>6, <1>7, <1>8, SameOps DEF Ooo!Compute, Ooo!vector

\* What the others have in common.
LEMMA CommitStarts ==
  ASSUME OrderCore, OrderCore', ~halted, Commit, HeadIns.op \notin Effects
  PROVE  /\ HeadReady /\ rob_count > 0 /\ ~HeadDone /\ HeadIns = InsAt(rob_head)
         /\ ArchPc = eff[rob_head].pc /\ ArchRegs = regfile /\ Ooo!instr = HeadIns
         /\ Ooo!s1 = regfile[HeadIns.rs1] /\ Ooo!s2 = regfile[HeadIns.rs2]
<1>1. HeadReady /\ rob_count > 0 /\ HeadIns = InsAt(rob_head)
  BY CommitFacts DEF HeadReady, HeadIns, InsAt
<1>2. ~HeadDone
  BY DEF HeadDone, Effects
<1> QED BY <1>1, <1>2, HeadIsNext

LEMMA JumpSeen ==
  ASSUME OrderCore, OrderCore', ~halted, Commit, HeadIns.op \in {"jal", "jalr"} \cup BranchOps
  PROVE  Ooo!Jump
<1> DEFINE i == HeadIns
<1>1. i.op \notin Effects \cup StoreOps \cup VSetOps \cup VecWrites \cup HaltOps \cup VArithOps
  BY DEF BranchOps, Effects, CsrOps, StoreOps, VSetOps, VecWrites, HaltOps, VArithOps
<1>2. /\ HeadReady /\ i = InsAt(rob_head)
      /\ ArchPc = eff[rob_head].pc /\ ArchRegs = regfile /\ Ooo!instr = i
      /\ Ooo!s1 = regfile[i.rs1] /\ Ooo!s2 = regfile[i.rs2]
  BY <1>1, CommitStarts
<1>3. PICK a \in Word, b \in Word, c \in Word : HeadHolds(a, b, c)
  BY <1>2, HeadOutcome
<1>4. ArchPc' = CASE i.op = "jal"  -> i.imm
                  [] i.op = "jalr" -> Plus(regfile[i.rs1], i.imm)
                  [] OTHER -> IF branch_taken(i, regfile[i.rs1], regfile[i.rs2]) THEN i.imm
                              ELSE NextPc(eff[rob_head].pc)
  <2>1. CASE i.op = "jal"
    BY <2>1, CommitFacts DEF JumpOps, BranchOps, HeadGoesOn
  <2>2. CASE i.op = "jalr"
    <3>1. i.op \in (NeedUnit \cup VSetOps) \ (VArithOps \cup {"csrrwi", "vsetivli"})
      BY <1>1, <2>2 DEF NeedUnit
    <3>2. Follower(rob_head) = Plus(regfile[i.rs1], i.imm)
      BY <1>2, <1>3, <2>2, <3>1 DEF HeadHolds, JumpOutcome
    <3> QED BY <2>2, <3>2, CommitFacts
  <2>3. CASE i.op \in BranchOps
    <3>1. i.op \in (NeedUnit \cup VSetOps) \ (VArithOps \cup {"csrrwi", "vsetivli"}) /\ i.op \notin {"jal", "jalr"}
      BY <1>1, <2>3 DEF NeedUnit, BranchOps
    <3>2. Follower(rob_head) = IF branch_taken(i, regfile[i.rs1], regfile[i.rs2]) THEN i.imm
                               ELSE NextPc(eff[rob_head].pc)
      BY <1>2, <1>3, <2>3, <3>1 DEF HeadHolds, JumpOutcome
    <3> QED BY <3>1, <3>2, CommitFacts
  <2> QED BY <2>1, <2>2, <2>3
<1>5. i.op \in BranchOps => ArchRegs' = ArchRegs
  <2>1. i.op \in BranchOps => DestOf(i) = X0
    BY DEF DestOf
  <2> QED BY <1>2, <2>1, CommitFacts
<1>6. i.op \notin BranchOps => Ooo!Write(i.rd, NextPc(eff[rob_head].pc))
  <2> SUFFICES ASSUME i.op \in {"jal", "jalr"} PROVE Ooo!Write(i.rd, NextPc(eff[rob_head].pc))
    OBVIOUS
  <2>1. DestOf(i) = i.rd
    BY DEF DestOf, StoreOps, BranchOps, VArithOps, VMemOps, NoOps, HaltOps
  <2>2. rob[rob_head].value = NextPc(eff[rob_head].pc)
    BY <1>2, <1>3 DEF HeadHolds, ScalarOutcome
  <2>3. ArchRegs' = IF i.rd = X0 THEN ArchRegs ELSE [ArchRegs EXCEPT ![i.rd] = NextPc(eff[rob_head].pc)]
    BY <1>2, <2>1, <2>2, CommitFacts
  <2> QED BY <2>3 DEF Ooo!Write
<1>7. /\ UNCHANGED <<dmem, csr>> /\ (ecall_halt \/ halted)' = (ecall_halt \/ halted)
      /\ arch'.vregs = arch.vregs /\ arch'.vl = arch.vl /\ arch'.vtype = arch.vtype
  BY <1>1, <1>2, CommitFacts, HeadOutcome
<1> QED BY <1>2, <1>4, <1>5, <1>6, <1>7, SameOps, SameResults DEF Ooo!Jump, Ooo!vector

LEMMA StoreSeen ==
  ASSUME OrderCore, OrderCore', ~halted, Commit, HeadIns.op \in StoreOps PROVE Ooo!Store
<1> DEFINE i == HeadIns
<1>1. i.op \notin Effects \cup JumpOps \cup VSetOps \cup VecWrites \cup HaltOps \cup VArithOps \cup {"jal"}
  BY DEF BranchOps, JumpOps, Effects, CsrOps, StoreOps, VSetOps, VecWrites, HaltOps, VArithOps
<1>2. /\ HeadReady /\ i = InsAt(rob_head)
      /\ ArchPc = eff[rob_head].pc /\ ArchRegs = regfile /\ Ooo!instr = i
      /\ Ooo!s1 = regfile[i.rs1] /\ Ooo!s2 = regfile[i.rs2]
  BY <1>1, CommitStarts
<1>3. PICK a \in Word, b \in Word, c \in Word : HeadHolds(a, b, c)
  BY <1>2, HeadOutcome
<1>4. i.op \in (NeedUnit \cup VSetOps) \ (VArithOps \cup {"csrrwi", "vsetivli"})
  BY <1>1 DEF NeedUnit, StoreOps
<1>5. rob[rob_head].addr = Plus(regfile[i.rs1], i.imm) /\ rob[rob_head].sdata = regfile[i.rs2]
  BY <1>2, <1>3, <1>4 DEF HeadHolds, ScalarOutcome
<1>6. ArchRegs' = ArchRegs
  <2>1. DestOf(i) = X0
    BY DEF DestOf
  <2> QED BY <1>2, <2>1, CommitFacts
<1>7. /\ UNCHANGED csr /\ (ecall_halt \/ halted)' = (ecall_halt \/ halted)
      /\ ArchPc' = NextPc(ArchPc)
      /\ dmem' = [dmem EXCEPT ![MemIndex(Plus(regfile[i.rs1], i.imm))] = regfile[i.rs2]]
      /\ arch'.vregs = arch.vregs /\ arch'.vl = arch.vl /\ arch'.vtype = arch.vtype
  BY <1>1, <1>2, <1>5, CommitFacts, HeadOutcome DEF HeadGoesOn
<1> QED BY <1>2, <1>6, <1>7, SameOps, SameResults DEF Ooo!Store, Ooo!GoOn, Ooo!vector

LEMMA VSetSeen ==
  ASSUME OrderCore, OrderCore', ~halted, Commit, HeadIns.op \in VSetOps PROVE Ooo!VSet
<1> DEFINE i == HeadIns
<1>1. i.op \notin Effects \cup JumpOps \cup StoreOps \cup VecWrites \cup HaltOps \cup VArithOps \cup {"jal"}
  BY DEF BranchOps, JumpOps, Effects, CsrOps, StoreOps, VSetOps, VecWrites, HaltOps, VArithOps
<1>2. /\ HeadReady /\ i = InsAt(rob_head)
      /\ ArchPc = eff[rob_head].pc /\ ArchRegs = regfile /\ Ooo!instr = i
      /\ Ooo!s1 = regfile[i.rs1] /\ Ooo!s2 = regfile[i.rs2]
  BY <1>1, CommitStarts
<1>3. PICK a \in Word, b \in Word, c \in Word : HeadHolds(a, b, c)
  BY <1>2, HeadOutcome
<1>4. /\ i.op # "vsetivli" => a = regfile[i.rs1]
      /\ i.op = "vsetvl" => b = regfile[i.rs2]
  <2>1. i.op # "csrrwi"
    BY DEF VSetOps
  <2> QED BY <1>1, <1>3, <2>1 DEF HeadHolds
<1>5. VsetType(i, b) = VsetType(i, regfile[i.rs2])
  BY <1>4 DEF VsetType
<1>6. ConfigAt(rob_head).vl = arch.vl
  BY DEF ConfigAt, Retires
<1>7. /\ eff[rob_head].vtype = VsetType(i, b)
      /\ eff[rob_head].vl = VsetLength(i, eff[rob_head].vtype, a, arch.vl)
      /\ rob[rob_head].value = eff[rob_head].vl
  BY <1>2, <1>3, <1>6 DEF HeadHolds, VsetOutcome
<1>8. PICK t : t = eff[rob_head].vtype
  OBVIOUS
<1>9. VsetLength(i, t, a, arch.vl) = VsetLength(i, t, regfile[i.rs1], arch.vl)
  <2>1. CASE i.op = "vsetivli"
    BY <2>1, Zenon DEF VsetLength
  <2>2. CASE i.op # "vsetivli"
    BY <1>4, <2>2
  <2> QED BY <2>1, <2>2
<1>10. Ooo!Write(i.rd, arch'.vl)
  <2>1. DestOf(i) = i.rd
    BY DEF DestOf, VSetOps, StoreOps, BranchOps, VArithOps, VMemOps, NoOps, HaltOps
  <2>2. ArchRegs' = IF i.rd = X0 THEN ArchRegs ELSE [ArchRegs EXCEPT ![i.rd] = arch'.vl]
    BY <1>2, <1>7, <2>1, CommitFacts
  <2> QED BY <2>2 DEF Ooo!Write
<1>11. /\ UNCHANGED <<csr, dmem>> /\ (ecall_halt \/ halted)' = (ecall_halt \/ halted)
       /\ ArchPc' = NextPc(ArchPc) /\ arch'.vregs = arch.vregs
  BY <1>1, <1>2, CommitFacts DEF HeadGoesOn
<1>12. /\ arch'.vtype = VsetType(i, regfile[i.rs2])
       /\ arch'.vl = VsetLength(i, arch'.vtype, regfile[i.rs1], arch.vl)
  BY <1>5, <1>7, <1>8, <1>9, CommitFacts
<1> QED BY <1>2, <1>10, <1>11, <1>12, SameOps, SameResults, SameVectors DEF Ooo!VSet, Ooo!GoOn

LEMMA VComputeSeen ==
  ASSUME OrderCore, OrderCore', ~halted, Commit, HeadIns.op \in VecWrites PROVE Ooo!VCompute
<1> DEFINE i == HeadIns
<1>1. i.op \notin Effects \cup JumpOps \cup StoreOps \cup VSetOps \cup HaltOps \cup {"jal"}
  BY DEF BranchOps, JumpOps, Effects, CsrOps, StoreOps, VSetOps, VecWrites, HaltOps, VArithOps
<1>2. /\ HeadReady /\ i = InsAt(rob_head)
      /\ ArchPc = eff[rob_head].pc /\ ArchRegs = regfile /\ Ooo!instr = i
      /\ Ooo!s1 = regfile[i.rs1]
  BY <1>1, CommitStarts
<1>3. PICK a \in Word, b \in Word, c \in Word : HeadHolds(a, b, c)
  BY <1>2, HeadOutcome
<1>4. eff[rob_head].vl = arch.vl /\ eff[rob_head].vtype = arch.vtype
  BY <1>1, <1>2, HeadOutcome
<1>5. eff[rob_head].vregs = IF i.op = "vle32" THEN VectorLoaded(i, arch.vregs, dmem, regfile[i.rs1], arch.vl)
                            ELSE vec_arith_compute(i, arch.vregs, arch.vl)
  <2>1. CASE i.op = "vle32"
    <3>1. i.op \in (NeedUnit \cup VSetOps) \ (VArithOps \cup {"csrrwi", "vsetivli"})
      BY <2>1 DEF NeedUnit, VMemOps, VArithOps
    <3> QED BY <1>2, <1>3, <1>4, <2>1, <3>1 DEF HeadHolds, LoadOutcome
  <2>2. CASE i.op \in VArithOps
    <3>1. i.op # "vle32"
      BY <2>2 DEF VArithOps
    <3> QED BY <1>2, <2>2, <3>1, HeadOutcome
  <2> QED BY <2>1, <2>2 DEF VecWrites
<1>6. ArchRegs' = ArchRegs
  <2>1. DestOf(i) = X0
    BY DEF DestOf, VecWrites, VMemOps
  <2> QED BY <1>2, <2>1, CommitFacts
<1>7. /\ UNCHANGED <<csr, dmem>> /\ (ecall_halt \/ halted)' = (ecall_halt \/ halted)
      /\ ArchPc' = NextPc(ArchPc) /\ arch'.vregs = eff[rob_head].vregs
      /\ arch'.vl = arch.vl /\ arch'.vtype = arch.vtype
  BY <1>1, <1>2, <1>4, CommitFacts DEF HeadGoesOn
<1>8. i.op \in VArithOps \cup {"vle32"}
  BY DEF VecWrites
<1> QED BY <1>2, <1>5, <1>6, <1>7, <1>8, SameOps, SameResults, SameVectors DEF Ooo!VCompute, Ooo!GoOn

LEMMA SilentSeen ==
  ASSUME OrderCore, OrderCore', ~halted, Commit, HeadIns.op \in HaltOps \cup NoOps
  PROVE  Ooo!Stop \/ Ooo!Skip
<1> DEFINE i == HeadIns
<1>1. /\ i.op \notin Effects \cup JumpOps \cup StoreOps \cup VSetOps \cup VecWrites \cup {"jal", "end"}
      /\ i.op \in HaltOps <=> i.op \notin NoOps
  BY DEF BranchOps, JumpOps, Effects, CsrOps, StoreOps, VSetOps, VecWrites, HaltOps, VArithOps, NoOps
<1>2. /\ HeadReady /\ ArchPc = eff[rob_head].pc /\ ArchRegs = regfile /\ Ooo!instr = i
  BY <1>1, CommitStarts
<1>3. ArchRegs' = ArchRegs
  <2>1. DestOf(i) = X0
    BY DEF DestOf
  <2> QED BY <1>2, <2>1, CommitFacts
<1>4. /\ UNCHANGED <<csr, dmem>> /\ ArchPc' = NextPc(ArchPc)
      /\ arch'.vregs = arch.vregs /\ arch'.vl = arch.vl /\ arch'.vtype = arch.vtype
  BY <1>1, <1>2, CommitFacts, HeadOutcome DEF HeadGoesOn
<1>5. CASE i.op \in HaltOps
  <2>1. (ecall_halt \/ halted)' = TRUE
    BY <1>5, CommitFacts
  <2> QED BY <1>1, <1>2, <1>3, <1>4, <1>5, <2>1, SameOps, SameResults DEF Ooo!Stop, Ooo!vector
<1>6. CASE i.op \in NoOps
  <2>1. (ecall_halt \/ halted)' = (ecall_halt \/ halted)
    BY <1>1, <1>6, CommitFacts
  <2> QED BY <1>2, <1>3, <1>4, <1>6, <2>1, SameOps, SameResults DEF Ooo!Skip, Ooo!GoOn, Ooo!vector
<1> QED BY <1>5, <1>6

\* A step the machine does not see.
LEMMA Unseen ==
  ASSUME ArchPc' = ArchPc, ArchRegs' = ArchRegs, UNCHANGED <<prog, dmem, csr, arch>>,
         (ecall_halt \/ halted)' = (ecall_halt \/ halted)
  PROVE  UNCHANGED Ooo!isaVars
  BY DEF Ooo!isaVars

LEMMA CommitSeen ==
  ASSUME OrderCore, OrderCore', ~halted, Commit PROVE Ooo!Next \/ UNCHANGED Ooo!isaVars
<1>1. /\ HeadIns.op \in PlainOps \cup NeedUnit \cup VSetOps /\ prog' = prog /\ ~(ecall_halt \/ halted)
      /\ HeadReady /\ HeadEntry = rob[rob_head]
  BY CommitFacts
<1>2. CASE HeadIns.op \notin Effects
  <2>1. CASE HeadIns.op \in AluOps \cup MdOps \cup FpuOps \cup LoadOps \cup {"lui"}
    BY <1>1, <2>1, ComputeSeen DEF Ooo!Next
  <2>2. CASE HeadIns.op \in {"jal", "jalr"} \cup BranchOps
    BY <1>1, <2>2, JumpSeen DEF Ooo!Next
  <2>3. CASE HeadIns.op \in StoreOps
    BY <1>1, <2>3, StoreSeen DEF Ooo!Next
  <2>4. CASE HeadIns.op \in VSetOps
    BY <1>1, <2>4, VSetSeen DEF Ooo!Next
  <2>5. CASE HeadIns.op \in VecWrites
    BY <1>1, <2>5, VComputeSeen DEF Ooo!Next
  <2>6. CASE HeadIns.op \in HaltOps \cup NoOps
    BY <1>1, <2>6, SilentSeen DEF Ooo!Next
  <2> QED BY <1>1, <1>2, <2>1, <2>2, <2>3, <2>4, <2>5, <2>6, OpClasses DEF VecWrites
<1>3. CASE HeadIns.op \in Effects
  <2>1. /\ HeadIns.op \notin StoreOps \cup VSetOps \cup VecWrites \cup HaltOps
    BY <1>3 DEF Effects, CsrOps, StoreOps, VSetOps, VecWrites, HaltOps, VArithOps
  <2>2. HeadDone /\ HeadEntry.dest = DestOf(HeadIns)
    <3>1. EntryDecoded(rob_head) /\ HeadIns = InsAt(rob_head)
      BY HeadIs, <1>1 DEF HeadFacts, HeadReady
    <3> QED BY <1>1, <1>3, <3>1 DEF HeadDone, Effects, EntryDecoded
  <2>3. ArchPc' = ArchPc /\ ArchRegs' = ArchRegs
    BY <1>1, <2>2, CommitFacts, ArchIs DEF ArchFacts
  <2>4. /\ UNCHANGED <<csr, dmem>> /\ (ecall_halt \/ halted)' = (ecall_halt \/ halted)
        /\ arch'.vregs = arch.vregs /\ arch'.vl = arch.vl /\ arch'.vtype = arch.vtype
    BY <1>1, <2>1, CommitFacts, HeadOutcome
  <2> QED BY <1>1, <2>3, <2>4 DEF Ooo!isaVars
<1> QED BY <1>2, <1>3

-----------------------------------------------------------------------------
(* The units work unseen, but for what takes effect at the head.           *)

LEMMA ExecuteSeen == ASSUME OrderCore, OrderCore', Execute PROVE UNCHANGED Ooo!isaVars
<1>0. /\ HeadFacts /\ WellTyped /\ PathRight /\ "br" \in Units
      /\ UNCHANGED <<prog, rob_head, rob_count, regfile, eff, dmem, csr, arch, ecall_halt, halted>>
  BY FactsHold DEF OrderCore, OrderInv, PipeCore, Units, Timed, Execute
<1>1. ASSUME rob_count > 0
      PROVE  /\ rob_head \in Tags
             /\ rob'[rob_head].ready => rob[rob_head].ready \/ HeadIns.op \notin Effects
             /\ rob[rob_head].ready => rob'[rob_head] = rob[rob_head]
  <2>1. rob_head \in Tags /\ HeadIns = InsAt(rob_head)
    BY <1>0, <1>1 DEF HeadFacts
  <2>2. CASE rob_head \notin DOMAIN Results
    BY <2>1, <2>2 DEF Execute
  <2>3. CASE rob_head \in DOMAIN Results
    <3>1. PICK u \in Done : rs[u].rob_tag = rob_head
      BY <2>3 DEF Results
    <3>2. u \in Timed /\ ~rob[rob_head].ready /\ HeadIns.op \in UnitOps(u)
      BY <2>1, <3>1, DoneUnit
    <3>3. HeadIns.op \notin HeadOps
      BY <3>2, TimedOps
    <3> QED BY <2>1, <3>2, <3>3 DEF Effects, HeadOps, VMemOps
  <2> QED BY <2>1, <2>2, <2>3
<1>2. fetch_pc' = fetch_pc \/ rob_count > 1 \/ (rob_count > 0 /\ ~rob[rob_head].ready)
  <2>1. CASE "br" \notin Done
    BY <2>1 DEF Execute, ResumeFetch
  <2>2. CASE "br" \in Done
    <3>1. PICK t \in Tags : t = rs["br"].rob_tag /\ InFlight(t) /\ ~rob[t].ready /\ rs["br"].busy
      BY <2>2, DoneUnit
    <3>2. Age(t) = rob_count - 1 /\ Age(t) < rob_count
      BY <1>0, <3>1 DEF PathRight, InFlight
    <3>3. Age(t) \in Nat /\ rob_count \in Nat /\ (Age(t) = 0 => t = rob_head) /\ rob_head \in Tags
      BY <1>0, Ages, Counters
    <3>4. CASE Age(t) = 0
      BY <3>1, <3>2, <3>3, <3>4
    <3>5. CASE Age(t) # 0
      BY <3>2, <3>3, <3>5
    <3> QED BY <3>4, <3>5
  <2> QED BY <2>1, <2>2
<1>3. ArchPc' = ArchPc /\ ArchRegs' = ArchRegs
  BY <1>0, <1>1, <1>2, WorkSeen
<1> QED BY <1>0, <1>3, Unseen

LEMMA LsuSeen ==
  ASSUME OrderCore, OrderCore', LsuStore \/ LsuLoad \/ LsuIdle PROVE UNCHANGED Ooo!isaVars
<1>0. /\ WellTyped /\ Decoded /\ "lsu" \in Units
      /\ UNCHANGED <<prog, fetch_pc, rob_head, rob_count, regfile, eff, dmem, csr, arch, ecall_halt, halted>>
  BY DEF OrderCore, OrderInv, PipeCore, Units, LsuStore, LsuLoad, LsuIdle, LsuRest, front
<1>1. ArchPc' = ArchPc /\ ArchRegs' = ArchRegs
  <2>1. CASE LsuIdle
    BY <1>0, <2>1, QuietSeen DEF LsuIdle
  <2>2. CASE LsuStore \/ LsuLoad
    <3>1. rs["lsu"].busy
      BY <2>2 DEF LsuStore, LsuLoad, LoadMayExecute, LsuReady
    <3>2. InsOf("lsu").op \notin Effects
      <4>1. InsOf("lsu").op \in UnitOps("lsu")
        BY <1>0, <3>1 DEF Decoded, StationDecoded
      <4> QED BY <4>1 DEF UnitOps, AluUnits, LoadOps, StoreOps, Effects, CsrOps
    <3>3. \A t \in Tags : t # rs["lsu"].rob_tag => rob'[t] = rob[t]
      BY <1>0, <2>2 DEF LsuStore, LsuLoad, Answer, WellTyped, OooTypeOK
    <3> QED BY <1>0, <3>1, <3>2, <3>3, UnitSeen
  <2> QED BY <2>1, <2>2
<1> QED BY <1>0, <1>1, Unseen

LEMMA VecSeen ==
  ASSUME OrderCore, OrderCore', VecCount \/ VecComplete \/ VecLoad \/ VecIdle
  PROVE  UNCHANGED Ooo!isaVars
<1>0. /\ WellTyped /\ "vec" \in Units
      /\ UNCHANGED <<prog, fetch_pc, rob_head, rob_count, regfile, dmem, csr, arch, ecall_halt, halted>>
  BY DEF OrderCore, PipeCore, Units, VecCount, VecComplete, VecLoad, VecIdle, VecRest, front
<1>1. ArchPc' = ArchPc /\ ArchRegs' = ArchRegs
  <2>1. CASE VecIdle \/ VecCount
    BY <1>0, <2>1, QuietSeen DEF VecIdle, VecCount
  <2>2. CASE VecComplete \/ VecLoad
    <3>1. rs["vec"].busy /\ InsOf("vec").op \notin Effects /\ Complete("vec")
          /\ eff' = [eff EXCEPT ![rs["vec"].rob_tag].vregs = vregs']
      BY <2>2 DEF VecComplete, VecLoad, ArithRuns, MemMayMove, VecIns, VArithOps, Effects, CsrOps
    <3>2. \A t \in Tags : t # rs["vec"].rob_tag => rob'[t] = rob[t]
      BY <1>0, <3>1 DEF Complete, WellTyped, OooTypeOK
    <3>3. \A t \in Tags : eff'[t].pc = eff[t].pc
      <4> TAKE t \in Tags
      <4>1. eff[t] \in [pc : Word, vregs : VecFile, vl : 0 .. VLMAX, vtype : Word]
        BY <1>0, EffTyped
      <4>2. eff'[t] = IF t = rs["vec"].rob_tag THEN [eff[t] EXCEPT !.vregs = vregs'] ELSE eff[t]
        BY <1>0, <3>1 DEF WellTyped, OooTypeOK
      <4> QED BY <4>1, <4>2
    <3> QED BY <1>0, <3>1, <3>2, <3>3, UnitSeen
  <2> QED BY <2>1, <2>2
<1> QED BY <1>0, <1>1, Unseen

\* The head takes effect: the machine is now behind it.
LEMMA EffectSeen ==
  ASSUME OrderCore, OrderCore', rob_count > 0, ~rob[rob_head].ready,
         UNCHANGED <<prog, fetch_pc, rob_head, rob_count, regfile, eff>>,
         rob'[rob_head].ready, rob'[rob_head].dest = rob[rob_head].dest, HeadIns.op \in Effects
  PROVE  /\ ArchPc = eff[rob_head].pc /\ ArchRegs = regfile /\ Ooo!instr = HeadIns
         /\ Ooo!s1 = regfile[HeadIns.rs1]
         /\ ArchPc' = NextPc(ArchPc)
         /\ ArchRegs' = IF DestOf(HeadIns) = X0 THEN regfile
                        ELSE [regfile EXCEPT ![DestOf(HeadIns)] = rob'[rob_head].value]
<1>0. HeadFacts /\ ArchFacts /\ HeadFacts' /\ ArchFacts'
  BY FactsHold
<1>1. PICK h \in Tags : h = rob_head /\ h = rob_head'
  BY <1>0 DEF HeadFacts
<1>2. /\ InFlight(h) /\ HeadIns = InsAt(h) /\ HeadIns' = HeadIns /\ HeadEntry' = rob'[h] /\ HeadReady' /\ ~HeadReady
      /\ rob[h].dest = DestOf(HeadIns)
  <2>1. InFlight(h) /\ HeadIns = InsAt(h) /\ ~HeadReady /\ EntryDecoded(h)
    BY <1>0, <1>1 DEF HeadFacts
  <2>2. HeadIns' = InsAt(h)' /\ HeadEntry' = rob'[h] /\ HeadReady'
    BY <1>0, <1>1 DEF HeadFacts, InsAt
  <2>3. InsAt(h)' = InsAt(h)
    BY DEF InsAt
  <2> QED BY <2>1, <2>2, <2>3 DEF EntryDecoded
<1>3. ~HeadDone /\ HeadDone'
  BY <1>2 DEF HeadDone, Effects
<1>4. /\ ArchPc = eff[rob_head].pc /\ ArchRegs = regfile /\ Ooo!instr = HeadIns
      /\ Ooo!s1 = regfile[HeadIns.rs1]
  BY <1>3, HeadIsNext
<1>5. ArchRegs' = IF DestOf(HeadIns) = X0 THEN regfile
                  ELSE [regfile EXCEPT ![DestOf(HeadIns)] = rob'[rob_head].value]
  BY <1>0, <1>1, <1>2, <1>3 DEF ArchFacts
<1>6. ArchPc' = NextPc(eff[h].pc)
  <2>1. ArchPc' = Follower(h)'
    BY <1>0, <1>1, <1>3 DEF ArchFacts
  <2>2. Follower(h)' = Follower(h)
    BY DEF Follower, Age, Inc
  <2>3. HeadIns.op \notin JumpOps \cup {"jal"}
    BY DEF Effects, CsrOps, JumpOps, BranchOps
  <2> QED BY <1>2, <2>1, <2>2, <2>3 DEF OrderCore, OrderInv, PathRight
<1> QED BY <1>1, <1>4, <1>5, <1>6

LEMMA CsrSeen ==
  ASSUME OrderCore, OrderCore', ~halted, SysExecute, ~Departs PROVE Ooo!Next
<1>0. /\ PipeCore /\ WellTyped /\ Decoded /\ HeadFacts /\ "sys" \in Units
      /\ rob \in [Tags -> RobEntry] /\ ecall_halt = FALSE /\ halted = FALSE
  BY HeadIs DEF OrderCore, OrderInv, PipeCore, Units, WellTyped, OooTypeOK, Departs
<1>1. /\ UNCHANGED <<prog, fetch_pc, rob_head, rob_count, regfile, eff, dmem, arch, ecall_halt, halted>>
  BY DEF SysExecute, front
<1>2. /\ rs["sys"].busy /\ rs["sys"].src[1].ready /\ Listens("sys") /\ AtHead("sys")
  BY DEF SysExecute, SysMayExecute, Listens
<1>3. /\ rs["sys"].rob_tag = rob_head /\ rob_head \in Tags /\ InFlight(rob_head) /\ ~rob[rob_head].ready
      /\ rob_count > 0 /\ InsOf("sys") = HeadIns /\ HeadIns.op \in CsrOps
  <2>1. /\ rs["sys"].rob_tag = rob_head /\ rob_head \in Tags /\ InFlight(rob_head) /\ ~rob[rob_head].ready
        /\ InsOf("sys") = InsAt(rob_head)
    BY <1>0, <1>2, StationIns DEF AtHead
  <2>2. rob_count > 0
    BY <1>0, <2>1, Ages, Counters DEF InFlight
  <2>3. InsOf("sys").op \in CsrOps
    <3>1. InsOf("sys").op \in UnitOps("sys")
      BY <1>0, <1>2 DEF Decoded, StationDecoded
    <3> QED BY <3>1 DEF UnitOps, AluUnits
  <2> QED BY <1>0, <2>1, <2>2, <2>3 DEF HeadFacts
<1>4. PICK old : old = ReadCsr(csr, csr_vl, csr_vtype, HeadIns.csr)
  OBVIOUS
<1>5. /\ csr' = WriteCsr(csr, HeadIns.csr, CsrNewValue(HeadIns, old, Val("sys", 1)))
      /\ rob' = [rob EXCEPT ![rob_head].value = old, ![rob_head].ready = TRUE]
  BY <1>3, <1>4 DEF SysExecute, Answer
<1>6. rob'[rob_head].ready /\ rob'[rob_head].dest = rob[rob_head].dest /\ rob'[rob_head].value = old
  <2>1. rob[rob_head] \in RobEntry
    BY <1>0, <1>3
  <2> QED BY <1>0, <1>3, <1>5, <2>1 DEF RobEntry
<1>7. /\ ArchPc = eff[rob_head].pc /\ ArchRegs = regfile /\ Ooo!instr = HeadIns
      /\ Ooo!s1 = regfile[HeadIns.rs1]
      /\ ArchPc' = NextPc(ArchPc)
      /\ ArchRegs' = IF DestOf(HeadIns) = X0 THEN regfile
                     ELSE [regfile EXCEPT ![DestOf(HeadIns)] = old]
  <2>1. HeadIns.op \in Effects
    BY <1>3 DEF Effects
  <2> QED BY <1>1, <1>3, <1>6, <2>1, EffectSeen
<1>8. Ooo!Write(HeadIns.rd, old)
  <2>1. DestOf(HeadIns) = HeadIns.rd
    BY <1>3 DEF DestOf, CsrOps, StoreOps, BranchOps, VArithOps, VMemOps, NoOps, HaltOps
  <2> QED BY <1>7, <2>1 DEF Ooo!Write
<1>9. Val("sys", 1) = IF HeadIns.op = "csrrwi" THEN HeadIns.imm ELSE regfile[HeadIns.rs1]
  <2>1. PICK v : v = Val("sys", 1)
    OBVIOUS
  <2>2. Reads(HeadIns, 1, rob_head, v)
    <3>1. Reads(InsAt(rs["sys"].rob_tag), 1, rs["sys"].rob_tag, Val("sys", 1))
      <4>1. 1 \in 1 .. 3
        OBVIOUS
      <4> QED BY <1>0, <1>2, <4>1, StationReads
    <3> QED BY <1>0, <1>3, <2>1, <3>1 DEF HeadFacts
  <2>3. v = IF ReadsReg(HeadIns, 1) THEN regfile[SrcReg(HeadIns, 1)] ELSE SrcImm(HeadIns, 1)
    <3>1. 1 \in 1 .. 3
      OBVIOUS
    <3> QED BY <1>3, <2>2, <3>1, HeadReads
  <2>4. HeadIns.op # "csrrwi" => ReadsReg(HeadIns, 1)
    <3>1. HeadIns.op # "csrrwi" => HeadIns.op \in (NeedUnit \cup VSetOps) \ (VArithOps \cup {"csrrwi", "vsetivli"})
      BY <1>3 DEF NeedUnit, CsrOps, VArithOps
    <3> QED BY <3>1, WhatIsRead
  <2> QED BY <2>1, <2>3, <2>4, WhatIsRead
<1>10. old = ReadCsr(csr, arch.vl, arch.vtype, HeadIns.csr)
  <2>1. /\ HeadIns.csr = "vl" => csr_vl = arch.vl
        /\ HeadIns.csr = "vtype" => csr_vtype = arch.vtype
    BY <1>3 DEF Departs
  <2> QED BY <1>4, <2>1 DEF ReadCsr
<1>11. Ooo!CsrAccess
  <2>1. (ecall_halt \/ halted)' = (ecall_halt \/ halted)
    BY <1>1
  <2>2. csr' = Ooo!WriteCsr(csr, HeadIns.csr,
                            Ooo!CsrNewValue(HeadIns, old, IF HeadIns.op = "csrrwi" THEN HeadIns.imm ELSE Ooo!s1))
    BY <1>5, <1>7, <1>9, SameCsrs
  <2>3. old = Ooo!ReadCsr(csr, arch.vl, arch.vtype, Ooo!instr.csr)
    BY <1>7, <1>10, SameCsrs
  <2> QED BY <1>1, <1>3, <1>7, <1>8, <2>1, <2>2, <2>3, SameOps, SameResults DEF Ooo!CsrAccess, Ooo!GoOn, Ooo!vector
<1> QED BY <1>0, <1>1, <1>11 DEF Ooo!Next

LEMMA VStoreSeen ==
  ASSUME OrderCore, OrderCore', ~halted, VecStore, ~Departs PROVE Ooo!Next
<1>0. /\ PipeCore /\ WellTyped /\ HeadFacts /\ "vec" \in Units
      /\ rob \in [Tags -> RobEntry] /\ ecall_halt = FALSE /\ halted = FALSE
  BY HeadIs DEF OrderCore, OrderInv, PipeCore, Units, WellTyped, OooTypeOK, Departs
<1>1. /\ UNCHANGED <<prog, fetch_pc, rob_head, rob_count, regfile, eff, csr, arch, ecall_halt, halted>>
  BY DEF VecStore, VecRest, front
<1>2. rs["vec"].busy /\ rs["vec"].src[1].ready /\ Listens("vec") /\ AtHead("vec") /\ VecIns.op = "vse32"
  BY DEF VecStore, MemMayMove, Listens
<1>3. /\ rs["vec"].rob_tag = rob_head /\ rob_head \in Tags /\ InFlight(rob_head) /\ ~rob[rob_head].ready
      /\ rob_count > 0 /\ VecIns = HeadIns /\ Age(rob_head) = 0
  <2>1. /\ rs["vec"].rob_tag = rob_head /\ rob_head \in Tags /\ InFlight(rob_head) /\ ~rob[rob_head].ready
        /\ VecIns = InsAt(rob_head)
    BY <1>0, <1>2, StationIns DEF AtHead, VecIns
  <2>2. rob_count > 0
    BY <1>0, <2>1, Ages, Counters DEF InFlight
  <2> QED BY <1>0, <2>1, <2>2 DEF HeadFacts
<1>4. rob'[rob_head].ready /\ rob'[rob_head].dest = rob[rob_head].dest
  <2>1. rob[rob_head] \in RobEntry
    BY <1>0, <1>3
  <2> QED BY <1>0, <1>3, <2>1 DEF VecStore, Complete, RobEntry
<1>5. /\ ArchRegs = regfile /\ Ooo!instr = HeadIns /\ Ooo!s1 = regfile[HeadIns.rs1]
      /\ ArchPc' = NextPc(ArchPc) /\ ArchRegs' = regfile
  <2>1. HeadIns.op \in Effects /\ DestOf(HeadIns) = X0
    BY <1>2, <1>3 DEF Effects, DestOf, VMemOps
  <2> QED BY <1>1, <1>3, <1>4, <2>1, EffectSeen
<1>6. Val("vec", 1) = regfile[HeadIns.rs1]
  <2>1. PICK v : v = Val("vec", 1)
    OBVIOUS
  <2>2. 1 \in 1 .. 3
    OBVIOUS
  <2>3. Reads(HeadIns, 1, rob_head, v)
    <3>1. Reads(InsAt(rs["vec"].rob_tag), 1, rs["vec"].rob_tag, Val("vec", 1))
      BY <1>0, <1>2, <2>2, StationReads
    <3> QED BY <1>0, <1>3, <2>1, <3>1 DEF HeadFacts
  <2>4. v = IF ReadsReg(HeadIns, 1) THEN regfile[SrcReg(HeadIns, 1)] ELSE SrcImm(HeadIns, 1)
    BY <1>3, <2>2, <2>3, HeadReads
  <2>5. HeadIns.op \in (NeedUnit \cup VSetOps) \ (VArithOps \cup {"csrrwi", "vsetivli"})
    BY <1>2, <1>3 DEF NeedUnit, VMemOps, VArithOps
  <2> QED BY <2>1, <2>4, <2>5, WhatIsRead
<1>7. vregs = arch.vregs
  <2>1. VSees(Age(rs["vec"].rob_tag), vregs)
    BY <1>2 DEF OrderCore, OrderInv, VectorRight
  <2>2. VSees(0, vregs)
    BY <1>3, <2>1
  <2> QED BY <1>0, <2>2, HeadVectors
<1>8. rs["vec"].vl = arch.vl
  <2>1. rs["vec"].vl = eff[rob_head].vl
    BY <1>2, <1>3 DEF OrderCore, OrderInv, ConfigRight
  <2>2. Leaves(rob_head) = Retires
    <3>1. InsAt(rob_head).op \notin VSetOps
      BY <1>0, <1>2, <1>3 DEF HeadFacts, VSetOps
    <3> QED BY <1>3, <3>1 DEF OrderCore, OrderInv, ConfigRight, ConfigAt
  <2> QED BY <2>1, <2>2 DEF Leaves, Retires
<1>9. dmem' = VectorStored(HeadIns, arch.vregs, dmem, regfile[HeadIns.rs1], arch.vl)
  BY <1>3, <1>6, <1>7, <1>8 DEF VecStore
<1>10. Ooo!VStore
  <2>1. (ecall_halt \/ halted)' = (ecall_halt \/ halted)
    BY <1>1
  <2> QED BY <1>1, <1>2, <1>3, <1>5, <1>9, <2>1, SameResults, SameVectors DEF Ooo!VStore, Ooo!GoOn, Ooo!vector
<1> QED BY <1>0, <1>1, <1>10 DEF Ooo!Next

-----------------------------------------------------------------------------
(* Fetch and dispatch are ahead of the machine: all it sees of them is the *)
(* end of the program.                                                     *)

LEMMA DispatchSeen ==
  ASSUME OrderCore, OrderCore', ~halted,
         DispatchQuick \/ DispatchToUnit \/ DispatchVset \/ DispatchStall \/ FetchEnd \/ FetchIdle
  PROVE  Ooo!Next \/ UNCHANGED Ooo!isaVars
<1>0. /\ WellTyped /\ RobWindow /\ PathRight /\ HeadFacts /\ ArchFacts
      /\ rob_count \in Nat /\ ecall_halt \in BOOLEAN /\ halted = FALSE
  <2>1. WellTyped /\ RobWindow /\ PathRight /\ HeadFacts /\ ArchFacts
    BY HeadIs, ArchIs DEF OrderCore, OrderInv, PipeCore, PipelineInv
  <2>2. ecall_halt \in BOOLEAN /\ halted = FALSE
    BY <2>1 DEF WellTyped, OooTypeOK
  <2> QED BY <2>1, <2>2, Counters
<1>1. EndOfTick
  BY DEF DispatchQuick, DispatchToUnit, DispatchVset, DispatchStall, FetchEnd, FetchIdle
<1>2. /\ UNCHANGED <<prog, regfile, dmem, csr, arch, ecall_halt>>
      /\ halted' = (ecall_halt \/ (fetch_done' /\ rob_count' = 0))
  BY <1>1 DEF EndOfTick
<1>3. ASSUME ArchPc' = ArchPc, ArchRegs' = ArchRegs, ~(fetch_done' /\ rob_count' = 0)
      PROVE  UNCHANGED Ooo!isaVars
  <2>1. (ecall_halt \/ halted)' = (ecall_halt \/ halted)
    BY <1>0, <1>2, <1>3
  <2> QED BY <1>2, <1>3, <2>1, Unseen
<1>4. CASE DispatchQuick \/ DispatchToUnit \/ DispatchVset
  <2>1. PICK complete, v :
          complete \in BOOLEAN /\ MayFetch /\ Enter(complete, v) /\ (complete => Fetched.op \notin Effects)
    <3>1. CASE DispatchQuick
      <4>1. Fetched.op \notin Effects
        BY <3>1 DEF DispatchQuick, Dispatch, Effects, CsrOps, HaltOps, NoOps
      <4> QED BY <3>1, <4>1 DEF DispatchQuick, Dispatch
    <3>2. CASE DispatchToUnit
      BY <3>2 DEF DispatchToUnit, Dispatch
    <3>3. CASE DispatchVset
      <4>1. Fetched.op \notin Effects
        BY <3>3 DEF DispatchVset, Dispatch, Effects, CsrOps, VSetOps
      <4> QED BY <3>3, <4>1 DEF DispatchVset, Dispatch
    <3> QED BY <1>4, <3>1, <3>2, <3>3
  <2>2. ArchPc' = ArchPc /\ ArchRegs' = ArchRegs
    BY <1>2, <2>1, EnterSeen
  <2>3. rob_count' # 0
    BY <1>0, <2>1 DEF Enter
  <2> QED BY <1>3, <2>2, <2>3
<1>5. CASE DispatchStall
  <2>1. /\ UNCHANGED <<fetch_pc, fetch_done, rob_head, rob_count, eff>>
        /\ ~fetch_done /\ rob_count < ROB_SZ
        /\ rob' = [rob EXCEPT ![rob_tail].is_ecall = FALSE]
    BY <1>5 DEF DispatchStall, Dispatch, MayFetch, front
  <2>2. rob_count > 0 => rob'[rob_head] = rob[rob_head]
    BY <1>0, <2>1, TailIsFree DEF HeadFacts, WellTyped, OooTypeOK
  <2>3. ArchPc' = ArchPc /\ ArchRegs' = ArchRegs
    BY <1>2, <2>1, <2>2, WorkSeen
  <2> QED BY <1>3, <2>1, <2>3
<1>6. CASE FetchEnd \/ FetchIdle
  <2>1. UNCHANGED <<fetch_pc, rob, rob_head, rob_count, eff>>
    BY <1>6 DEF FetchEnd, FetchIdle, front, robs
  <2>2. ArchPc' = ArchPc /\ ArchRegs' = ArchRegs
    BY <1>2, <2>1, QuietSeen
  <2>3. CASE ~(fetch_done' /\ rob_count' = 0)
    BY <1>3, <2>2, <2>3
  <2>4. CASE fetch_done' /\ rob_count' = 0 /\ ecall_halt
    <3>1. (ecall_halt \/ halted)' = (ecall_halt \/ halted)
      BY <1>0, <1>2, <2>4
    <3> QED BY <1>2, <2>2, <3>1, Unseen
  <2>5. CASE fetch_done' /\ rob_count' = 0 /\ ~ecall_halt
    <3>1. Fetched.op = "end"
      <4>1. CASE FetchEnd
        BY <4>1 DEF FetchEnd, Dispatch
      <4>2. CASE FetchIdle
        BY <1>0, <2>5, <4>2 DEF FetchIdle, front, PathRight
      <4> QED BY <1>6, <4>1, <4>2
    <3>2. ArchPc = fetch_pc
      BY <1>0, <2>1, <2>5 DEF ArchFacts
    <3>3. (ecall_halt \/ halted)' = TRUE /\ ~(ecall_halt \/ halted)
      BY <1>0, <1>2, <2>5
    <3>4. Ooo!Stop
      BY <1>2, <2>2, <3>1, <3>2, <3>3 DEF Ooo!Stop, Ooo!instr, Ooo!vector, Fetched
    <3> QED BY <1>2, <3>3, <3>4 DEF Ooo!Next
  <2> QED BY <2>3, <2>4, <2>5
<1> QED BY <1>4, <1>5, <1>6

-----------------------------------------------------------------------------
(* The refinement.                                                         *)

LEMMA InitSeen == Init => Ooo!Init
<1> SUFFICES ASSUME Init PROVE Ooo!Init
  OBVIOUS
<1>1. ArchPc = 0 /\ ArchRegs = regfile
  BY DEF Init, ArchPc, ArchRegs, HeadDone, HeadReady
<1>2. Ooo!Lanes = Lanes /\ Ooo!VILL = VILL /\ Ooo!MCsrs = MCsrs /\ Ooo!Regs = Regs
  BY DEF Ooo!Lanes, Lanes, Ooo!VILL, VILL, Ooo!MCsrs, MCsrs, Ooo!Regs, Regs
<1>3. (ecall_halt \/ halted) = FALSE /\ arch.vregs = NoVectors /\ arch.vl = 0 /\ arch.vtype = VILL
  BY DEF Init
<1> QED BY <1>1, <1>2, <1>3 DEF Init, Ooo!Init, NoVectors

LEMMA StepSeen ==
  ASSUME OrderCore, OrderCore', [Tick \/ Stopped]_vars PROVE Departs \/ [Ooo!Next]_(Ooo!isaVars)
<1>1. CASE UNCHANGED vars
  <2>1. /\ UNCHANGED <<prog, fetch_pc, rob, rob_head, rob_count, regfile, eff, dmem, csr, arch>>
        /\ (ecall_halt \/ halted)' = (ecall_halt \/ halted)
    BY <1>1 DEF vars, front, robs
  <2> QED BY <2>1, QuietSeen, Unseen
<1>2. CASE Tick
  <2>0. ~halted
    BY <1>2 DEF Tick
  <2>1. CASE Commit
    BY <2>0, <2>1, CommitSeen
  <2>2. CASE NoCommit \/ SysIdle \/ Issue
    <3>1. UNCHANGED <<prog, fetch_pc, rob, rob_head, rob_count, regfile, eff, dmem, csr, arch, ecall_halt, halted>>
      BY <2>2 DEF NoCommit, SysIdle, Issue, front, robs
    <3>2. (ecall_halt \/ halted)' = (ecall_halt \/ halted)
      BY <3>1
    <3> QED BY <3>1, <3>2, QuietSeen, Unseen
  <2>3. CASE Execute
    BY <2>3, ExecuteSeen
  <2>4. CASE LsuStore \/ LsuLoad \/ LsuIdle
    BY <2>4, LsuSeen
  <2>5. CASE VecCount \/ VecComplete \/ VecLoad \/ VecIdle
    BY <2>5, VecSeen
  <2>6. CASE VecStore
    BY <2>0, <2>6, VStoreSeen
  <2>7. CASE SysExecute
    BY <2>0, <2>7, CsrSeen
  <2>8. CASE DispatchQuick \/ DispatchToUnit \/ DispatchVset \/ DispatchStall \/ FetchEnd \/ FetchIdle
    BY <2>0, <2>8, DispatchSeen
  <2> QED BY <1>2, <2>1, <2>2, <2>3, <2>4, <2>5, <2>6, <2>7, <2>8 DEF Tick
<1> QED BY <1>1, <1>2 DEF Stopped

\* Every step of the earlier core is one instruction of the machine, or
\* changes nothing it can see, but for the two kinds that Departs names: a
\* CSR instruction that reads what a vset* behind it has configured, and what
\* the tick still does behind a retired environment call.
THEOREM DepartsOnlyThere == Spec => [][Departs \/ [Ooo!Next]_(Ooo!isaVars)]_vars
<1>1. OrderCore /\ OrderCore' /\ [Tick \/ Stopped]_vars => Departs \/ [Ooo!Next]_(Ooo!isaVars)
  BY StepSeen
<1> QED BY <1>1, OrderInvariant, PTL DEF Spec

\* Where neither happens the core implements the machine: renaming, vector
\* registers written out of order, a vector length captured at dispatch and
\* memory written at the head give the result of program order.
THEOREM ImplementsOooIsaCorrect == Spec /\ [][~Departs]_vars => ImplementsOooIsa
<1>1. OrderCore /\ OrderCore' /\ [Tick \/ Stopped]_vars /\ [~Departs]_vars => [Ooo!Next]_(Ooo!isaVars)
  <2> SUFFICES ASSUME OrderCore, OrderCore', [Tick \/ Stopped]_vars, [~Departs]_vars
               PROVE  [Ooo!Next]_(Ooo!isaVars)
    OBVIOUS
  <2>1. CASE UNCHANGED vars
    <3>1. /\ UNCHANGED <<prog, fetch_pc, rob, rob_head, rob_count, regfile, eff, dmem, csr, arch>>
          /\ (ecall_halt \/ halted)' = (ecall_halt \/ halted)
      BY <2>1 DEF vars, front, robs
    <3> QED BY <3>1, QuietSeen, Unseen
  <2>2. CASE ~Departs
    BY <2>2, StepSeen
  <2> QED BY <2>1, <2>2
<1> QED BY <1>1, InitSeen, OrderInvariant, PTL DEF Spec, ImplementsOooIsa, Ooo!Spec

-----------------------------------------------------------------------------
(* Programs that never depart: they do not read vl or vtype, and what      *)
(* follows an environment call in memory has no effect at the head.        *)

CalmPrograms ==
  \A p \in Programs : \A a \in Word :
    /\ p[a].op \in CsrOps => p[a].csr \notin {"vl", "vtype"}
    /\ p[a].op \in HaltOps => p[NextPc(a)].op \notin Effects

\* Behind a retired environment call nothing takes effect.
CalmHalt == ecall_halt /\ ~halted /\ rob_count > 0 => HeadIns.op \notin Effects

LEMMA CalmStep ==
  ASSUME CalmPrograms, OrderCore, OrderCore', CalmHalt, [Tick \/ Stopped]_vars PROVE CalmHalt'
<1> SUFFICES ASSUME ecall_halt', ~halted', rob_count' > 0 PROVE HeadIns'.op \notin Effects
  BY DEF CalmHalt
<1>0. WellTyped /\ RobWindow /\ rob_head \in Tags
  BY Counters DEF OrderCore, PipeCore, PipelineInv
<1>1. ASSUME UNCHANGED <<prog, rob_head, rob_count, ecall_halt, halted>>, \A t \in Tags : eff'[t].pc = eff[t].pc
      PROVE  HeadIns'.op \notin Effects
  <2>1. HeadIns' = HeadIns
    BY <1>0, <1>1 DEF HeadIns
  <2> QED BY <1>1, <2>1 DEF CalmHalt
<1>2. CASE UNCHANGED vars
  BY <1>1, <1>2 DEF vars, robs
<1>3. CASE Tick
  <2>0. ~halted
    BY <1>3 DEF Tick
  <2>1. CASE Commit
    <3>1. /\ HeadFacts /\ HeadIns.op \in HaltOps /\ Follower(rob_head) = HeadGoesOn
          /\ UNCHANGED <<prog, eff>> /\ rob_head' = Inc(rob_head) /\ rob_count' = rob_count - 1
      <4>1. HeadIns.op \in HaltOps
        BY <2>0, <2>1, CommitFacts
      <4>2. Follower(rob_head) = HeadGoesOn
        BY <2>0, <2>1, <4>1, CommitFacts DEF HaltOps, JumpOps, BranchOps
      <4> QED BY <2>1, <4>1, <4>2, HeadIs DEF Commit
    <3>2. rob_count \in Nat /\ rob_count > 1
      BY <1>0, <3>1, Counters
    <3>3. Age(rob_head) = 0 /\ HeadIns = InsAt(rob_head)
      BY <3>1, <3>2 DEF HeadFacts
    <3>4. Follower(rob_head) = eff[Inc(rob_head)].pc /\ HeadGoesOn = NextPc(eff[rob_head].pc)
      BY <3>1, <3>2, <3>3 DEF Follower, HeadGoesOn, HaltOps
    <3>5. HeadIns' = prog[NextPc(eff[rob_head].pc)]
      BY <3>1, <3>4 DEF HeadIns
    <3>6. eff[rob_head].pc \in Word /\ prog \in Programs
      BY <1>0, EffTyped DEF WellTyped
    <3>7. HeadIns = prog[eff[rob_head].pc]
      BY DEF HeadIns
    <3> QED BY <3>1, <3>5, <3>6, <3>7 DEF CalmPrograms
  <2>2. CASE NoCommit \/ SysIdle \/ Issue
    <3>1. UNCHANGED <<prog, rob_head, rob_count, ecall_halt, halted, eff>>
      BY <2>2 DEF NoCommit, SysIdle, Issue, robs
    <3> QED BY <1>1, <3>1
  <2>3. CASE Execute \/ LsuStore \/ LsuLoad \/ LsuIdle \/ SysExecute
    <3>1. UNCHANGED <<prog, rob_head, rob_count, ecall_halt, halted, eff>>
      BY <2>3 DEF Execute, LsuStore, LsuLoad, LsuIdle, LsuRest, SysExecute
    <3> QED BY <1>1, <3>1
  <2>4. CASE VecCount \/ VecStore \/ VecIdle
    <3>1. UNCHANGED <<prog, rob_head, rob_count, ecall_halt, halted, eff>>
      BY <2>4 DEF VecCount, VecStore, VecIdle, VecRest
    <3> QED BY <1>1, <3>1
  <2>5. CASE VecComplete \/ VecLoad
    <3>1. /\ UNCHANGED <<prog, rob_head, rob_count, ecall_halt, halted>>
          /\ eff' = [eff EXCEPT ![rs["vec"].rob_tag].vregs = vregs']
      BY <2>5 DEF VecComplete, VecLoad, VecRest
    <3>2. \A t \in Tags : eff'[t].pc = eff[t].pc
      <4> TAKE t \in Tags
      <4>1. eff[t] \in [pc : Word, vregs : VecFile, vl : 0 .. VLMAX, vtype : Word]
        BY <1>0, EffTyped
      <4>2. eff'[t] = IF t = rs["vec"].rob_tag THEN [eff[t] EXCEPT !.vregs = vregs'] ELSE eff[t]
        BY <1>0, <3>1 DEF WellTyped, OooTypeOK
      <4> QED BY <4>1, <4>2
    <3> QED BY <1>1, <3>1, <3>2
  <2>6. CASE DispatchQuick \/ DispatchToUnit \/ DispatchVset \/ DispatchStall \/ FetchEnd \/ FetchIdle
    <3>1. EndOfTick
      BY <2>6 DEF DispatchQuick, DispatchToUnit, DispatchVset, DispatchStall, FetchEnd, FetchIdle
    <3> QED BY <3>1 DEF EndOfTick
  <2> QED BY <1>3, <2>1, <2>2, <2>3, <2>4, <2>5, <2>6 DEF Tick
<1> QED BY <1>2, <1>3 DEF Stopped

LEMMA CalmStays ==
  ASSUME CalmPrograms, OrderCore, CalmHalt, [Tick \/ Stopped]_vars PROVE [~Departs]_vars
<1> SUFFICES ASSUME Departs, ~halted PROVE FALSE
  BY DEF Stopped, Tick
<1>0. /\ PipeCore /\ WellTyped /\ Decoded /\ "sys" \in Units /\ "vec" \in Units
  BY DEF OrderCore, OrderInv, PipeCore, Units
<1>1. ASSUME NEW u \in Units, rs[u].busy, AtHead(u) PROVE rob_count > 0 /\ InsOf(u) = HeadIns
  <2>1. InFlight(rob_head) /\ InsOf(u) = InsAt(rob_head) /\ rob_head \in Tags
    BY <1>0, <1>1, StationIns DEF AtHead
  <2>2. rob_count > 0
    BY <1>0, <2>1, Ages, Counters DEF InFlight
  <2> QED BY <2>1, <2>2, HeadIs DEF HeadFacts
<1>2. CASE SysExecute
  <2>1. rs["sys"].busy /\ AtHead("sys")
    BY <1>2 DEF SysExecute, SysMayExecute
  <2>2. InsOf("sys").op \in CsrOps
    <3>1. InsOf("sys").op \in UnitOps("sys")
      BY <1>0, <2>1 DEF Decoded, StationDecoded
    <3> QED BY <3>1 DEF UnitOps, AluUnits
  <2>3. rob_count > 0 /\ InsOf("sys") = HeadIns
    BY <1>0, <1>1, <2>1
  <2>4. ~ecall_halt
    BY <2>2, <2>3 DEF CalmHalt, Effects
  <2>5. InsOf("sys").csr \notin {"vl", "vtype"}
    <3>1. rs["sys"].pc \in Word /\ prog \in Programs
      BY <1>0, StationTyped DEF WellTyped
    <3> QED BY <2>2, <3>1 DEF CalmPrograms, InsOf
  <2> QED BY <2>4, <2>5 DEF Departs
<1>3. CASE VecStore
  <2>1. rs["vec"].busy /\ AtHead("vec") /\ InsOf("vec").op = "vse32" /\ ~SysExecute
    BY <1>3 DEF VecStore, MemMayMove, VecIns, SysExecute
  <2>2. rob_count > 0 /\ InsOf("vec") = HeadIns
    BY <1>0, <1>1, <2>1
  <2> QED BY <2>1, <2>2 DEF CalmHalt, Effects, Departs
<1> QED BY <1>2, <1>3 DEF Departs

\* For programs that do not read vl or vtype and in which no CSR instruction
\* or vector store follows an environment call, the core implements the
\* machine without a further hypothesis.
THEOREM CalmProgramsImplement == CalmPrograms /\ Spec => ImplementsOooIsa
<1>1. Init => CalmHalt
  BY DEF Init, CalmHalt
<1>2. CalmPrograms /\ OrderCore /\ OrderCore' /\ CalmHalt /\ [Tick \/ Stopped]_vars => CalmHalt'
  BY CalmStep
<1>3. CalmPrograms /\ OrderCore /\ CalmHalt /\ [Tick \/ Stopped]_vars => [~Departs]_vars
  BY CalmStays
<1>4. SUFFICES ASSUME CalmPrograms PROVE Spec => ImplementsOooIsa
  OBVIOUS
<1>5. Spec => [][~Departs]_vars
  <2>1. OrderCore /\ OrderCore' /\ CalmHalt /\ [Tick \/ Stopped]_vars => CalmHalt'
    BY <1>2, <1>4
  <2>2. OrderCore /\ CalmHalt /\ [Tick \/ Stopped]_vars => [~Departs]_vars
    BY <1>3, <1>4
  <2> QED BY <1>1, <2>1, <2>2, OrderInvariant, PTL DEF Spec
<1> QED BY <1>5, ImplementsOooIsaCorrect, PTL
=============================================================================
