--------------------------- MODULE OooCoreProofs ---------------------------
(***************************************************************************)
(* Machine-checked theorems about the earlier out-of-order core, for every *)
(* word size, register set, memory, vector length, ROB size, latency and   *)
(* program.                                                                *)
(***************************************************************************)
EXTENDS OooCore, TLAPS, WellFoundedInduction, NaturalsInduction

USE DEF Word

\* The state is well formed, and the program is one of those given.
WellTyped == OooTypeOK /\ prog \in Programs

-----------------------------------------------------------------------------
(* Words, and what the units compute.                                      *)

LEMMA ModIsWord == ASSUME NEW x \in Int PROVE x % WORD \in Word
  BY WordAssumption

LEMMA SmallWords == 0 \in Word /\ 1 \in Word /\ WORD - 1 \in Word /\ VILL \in Word
  BY WordAssumption DEF VILL

LEMMA PlusIsWord == ASSUME NEW a \in Word, NEW b \in Word PROVE Plus(a, b) \in Word
  BY ModIsWord, WordAssumption DEF Plus

LEMMA NextPcIsWord == ASSUME NEW p \in Word PROVE NextPc(p) \in Word
  BY PlusIsWord, SmallWords DEF NextPc

\* A quotient never exceeds the dividend.
LEMMA QuotientIsWord ==
  ASSUME NEW a \in Word, NEW b \in Word, b # 0 PROVE a \div b \in Word
<1>1. a \in Nat /\ b \in Nat /\ b >= 1 /\ a < WORD
  BY WordAssumption
<1>2. a \div b \in Nat /\ a = b * (a \div b) + (a % b) /\ a % b \in Nat
  BY <1>1
<1>3. a \div b <= b * (a \div b)
  <2> DEFINE q == a \div b
  <2>1. q \in Nat  BY <1>2
  <2> HIDE DEF q
  <2>2. q <= b * q  BY <1>1, <2>1
  <2> QED BY <2>2 DEF q
<1> DEFINE q == a \div b
           p == b * q
<1>4. q \in Nat /\ p \in Int /\ q <= p /\ p <= a
  BY <1>1, <1>2, <1>3
<1> HIDE DEF q, p
<1>5. q \in 0 .. WORD - 1
  BY <1>1, <1>4, WordAssumption
<1> QED BY <1>5 DEF q

\* The scalar units return words, whatever the instruction.
LEMMA ScalarUnitsGiveWords ==
  ASSUME NEW i, NEW a \in Word, NEW b \in Word, NEW c \in Word
  PROVE  /\ alu_compute(i, a, b) \in Word
         /\ md_compute(i, a, b) \in Word
         /\ fpu_compute(i, a, b, c) \in Word
<1>1. (a - b) % WORD \in Word
  BY ModIsWord, WordAssumption
<1>2. a * b \in Int /\ a * b + c \in Int
  BY WordAssumption
<1>3. (a * b) % WORD \in Word /\ (a * b + c) % WORD \in Word
  BY <1>2, ModIsWord
<1>4. b # 0 => a \div b \in Word
  BY QuotientIsWord
<1>5. alu_compute(i, a, b) \in Word
  BY <1>1, PlusIsWord DEF alu_compute
<1>6. md_compute(i, a, b) \in Word
  BY <1>3, <1>4, SmallWords DEF md_compute
<1>7. fpu_compute(i, a, b, c) \in Word
  BY <1>3, <1>4, SmallWords, PlusIsWord DEF fpu_compute
<1> QED BY <1>5, <1>6, <1>7

\* The CSRs: a read gives a word, and a write stores one.
LEMMA CsrWords ==
  ASSUME NEW i, NEW c \in [MCsrs -> Word], NEW vl \in 0 .. VLMAX, NEW vt \in Word, NEW name,
         NEW src \in Word
  PROVE  /\ ReadCsr(c, vl, vt, name) \in Word
         /\ WriteCsr(c, name, src) \in [MCsrs -> Word]
         /\ CsrNewValue(i, ReadCsr(c, vl, vt, name), src) \in Word
<1>1. vl \in Word
  BY LanesAssumption, WordAssumption DEF VLMAX
<1>2. ReadCsr(c, vl, vt, name) \in Word
  <2>1. MISA % WORD \in Word
    BY ModIsWord DEF MISA
  <2>2. (4 * LANES) % WORD \in Word
    BY LanesAssumption, ModIsWord
  <2> QED BY <1>1, <2>1, <2>2, SmallWords DEF ReadCsr
<1>3. WriteCsr(c, name, src) \in [MCsrs -> Word]
  BY DEF WriteCsr
<1> DEFINE old == ReadCsr(c, vl, vt, name)
<1> HIDE DEF old
<1>4. CsrNewValue(i, old, src) \in Word
  BY <1>2, BitsAssumption DEF CsrNewValue, old
<1> QED BY <1>2, <1>3, <1>4 DEF old

\* What a vset* grants is a configuration.
LEMMA VsetTyped ==
  ASSUME NEW i, OooInstr(i), NEW x1 \in Word, NEW x2 \in Word, NEW old \in 0 .. VLMAX, NEW vt
  PROVE  VsetType(i, x2) \in Word /\ VsetLength(i, vt, x1, old) \in 0 .. VLMAX
<1>1. VsetType(i, x2) \in Word
  BY SmallWords DEF VsetType, OooInstr
<1>2. VLMAX \in Nat
  BY LanesAssumption DEF VLMAX
<1>3. (IF i.op = "vsetivli" THEN i.vs1 ELSE x1) \in Nat
  BY WordAssumption DEF OooInstr
<1>4. VsetLength(i, vt, x1, old) \in 0 .. VLMAX
  BY <1>2, <1>3 DEF VsetLength
<1> QED BY <1>1, <1>4

-----------------------------------------------------------------------------
(* The vector register file and the memory.                                *)

LEMMA MemIndexTyped == ASSUME NEW a \in Word PROVE MemIndex(a) \in 0 .. MemWords - 1
  BY MemAssumption, WordAssumption DEF MemIndex

\* Vector arithmetic gives a register file.
LEMMA VecArithTyped ==
  ASSUME NEW i, OooInstr(i), i.op \in VArithOps, NEW vr \in VecFile, NEW n \in Nat
  PROVE  vec_arith_compute(i, vr, n) \in VecFile
<1>1. i.vd \in VRegs /\ i.vs1 \in VRegs /\ i.vs2 \in VRegs
  BY DEF OooInstr
<1>2. ASSUME NEW l \in Lanes
      PROVE  (IF l >= n THEN vr[i.vd][l]
              ELSE CASE i.op = "vadd" -> Plus(vr[i.vs2][l], vr[i.vs1][l])
                     [] i.op = "vsub" -> (vr[i.vs2][l] - vr[i.vs1][l]) % WORD
                     [] i.op = "vmul" -> (vr[i.vs2][l] * vr[i.vs1][l]) % WORD) \in Word
  <2> DEFINE a == vr[i.vs2][l]
             b == vr[i.vs1][l]
  <2>1. a \in Word /\ b \in Word /\ vr[i.vd][l] \in Word
    BY <1>1 DEF VecFile
  <2> HIDE DEF a, b
  <2>2. a - b \in Int /\ a * b \in Int
    BY <2>1, WordAssumption
  <2>3. Plus(a, b) \in Word /\ (a - b) % WORD \in Word /\ (a * b) % WORD \in Word
    BY <2>1, <2>2, ModIsWord, PlusIsWord
  <2>4. i.op = "vadd" \/ i.op = "vsub" \/ i.op = "vmul"
    BY DEF VArithOps
  <2>5. CASE i.op = "vadd"
    BY <2>1, <2>3, <2>5 DEF a, b
  <2>6. CASE i.op = "vsub"
    BY <2>1, <2>3, <2>6 DEF a, b
  <2>7. CASE i.op = "vmul"
    BY <2>1, <2>3, <2>7 DEF a, b
  <2> QED BY <2>4, <2>5, <2>6, <2>7
<1> DEFINE row == [l \in Lanes |->
              IF l >= n THEN vr[i.vd][l]
              ELSE CASE i.op = "vadd" -> Plus(vr[i.vs2][l], vr[i.vs1][l])
                     [] i.op = "vsub" -> (vr[i.vs2][l] - vr[i.vs1][l]) % WORD
                     [] i.op = "vmul" -> (vr[i.vs2][l] * vr[i.vs1][l]) % WORD]
<1>3. row \in [Lanes -> Word]
  BY <1>2
<1>4. vec_arith_compute(i, vr, n) = [vr EXCEPT ![i.vd] = row]
  BY DEF vec_arith_compute
<1> HIDE DEF row
<1> QED BY <1>3, <1>4 DEF VecFile

\* A vector load gives a register file.
LEMMA VectorLoadedTyped ==
  ASSUME NEW i, OooInstr(i), i.op \in VMemOps, NEW vr \in VecFile, NEW n \in Nat,
         NEW m \in [0 .. MemWords - 1 -> Word], NEW base \in Word, n <= VLMAX
  PROVE  VectorLoaded(i, vr, m, base, n) \in VecFile
<1>1. i.vd \in VRegs
  BY DEF OooInstr
<1>2. ASSUME NEW l \in Lanes
      PROVE  (IF l < n THEN m[MemIndex(Plus(base, l))] ELSE vr[i.vd][l]) \in Word
  <2>1. l \in Word
    BY LanesAssumption, WordAssumption DEF Lanes
  <2>2. m[MemIndex(Plus(base, l))] \in Word
    BY <2>1, PlusIsWord, MemIndexTyped
  <2> QED BY <1>1, <2>2 DEF VecFile
<1> DEFINE row == [l \in Lanes |-> IF l < n THEN m[MemIndex(Plus(base, l))] ELSE vr[i.vd][l]]
<1>3. row \in [Lanes -> Word]
  BY <1>2
<1>4. VectorLoaded(i, vr, m, base, n) = [vr EXCEPT ![i.vd] = row]
  BY <1>1 DEF VectorLoaded, VecFile
<1> HIDE DEF row
<1> QED BY <1>3, <1>4 DEF VecFile

\* A set of numbers below a bound has a greatest one.
LEMMA GreatestNumber ==
  ASSUME NEW n \in Nat, NEW T \in SUBSET (0 .. n - 1), T # {}
  PROVE  \E m \in T : \A k \in T : k <= m
<1> DEFINE R == OpToRel(<, Nat)
           S == {x \in 0 .. n : n - x \in T}
<1>1. IsWellFoundedOn(R, Nat)
  BY NatLessThanWellFounded
<1>2. \A x, y \in Nat : x < y => <<x, y>> \in R
  BY DEF OpToRel
<1> HIDE DEF R
<1>3. S \subseteq Nat /\ S # {}
  <2>1. PICK k \in T : TRUE
    OBVIOUS
  <2>2. n - k \in S
    BY <2>1
  <2>3. \A y \in S : y \in Nat
    OBVIOUS
  <2> HIDE DEF S
  <2> QED BY <2>2, <2>3
<1>4. PICK x \in S : \A y \in S : ~ (<<y, x>> \in R)
  BY <1>1, <1>3, WFMin
<1>5. n - x \in T /\ x \in 0 .. n
  BY <1>4
<1>6. ASSUME NEW k \in T PROVE k <= n - x
  <2>1. n - k \in S /\ k \in 0 .. n - 1
    OBVIOUS
  <2>2. ~(n - k < x)
    BY <1>2, <1>3, <1>4, <2>1
  <2> QED BY <1>5, <2>1, <2>2
<1> QED BY <1>5, <1>6

\* A vector store gives a memory.
LEMMA VectorStoredTyped ==
  ASSUME NEW i, OooInstr(i), i.op \in VMemOps, NEW vr \in VecFile, NEW n \in 0 .. VLMAX,
         NEW m \in [0 .. MemWords - 1 -> Word], NEW base
  PROVE  VectorStored(i, vr, m, base, n) \in [0 .. MemWords - 1 -> Word]
<1>1. i.vd \in VRegs /\ n \in Nat /\ 0 .. n - 1 \subseteq Lanes
  BY LanesAssumption DEF OooInstr, VLMAX, Lanes
<1> DEFINE hits(a) == {l \in 0 .. n - 1 : MemIndex(Plus(base, l)) = a}
           last(a) == CHOOSE l \in 0 .. n - 1 :
                        /\ MemIndex(Plus(base, l)) = a
                        /\ \A k \in l + 1 .. n - 1 : MemIndex(Plus(base, k)) # a
<1>2. ASSUME NEW a \in 0 .. MemWords - 1, \E l \in 0 .. n - 1 : MemIndex(Plus(base, l)) = a
      PROVE  vr[i.vd][last(a)] \in Word
  <2>1. hits(a) \in SUBSET (0 .. n - 1) /\ hits(a) # {}
    BY <1>2
  <2>2. PICK l \in hits(a) : \A k \in hits(a) : k <= l
    BY <1>1, <2>1, GreatestNumber
  <2>3. /\ l \in 0 .. n - 1 /\ MemIndex(Plus(base, l)) = a
        /\ \A k \in l + 1 .. n - 1 : MemIndex(Plus(base, k)) # a
    BY <1>1, <2>2
  <2>4. last(a) \in 0 .. n - 1
    BY <2>3
  <2> HIDE DEF last
  <2> QED BY <1>1, <2>4 DEF VecFile
<1> HIDE DEF hits
<1> QED BY <1>2 DEF VectorStored

-----------------------------------------------------------------------------
(* The state: operands, stations and what an action does to them.          *)

LEMMA IncIsTag == ASSUME NEW t \in Tags PROVE Inc(t) \in Tags
  BY OooAssumption DEF Tags, Inc

\* The program, at any address, is decoded instructions.
LEMMA CodeTyped ==
  ASSUME WellTyped
  PROVE  /\ \A a \in Word : OooInstr(prog[a])
         /\ OooInstr(Fetched) /\ fetch_pc \in Word
         /\ \A u \in Units : OooInstr(InsOf(u))
<1>1. \A a \in Word : OooInstr(prog[a])
  BY ProgAssumption DEF WellTyped
<1>2. \A u \in Units : rs[u].pc \in Word
  BY DEF WellTyped, OooTypeOK, Station
<1>3. fetch_pc \in Word
  BY DEF WellTyped, OooTypeOK
<1> QED BY <1>1, <1>2, <1>3 DEF Fetched, InsOf

LEMMA StationTyped ==
  ASSUME WellTyped, NEW u \in Units
  PROVE  /\ rs[u] \in Station /\ rs[u].rob_tag \in Tags /\ rs[u].pc \in Word
         /\ rs[u].vl \in 0 .. VLMAX /\ rs[u].remaining \in 0 .. 15
         /\ rs[u].busy \in BOOLEAN /\ rs[u].executing \in BOOLEAN
         /\ rs[u].src \in [1 .. 3 -> Operand]
         /\ \A k \in 1 .. 3 : Val(u, k) \in Word /\ rs[u].src[k].tag \in Tags
                              /\ rs[u].src[k].ready \in BOOLEAN
<1>1. rs[u] \in Station
  BY DEF WellTyped, OooTypeOK
<1>2. rs[u].src \in [1 .. 3 -> Operand]
  BY <1>1 DEF Station
<1>3. \A k \in 1 .. 3 : rs[u].src[k] \in Operand
  BY <1>2
<1>4. \A k \in 1 .. 3 : Val(u, k) \in Word /\ rs[u].src[k].tag \in Tags
                        /\ rs[u].src[k].ready \in BOOLEAN
  BY <1>3 DEF Val, Operand
<1>5. /\ rs[u].rob_tag \in Tags /\ rs[u].pc \in Word
      /\ rs[u].vl \in 0 .. VLMAX /\ rs[u].remaining \in 0 .. 15
      /\ rs[u].busy \in BOOLEAN /\ rs[u].executing \in BOOLEAN
  BY <1>1 DEF Station
<1> QED BY <1>1, <1>2, <1>4, <1>5

LEMMA OperandsTyped ==
  /\ \A v \in Word : Ready(v) \in Operand
  /\ \A t \in Tags : Waiting(t) \in Operand
  BY OooAssumption, SmallWords DEF Ready, Waiting, Operand, Tags

\* An operand that hears words stays an operand.
LEMMA HearTyped ==
  ASSUME NEW op \in Operand, NEW S, NEW res \in [S -> Word]
  PROVE  Hear(op, res) \in Operand
  BY OperandsTyped DEF Hear

\* A broadcast keeps the stations well formed and changes only operands.
LEMMA BroadcastTyped ==
  ASSUME WellTyped, NEW S, NEW res \in [S -> Word]
  PROVE  /\ cdb_broadcast(res) \in [Units -> Station]
         /\ \A u \in Units :
              LET s == cdb_broadcast(res)[u] IN
              /\ s.busy = rs[u].busy /\ s.executing = rs[u].executing
              /\ s.remaining = rs[u].remaining /\ s.rob_tag = rs[u].rob_tag
              /\ s.pc = rs[u].pc /\ s.vl = rs[u].vl
              /\ s.src = IF rs[u].busy THEN [k \in 1 .. 3 |-> Hear(rs[u].src[k], res)]
                         ELSE rs[u].src
<1> DEFINE h(u) == IF rs[u].busy
                   THEN [rs[u] EXCEPT !.src = [k \in 1 .. 3 |-> Hear(rs[u].src[k], res)]]
                   ELSE rs[u]
<1>1. ASSUME NEW u \in Units
      PROVE  /\ h(u) \in Station
             /\ h(u).busy = rs[u].busy /\ h(u).executing = rs[u].executing
             /\ h(u).remaining = rs[u].remaining /\ h(u).rob_tag = rs[u].rob_tag
             /\ h(u).pc = rs[u].pc /\ h(u).vl = rs[u].vl
             /\ h(u).src = IF rs[u].busy THEN [k \in 1 .. 3 |-> Hear(rs[u].src[k], res)]
                           ELSE rs[u].src
  <2>1. rs[u] \in Station /\ rs[u].src \in [1 .. 3 -> Operand]
    BY StationTyped
  <2>2. \A k \in 1 .. 3 : Hear(rs[u].src[k], res) \in Operand
    BY <2>1, HearTyped
  <2> DEFINE heard == [k \in 1 .. 3 |-> Hear(rs[u].src[k], res)]
  <2>3. heard \in [1 .. 3 -> Operand]
    BY <2>2
  <2> HIDE DEF heard
  <2>4. h(u) = IF rs[u].busy THEN [rs[u] EXCEPT !.src = heard] ELSE rs[u]
    BY DEF heard
  <2> HIDE DEF h
  <2>5. h(u) \in Station /\ h(u).src = IF rs[u].busy THEN heard ELSE rs[u].src
    BY <2>1, <2>3, <2>4 DEF Station
  <2>6. /\ h(u).busy = rs[u].busy /\ h(u).executing = rs[u].executing
        /\ h(u).remaining = rs[u].remaining /\ h(u).rob_tag = rs[u].rob_tag
        /\ h(u).pc = rs[u].pc /\ h(u).vl = rs[u].vl
    BY <2>1, <2>4 DEF Station
  <2> QED BY <2>5, <2>6 DEF heard
<1>2. cdb_broadcast(res) = [u \in Units |-> h(u)]
  BY DEF cdb_broadcast
<1> HIDE DEF h
<1> QED BY <1>1, <1>2

\* Changes to the control part of a station.
LEMMA FreedTyped ==
  ASSUME NEW s \in Station
  PROVE  /\ [s EXCEPT !.busy = FALSE] \in Station
         /\ [s EXCEPT !.busy = FALSE, !.executing = FALSE, !.remaining = 0] \in Station
         /\ \A n \in 0 .. 15 : /\ [s EXCEPT !.remaining = n] \in Station
                             /\ [s EXCEPT !.executing = TRUE, !.remaining = n] \in Station
<1>1. [s EXCEPT !.busy = FALSE] \in Station
  BY DEF Station
<1>2. \A r \in Station : [r EXCEPT !.executing = FALSE] \in Station
                      /\ [r EXCEPT !.executing = TRUE] \in Station
  BY DEF Station
<1>3. \A r \in Station : \A n \in 0 .. 15 : [r EXCEPT !.remaining = n] \in Station
  BY DEF Station
<1>4. 0 \in 0 .. 15
  OBVIOUS
<1>5. [[s EXCEPT !.busy = FALSE] EXCEPT !.executing = FALSE] \in Station
  BY <1>1, <1>2
<1>6. [[[s EXCEPT !.busy = FALSE] EXCEPT !.executing = FALSE] EXCEPT !.remaining = 0] \in Station
  BY <1>3, <1>4, <1>5
<1>7. \A n \in 0 .. 15 : [[s EXCEPT !.executing = TRUE] EXCEPT !.remaining = n] \in Station
  BY <1>2, <1>3
<1> QED BY <1>1, <1>3, <1>6, <1>7

\* The renamed operand read yields an operand.
LEMMA ReadOperandTyped ==
  ASSUME WellTyped, NEW r \in Regs PROVE read_operand(r) \in Operand /\ read_operand(r).val \in Word
<1>1. rat[r].tag \in Tags /\ regfile[r] \in Word
  BY DEF WellTyped, OooTypeOK, RatEntry
<1>2. rob[rat[r].tag].value \in Word
  BY <1>1 DEF WellTyped, OooTypeOK, RobEntry
<1>3. read_operand(r) \in Operand
  BY <1>1, <1>2, SmallWords, OperandsTyped DEF read_operand
<1> QED BY <1>3 DEF Operand

\* Completing an entry keeps the ROB well formed.
LEMMA CompletedTyped ==
  ASSUME WellTyped, NEW t \in Tags, NEW v \in Word
  PROVE  /\ [rob EXCEPT ![t].value = v, ![t].ready = TRUE] \in [Tags -> RobEntry]
         /\ [rob EXCEPT ![t].ready = TRUE] \in [Tags -> RobEntry]
<1>1. rob \in [Tags -> RobEntry] /\ rob[t] \in RobEntry
  BY DEF WellTyped, OooTypeOK
<1>2. [rob[t] EXCEPT !.value = v, !.ready = TRUE] \in RobEntry
      /\ [rob[t] EXCEPT !.ready = TRUE] \in RobEntry
  BY <1>1 DEF RobEntry
<1>3. [rob EXCEPT ![t].value = v, ![t].ready = TRUE]
        = [rob EXCEPT ![t] = [rob[t] EXCEPT !.value = v, !.ready = TRUE]]
  BY <1>1 DEF RobEntry
<1>4. [rob EXCEPT ![t].ready = TRUE] = [rob EXCEPT ![t] = [rob[t] EXCEPT !.ready = TRUE]]
  BY <1>1 DEF RobEntry
<1> QED BY <1>1, <1>2, <1>3, <1>4

\* A unit that answers.
LEMMA AnswerTyped ==
  ASSUME WellTyped, NEW u \in Units, NEW v \in Word, Answer(u, v)
  PROVE  rob' \in [Tags -> RobEntry] /\ rs' \in [Units -> Station]
<1>1. rob' \in [Tags -> RobEntry]
  BY StationTyped, CompletedTyped DEF Answer
<1> DEFINE h == cdb_broadcast([t \in {rs[u].rob_tag} |-> v])
<1>2. h \in [Units -> Station]
  <2>1. [t \in {rs[u].rob_tag} |-> v] \in [{rs[u].rob_tag} -> Word]
    OBVIOUS
  <2> QED BY <2>1, BroadcastTyped
<1>3. rs' = [h EXCEPT ![u].busy = FALSE]
  BY DEF Answer
<1> HIDE DEF h
<1>4. h[u] \in Station
  BY <1>2
<1>5. [h[u] EXCEPT !.busy = FALSE] \in Station
  BY <1>4 DEF Station
<1>6. rs' \in [Units -> Station]
  BY <1>2, <1>3, <1>5
<1> QED BY <1>1, <1>6

\* A unit that completes without a result.
LEMMA CompleteTyped ==
  ASSUME WellTyped, NEW u \in Units, Complete(u)
  PROVE  rob' \in [Tags -> RobEntry] /\ rs' \in [Units -> Station]
<1>1. rob' \in [Tags -> RobEntry]
  BY StationTyped, CompletedTyped, SmallWords DEF Complete
<1>2. [rs[u] EXCEPT !.busy = FALSE, !.executing = FALSE, !.remaining = 0] \in Station
  BY StationTyped, FreedTyped
<1>3. rs \in [Units -> Station]
  BY DEF WellTyped, OooTypeOK
<1>4. rs' = [rs EXCEPT ![u] = [rs[u] EXCEPT !.busy = FALSE, !.executing = FALSE, !.remaining = 0]]
  BY <1>3, StationTyped DEF Complete, Station
<1> QED BY <1>1, <1>2, <1>3, <1>4

-----------------------------------------------------------------------------
(* Type correctness: one lemma per block of the tick.                      *)

LEMMA InitTyped == Init => WellTyped
<1> SUFFICES ASSUME Init PROVE WellTyped
  OBVIOUS
<1>1. 0 \in Word /\ VILL \in Word /\ 0 \in Tags /\ 0 \in 0 .. 15 /\ 0 \in 0 .. ROB_SZ
      /\ 0 \in 0 .. VLMAX /\ X0 \in Regs
  BY SmallWords, OooAssumption, LanesAssumption, RegAssumption DEF Tags, VLMAX, Regs
<1>2. NoVectors \in VecFile
  BY <1>1 DEF NoVectors, VecFile
<1>3. rs \in [Units -> Station]
  <2>1. [k \in 1 .. 3 |-> Ready(0)] \in [1 .. 3 -> Operand]
    BY <1>1, OperandsTyped
  <2> DEFINE none == [k \in 1 .. 3 |-> Ready(0)]
  <2> HIDE DEF none
  <2>2. [busy |-> FALSE, executing |-> FALSE, remaining |-> 0, rob_tag |-> 0, pc |-> 0,
         src |-> none, vl |-> 0] \in Station
    BY <1>1, <2>1 DEF Station, none
  <2> QED BY <2>2 DEF Init, none
<1>4. rob \in [Tags -> RobEntry] /\ rat \in [Regs -> RatEntry] /\ regfile \in [Regs -> Word]
  BY <1>1 DEF Init, RobEntry, RatEntry
<1>5. csr \in [MCsrs -> Word] /\ dmem \in [0 .. MemWords - 1 -> Word]
  BY <1>1 DEF Init
<1>6. arch \in VecState
  BY <1>1, <1>2 DEF Init, VecState
<1>7. eff \in [Tags -> [pc : Word, vregs : VecFile, vl : 0 .. VLMAX, vtype : Word]]
  BY <1>1, <1>2 DEF Init
<1> QED BY <1>1, <1>2, <1>3, <1>4, <1>5, <1>6, <1>7 DEF Init, WellTyped, OooTypeOK, Stages

\* The head of the ROB.
LEMMA HeadTyped ==
  ASSUME WellTyped
  PROVE  /\ rob_head \in Tags /\ HeadEntry \in RobEntry /\ HeadEntry.dest \in Regs
         /\ eff[rob_head] \in [pc : Word, vregs : VecFile, vl : 0 .. VLMAX, vtype : Word]
<1>1. rob_head \in Tags /\ HeadEntry \in RobEntry
      /\ eff[rob_head] \in [pc : Word, vregs : VecFile, vl : 0 .. VLMAX, vtype : Word]
  BY DEF WellTyped, OooTypeOK, HeadEntry
<1> QED BY <1>1 DEF RobEntry

LEMMA CommitTyped == ASSUME WellTyped, Commit \/ NoCommit PROVE WellTyped'
<1>1. CASE NoCommit
  BY <1>1 DEF NoCommit, WellTyped, OooTypeOK, Stages, front, robs, vcfg
<1>2. CASE Commit
  <2>1. HeadEntry.value \in Word /\ HeadEntry.addr \in Word /\ HeadEntry.sdata \in Word
        /\ HeadEntry.is_ecall \in BOOLEAN
    BY HeadTyped DEF RobEntry
  <2>2. dmem' \in [0 .. MemWords - 1 -> Word]
    BY <1>2, <2>1, MemIndexTyped DEF Commit, WellTyped, OooTypeOK
  <2>3. regfile' \in [Regs -> Word]
    BY <1>2, <2>1, HeadTyped DEF Commit, WellTyped, OooTypeOK
  <2>4. rat' \in [Regs -> RatEntry]
    <3>1. rat \in [Regs -> RatEntry] /\ rat[HeadEntry.dest] \in RatEntry
      BY HeadTyped DEF WellTyped, OooTypeOK
    <3>2. [rat[HeadEntry.dest] EXCEPT !.has_tag = FALSE] \in RatEntry
      BY <3>1 DEF RatEntry
    <3> QED BY <1>2, <3>1, <3>2 DEF Commit, Unmapped
  <2>5. rob' \in [Tags -> RobEntry]
    <3>1. rob \in [Tags -> RobEntry] /\ rob[rob_head] \in RobEntry
      BY HeadTyped DEF WellTyped, OooTypeOK, HeadEntry
    <3>2. [rob[rob_head] EXCEPT !.valid = FALSE] \in RobEntry
      BY <3>1 DEF RobEntry
    <3> QED BY <1>2, <3>1, <3>2 DEF Commit
  <2>6. rob_head' \in Tags /\ rob_count' \in 0 .. ROB_SZ
    <3>1. rob_head' = Inc(rob_head) /\ rob_count' = rob_count - 1 /\ rob_count > 0
      BY <1>2 DEF Commit, HeadReady
    <3>2. rob_count \in 0 .. ROB_SZ
      BY DEF WellTyped, OooTypeOK
    <3> QED BY <3>1, <3>2, HeadTyped, IncIsTag, OooAssumption
  <2>7. arch' \in VecState
    <3>1. arch \in VecState /\ arch.vregs \in VecFile
      BY DEF WellTyped, OooTypeOK, VecState
    <3>2. /\ eff[rob_head].vregs \in VecFile /\ eff[rob_head].vl \in 0 .. VLMAX
          /\ eff[rob_head].vtype \in Word
      BY HeadTyped
    <3> DEFINE v == IF HeadIns.op \in VArithOps \cup {"vle32"}
                    THEN eff[rob_head].vregs ELSE arch.vregs
    <3>3. v \in VecFile
      BY <3>1, <3>2
    <3>4. arch' = [arch EXCEPT !.vl = eff[rob_head].vl, !.vtype = eff[rob_head].vtype, !.vregs = v]
      BY <1>2, <3>1 DEF Commit, Retired, VecState
    <3> HIDE DEF v
    <3> QED BY <3>1, <3>2, <3>3, <3>4 DEF VecState
  <2>8. ecall_halt' \in BOOLEAN
    BY <1>2, <2>1 DEF Commit, WellTyped, OooTypeOK
  <2> QED BY <1>2, <2>2, <2>3, <2>4, <2>5, <2>6, <2>7, <2>8
          DEF Commit, WellTyped, OooTypeOK, Stages, front, vcfg
<1> QED BY <1>1, <1>2

\* What the units broadcast in a tick are words, for entries of the ROB.
LEMMA ResultsTyped ==
  ASSUME WellTyped
  PROVE  /\ DOMAIN Results = {rs[u].rob_tag : u \in Done} /\ DOMAIN Results \subseteq Tags
         /\ Results \in [DOMAIN Results -> Word]
<1>1. \A u \in Done : u \in Timed /\ u \in Units
  BY DEF Done, Units, Timed, AluUnits
<1>2. ASSUME NEW u \in Done PROVE Result(u) \in Word
  <2>1. u \in Units /\ u \in Timed
    BY <1>1
  <2>2. Val(u, 1) \in Word /\ Val(u, 2) \in Word /\ Val(u, 3) \in Word
    BY <2>1, StationTyped
  <2>3. NextPc(rs[u].pc) \in Word /\ 0 \in Word
    BY <2>1, StationTyped, NextPcIsWord, SmallWords
  <2>4. /\ alu_compute(InsOf(u), Val(u, 1), Val(u, 2)) \in Word
        /\ md_compute(InsOf(u), Val(u, 1), Val(u, 2)) \in Word
        /\ fpu_compute(InsOf(u), Val(u, 1), Val(u, 2), Val(u, 3)) \in Word
    BY <2>2, ScalarUnitsGiveWords
  <2> QED BY <2>1, <2>3, <2>4 DEF Result, Timed
<1> DEFINE S == {rs[u].rob_tag : u \in Done}
<1>3. S \subseteq Tags
  BY <1>1, StationTyped
<1>4. \A t \in S : Result(CHOOSE u \in Done : rs[u].rob_tag = t) \in Word
  BY <1>2
<1>5. Results = [t \in S |-> Result(CHOOSE u \in Done : rs[u].rob_tag = t)]
  BY DEF Results
<1>6. DOMAIN Results = S
  BY <1>5
<1> HIDE DEF S
<1>7. Results \in [S -> Word]
  BY <1>4, <1>5
<1> QED BY <1>3, <1>6, <1>7 DEF S

LEMMA ExecuteTyped == ASSUME WellTyped, Execute PROVE WellTyped'
<1>1. rob' \in [Tags -> RobEntry]
  <2>1. ASSUME NEW t \in Tags
        PROVE  (IF t \in DOMAIN Results
                THEN [rob[t] EXCEPT !.value = Results[t], !.ready = TRUE] ELSE rob[t]) \in RobEntry
    <3>1. rob[t] \in RobEntry /\ (t \in DOMAIN Results => Results[t] \in Word)
      BY ResultsTyped DEF WellTyped, OooTypeOK
    <3> QED BY <3>1 DEF RobEntry
  <2> QED BY <2>1 DEF Execute
<1> DEFINE heard == cdb_broadcast(Results)
<1>2. rs' \in [Units -> Station]
  <2>1. heard \in [Units -> Station]
        /\ \A u \in Units : heard[u].busy = rs[u].busy /\ heard[u].executing = rs[u].executing
                            /\ heard[u].remaining = rs[u].remaining
    BY ResultsTyped, BroadcastTyped
  <2>2. rs' = [u \in Units |->
                IF u \in Done
                THEN [heard[u] EXCEPT !.busy = FALSE, !.executing = FALSE, !.remaining = 0]
                ELSE IF u \in Timed /\ heard[u].busy /\ heard[u].executing
                THEN [heard[u] EXCEPT !.remaining = heard[u].remaining - 1] ELSE heard[u]]
    BY DEF Execute
  <2> HIDE DEF heard
  <2>3. ASSUME NEW u \in Units
        PROVE  (IF u \in Done
                THEN [heard[u] EXCEPT !.busy = FALSE, !.executing = FALSE, !.remaining = 0]
                ELSE IF u \in Timed /\ heard[u].busy /\ heard[u].executing
                THEN [heard[u] EXCEPT !.remaining = heard[u].remaining - 1] ELSE heard[u]) \in Station
    <3>1. heard[u] \in Station
      BY <2>1
    <3>2. u \in Timed /\ heard[u].busy /\ heard[u].executing /\ u \notin Done =>
            heard[u].remaining - 1 \in 0 .. 15
      <4>1. rs[u].remaining \in 0 .. 15
        BY StationTyped
      <4>2. u \in Timed /\ rs[u].busy /\ rs[u].executing /\ u \notin Done => ~(rs[u].remaining <= 1)
        BY DEF Done
      <4> QED BY <2>1, <4>1, <4>2
    <3> QED BY <3>1, <3>2, FreedTyped
  <2> QED BY <2>2, <2>3
<1>3. fetch_pc' \in Word /\ fetch_stalled' \in BOOLEAN
  <2>1. "br" \in Units
    BY DEF Units, Timed
  <2>2. Val("br", 1) \in Word /\ InsOf("br").imm \in Word /\ NextPc(rs["br"].pc) \in Word
    BY <2>1, StationTyped, CodeTyped, NextPcIsWord DEF OooInstr
  <2>3. Plus(Val("br", 1), InsOf("br").imm) \in Word
    BY <2>2, PlusIsWord
  <2> QED BY <2>2, <2>3 DEF Execute, ResumeFetch, WellTyped, OooTypeOK
<1> QED BY <1>1, <1>2, <1>3 DEF Execute, WellTyped, OooTypeOK, Stages, vcfg

\* The load-store unit, the vector unit and the CSR unit.
LEMMA LsuTyped == ASSUME WellTyped, LsuStore \/ LsuLoad \/ LsuIdle PROVE WellTyped'
<1>1. "lsu" \in Units
  BY DEF Units
<1>2. LsuAddr \in Word /\ Val("lsu", 2) \in Word
  <2>1. Val("lsu", 1) \in Word /\ Val("lsu", 2) \in Word /\ InsOf("lsu").imm \in Word
    BY <1>1, StationTyped, CodeTyped DEF OooInstr
  <2> QED BY <2>1, PlusIsWord DEF LsuAddr
<1>3. CASE LsuStore
  <2>1. rob \in [Tags -> RobEntry] /\ rob[rs["lsu"].rob_tag] \in RobEntry
    BY <1>1, StationTyped DEF WellTyped, OooTypeOK
  <2>2. [rob[rs["lsu"].rob_tag] EXCEPT !.addr = LsuAddr, !.sdata = Val("lsu", 2), !.ready = TRUE]
          \in RobEntry
    BY <1>2, <2>1 DEF RobEntry
  <2>3. rob' \in [Tags -> RobEntry]
    BY <1>3, <2>1, <2>2 DEF LsuStore
  <2>4. [rs["lsu"] EXCEPT !.busy = FALSE] \in Station /\ rs \in [Units -> Station]
    BY <1>1, StationTyped, FreedTyped DEF WellTyped, OooTypeOK
  <2>5. rs' \in [Units -> Station]
    BY <1>3, <2>4 DEF LsuStore
  <2> QED BY <1>3, <2>3, <2>5 DEF LsuStore, LsuRest, WellTyped, OooTypeOK, Stages, front, vcfg
<1>4. CASE LsuLoad
  <2>1. dmem[MemIndex(LsuAddr)] \in Word
    BY <1>2, MemIndexTyped DEF WellTyped, OooTypeOK
  <2>2. rob' \in [Tags -> RobEntry] /\ rs' \in [Units -> Station]
    BY <1>1, <1>4, <2>1, AnswerTyped DEF LsuLoad
  <2> QED BY <1>4, <2>2 DEF LsuLoad, LsuRest, WellTyped, OooTypeOK, Stages, front, vcfg
<1>5. CASE LsuIdle
  BY <1>5 DEF LsuIdle, LsuRest, WellTyped, OooTypeOK, Stages, front, vcfg
<1> QED BY <1>3, <1>4, <1>5

\* Keeping the vector state an instruction leaves.
LEMMA LeavesTyped ==
  ASSUME WellTyped, NEW t \in Tags, NEW vr \in VecFile, eff' = [eff EXCEPT ![t].vregs = vr]
  PROVE  eff' \in [Tags -> [pc : Word, vregs : VecFile, vl : 0 .. VLMAX, vtype : Word]]
<1>1. /\ eff \in [Tags -> [pc : Word, vregs : VecFile, vl : 0 .. VLMAX, vtype : Word]]
      /\ eff[t] \in [pc : Word, vregs : VecFile, vl : 0 .. VLMAX, vtype : Word]
  BY DEF WellTyped, OooTypeOK
<1>2. [eff[t] EXCEPT !.vregs = vr] \in [pc : Word, vregs : VecFile, vl : 0 .. VLMAX, vtype : Word]
  BY <1>1
<1> QED BY <1>1, <1>2

LEMMA VecTyped ==
  ASSUME WellTyped, VecCount \/ VecComplete \/ VecLoad \/ VecStore \/ VecIdle PROVE WellTyped'
<1>1. "vec" \in Units
  BY DEF Units
<1>2. /\ OooInstr(VecIns) /\ vregs \in VecFile /\ dmem \in [0 .. MemWords - 1 -> Word]
      /\ rs["vec"].vl \in 0 .. VLMAX /\ rs["vec"].rob_tag \in Tags /\ Val("vec", 1) \in Word
      /\ rs["vec"].remaining \in 0 .. 15 /\ rs \in [Units -> Station] /\ rs["vec"] \in Station
  <2>1. OooInstr(VecIns)
    BY <1>1, CodeTyped DEF VecIns
  <2>2. vregs \in VecFile /\ dmem \in [0 .. MemWords - 1 -> Word] /\ rs \in [Units -> Station]
    BY DEF WellTyped, OooTypeOK
  <2>3. Val("vec", 1) \in Word
    BY <1>1, StationTyped
  <2> QED BY <1>1, <2>1, <2>2, <2>3, StationTyped
<1>3. rs["vec"].vl \in Nat /\ rs["vec"].vl <= VLMAX
  BY <1>2, LanesAssumption DEF VLMAX
<1>4. CASE VecCount
  <2>1. rs["vec"].remaining - 1 \in 0 .. 15
    BY <1>2, <1>4 DEF VecCount
  <2>2. [rs["vec"] EXCEPT !.remaining = rs["vec"].remaining - 1] \in Station
    BY <1>2, <2>1, FreedTyped
  <2>3. rs' = [rs EXCEPT !["vec"] = [rs["vec"] EXCEPT !.remaining = rs["vec"].remaining - 1]]
    BY <1>4 DEF VecCount
  <2>4. rs' \in [Units -> Station]
    BY <1>2, <2>2, <2>3
  <2> QED BY <1>4, <2>4 DEF VecCount, VecRest, WellTyped, OooTypeOK, Stages, front, vcfg
<1>5. CASE VecComplete
  <2>1. vregs' \in VecFile
    BY <1>2, <1>3, <1>5, VecArithTyped DEF VecComplete, ArithRuns
  <2>2. rob' \in [Tags -> RobEntry] /\ rs' \in [Units -> Station]
    BY <1>1, <1>5, CompleteTyped DEF VecComplete
  <2>3. eff' \in [Tags -> [pc : Word, vregs : VecFile, vl : 0 .. VLMAX, vtype : Word]]
    BY <1>2, <1>5, <2>1, LeavesTyped DEF VecComplete
  <2> QED BY <1>5, <2>1, <2>2, <2>3 DEF VecComplete, VecRest, WellTyped, OooTypeOK, Stages, front, vcfg
<1>6. CASE VecLoad
  <2>1. vregs' \in VecFile
    BY <1>2, <1>3, <1>6, VectorLoadedTyped DEF VecLoad, MemMayMove
  <2>2. rob' \in [Tags -> RobEntry] /\ rs' \in [Units -> Station]
    BY <1>1, <1>6, CompleteTyped DEF VecLoad
  <2>3. eff' \in [Tags -> [pc : Word, vregs : VecFile, vl : 0 .. VLMAX, vtype : Word]]
    BY <1>2, <1>6, <2>1, LeavesTyped DEF VecLoad
  <2> QED BY <1>6, <2>1, <2>2, <2>3 DEF VecLoad, VecRest, WellTyped, OooTypeOK, Stages, front, vcfg
<1>7. CASE VecStore
  <2>1. dmem' \in [0 .. MemWords - 1 -> Word]
    BY <1>2, <1>7, VectorStoredTyped DEF VecStore, MemMayMove
  <2>2. rob' \in [Tags -> RobEntry] /\ rs' \in [Units -> Station]
    BY <1>1, <1>7, CompleteTyped DEF VecStore
  <2> QED BY <1>7, <2>1, <2>2 DEF VecStore, VecRest, WellTyped, OooTypeOK, Stages, front, vcfg
<1>8. CASE VecIdle
  BY <1>8 DEF VecIdle, VecRest, WellTyped, OooTypeOK, Stages, front, vcfg
<1> QED BY <1>4, <1>5, <1>6, <1>7, <1>8

LEMMA SysTyped == ASSUME WellTyped, SysExecute \/ SysIdle PROVE WellTyped'
<1>1. CASE SysIdle
  BY <1>1 DEF SysIdle, WellTyped, OooTypeOK, Stages, front, robs, vcfg
<1>2. CASE SysExecute
  <2> DEFINE old == ReadCsr(csr, csr_vl, csr_vtype, InsOf("sys").csr)
  <2>1. "sys" \in Units /\ Val("sys", 1) \in Word
        /\ csr \in [MCsrs -> Word] /\ csr_vl \in 0 .. VLMAX /\ csr_vtype \in Word
    BY StationTyped DEF Units, WellTyped, OooTypeOK
  <2>2. old \in Word /\ CsrNewValue(InsOf("sys"), old, Val("sys", 1)) \in Word
    BY <2>1, CsrWords
  <2>3. csr' \in [MCsrs -> Word]
    BY <1>2, <2>1, <2>2, CsrWords DEF SysExecute
  <2>4. rob' \in [Tags -> RobEntry] /\ rs' \in [Units -> Station]
    BY <1>2, <2>1, <2>2, AnswerTyped DEF SysExecute
  <2> HIDE DEF old
  <2> QED BY <1>2, <2>3, <2>4 DEF SysExecute, WellTyped, OooTypeOK, Stages, front, vcfg
<1> QED BY <1>1, <1>2

\* A latency fits its counter.
LEMMA IssueTyped == ASSUME WellTyped, Issue PROVE WellTyped'
<1>1. ASSUME NEW u \in Units, MayIssue(u) PROVE Latency(u) \in 0 .. 15
  <2>1. u \in Timed \cup {"vec"}
    BY <1>1 DEF MayIssue
  <2> QED BY <2>1, OooAssumption DEF Latency, Timed, AluUnits
<1>2. ASSUME NEW u \in Units
      PROVE  (IF MayIssue(u) THEN [rs[u] EXCEPT !.executing = TRUE, !.remaining = Latency(u)]
              ELSE rs[u]) \in Station
  BY <1>1, StationTyped, FreedTyped
<1>3. rs' \in [Units -> Station]
  BY <1>2 DEF Issue
<1> QED BY <1>3 DEF Issue, WellTyped, OooTypeOK, Stages, front, robs, vcfg

\* Fetch and dispatch: the parts of the actions.
LEMMA UnitForIsUnit == ASSUME NEW op \in NeedUnit PROVE UnitFor(op) \in Units
  BY DEF NeedUnit, AluOps, MdOps, FpuOps, LoadOps, StoreOps, BranchOps, VArithOps, VMemOps, CsrOps,
         UnitFor, Units, Timed, AluUnits

LEMMA DestTyped == ASSUME WellTyped PROVE DestOf(Fetched) \in Regs
<1>1. Fetched.rd \in Regs /\ X0 \in Regs
  BY CodeTyped, RegAssumption DEF OooInstr, Regs
<1> QED BY <1>1 DEF DestOf

LEMMA EnterTyped ==
  ASSUME WellTyped, MayFetch, NEW complete \in BOOLEAN, NEW v \in Word, Enter(complete, v),
         csr_vl' \in 0 .. VLMAX, csr_vtype' \in Word
  PROVE  /\ rob' \in [Tags -> RobEntry] /\ rat' \in [Regs -> RatEntry]
         /\ rob_head' \in Tags /\ rob_tail' \in Tags /\ rob_count' \in 0 .. ROB_SZ
         /\ fetch_done' \in BOOLEAN
         /\ eff' \in [Tags -> [pc : Word, vregs : VecFile, vl : 0 .. VLMAX, vtype : Word]]
<1>1. /\ rob \in [Tags -> RobEntry] /\ rat \in [Regs -> RatEntry] /\ rob_head \in Tags
      /\ rob_tail \in Tags /\ rob_count \in 0 .. ROB_SZ /\ fetch_done \in BOOLEAN
      /\ eff \in [Tags -> [pc : Word, vregs : VecFile, vl : 0 .. VLMAX, vtype : Word]]
  BY DEF WellTyped, OooTypeOK
<1>2. DestOf(Fetched) \in Regs /\ fetch_pc \in Word
  BY CodeTyped, DestTyped
<1>3. rob' \in [Tags -> RobEntry]
  <2> DEFINE w == IF complete THEN v ELSE rob[rob_tail].value
             e == [rob[rob_tail] EXCEPT !.valid = TRUE, !.ready = complete, !.dest = DestOf(Fetched),
                         !.is_store = (Fetched.op \in StoreOps),
                         !.is_ecall = (Fetched.op \in HaltOps), !.value = w]
  <2>1. rob[rob_tail] \in RobEntry
    BY <1>1
  <2>2. w \in Word
    BY <2>1 DEF RobEntry
  <2>3. (Fetched.op \in StoreOps) \in BOOLEAN /\ (Fetched.op \in HaltOps) \in BOOLEAN
    OBVIOUS
  <2>4. rob' = [rob EXCEPT ![rob_tail] = e]
    BY DEF Enter
  <2> HIDE DEF w
  <2>5. e \in RobEntry
    BY <1>2, <2>1, <2>2, <2>3 DEF RobEntry
  <2> HIDE DEF e
  <2> QED BY <1>1, <2>4, <2>5
<1>4. rat' \in [Regs -> RatEntry]
  BY <1>1, <1>2 DEF Enter, RatEntry
<1>5. rob_tail' \in Tags /\ rob_count' \in 0 .. ROB_SZ /\ rob_head' \in Tags /\ fetch_done' \in BOOLEAN
  BY <1>1, IncIsTag, OooAssumption DEF Enter, MayFetch
<1>6. eff' \in [Tags -> [pc : Word, vregs : VecFile, vl : 0 .. VLMAX, vtype : Word]]
  <2>1. eff[rob_tail] \in [pc : Word, vregs : VecFile, vl : 0 .. VLMAX, vtype : Word]
    BY <1>1
  <2>2. [eff[rob_tail] EXCEPT !.pc = fetch_pc, !.vl = csr_vl', !.vtype = csr_vtype']
          \in [pc : Word, vregs : VecFile, vl : 0 .. VLMAX, vtype : Word]
    BY <1>2, <2>1
  <2>3. eff' = [eff EXCEPT ![rob_tail] =
                 [eff[rob_tail] EXCEPT !.pc = fetch_pc, !.vl = csr_vl', !.vtype = csr_vtype']]
    BY DEF Enter
  <2> QED BY <1>1, <2>2, <2>3
<1> QED BY <1>3, <1>4, <1>5, <1>6

\* A station takes the fetched instruction.
LEMMA FilledTyped ==
  ASSUME WellTyped, NEW s \in Station PROVE FilledStation(s, Fetched) \in Station
<1>1. /\ {Fetched.rs1, Fetched.rs2, Fetched.rs3} \subseteq Regs /\ Fetched.imm \in Word
      /\ fetch_pc \in Word
  BY CodeTyped DEF OooInstr
<1>2. /\ read_operand(Fetched.rs1) \in Operand /\ read_operand(Fetched.rs2) \in Operand
      /\ read_operand(Fetched.rs3) \in Operand
      /\ Ready(Fetched.imm) \in Operand /\ Ready(0) \in Operand
  BY <1>1, ReadOperandTyped, OperandsTyped, SmallWords
<1>3. Source(Fetched, 1) \in Operand /\ Source(Fetched, 2) \in Operand /\ Source(Fetched, 3) \in Operand
  BY <1>2 DEF Source
<1> DEFINE src == IF Fetched.op \in VArithOps THEN s.src ELSE [k \in 1 .. 3 |-> Source(Fetched, k)]
           vl  == IF Fetched.op \in VArithOps \cup VMemOps THEN csr_vl ELSE s.vl
<1>4. src \in [1 .. 3 -> Operand]
  BY <1>3 DEF Station
<1>5. vl \in 0 .. VLMAX /\ rob_tail \in Tags
  BY DEF Station, WellTyped, OooTypeOK
<1>6. FilledStation(s, Fetched) = [s EXCEPT !.busy = TRUE, !.executing = FALSE, !.rob_tag = rob_tail,
                                            !.pc = fetch_pc, !.src = src, !.vl = vl]
  BY DEF FilledStation, Station
<1> HIDE DEF src, vl
<1> QED BY <1>1, <1>4, <1>5, <1>6 DEF Station

LEMMA FillTyped ==
  ASSUME WellTyped, NEW u \in Units, rs' = [rs EXCEPT ![u] = FilledStation(@, Fetched)]
  PROVE  rs' \in [Units -> Station]
<1>1. rs \in [Units -> Station] /\ FilledStation(rs[u], Fetched) \in Station
  BY StationTyped, FilledTyped DEF WellTyped, OooTypeOK
<1> QED BY <1>1

LEMMA DispatchTyped ==
  ASSUME WellTyped,
         DispatchQuick \/ DispatchToUnit \/ DispatchVset \/ DispatchStall \/ FetchEnd \/ FetchIdle
  PROVE  WellTyped'
<1>1. /\ Fetched.imm \in Word /\ fetch_pc \in Word /\ NextPc(fetch_pc) \in Word
      /\ {Fetched.rs1, Fetched.rs2} \subseteq Regs
      /\ csr_vl \in 0 .. VLMAX /\ csr_vtype \in Word
  BY CodeTyped, NextPcIsWord DEF OooInstr, WellTyped, OooTypeOK
<1>2. ASSUME EndOfTick, fetch_done' \in BOOLEAN PROVE halted' \in BOOLEAN /\ stage' \in Stages
  BY <1>2 DEF EndOfTick, Stages, WellTyped, OooTypeOK
<1> DEFINE value == CASE Fetched.op = "lui" -> Fetched.imm
                      [] Fetched.op = "jal" -> NextPc(fetch_pc)
                      [] OTHER              -> 0
<1>3. CASE DispatchQuick
  <2>1. value \in Word /\ MayFetch /\ csr_vl' \in 0 .. VLMAX /\ csr_vtype' \in Word
    BY <1>1, <1>3, SmallWords DEF DispatchQuick, Dispatch, vcfg
  <2>2. Enter(TRUE, value)
    BY <1>3 DEF DispatchQuick
  <2> HIDE DEF value
  <2>3. /\ rob' \in [Tags -> RobEntry] /\ rat' \in [Regs -> RatEntry]
        /\ rob_head' \in Tags /\ rob_tail' \in Tags /\ rob_count' \in 0 .. ROB_SZ
        /\ fetch_done' \in BOOLEAN
        /\ eff' \in [Tags -> [pc : Word, vregs : VecFile, vl : 0 .. VLMAX, vtype : Word]]
    BY <2>1, <2>2, EnterTyped
  <2>4. fetch_pc' \in Word
    BY <1>1, <1>3 DEF DispatchQuick
  <2>5. halted' \in BOOLEAN /\ stage' \in Stages
    BY <1>2, <1>3, <2>3 DEF DispatchQuick
  <2> QED BY <1>3, <2>3, <2>4, <2>5 DEF DispatchQuick, EndOfTick, WellTyped, OooTypeOK, vcfg
<1>4. CASE DispatchToUnit
  <2>1. MayFetch /\ csr_vl' \in 0 .. VLMAX /\ csr_vtype' \in Word /\ Fetched.op \in NeedUnit
    BY <1>1, <1>4 DEF DispatchToUnit, Dispatch, vcfg
  <2>2. /\ rob' \in [Tags -> RobEntry] /\ rat' \in [Regs -> RatEntry]
        /\ rob_head' \in Tags /\ rob_tail' \in Tags /\ rob_count' \in 0 .. ROB_SZ
        /\ fetch_done' \in BOOLEAN
        /\ eff' \in [Tags -> [pc : Word, vregs : VecFile, vl : 0 .. VLMAX, vtype : Word]]
    BY <1>4, <2>1, EnterTyped, SmallWords DEF DispatchToUnit
  <2>3. rs' \in [Units -> Station]
    BY <1>4, <2>1, FillTyped, UnitForIsUnit DEF DispatchToUnit
  <2>4. halted' \in BOOLEAN /\ stage' \in Stages
    BY <1>2, <1>4, <2>2 DEF DispatchToUnit
  <2>5. fetch_pc' \in Word /\ fetch_stalled' \in BOOLEAN
    <3>1. (Fetched.op \in BranchOps \cup {"jalr"}) \in BOOLEAN
      OBVIOUS
    <3> QED BY <1>1, <1>4, <3>1 DEF DispatchToUnit
  <2>6. UNCHANGED <<csr_vl, csr_vtype>> /\ EndOfTick
    BY <1>4 DEF DispatchToUnit, vcfg
  <2> QED BY <2>2, <2>3, <2>4, <2>5, <2>6 DEF EndOfTick, WellTyped, OooTypeOK
<1>5. CASE DispatchVset
  <2>1. read_operand(Fetched.rs1).val \in Word /\ read_operand(Fetched.rs2).val \in Word
    BY <1>1, ReadOperandTyped
  <2>2. csr_vtype' \in Word /\ csr_vl' \in 0 .. VLMAX
    BY <1>1, <1>5, <2>1, CodeTyped, VsetTyped DEF DispatchVset
  <2>3. csr_vl' \in Word /\ MayFetch
    BY <1>5, <2>2, LanesAssumption, WordAssumption DEF DispatchVset, Dispatch, VLMAX
  <2>4. /\ rob' \in [Tags -> RobEntry] /\ rat' \in [Regs -> RatEntry]
        /\ rob_head' \in Tags /\ rob_tail' \in Tags /\ rob_count' \in 0 .. ROB_SZ
        /\ fetch_done' \in BOOLEAN
        /\ eff' \in [Tags -> [pc : Word, vregs : VecFile, vl : 0 .. VLMAX, vtype : Word]]
    BY <1>5, <2>2, <2>3, EnterTyped DEF DispatchVset
  <2>5. halted' \in BOOLEAN /\ stage' \in Stages
    BY <1>2, <1>5, <2>4 DEF DispatchVset
  <2> QED BY <1>1, <1>5, <2>2, <2>4, <2>5 DEF DispatchVset, EndOfTick, WellTyped, OooTypeOK
<1>6. CASE DispatchStall
  <2>1. rob \in [Tags -> RobEntry] /\ rob[rob_tail] \in RobEntry
    BY DEF WellTyped, OooTypeOK
  <2>2. [rob[rob_tail] EXCEPT !.is_ecall = FALSE] \in RobEntry
    BY <2>1 DEF RobEntry
  <2>3. rob' \in [Tags -> RobEntry]
    BY <1>6, <2>1, <2>2 DEF DispatchStall
  <2>4. halted' \in BOOLEAN /\ stage' \in Stages
    BY <1>2, <1>6 DEF DispatchStall, front, WellTyped, OooTypeOK
  <2> QED BY <1>6, <2>3, <2>4 DEF DispatchStall, EndOfTick, WellTyped, OooTypeOK, front, vcfg
<1>7. CASE FetchEnd
  <2>1. halted' \in BOOLEAN /\ stage' \in Stages
    BY <1>2, <1>7 DEF FetchEnd
  <2> QED BY <1>7, <2>1 DEF FetchEnd, EndOfTick, WellTyped, OooTypeOK, robs, vcfg
<1>8. CASE FetchIdle
  <2>1. halted' \in BOOLEAN /\ stage' \in Stages
    BY <1>2, <1>8 DEF FetchIdle, front, WellTyped, OooTypeOK
  <2> QED BY <1>8, <2>1 DEF FetchIdle, EndOfTick, WellTyped, OooTypeOK, front, robs, vcfg
<1> QED BY <1>3, <1>4, <1>5, <1>6, <1>7, <1>8

LEMMA StepTyped == WellTyped /\ [Tick \/ Stopped]_vars => WellTyped'
<1> SUFFICES ASSUME WellTyped, [Tick \/ Stopped]_vars PROVE WellTyped'
  OBVIOUS
<1>1. CASE UNCHANGED vars
  BY <1>1 DEF vars, WellTyped, OooTypeOK, front, robs, vcfg
<1>2. CASE Tick
  BY <1>2, CommitTyped, ExecuteTyped, LsuTyped, VecTyped, SysTyped, IssueTyped, DispatchTyped DEF Tick
<1> QED BY <1>1, <1>2 DEF Stopped

LEMMA AlwaysTyped == Spec => []WellTyped
  BY InitTyped, StepTyped, PTL DEF Spec

\* Whatever the program and the latencies, every register of the earlier core
\* keeps a value of its width: the count of the ROB never underflows at a
\* retirement or exceeds its size at a dispatch, the two-bit and four-bit
\* countdowns never wrap, vl never exceeds the vector register, and the
\* words a vector access touches are words of memory.
THEOREM OooTyped == Spec => []OooTypeOK
<1>1. WellTyped => OooTypeOK
  BY DEF WellTyped
<1> QED BY <1>1, AlwaysTyped, PTL

-----------------------------------------------------------------------------
(* No wake-up is lost.  The core never flushes, so a step changes the      *)
(* pipeline in one of three ways: it retires the head, completes some      *)
(* units, or enters an instruction.  Vector instructions and stores        *)
(* complete without a broadcast, which is sound only because nothing waits *)
(* for an entry that has no destination.                                   *)

InFlight(t) == Age(t) < rob_count

\* The ring: the valid entries are the rob_count entries from the head on.
RobWindow ==
  /\ rob_tail = IF rob_head + rob_count < ROB_SZ
                THEN rob_head + rob_count ELSE rob_head + rob_count - ROB_SZ
  /\ \A t \in Tags : rob[t].valid <=> InFlight(t)

\* A busy station works for an entry in flight that has not completed, and
\* no two stations work for the same one.
StationsOwn ==
  \A u \in Units : rs[u].busy =>
    /\ InFlight(rs[u].rob_tag) /\ ~rob[rs[u].rob_tag].ready
    /\ eff[rs[u].rob_tag].pc = rs[u].pc
    /\ \A w \in Units \ {u} : rs[w].busy => rs[w].rob_tag # rs[u].rob_tag

\* A register is mapped exactly while an instruction in flight writes it, to
\* the youngest one.
RatNamesYoungestWriter ==
  \A r \in Regs :
    /\ rat[r].has_tag => r # X0 /\ InFlight(rat[r].tag) /\ rob[rat[r].tag].dest = r
    /\ r # X0 => \A t \in Tags : InFlight(t) /\ rob[t].dest = r =>
                   rat[r].has_tag /\ Age(t) <= Age(rat[r].tag)

\* The instructions that complete silently have no destination.
SilentUnit(u)  == u = "vec" \/ (u = "lsu" /\ InsOf(u).op \notin LoadOps)
SilentHaveNoDest == \A u \in Units : rs[u].busy /\ SilentUnit(u) => rob[rs[u].rob_tag].dest = X0

\* Vector arithmetic has no operands, whatever its station holds.
Listens(u) == rs[u].busy /\ (u = "vec" => VecIns.op \in VMemOps)

\* OooNoLostWakeup, and the producer has a destination.
WaitsForWriter ==
  \A u \in Units : Listens(u) =>
    \A k \in 1 .. 3 : LET t == rs[u].src[k].tag IN
      ~rs[u].src[k].ready =>
        InFlight(t) /\ Age(t) < Age(rs[u].rob_tag) /\ ~rob[t].ready /\ rob[t].dest # X0

PipelineInv == RobWindow /\ StationsOwn /\ RatNamesYoungestWriter /\ SilentHaveNoDest /\ WaitsForWriter
PipeCore    == WellTyped /\ PipelineInv

\* The units of S deliver their results, those of D complete silently.
Completes(S, D) ==
  /\ \A u \in S \cup D : u \in Units /\ rs[u].busy
  /\ \A u \in D : SilentUnit(u)
  /\ UNCHANGED <<prog, rat, rob_head, rob_tail, rob_count>>
  /\ \A t \in Tags : /\ rob'[t].valid = rob[t].valid /\ rob'[t].dest = rob[t].dest
                     /\ rob'[t].ready <=> rob[t].ready \/ \E u \in S \cup D : rs[u].rob_tag = t
                     /\ eff'[t].pc = eff[t].pc
  /\ \A u \in Units : /\ rs'[u].busy <=> rs[u].busy /\ u \notin S \cup D
                      /\ rs'[u].rob_tag = rs[u].rob_tag /\ rs'[u].pc = rs[u].pc
  /\ \A u \in Units : rs'[u].busy =>
       \A k \in 1 .. 3 : ~rs'[u].src[k].ready =>
         /\ ~rs[u].src[k].ready /\ rs'[u].src[k].tag = rs[u].src[k].tag
         /\ \A w \in S : rs[w].rob_tag # rs[u].src[k].tag

\* The free station v takes the instruction that enters.
Joins(v) ==
  /\ ~rs[v].busy /\ rs'[v].busy /\ rs'[v].rob_tag = rob_tail /\ rs'[v].pc = fetch_pc
  /\ (v = "vec" => Fetched.op \in VMemOps) =>
       \A k \in 1 .. 3 : ~rs'[v].src[k].ready =>
         \E t \in Tags : /\ t = rs'[v].src[k].tag
                         /\ InFlight(t) /\ ~rob[t].ready /\ rob[t].dest # X0
  /\ v = "vec" \/ (v = "lsu" /\ Fetched.op \notin LoadOps) => DestOf(Fetched) = X0

\* The busy stations stay as they are, and at most one joins, for an
\* instruction that is not complete yet.
StationsAdmit(complete) ==
  /\ \A v \in Units : rs[v].busy => rs'[v] = rs[v]
  /\ \A v \in Units : rs'[v].busy => rs[v].busy \/ (Joins(v) /\ ~complete)
  /\ \A v, w \in Units : Joins(v) /\ Joins(w) => v = w

\* The facts about the counters the arithmetic needs.
LEMMA Counters ==
  ASSUME WellTyped
  PROVE  /\ ROB_SZ \in Nat /\ ROB_SZ >= 2
         /\ rob_head \in Tags /\ rob_tail \in Tags /\ rob_count \in 0 .. ROB_SZ
         /\ \A t \in Tags : t \in Int /\ 0 <= t /\ t < ROB_SZ
         /\ \A t \in Tags : rob[t] \in RobEntry
         /\ \A r \in Regs : rat[r] \in RatEntry /\ rat[r].tag \in Tags
         /\ \A u \in Units : rs[u].rob_tag \in Tags /\ \A k \in 1 .. 3 : rs[u].src[k].tag \in Tags
<1>1. \A r \in Regs : rat[r] \in RatEntry /\ rat[r].tag \in Tags
  BY DEF WellTyped, OooTypeOK, RatEntry
<1>2. \A u \in Units : rs[u].rob_tag \in Tags /\ \A k \in 1 .. 3 : rs[u].src[k].tag \in Tags
  BY StationTyped
<1>3. ROB_SZ \in Nat /\ ROB_SZ >= 2 /\ \A t \in Tags : t \in Int /\ 0 <= t /\ t < ROB_SZ
  BY OooAssumption DEF Tags
<1>4. /\ rob_head \in Tags /\ rob_tail \in Tags /\ rob_count \in 0 .. ROB_SZ
      /\ \A t \in Tags : rob[t] \in RobEntry
  BY DEF WellTyped, OooTypeOK
<1> QED BY <1>1, <1>2, <1>3, <1>4

\* Two tags of the same age are the same; only the head has age 0.
LEMMA Ages ==
  ASSUME WellTyped, NEW s \in Tags, NEW t \in Tags
  PROVE  /\ Age(s) = Age(t) => s = t
         /\ Age(t) \in 0 .. ROB_SZ - 1
         /\ Age(t) = 0 <=> t = rob_head
<1>1. /\ ROB_SZ \in Nat /\ ROB_SZ >= 2 /\ rob_head \in 0 .. ROB_SZ - 1
      /\ s \in 0 .. ROB_SZ - 1 /\ t \in 0 .. ROB_SZ - 1
  BY Counters DEF Tags
<1> QED BY <1>1 DEF Age

LEMMA HeadInFlight == ASSUME WellTyped, rob_count > 0 PROVE InFlight(rob_head)
  BY Counters, Ages DEF InFlight

LEMMA TailIsFree ==
  ASSUME WellTyped, RobWindow, rob_count < ROB_SZ
  PROVE  ~InFlight(rob_tail) /\ Age(rob_tail) = rob_count
  BY Counters DEF RobWindow, Age, InFlight

\* A retirement takes the head, and the others become one tick older.
LEMMA RetireWindow ==
  ASSUME WellTyped, RobWindow, stage = "commit", HeadReady, Commit
  PROVE  /\ RobWindow'
         /\ \A t \in Tags : InFlight(t)' <=> InFlight(t) /\ t # rob_head
         /\ \A t \in Tags : InFlight(t) /\ t # rob_head => Age(t)' = Age(t) - 1
         /\ \A t \in Tags : t # rob_head => rob'[t] = rob[t]
<1>1. rob_head' = Inc(rob_head) /\ rob_tail' = rob_tail /\ rob_count' = rob_count - 1
      /\ rob_count > 0
  BY DEF Commit, HeadReady
<1>2. /\ \A t \in Tags : t # rob_head => rob'[t] = rob[t]
      /\ rob'[rob_head].valid = FALSE
  BY Counters DEF Commit, WellTyped, OooTypeOK, RobEntry
<1>3. ASSUME NEW t \in Tags
      PROVE  /\ InFlight(t)' <=> InFlight(t) /\ t # rob_head
             /\ InFlight(t) /\ t # rob_head => Age(t)' = Age(t) - 1
  <2>1. /\ ROB_SZ \in Nat /\ ROB_SZ >= 2 /\ rob_head \in 0 .. ROB_SZ - 1
        /\ t \in 0 .. ROB_SZ - 1 /\ rob_count \in 0 .. ROB_SZ
    BY Counters DEF Tags
  <2> QED BY <1>1, <2>1 DEF InFlight, Age, Inc
<1>4. rob_tail' = IF rob_head' + rob_count' < ROB_SZ
                  THEN rob_head' + rob_count' ELSE rob_head' + rob_count' - ROB_SZ
  BY <1>1, Counters DEF RobWindow, Inc
<1>5. \A t \in Tags : rob'[t].valid <=> InFlight(t)'
  BY <1>2, <1>3 DEF RobWindow
<1> QED BY <1>2, <1>3, <1>4, <1>5 DEF RobWindow

\* A dispatch adds the youngest.
LEMMA EnterWindow ==
  ASSUME WellTyped, RobWindow, MayFetch, NEW complete \in BOOLEAN, NEW v, Enter(complete, v)
  PROVE  /\ RobWindow'
         /\ \A t \in Tags : InFlight(t)' <=> InFlight(t) \/ t = rob_tail
         /\ \A t \in Tags : Age(t)' = Age(t)
         /\ \A t \in Tags : t # rob_tail => rob'[t] = rob[t] /\ eff'[t] = eff[t]
         /\ rob'[rob_tail].valid /\ rob'[rob_tail].ready = complete
         /\ rob'[rob_tail].dest = DestOf(Fetched) /\ eff'[rob_tail].pc = fetch_pc
<1>1. rob_head' = rob_head /\ rob_tail' = Inc(rob_tail) /\ rob_count' = rob_count + 1
      /\ rob_count < ROB_SZ
  BY DEF Enter, MayFetch
<1>2. /\ \A t \in Tags : t # rob_tail => rob'[t] = rob[t] /\ eff'[t] = eff[t]
      /\ rob'[rob_tail].valid /\ rob'[rob_tail].ready = complete
      /\ rob'[rob_tail].dest = DestOf(Fetched) /\ eff'[rob_tail].pc = fetch_pc
  <2>1. /\ rob \in [Tags -> RobEntry] /\ rob[rob_tail] \in RobEntry /\ rob_tail \in Tags
        /\ eff \in [Tags -> [pc : Word, vregs : VecFile, vl : 0 .. VLMAX, vtype : Word]]
        /\ eff[rob_tail] \in [pc : Word, vregs : VecFile, vl : 0 .. VLMAX, vtype : Word]
    BY Counters DEF WellTyped, OooTypeOK
  <2>2. \A t \in Tags : t # rob_tail => rob'[t] = rob[t] /\ eff'[t] = eff[t]
    BY <2>1 DEF Enter
  <2>3. rob'[rob_tail].valid /\ rob'[rob_tail].ready = complete /\ rob'[rob_tail].dest = DestOf(Fetched)
    BY <2>1 DEF Enter, RobEntry
  <2>4. eff'[rob_tail].pc = fetch_pc
    BY <2>1 DEF Enter
  <2> QED BY <2>2, <2>3, <2>4
<1>3. \A t \in Tags : Age(t)' = Age(t)
  BY <1>1 DEF Age
<1>4. ASSUME NEW t \in Tags PROVE InFlight(t)' <=> InFlight(t) \/ t = rob_tail
  <2>1. Age(t) \in Int /\ (Age(t) = Age(rob_tail) => t = rob_tail)
    BY Ages, Counters
  <2>2. Age(rob_tail) = rob_count
    BY <1>1, TailIsFree
  <2> QED BY <1>1, <1>3, <2>1, <2>2, Counters DEF InFlight
<1>5. rob_tail' = IF rob_head' + rob_count' < ROB_SZ
                  THEN rob_head' + rob_count' ELSE rob_head' + rob_count' - ROB_SZ
  BY <1>1, Counters DEF RobWindow, Inc
<1>6. \A t \in Tags : rob'[t].valid <=> InFlight(t)'
  BY <1>2, <1>4 DEF RobWindow
<1> QED BY <1>2, <1>3, <1>4, <1>5, <1>6 DEF RobWindow

-----------------------------------------------------------------------------
(* Three ways to change the pipeline.                                      *)

\* The head retires and gives up its mapping.
LEMMA RetireKeeps == ASSUME PipeCore, Commit PROVE PipelineInv'
<1>0. /\ WellTyped /\ RobWindow /\ StationsOwn /\ RatNamesYoungestWriter /\ SilentHaveNoDest
      /\ WaitsForWriter /\ rob_head \in Tags /\ rs' = rs /\ prog' = prog /\ eff' = eff
  BY Counters DEF PipeCore, PipelineInv, Commit
<1>1. /\ RobWindow'
      /\ \A t \in Tags : InFlight(t)' <=> InFlight(t) /\ t # rob_head
      /\ \A t \in Tags : InFlight(t) /\ t # rob_head => Age(t)' = Age(t) - 1
      /\ \A t \in Tags : t # rob_head => rob'[t] = rob[t]
  BY <1>0, RetireWindow DEF Commit
<1>2. rob[rob_head].ready /\ HeadEntry = rob[rob_head] /\ InFlight(rob_head)
  BY <1>0, HeadInFlight DEF Commit, HeadReady, HeadEntry
<1>3. /\ \A u \in Units : rs[u].rob_tag \in Tags /\ \A k \in 1 .. 3 : rs[u].src[k].tag \in Tags
      /\ \A r \in Regs : rat[r] \in RatEntry /\ rat[r].tag \in Tags
  BY <1>0, Counters
<1>4. \A u \in Units : rs[u].busy => rs[u].rob_tag # rob_head
  BY <1>0, <1>2 DEF StationsOwn
<1>5. StationsOwn'
  BY <1>0, <1>1, <1>3, <1>4 DEF StationsOwn
<1>6. SilentHaveNoDest'
  <2>1. \A u \in Units : SilentUnit(u)' <=> SilentUnit(u)
    BY <1>0 DEF SilentUnit, InsOf
  <2> QED BY <1>0, <1>1, <1>3, <1>4, <2>1 DEF SilentHaveNoDest
<1>7. WaitsForWriter'
  <2> SUFFICES ASSUME NEW u \in Units, Listens(u), NEW k \in 1 .. 3, ~rs[u].src[k].ready
               PROVE  LET t == rs[u].src[k].tag
                      IN InFlight(t)' /\ Age(t)' < Age(rs[u].rob_tag)' /\ ~rob'[t].ready
                         /\ rob'[t].dest # X0
    BY <1>0 DEF WaitsForWriter, Listens, VecIns, InsOf
  <2>1. PICK t \in Tags, v \in Tags : t = rs[u].src[k].tag /\ v = rs[u].rob_tag
    BY <1>3
  <2>2. InFlight(t) /\ Age(t) < Age(v) /\ ~rob[t].ready /\ rob[t].dest # X0 /\ rs[u].busy
    BY <1>0, <2>1 DEF WaitsForWriter, Listens
  <2>3. t # rob_head /\ v # rob_head /\ InFlight(v)
    BY <1>0, <1>2, <1>4, <2>1, <2>2 DEF StationsOwn
  <2>4. Age(t) \in Int /\ Age(v) \in Int
    BY <1>0, Ages, Counters
  <2>5. Age(t)' = Age(t) - 1 /\ Age(v)' = Age(v) - 1
    BY <1>1, <2>2, <2>3
  <2>6. Age(t)' < Age(v)'
    BY <2>2, <2>4, <2>5
  <2>7. InFlight(t)' /\ rob'[t] = rob[t]
    BY <1>1, <2>2, <2>3
  <2> QED BY <1>0, <2>1, <2>2, <2>6, <2>7 DEF InFlight, Age
<1>8. RatNamesYoungestWriter'
  <2> SUFFICES ASSUME NEW r \in Regs
               PROVE  /\ rat'[r].has_tag => /\ r # X0 /\ InFlight(rat[r].tag)'
                                            /\ rob'[rat'[r].tag].dest = r
                      /\ r # X0 => \A t \in Tags : InFlight(t)' /\ rob'[t].dest = r =>
                           rat'[r].has_tag /\ Age(t)' <= Age(rat[r].tag)'
    BY DEF RatNamesYoungestWriter
  <2>1. PICK w \in Tags : w = rat[r].tag
    BY <1>3
  <2>2. /\ rat[r].has_tag => r # X0 /\ InFlight(w) /\ rob[w].dest = r
        /\ r # X0 => \A t \in Tags : InFlight(t) /\ rob[t].dest = r =>
                       rat[r].has_tag /\ Age(t) <= Age(w)
    BY <1>0, <2>1 DEF RatNamesYoungestWriter
  <2>3. rat'[r].tag = w /\ (rat'[r].has_tag <=> rat[r].has_tag /\ ~(w = rob_head /\ r = HeadEntry.dest))
    <3>1. rat[r] \in RatEntry /\ rat \in [Regs -> RatEntry] /\ HeadEntry.dest \in Regs
          /\ rat[HeadEntry.dest] \in RatEntry /\ rat' = Unmapped
      BY <1>0, <1>3, HeadTyped DEF WellTyped, OooTypeOK, Commit
    <3>2. CASE r = HeadEntry.dest /\ HeadEntry.dest # X0
               /\ rat[HeadEntry.dest] = [has_tag |-> TRUE, tag |-> rob_head]
      <4>1. rat'[r] = [rat[r] EXCEPT !.has_tag = FALSE]
        BY <3>1, <3>2 DEF Unmapped
      <4> QED BY <2>1, <3>1, <3>2, <4>1 DEF RatEntry
    <3>3. CASE ~(r = HeadEntry.dest /\ HeadEntry.dest # X0
                 /\ rat[HeadEntry.dest] = [has_tag |-> TRUE, tag |-> rob_head])
      <4>1. rat'[r] = rat[r]
        BY <3>1, <3>3 DEF Unmapped
      <4>2. w = rob_head /\ r = HeadEntry.dest => ~rat[r].has_tag
        <5>1. ASSUME w = rob_head, r = HeadEntry.dest, rat[r].has_tag PROVE FALSE
          <6>1. r # X0
            BY <2>2, <5>1
          <6>2. rat[r] = [has_tag |-> TRUE, tag |-> rob_head]
            BY <2>1, <3>1, <5>1 DEF RatEntry
          <6> QED BY <3>3, <5>1, <6>1, <6>2
        <5> QED BY <5>1
      <4> QED BY <2>1, <4>1, <4>2
    <3> QED BY <3>2, <3>3
  <2>4. rat'[r].has_tag => r # X0 /\ InFlight(w)' /\ rob'[w].dest = r
    <3>1. ASSUME rat'[r].has_tag PROVE r # X0 /\ InFlight(w) /\ w # rob_head /\ rob[w].dest = r
      BY <1>2, <2>2, <2>3, <3>1
    <3> QED BY <1>1, <3>1
  <2>5. ASSUME r # X0, NEW t \in Tags, InFlight(t)', rob'[t].dest = r
        PROVE  rat'[r].has_tag /\ Age(t)' <= Age(w)'
    <3>1. InFlight(t) /\ t # rob_head /\ rob[t].dest = r
      BY <1>1, <2>5
    <3>2. rat[r].has_tag /\ Age(t) <= Age(w) /\ InFlight(w)
      BY <2>2, <2>5, <3>1
    <3>3. Age(t) \in Nat /\ Age(w) \in Nat /\ Age(t) # 0 /\ (w = rob_head => Age(w) = 0)
      BY <1>0, <3>1, Ages, Counters
    <3>4. w # rob_head
      BY <3>2, <3>3
    <3>5. Age(t)' = Age(t) - 1 /\ Age(w)' = Age(w) - 1
      BY <1>1, <3>1, <3>2, <3>4
    <3>6. Age(t) - 1 <= Age(w) - 1
      BY <3>2, <3>3
    <3> QED BY <2>3, <3>2, <3>4, <3>5, <3>6
  <2>6. Age(rat[r].tag)' = Age(w)' /\ (InFlight(rat[r].tag)' <=> InFlight(w)')
    BY <2>3 DEF Age, InFlight
  <2> QED BY <2>3, <2>4, <2>5, <2>6
<1> QED BY <1>1, <1>5, <1>6, <1>7, <1>8 DEF PipelineInv

\* Units complete their entries.
LEMMA CompleteKeeps == ASSUME PipeCore, NEW S, NEW D, Completes(S, D) PROVE PipelineInv'
<1>0. /\ WellTyped /\ RobWindow /\ StationsOwn /\ RatNamesYoungestWriter /\ SilentHaveNoDest
      /\ WaitsForWriter /\ prog' = prog /\ rat' = rat
      /\ rob_head' = rob_head /\ rob_tail' = rob_tail /\ rob_count' = rob_count
  BY DEF PipeCore, PipelineInv, Completes
<1>1. /\ \A t \in Tags : /\ rob'[t].valid = rob[t].valid /\ rob'[t].dest = rob[t].dest
                         /\ rob'[t].ready <=> rob[t].ready \/ \E u \in S \cup D : rs[u].rob_tag = t
                         /\ eff'[t].pc = eff[t].pc
      /\ \A u \in S \cup D : u \in Units /\ rs[u].busy
      /\ \A u \in D : SilentUnit(u)
      /\ \A u \in Units : /\ rs'[u].busy <=> rs[u].busy /\ u \notin S \cup D
                          /\ rs'[u].rob_tag = rs[u].rob_tag /\ rs'[u].pc = rs[u].pc
      /\ \A u \in Units : rs'[u].busy =>
           \A k \in 1 .. 3 : ~rs'[u].src[k].ready =>
             /\ ~rs[u].src[k].ready /\ rs'[u].src[k].tag = rs[u].src[k].tag
             /\ \A w \in S : rs[w].rob_tag # rs[u].src[k].tag
  BY DEF Completes
<1>2. \A t \in Tags : (InFlight(t)' <=> InFlight(t)) /\ Age(t)' = Age(t)
  BY <1>0 DEF InFlight, Age
<1>3. RobWindow'
  BY <1>0, <1>1, <1>2 DEF RobWindow
<1>4. /\ \A u \in Units : rs[u].rob_tag \in Tags /\ \A k \in 1 .. 3 : rs[u].src[k].tag \in Tags
      /\ \A r \in Regs : rat[r].tag \in Tags
  BY <1>0, Counters
<1>5. StationsOwn'
  <2> SUFFICES ASSUME NEW u \in Units, rs'[u].busy
               PROVE  /\ InFlight(rs[u].rob_tag)' /\ ~rob'[rs'[u].rob_tag].ready
                      /\ eff'[rs'[u].rob_tag].pc = rs'[u].pc
                      /\ \A w \in Units \ {u} : rs'[w].busy => rs'[w].rob_tag # rs'[u].rob_tag
    BY DEF StationsOwn
  <2>1. PICK t \in Tags : t = rs[u].rob_tag /\ t = rs'[u].rob_tag
    BY <1>1, <1>4
  <2>2. /\ rs[u].busy /\ u \notin S \cup D /\ InFlight(t) /\ ~rob[t].ready /\ eff[t].pc = rs[u].pc
        /\ \A w \in Units \ {u} : rs[w].busy => rs[w].rob_tag # t
    BY <1>0, <1>1, <2>1 DEF StationsOwn
  <2>3. ~rob'[t].ready /\ eff'[t].pc = rs'[u].pc
    BY <1>1, <2>2
  <2>4. InFlight(rs[u].rob_tag)'
    BY <1>2, <2>1, <2>2 DEF InFlight, Age
  <2> QED BY <1>1, <2>1, <2>2, <2>3, <2>4
<1>6. SilentHaveNoDest'
  <2>1. \A u \in Units : SilentUnit(u)' <=> SilentUnit(u)
    BY <1>0, <1>1 DEF SilentUnit, InsOf
  <2> QED BY <1>0, <1>1, <1>4, <2>1 DEF SilentHaveNoDest
<1>7. WaitsForWriter'
  <2> SUFFICES ASSUME NEW u \in Units, Listens(u)', NEW k \in 1 .. 3, ~rs'[u].src[k].ready
               PROVE  LET t == rs'[u].src[k].tag
                      IN InFlight(rs[u].src[k].tag)' /\ Age(rs[u].src[k].tag)' < Age(rs[u].rob_tag)'
                         /\ ~rob'[t].ready /\ rob'[t].dest # X0
    BY DEF WaitsForWriter
  <2>1. PICK t \in Tags, v \in Tags : /\ t = rs[u].src[k].tag /\ t = rs'[u].src[k].tag
                                      /\ v = rs[u].rob_tag /\ v = rs'[u].rob_tag
    BY <1>1, <1>4 DEF Listens
  <2>2. Listens(u) /\ rs'[u].busy
    BY <1>0, <1>1 DEF Listens, VecIns, InsOf, Units
  <2>3. InFlight(t) /\ Age(t) < Age(v) /\ ~rob[t].ready /\ rob[t].dest # X0
        /\ \A w \in S : rs[w].rob_tag # t
    BY <1>0, <1>1, <2>1, <2>2 DEF WaitsForWriter
  <2>4. \A w \in D : rs[w].rob_tag # t
    BY <1>0, <1>1, <2>3 DEF SilentHaveNoDest
  <2>5. ~rob'[t].ready /\ rob'[t].dest # X0
    BY <1>1, <2>3, <2>4
  <2>6. InFlight(t)' /\ Age(t)' < Age(v)'
    BY <1>2, <2>3
  <2> QED BY <2>1, <2>5, <2>6 DEF InFlight, Age
<1>8. RatNamesYoungestWriter'
  <2> SUFFICES ASSUME NEW r \in Regs
               PROVE  /\ rat[r].has_tag => /\ r # X0 /\ InFlight(rat[r].tag)'
                                           /\ rob'[rat[r].tag].dest = r
                      /\ r # X0 => \A t \in Tags : InFlight(t)' /\ rob'[t].dest = r =>
                           rat[r].has_tag /\ Age(t)' <= Age(rat[r].tag)'
    BY <1>0 DEF RatNamesYoungestWriter
  <2>1. PICK w \in Tags : w = rat[r].tag /\ w = rat'[r].tag
    BY <1>0, <1>4
  <2>2. /\ rat[r].has_tag => r # X0 /\ InFlight(w) /\ rob[w].dest = r
        /\ r # X0 => \A t \in Tags : InFlight(t) /\ rob[t].dest = r =>
                       rat[r].has_tag /\ Age(t) <= Age(w)
    BY <1>0, <2>1 DEF RatNamesYoungestWriter
  <2>3. rat[r].has_tag => InFlight(w)' /\ rob'[w].dest = r
    BY <1>1, <1>2, <2>2
  <2>4. r # X0 => \A t \in Tags : InFlight(t)' /\ rob'[t].dest = r =>
                    rat[r].has_tag /\ Age(t)' <= Age(w)'
    BY <1>1, <1>2, <2>2
  <2> QED BY <2>1, <2>2, <2>3, <2>4 DEF InFlight, Age
<1> QED BY <1>3, <1>5, <1>6, <1>7, <1>8 DEF PipelineInv

\* An instruction enters.
LEMMA EnterKeeps ==
  ASSUME PipeCore, MayFetch, NEW complete \in BOOLEAN, NEW v, Enter(complete, v), prog' = prog,
         StationsAdmit(complete)
  PROVE  PipelineInv'
<1>0. /\ WellTyped /\ RobWindow /\ StationsOwn /\ RatNamesYoungestWriter /\ SilentHaveNoDest
      /\ WaitsForWriter /\ rob_count < ROB_SZ /\ rob_tail \in Tags
  BY Counters DEF PipeCore, PipelineInv, MayFetch
<1>1. /\ RobWindow'
      /\ \A t \in Tags : InFlight(t)' <=> InFlight(t) \/ t = rob_tail
      /\ \A t \in Tags : Age(t)' = Age(t)
      /\ \A t \in Tags : t # rob_tail => rob'[t] = rob[t] /\ eff'[t] = eff[t]
      /\ rob'[rob_tail].ready = complete
      /\ rob'[rob_tail].dest = DestOf(Fetched) /\ eff'[rob_tail].pc = fetch_pc
  BY <1>0, EnterWindow
<1>2. /\ \A u \in Units : rs[u].rob_tag \in Tags /\ \A k \in 1 .. 3 : rs[u].src[k].tag \in Tags
      /\ \A r \in Regs : rat[r] \in RatEntry /\ rat[r].tag \in Tags
  BY <1>0, Counters
<1>3. \A t \in Tags : InFlight(t) => t # rob_tail /\ Age(t) < Age(rob_tail)
  BY <1>0, TailIsFree DEF InFlight
<1>4. /\ \A u \in Units : rs[u].busy => rs'[u] = rs[u]
      /\ \A u \in Units : rs'[u].busy => rs[u].busy \/ (Joins(u) /\ ~complete)
      /\ \A u, w \in Units : Joins(u) /\ Joins(w) => u = w
  BY DEF StationsAdmit
<1>5. \A u \in Units : rs[u].busy => rs[u].rob_tag # rob_tail
  BY <1>0, <1>2, <1>3 DEF StationsOwn
<1>6. StationsOwn'
  <2>1. ASSUME NEW u \in Units, rs'[u].busy
        PROVE  \E t \in Tags : /\ t = rs'[u].rob_tag /\ InFlight(t)' /\ ~rob'[t].ready
                               /\ eff'[t].pc = rs'[u].pc
                               /\ \A w \in Units \ {u} : rs'[w].busy => rs'[w].rob_tag # t
    <3>1. CASE rs[u].busy
      <4>1. PICK t \in Tags : t = rs[u].rob_tag
        BY <1>2
      <4>2. /\ InFlight(t) /\ ~rob[t].ready /\ eff[t].pc = rs[u].pc
            /\ \A w \in Units \ {u} : rs[w].busy => rs[w].rob_tag # t
        BY <1>0, <3>1, <4>1 DEF StationsOwn
      <4>3. t # rob_tail /\ rs'[u] = rs[u] /\ rob'[t] = rob[t] /\ eff'[t] = eff[t]
        BY <1>1, <1>4, <1>5, <3>1, <4>1
      <4>4. \A w \in Units \ {u} : rs'[w].busy => rs'[w].rob_tag # t
        BY <1>4, <4>2, <4>3 DEF Joins
      <4> QED BY <1>1, <4>1, <4>2, <4>3, <4>4
    <3>2. CASE ~rs[u].busy
      <4>1. Joins(u) /\ ~complete
        BY <1>4, <2>1, <3>2
      <4>2. \A w \in Units \ {u} : rs'[w].busy => rs[w].busy /\ rs'[w] = rs[w]
        BY <1>4, <4>1
      <4> QED BY <1>0, <1>1, <1>5, <4>1, <4>2 DEF Joins
    <3> QED BY <3>1, <3>2
  <2> QED BY <2>1 DEF StationsOwn, InFlight, Age
<1>7. SilentHaveNoDest'
  <2> SUFFICES ASSUME NEW u \in Units, rs'[u].busy, SilentUnit(u)'
               PROVE  rob'[rs'[u].rob_tag].dest = X0
    BY DEF SilentHaveNoDest
  <2>1. CASE rs[u].busy
    <3>1. rs'[u] = rs[u] /\ SilentUnit(u)
      BY <1>4, <2>1 DEF SilentUnit, InsOf
    <3> QED BY <1>0, <1>1, <1>2, <1>5, <2>1, <3>1 DEF SilentHaveNoDest
  <2>2. CASE ~rs[u].busy
    <3>1. Joins(u)
      BY <1>4, <2>2
    <3>2. u = "vec" \/ (u = "lsu" /\ Fetched.op \notin LoadOps)
      BY <3>1 DEF Joins, SilentUnit, InsOf, Fetched
    <3> QED BY <1>1, <3>1, <3>2 DEF Joins
  <2> QED BY <2>1, <2>2
<1>8. ASSUME NEW u \in Units, Listens(u)', NEW k \in 1 .. 3, ~rs'[u].src[k].ready
      PROVE  \E t \in Tags, w \in Tags :
               /\ t = rs'[u].src[k].tag /\ w = rs'[u].rob_tag
               /\ InFlight(t) /\ ~rob[t].ready /\ rob[t].dest # X0 /\ Age(t) < Age(w)
  <2>0. rs'[u].busy
    BY <1>8 DEF Listens
  <2>1. CASE rs[u].busy
    <3>1. rs'[u] = rs[u]
      BY <1>4, <2>1
    <3>2. PICK t \in Tags, w \in Tags : t = rs[u].src[k].tag /\ w = rs[u].rob_tag
      BY <1>2
    <3>3. Listens(u)
      BY <1>8, <2>1, <3>1 DEF Listens, VecIns, InsOf
    <3>4. InFlight(t) /\ ~rob[t].ready /\ Age(t) < Age(w) /\ rob[t].dest # X0
      BY <1>0, <1>8, <3>1, <3>2, <3>3 DEF WaitsForWriter
    <3> QED BY <3>1, <3>2, <3>4
  <2>2. CASE ~rs[u].busy
    <3>1. Joins(u)
      BY <1>4, <2>0, <2>2
    <3>2. u = "vec" => Fetched.op \in VMemOps
      BY <1>8, <3>1 DEF Joins, Listens, VecIns, InsOf, Fetched
    <3> QED BY <1>0, <1>3, <1>8, <3>1, <3>2 DEF Joins
  <2> QED BY <2>1, <2>2
<1>9. WaitsForWriter'
  <2> SUFFICES ASSUME NEW u \in Units, Listens(u)', NEW k \in 1 .. 3, ~rs'[u].src[k].ready
               PROVE  \E t \in Tags, w \in Tags :
                        /\ t = rs'[u].src[k].tag /\ w = rs'[u].rob_tag
                        /\ InFlight(t)' /\ ~rob'[t].ready /\ rob'[t].dest # X0 /\ Age(t)' < Age(w)'
    BY DEF WaitsForWriter, InFlight, Age
  <2>1. PICK t \in Tags, w \in Tags :
               /\ t = rs'[u].src[k].tag /\ w = rs'[u].rob_tag
               /\ InFlight(t) /\ ~rob[t].ready /\ rob[t].dest # X0 /\ Age(t) < Age(w)
    BY <1>8
  <2> QED BY <1>1, <1>3, <2>1
<1>10. RatNamesYoungestWriter'
  <2> SUFFICES ASSUME NEW r \in Regs
               PROVE  \E w \in Tags :
                      /\ w = rat'[r].tag
                      /\ rat'[r].has_tag => r # X0 /\ InFlight(w)' /\ rob'[w].dest = r
                      /\ r # X0 => \A t \in Tags : InFlight(t)' /\ rob'[t].dest = r =>
                           rat'[r].has_tag /\ Age(t)' <= Age(w)'
    BY DEF RatNamesYoungestWriter, InFlight, Age
  <2>0. rat \in [Regs -> RatEntry] /\ DestOf(Fetched) \in Regs
    BY <1>0, DestTyped DEF WellTyped, OooTypeOK
  <2>1. CASE r # X0 /\ r = DestOf(Fetched)
    <3>1. rat'[r] = [has_tag |-> TRUE, tag |-> rob_tail]
      BY <2>0, <2>1 DEF Enter
    <3>2. rat'[r].has_tag /\ rat'[r].tag = rob_tail
      BY <3>1
    <3>3. ASSUME NEW t \in Tags, InFlight(t)' PROVE Age(t)' <= Age(rob_tail)
      <4>1. Age(t) \in Int /\ Age(rob_tail) \in Int
        BY <1>0, Ages
      <4> QED BY <1>1, <1>3, <3>3, <4>1
    <3>4. PICK w \in Tags : w = rob_tail
      BY <1>0
    <3>5. \A t \in Tags : InFlight(t)' => Age(t)' <= Age(w)'
      BY <1>1, <3>3, <3>4
    <3>6. InFlight(w)' /\ rob'[w].dest = r
      BY <1>1, <2>1, <3>4
    <3> QED BY <2>1, <3>2, <3>4, <3>5, <3>6
  <2>2. CASE ~(r # X0 /\ r = DestOf(Fetched))
    <3>1. rat'[r] = rat[r]
      BY <2>0, <2>2 DEF Enter
    <3>2. PICK w \in Tags : w = rat[r].tag
      BY <1>2
    <3>3. /\ rat[r].has_tag => r # X0 /\ InFlight(w) /\ rob[w].dest = r
          /\ r # X0 => \A t \in Tags : InFlight(t) /\ rob[t].dest = r =>
                         rat[r].has_tag /\ Age(t) <= Age(w)
      BY <1>0, <3>2 DEF RatNamesYoungestWriter
    <3>4. rat[r].has_tag => r # X0 /\ InFlight(w)' /\ rob'[w].dest = r
      BY <1>1, <1>3, <3>3
    <3>5. ASSUME r # X0, NEW t \in Tags, InFlight(t)', rob'[t].dest = r
          PROVE  rat[r].has_tag /\ Age(t)' <= Age(w)'
      <4>1. InFlight(t) /\ rob[t].dest = r
        BY <1>1, <2>2, <3>5
      <4> QED BY <1>1, <3>3, <3>5, <4>1
    <3> QED BY <3>1, <3>2, <3>4, <3>5
  <2> QED BY <2>1, <2>2
<1> QED BY <1>1, <1>6, <1>7, <1>9, <1>10 DEF PipelineInv

-----------------------------------------------------------------------------
(* Each step is one of the three.                                          *)

\* A step that only counts, fills in an entry or does nothing.
LEMMA QuietKeeps ==
  ASSUME PipeCore, UNCHANGED <<prog, rat, rob_head, rob_tail, rob_count, eff>>,
         \A t \in Tags : /\ rob'[t].valid = rob[t].valid /\ rob'[t].dest = rob[t].dest
                         /\ rob'[t].ready = rob[t].ready,
         \A u \in Units : /\ rs'[u].busy = rs[u].busy /\ rs'[u].rob_tag = rs[u].rob_tag
                          /\ rs'[u].pc = rs[u].pc /\ rs'[u].src = rs[u].src
  PROVE  PipelineInv'
<1>0. \A t \in Tags : rob[t].ready \in BOOLEAN /\ rob'[t].ready \in BOOLEAN
  BY Counters DEF PipeCore, RobEntry
<1>1. Completes({}, {})
  BY <1>0, StationTyped DEF Completes, PipeCore
<1> QED BY <1>1, CompleteKeeps

\* What a station is after a broadcast: what still waits did not hear it.
LEMMA BroadcastHeard ==
  ASSUME WellTyped, NEW S, NEW res \in [S -> Word], NEW u \in Units
  PROVE  LET h == cdb_broadcast(res)[u] IN
         /\ h \in Station /\ h.busy = rs[u].busy /\ h.rob_tag = rs[u].rob_tag /\ h.pc = rs[u].pc
         /\ rs[u].busy => \A k \in 1 .. 3 : ~h.src[k].ready =>
              ~rs[u].src[k].ready /\ h.src[k].tag = rs[u].src[k].tag /\ rs[u].src[k].tag \notin S
<1> DEFINE h == cdb_broadcast(res)[u]
<1>1. /\ h \in Station /\ h.busy = rs[u].busy /\ h.rob_tag = rs[u].rob_tag /\ h.pc = rs[u].pc
      /\ h.src = IF rs[u].busy THEN [k \in 1 .. 3 |-> Hear(rs[u].src[k], res)] ELSE rs[u].src
  BY BroadcastTyped
<1>2. DOMAIN res = S /\ rs[u].src \in [1 .. 3 -> Operand]
  BY StationTyped
<1> HIDE DEF h
<1>3. ASSUME rs[u].busy, NEW k \in 1 .. 3, ~h.src[k].ready
      PROVE  ~rs[u].src[k].ready /\ h.src[k].tag = rs[u].src[k].tag /\ rs[u].src[k].tag \notin S
  <2>1. h.src[k] = Hear(rs[u].src[k], res)
    BY <1>1, <1>3
  <2>2. h.src[k] = rs[u].src[k] \/ h.src[k].ready
    BY <2>1 DEF Hear, Ready
  <2>3. h.src[k] = rs[u].src[k]
    BY <1>3, <2>2
  <2>4. rs[u].src[k].tag \notin S
    <3>1. ASSUME rs[u].src[k].tag \in S PROVE FALSE
      <4>1. h.src[k] = Ready(res[rs[u].src[k].tag])
        BY <1>2, <1>3, <2>1, <2>3, <3>1 DEF Hear
      <4> QED BY <1>3, <4>1 DEF Ready
    <3> QED BY <3>1
  <2> QED BY <1>3, <2>3, <2>4
<1> QED BY <1>1, <1>3 DEF h

LEMMA ExecuteKeeps == ASSUME PipeCore, Execute PROVE PipelineInv'
<1>0. WellTyped /\ rob \in [Tags -> RobEntry]
  BY DEF PipeCore, WellTyped, OooTypeOK
<1>1. \A u \in Done : u \in Units /\ u \in Timed /\ rs[u].busy
  BY DEF Done, Units
<1>2. DOMAIN Results = {rs[u].rob_tag : u \in Done} /\ Results \in [DOMAIN Results -> Word]
  BY <1>0, ResultsTyped
<1>3. ASSUME NEW t \in Tags
      PROVE  /\ rob'[t].valid = rob[t].valid /\ rob'[t].dest = rob[t].dest
             /\ rob'[t].ready <=> rob[t].ready \/ \E u \in Done : rs[u].rob_tag = t
  <2>1. rob[t] \in RobEntry
    BY <1>0
  <2>2. CASE t \in DOMAIN Results
    <3>1. rob'[t] = [rob[t] EXCEPT !.value = Results[t], !.ready = TRUE]
      BY <2>2 DEF Execute
    <3> QED BY <1>2, <2>1, <2>2, <3>1 DEF RobEntry
  <2>3. CASE t \notin DOMAIN Results
    <3>1. rob'[t] = rob[t]
      BY <2>3 DEF Execute
    <3> QED BY <1>2, <2>3, <3>1
  <2> QED BY <2>2, <2>3
<1>4. ASSUME NEW u \in Units
      PROVE  /\ rs'[u].busy <=> rs[u].busy /\ u \notin Done
             /\ rs'[u].rob_tag = rs[u].rob_tag /\ rs'[u].pc = rs[u].pc
             /\ rs[u].busy => \A k \in 1 .. 3 : ~rs'[u].src[k].ready =>
                  ~rs[u].src[k].ready /\ rs'[u].src[k].tag = rs[u].src[k].tag
                  /\ rs[u].src[k].tag \notin DOMAIN Results
  <2> DEFINE h == cdb_broadcast(Results)[u]
  <2>1. /\ h \in Station /\ h.busy = rs[u].busy /\ h.rob_tag = rs[u].rob_tag /\ h.pc = rs[u].pc
        /\ rs[u].busy => \A k \in 1 .. 3 : ~h.src[k].ready =>
             ~rs[u].src[k].ready /\ h.src[k].tag = rs[u].src[k].tag
             /\ rs[u].src[k].tag \notin DOMAIN Results
    BY <1>0, <1>2, BroadcastHeard
  <2>2. rs'[u] = IF u \in Done
                 THEN [h EXCEPT !.busy = FALSE, !.executing = FALSE, !.remaining = 0]
                 ELSE IF u \in Timed /\ h.busy /\ h.executing
                 THEN [h EXCEPT !.remaining = h.remaining - 1]
                 ELSE h
    BY DEF Execute
  <2> HIDE DEF h
  <2>3. /\ rs'[u].rob_tag = h.rob_tag /\ rs'[u].pc = h.pc /\ rs'[u].src = h.src
        /\ u \in Done => ~rs'[u].busy
        /\ u \notin Done => rs'[u].busy = h.busy
    BY <2>1, <2>2 DEF Station
  <2> QED BY <2>1, <2>3
<1>5. Completes(Done, {})
  <2>1. UNCHANGED <<prog, rat, rob_head, rob_tail, rob_count, eff>>
    BY DEF Execute
  <2>2. ASSUME NEW u \in Units, rs'[u].busy, NEW k \in 1 .. 3, ~rs'[u].src[k].ready
        PROVE  /\ ~rs[u].src[k].ready /\ rs'[u].src[k].tag = rs[u].src[k].tag
               /\ \A w \in Done : rs[w].rob_tag # rs[u].src[k].tag
    BY <1>2, <1>4, <2>2
  <2> QED BY <1>1, <1>3, <1>4, <2>1, <2>2 DEF Completes
<1> QED BY <1>5, CompleteKeeps

\* One unit answers, and everybody hears it.
LEMMA AnswerKeeps ==
  ASSUME PipeCore, NEW w \in Units, rs[w].busy, NEW v \in Word, Answer(w, v),
         UNCHANGED <<prog, rat, rob_head, rob_tail, rob_count, eff>>
  PROVE  PipelineInv'
<1> DEFINE tag == rs[w].rob_tag
           res == [t \in {tag} |-> v]
           heard == cdb_broadcast(res)
<1>0. WellTyped /\ rob \in [Tags -> RobEntry] /\ tag \in Tags
  BY StationTyped DEF PipeCore, WellTyped, OooTypeOK
<1>1. res \in [{tag} -> Word]
  OBVIOUS
<1>2. heard \in [Units -> Station]
  BY <1>0, <1>1, BroadcastTyped
<1>3. ASSUME NEW u \in Units
      PROVE  /\ heard[u] \in Station /\ heard[u].busy = rs[u].busy
             /\ heard[u].rob_tag = rs[u].rob_tag /\ heard[u].pc = rs[u].pc
             /\ rs[u].busy => \A k \in 1 .. 3 : ~heard[u].src[k].ready =>
                  ~rs[u].src[k].ready /\ heard[u].src[k].tag = rs[u].src[k].tag
                  /\ rs[u].src[k].tag \notin {tag}
  BY <1>0, <1>1, BroadcastHeard
<1>4. rs' = [heard EXCEPT ![w].busy = FALSE] /\ rob' = [rob EXCEPT ![tag].value = v, ![tag].ready = TRUE]
  BY DEF Answer
<1> HIDE DEF heard, res
<1>5. ASSUME NEW u \in Units
      PROVE  /\ rs'[u].busy <=> rs[u].busy /\ u \notin {w}
             /\ rs'[u].rob_tag = rs[u].rob_tag /\ rs'[u].pc = rs[u].pc
             /\ rs'[u].src = heard[u].src
  <2>1. CASE u = w
    <3>1. rs'[u] = [heard[u] EXCEPT !.busy = FALSE]
      BY <1>2, <1>4, <2>1
    <3> QED BY <1>3, <2>1, <3>1 DEF Station
  <2>2. CASE u # w
    <3>1. rs'[u] = heard[u]
      BY <1>2, <1>4, <2>2
    <3> QED BY <1>3, <2>2, <3>1
  <2> QED BY <2>1, <2>2
<1>6. ASSUME NEW t \in Tags
      PROVE  /\ rob'[t].valid = rob[t].valid /\ rob'[t].dest = rob[t].dest
             /\ rob'[t].ready <=> rob[t].ready \/ \E u \in {w} : rs[u].rob_tag = t
  <2>1. rob[t] \in RobEntry
    BY <1>0
  <2>2. CASE t = tag
    <3>1. rob'[t] = [rob[t] EXCEPT !.value = v, !.ready = TRUE]
      BY <1>0, <1>4, <2>1, <2>2 DEF RobEntry
    <3> QED BY <2>1, <2>2, <3>1 DEF RobEntry
  <2>3. CASE t # tag
    <3>1. rob'[t] = rob[t]
      BY <1>0, <1>4, <2>3
    <3> QED BY <2>3, <3>1
  <2> QED BY <2>2, <2>3
<1>7. ASSUME NEW u \in Units, rs'[u].busy, NEW k \in 1 .. 3, ~rs'[u].src[k].ready
      PROVE  /\ ~rs[u].src[k].ready /\ rs'[u].src[k].tag = rs[u].src[k].tag
             /\ \A x \in {w} : rs[x].rob_tag # rs[u].src[k].tag
  BY <1>3, <1>5, <1>7
<1>8. Completes({w}, {})
  BY <1>5, <1>6, <1>7 DEF Completes
<1> QED BY <1>8, CompleteKeeps

\* One unit completes without a broadcast.
LEMMA SilentKeeps ==
  ASSUME PipeCore, NEW w \in Units, rs[w].busy, SilentUnit(w),
         UNCHANGED <<prog, rat, rob_head, rob_tail, rob_count>>,
         \A t \in Tags : /\ rob'[t].valid = rob[t].valid /\ rob'[t].dest = rob[t].dest
                         /\ rob'[t].ready <=> rob[t].ready \/ rs[w].rob_tag = t
                         /\ eff'[t].pc = eff[t].pc,
         ~rs'[w].busy, rs'[w].rob_tag = rs[w].rob_tag, rs'[w].pc = rs[w].pc,
         \A u \in Units \ {w} : rs'[u] = rs[u]
  PROVE  PipelineInv'
<1>1. \A u \in Units : /\ rs'[u].busy <=> rs[u].busy /\ u \notin {w}
                       /\ rs'[u].rob_tag = rs[u].rob_tag /\ rs'[u].pc = rs[u].pc
  OBVIOUS
<1>2. Completes({}, {w})
  BY <1>1 DEF Completes
<1> QED BY <1>2, CompleteKeeps

LEMMA LsuKeeps == ASSUME PipeCore, LsuStore \/ LsuLoad \/ LsuIdle PROVE PipelineInv'
<1>0. WellTyped /\ rob \in [Tags -> RobEntry] /\ rs \in [Units -> Station] /\ "lsu" \in Units
      /\ rs["lsu"] \in Station /\ rs["lsu"].rob_tag \in Tags
  BY StationTyped DEF PipeCore, WellTyped, OooTypeOK, Units
<1>1. CASE LsuIdle
  BY <1>1, QuietKeeps DEF LsuIdle, LsuRest
<1>2. CASE LsuLoad
  <2>1. LsuAddr \in Word
    <3>1. Val("lsu", 1) \in Word /\ InsOf("lsu").imm \in Word
      BY <1>0, StationTyped, CodeTyped DEF OooInstr
    <3> QED BY <3>1, PlusIsWord DEF LsuAddr
  <2>2. dmem[MemIndex(LsuAddr)] \in Word
    BY <1>0, <2>1, MemIndexTyped DEF WellTyped, OooTypeOK
  <2> QED BY <1>0, <1>2, <2>2, AnswerKeeps DEF LsuLoad, LoadMayExecute, LsuReady, LsuRest
<1>3. CASE LsuStore
  <2> DEFINE tag == rs["lsu"].rob_tag
  <2>1. /\ rs' = [rs EXCEPT !["lsu"].busy = FALSE]
        /\ rob' = [rob EXCEPT ![tag] = [rob[tag] EXCEPT !.addr = LsuAddr, !.sdata = Val("lsu", 2),
                                                        !.ready = TRUE]]
        /\ rs["lsu"].busy /\ SilentUnit("lsu")
        /\ UNCHANGED <<prog, rat, rob_head, rob_tail, rob_count, eff>>
    BY <1>3 DEF LsuStore, LsuReady, LsuIsLoad, LsuRest, SilentUnit
  <2>2. rs'["lsu"] = [rs["lsu"] EXCEPT !.busy = FALSE] /\ \A u \in Units \ {"lsu"} : rs'[u] = rs[u]
    BY <1>0, <2>1
  <2>3. ~rs'["lsu"].busy /\ rs'["lsu"].rob_tag = rs["lsu"].rob_tag /\ rs'["lsu"].pc = rs["lsu"].pc
    BY <1>0, <2>2 DEF Station
  <2>4. ASSUME NEW t \in Tags
        PROVE  /\ rob'[t].valid = rob[t].valid /\ rob'[t].dest = rob[t].dest
               /\ rob'[t].ready <=> rob[t].ready \/ rs["lsu"].rob_tag = t
               /\ eff'[t].pc = eff[t].pc
    <3>1. rob[t] \in RobEntry
      BY <1>0
    <3> QED BY <1>0, <2>1, <3>1 DEF RobEntry
  <2> QED BY <1>0, <2>1, <2>2, <2>3, <2>4, SilentKeeps
<1> QED BY <1>1, <1>2, <1>3

LEMMA VecKeeps ==
  ASSUME PipeCore, VecCount \/ VecComplete \/ VecLoad \/ VecStore \/ VecIdle PROVE PipelineInv'
<1>0. WellTyped /\ rob \in [Tags -> RobEntry] /\ rs \in [Units -> Station] /\ "vec" \in Units
      /\ rs["vec"] \in Station /\ rs["vec"].rob_tag \in Tags
      /\ eff \in [Tags -> [pc : Word, vregs : VecFile, vl : 0 .. VLMAX, vtype : Word]]
  BY StationTyped DEF PipeCore, WellTyped, OooTypeOK, Units
<1>1. CASE VecIdle
  BY <1>1, QuietKeeps DEF VecIdle, VecRest
<1>2. CASE VecCount
  <2>1. rs' = [rs EXCEPT !["vec"] = [rs["vec"] EXCEPT !.remaining = rs["vec"].remaining - 1]]
    BY <1>2 DEF VecCount
  <2>2. ASSUME NEW u \in Units
        PROVE  /\ rs'[u].busy = rs[u].busy /\ rs'[u].rob_tag = rs[u].rob_tag
               /\ rs'[u].pc = rs[u].pc /\ rs'[u].src = rs[u].src
    BY <1>0, <2>1 DEF Station
  <2> QED BY <1>2, <2>2, QuietKeeps DEF VecCount, VecRest
<1>3. CASE VecComplete \/ VecLoad \/ VecStore
  <2> DEFINE tag == rs["vec"].rob_tag
  <2>1. /\ Complete("vec") /\ rs["vec"].busy
        /\ UNCHANGED <<prog, rat, rob_head, rob_tail, rob_count>>
        /\ eff' = eff \/ eff' = [eff EXCEPT ![tag].vregs = vregs']
    BY <1>3 DEF VecComplete, VecLoad, VecStore, ArithRuns, MemMayMove, VecRest
  <2>2. /\ rob' = [rob EXCEPT ![tag].ready = TRUE]
        /\ rs' = [rs EXCEPT !["vec"].busy = FALSE, !["vec"].executing = FALSE, !["vec"].remaining = 0]
    BY <2>1 DEF Complete
  <2>3. /\ ~rs'["vec"].busy /\ rs'["vec"].rob_tag = rs["vec"].rob_tag /\ rs'["vec"].pc = rs["vec"].pc
        /\ \A u \in Units \ {"vec"} : rs'[u] = rs[u]
    BY <1>0, <2>2 DEF Station
  <2>4. ASSUME NEW t \in Tags
        PROVE  /\ rob'[t].valid = rob[t].valid /\ rob'[t].dest = rob[t].dest
               /\ rob'[t].ready <=> rob[t].ready \/ rs["vec"].rob_tag = t
    <3>1. rob[t] \in RobEntry
      BY <1>0
    <3> QED BY <1>0, <2>2, <3>1 DEF RobEntry
  <2>5. \A t \in Tags : eff'[t].pc = eff[t].pc
    BY <1>0, <2>1
  <2>6. SilentUnit("vec")
    BY DEF SilentUnit
  <2> QED BY <1>0, <2>1, <2>3, <2>4, <2>5, <2>6, SilentKeeps
<1> QED BY <1>1, <1>2, <1>3

LEMMA SysKeeps == ASSUME PipeCore, SysExecute \/ SysIdle PROVE PipelineInv'
<1>1. CASE SysIdle
  BY <1>1, QuietKeeps DEF SysIdle, robs
<1>2. CASE SysExecute
  <2> DEFINE old == ReadCsr(csr, csr_vl, csr_vtype, InsOf("sys").csr)
  <2>1. "sys" \in Units /\ Val("sys", 1) \in Word
        /\ csr \in [MCsrs -> Word] /\ csr_vl \in 0 .. VLMAX /\ csr_vtype \in Word
    BY StationTyped DEF Units, PipeCore, WellTyped, OooTypeOK
  <2>2. old \in Word
    BY <2>1, CsrWords
  <2>3. Answer("sys", old) /\ rs["sys"].busy /\ UNCHANGED <<prog, rat, rob_head, rob_tail, rob_count, eff>>
    BY <1>2 DEF SysExecute, SysMayExecute
  <2> HIDE DEF old
  <2> QED BY <2>1, <2>2, <2>3, AnswerKeeps
<1> QED BY <1>1, <1>2

LEMMA IssueKeeps == ASSUME PipeCore, Issue PROVE PipelineInv'
<1>1. ASSUME NEW u \in Units
      PROVE  /\ rs'[u].busy = rs[u].busy /\ rs'[u].rob_tag = rs[u].rob_tag
             /\ rs'[u].pc = rs[u].pc /\ rs'[u].src = rs[u].src
  <2>1. rs[u] \in Station
    BY StationTyped DEF PipeCore
  <2>2. rs'[u] = [rs[u] EXCEPT !.executing = TRUE, !.remaining = Latency(u)] \/ rs'[u] = rs[u]
    BY DEF Issue
  <2> QED BY <2>1, <2>2 DEF Station
<1> QED BY <1>1, QuietKeeps DEF Issue, robs

\* An operand that is not there yet waits for a writer in flight.
LEMMA SourceWaits ==
  ASSUME PipeCore, NEW k \in 1 .. 3, ~Source(Fetched, k).ready
  PROVE  \E t \in Tags : /\ t = Source(Fetched, k).tag
                         /\ InFlight(t) /\ ~rob[t].ready /\ rob[t].dest # X0
<1>1. ASSUME NEW r \in Regs, ~read_operand(r).ready
      PROVE  \E t \in Tags : /\ t = read_operand(r).tag
                             /\ InFlight(t) /\ ~rob[t].ready /\ rob[t].dest # X0
  <2>1. /\ rat[r].has_tag /\ ~rob[rat[r].tag].ready
        /\ read_operand(r) = Waiting(rat[r].tag)
    BY <1>1 DEF read_operand, Ready
  <2>2. PICK t \in Tags : t = rat[r].tag
    BY Counters DEF PipeCore
  <2>3. r # X0 /\ InFlight(t) /\ rob[t].dest = r
    BY <2>1, <2>2 DEF PipeCore, PipelineInv, RatNamesYoungestWriter
  <2> QED BY <2>1, <2>2, <2>3 DEF Waiting
<1>2. Fetched.rs1 \in Regs /\ Fetched.rs2 \in Regs /\ Fetched.rs3 \in Regs
  BY CodeTyped DEF PipeCore, OooInstr
<1>3. \A x : Ready(x).ready
  BY DEF Ready
<1>4. k = 1 \/ k = 2 \/ k = 3
  OBVIOUS
<1>5. CASE k = 1
  BY <1>1, <1>2, <1>3, <1>5 DEF Source
<1>6. CASE k = 2
  BY <1>1, <1>2, <1>3, <1>6 DEF Source
<1>7. CASE k = 3
  BY <1>1, <1>2, <1>3, <1>7 DEF Source
<1> QED BY <1>4, <1>5, <1>6, <1>7

\* The unit of an instruction, when it matters which.
LEMMA SilentInstruction ==
  ASSUME NEW i, i.op \in NeedUnit
  PROVE  /\ UnitFor(i.op) = "vec" <=> i.op \in VArithOps \cup VMemOps
         /\ UnitFor(i.op) = "lsu" /\ i.op \notin LoadOps => i.op \in StoreOps
  BY DEF NeedUnit, AluOps, MdOps, FpuOps, LoadOps, StoreOps, BranchOps, VArithOps, VMemOps, CsrOps,
         UnitFor

LEMMA DispatchKeeps ==
  ASSUME PipeCore,
         DispatchQuick \/ DispatchToUnit \/ DispatchVset \/ DispatchStall \/ FetchEnd \/ FetchIdle
  PROVE  PipelineInv'
<1>0. WellTyped /\ rob \in [Tags -> RobEntry] /\ rs \in [Units -> Station] /\ rob_tail \in Tags
  BY DEF PipeCore, WellTyped, OooTypeOK
<1>1. CASE DispatchQuick \/ DispatchVset
  <2>1. PICK v : Enter(TRUE, v)
    BY <1>1 DEF DispatchQuick, DispatchVset
  <2>2. rs' = rs /\ prog' = prog /\ MayFetch
    BY <1>1 DEF DispatchQuick, DispatchVset, Dispatch, EndOfTick
  <2>3. StationsAdmit(TRUE)
    BY <2>2 DEF StationsAdmit, Joins
  <2> QED BY <2>1, <2>2, <2>3, EnterKeeps
<1>2. CASE DispatchToUnit
  <2>1. PICK u \in Units : u = UnitFor(Fetched.op)
    BY <1>2, UnitForIsUnit DEF DispatchToUnit, Dispatch
  <2>2. /\ Enter(FALSE, 0) /\ ~rs[u].busy /\ prog' = prog /\ MayFetch
        /\ rs' = [rs EXCEPT ![u] = FilledStation(rs[u], Fetched)] /\ Fetched.op \in NeedUnit
    BY <1>2, <2>1 DEF DispatchToUnit, Dispatch, EndOfTick
  <2>3. rs[u] \in Station /\ rs'[u] = FilledStation(rs[u], Fetched)
        /\ \A w \in Units \ {u} : rs'[w] = rs[w]
    BY <1>0, <2>2
  <2>4. /\ rs'[u].busy /\ rs'[u].rob_tag = rob_tail /\ rs'[u].pc = fetch_pc
        /\ Fetched.op \notin VArithOps => rs'[u].src = [k \in 1 .. 3 |-> Source(Fetched, k)]
    <3> DEFINE src == IF Fetched.op \in VArithOps THEN rs[u].src ELSE [k \in 1 .. 3 |-> Source(Fetched, k)]
               vl  == IF Fetched.op \in VArithOps \cup VMemOps THEN csr_vl ELSE rs[u].vl
    <3>1. rs'[u] = [rs[u] EXCEPT !.busy = TRUE, !.executing = FALSE, !.rob_tag = rob_tail,
                                 !.pc = fetch_pc, !.src = src, !.vl = vl]
      BY <2>3 DEF FilledStation, Station
    <3> HIDE DEF src, vl
    <3>2. /\ rs'[u].busy /\ rs'[u].rob_tag = rob_tail /\ rs'[u].pc = fetch_pc /\ rs'[u].src = src
      BY <2>3, <3>1 DEF Station
    <3> QED BY <3>2 DEF src
  <2>5. Joins(u)
    <3>1. u = "vec" \/ (u = "lsu" /\ Fetched.op \notin LoadOps) => DestOf(Fetched) = X0
      BY <2>1, <2>2, SilentInstruction DEF DestOf
    <3>2. (u = "vec" => Fetched.op \in VMemOps) => Fetched.op \notin VArithOps
      BY <2>1, <2>2, SilentInstruction DEF VMemOps, VArithOps
    <3>3. Fetched.op \notin VArithOps => \A k \in 1 .. 3 : rs'[u].src[k] = Source(Fetched, k)
      BY <2>4
    <3>4. Fetched.op \notin VArithOps =>
            \A k \in 1 .. 3 : ~rs'[u].src[k].ready =>
              \E t \in Tags : /\ t = rs'[u].src[k].tag
                              /\ InFlight(t) /\ ~rob[t].ready /\ rob[t].dest # X0
      BY <3>3, SourceWaits
    <3> QED BY <2>2, <2>4, <3>1, <3>2, <3>4 DEF Joins
  <2>6. StationsAdmit(FALSE)
    BY <2>2, <2>3, <2>5 DEF StationsAdmit, Joins
  <2> QED BY <2>2, <2>6, EnterKeeps
<1>3. CASE DispatchStall \/ FetchEnd \/ FetchIdle
  <2>1. rs' = rs /\ UNCHANGED <<prog, rat, rob_head, rob_tail, rob_count, eff>>
        /\ (rob' = rob \/ rob' = [rob EXCEPT ![rob_tail].is_ecall = FALSE])
    BY <1>3 DEF DispatchStall, FetchEnd, FetchIdle, EndOfTick, robs
  <2>2. ASSUME NEW t \in Tags
        PROVE  /\ rob'[t].valid = rob[t].valid /\ rob'[t].dest = rob[t].dest
               /\ rob'[t].ready = rob[t].ready
    <3>1. rob[t] \in RobEntry
      BY <1>0
    <3> QED BY <1>0, <2>1, <3>1 DEF RobEntry
  <2> QED BY <2>1, <2>2, QuietKeeps
<1> QED BY <1>1, <1>2, <1>3

LEMMA PipelineStart == Init => PipelineInv
<1> SUFFICES ASSUME Init PROVE PipelineInv
  OBVIOUS
<1>1. WellTyped
  BY InitTyped
<1>2. rob_head = 0 /\ rob_tail = 0 /\ rob_count = 0
      /\ (\A t \in Tags : ~rob[t].valid) /\ (\A u \in Units : ~rs[u].busy)
      /\ \A r \in Regs : ~rat[r].has_tag
  BY DEF Init
<1>3. \A t \in Tags : ~InFlight(t)
  BY <1>1, <1>2, Ages, Counters DEF InFlight
<1>4. RobWindow
  BY <1>2, <1>3, OooAssumption DEF RobWindow
<1> QED BY <1>2, <1>3, <1>4
        DEF PipelineInv, StationsOwn, RatNamesYoungestWriter, SilentHaveNoDest, WaitsForWriter, Listens

LEMMA PipelineStep == PipeCore /\ [Tick \/ Stopped]_vars => PipeCore'
<1> SUFFICES ASSUME PipeCore, [Tick \/ Stopped]_vars PROVE PipelineInv'
  BY StepTyped DEF PipeCore
<1>1. CASE UNCHANGED vars
  BY <1>1, QuietKeeps DEF vars, robs
<1>2. CASE Commit
  BY <1>2, RetireKeeps
<1>3. CASE NoCommit
  BY <1>3, QuietKeeps DEF NoCommit, robs
<1>4. CASE Tick /\ ~(Commit \/ NoCommit)
  BY <1>4, ExecuteKeeps, LsuKeeps, VecKeeps, SysKeeps, IssueKeeps, DispatchKeeps DEF Tick
<1> QED BY <1>1, <1>2, <1>3, <1>4 DEF Tick, Stopped

LEMMA PipelineInvariant == Spec => []PipeCore
<1>1. Init => PipeCore
  BY InitTyped, PipelineStart DEF PipeCore
<1> QED BY <1>1, PipelineStep, PTL DEF Spec

\* Every operand that waits is woken: its producer is in flight, older and
\* not complete, though vector instructions and stores complete without a
\* broadcast, tags are reused, and a vector station keeps the operands of the
\* instruction before.
THEOREM OooWakeups == Spec => []OooNoLostWakeup
<1>1. PipeCore => OooNoLostWakeup
  BY DEF PipeCore, PipelineInv, WaitsForWriter, OooNoLostWakeup, InFlight, Listens
<1> QED BY <1>1, PipelineInvariant, PTL
=============================================================================
