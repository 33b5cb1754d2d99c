--------------------------- MODULE SocCoreValues ---------------------------
(***************************************************************************)
(* The speculation and the data of the out-of-order core, proved for every *)
(* value of the constants.                                                 *)
(*                                                                         *)
(* First the path: the entries in flight are one predicted path, the fetch *)
(* stalls exactly for an unresolved JALR, and branch_pending counts the    *)
(* branches in flight.  It is inductive only with the JALR that stalls the *)
(* fetch: when it resolves, the fetch moves to any address, and no other   *)
(* entry may have the fetch for its successor.  So the JALR must be the    *)
(* youngest entry.                                                         *)
(*                                                                         *)
(* Then the data: every operand is that of program order, and every        *)
(* completed entry, speculative ones included, holds what its instruction  *)
(* computes from those operands.  The value an instruction finds in a      *)
(* register moves while it waits: it is in the ROB until the last writer   *)
(* before it retires, in the register file afterwards.  Each kind of step  *)
(* keeps it where an operand would look for it (ReadsKept, RetireReads,    *)
(* EnterReads); the renamed operand read finds it because the RAT names    *)
(* the youngest writer (SourceRight).                                      *)
(***************************************************************************)
EXTENDS SocCoreSafety, FiniteSetTheorems

\* While the fetch is stalled nothing is younger than the JALR it waits for.
JalrIsYoungest == fetch_stalled => Age(rs["br"].rob_tag) + 1 = rob_count

\* The fetch has stopped only at the end of the program.
StopsAtEnd == fetch_done => ~fetch_stalled /\ Fetched.op = "end"

PathInv == StalledOnlyByJalr /\ BranchAccounting /\ OnPredictedPath /\ JalrIsYoungest /\ StopsAtEnd

PathCore == CoreInv /\ PathInv

\* What a step needs of it, whatever runs beside the core.
PathPipe == PipeCore /\ PathInv

\* The conditional branches in flight.
Branches == {t \in Tags : InFlight(t) /\ rob[t].is_branch}

\* The entries in flight stay where they are, on the same path.
KeepsEntries ==
  /\ UNCHANGED <<prog, rob_head, rob_tail, rob_count>>
  /\ \A t \in Tags : InFlight(t) =>
       /\ rob'[t].pc = rob[t].pc
       /\ rob'[t].is_branch = rob[t].is_branch /\ rob'[t].pred_taken = rob[t].pred_taken

\* A set of numbers has a least one: induction by smallest counterexample.
LEMMA LeastNumber ==
  ASSUME NEW T \in SUBSET Nat, T # {} PROVE \E m \in T : \A n \in T : m <= n
<1> DEFINE R == OpToRel(<, Nat)
<1>1. IsWellFoundedOn(R, Nat)
  BY NatLessThanWellFounded
<1>2. \A x, y \in Nat : x < y => <<x, y>> \in R
  BY DEF OpToRel
<1> HIDE DEF R
<1>3. PICK m \in T : \A n \in T : ~ (<<n, m>> \in R)
  BY <1>1, WFMin
<1>4. ASSUME NEW n \in T PROVE m <= n
  <2>1. m \in Nat /\ n \in Nat
    OBVIOUS
  <2>2. ~(n < m)
    BY <1>2, <1>3, <2>1
  <2> QED BY <2>1, <2>2
<1> QED BY <1>4

-----------------------------------------------------------------------------
(* The ring once more: the entry behind an entry.                          *)

LEMMA NextInRing ==
  ASSUME CoreTypeOK, RobWindow, NEW t \in Tags, InFlight(t)
  PROVE  /\ Inc(t) \in Tags
         /\ Age(t) + 1 = rob_count => Inc(t) = rob_tail
         /\ Age(t) + 1 # rob_count => InFlight(Inc(t)) /\ Age(Inc(t)) = Age(t) + 1 /\ Inc(t) # rob_head
<1>1. Inc(t) \in Tags
  BY IncIsTag
<1>2. Age(t) + 1 = rob_count => Inc(t) = rob_tail
  BY Counters DEF RobWindow, Age, Inc
<1>3. Age(t) + 1 # rob_count => InFlight(Inc(t)) /\ Age(Inc(t)) = Age(t) + 1 /\ Inc(t) # rob_head
  BY Counters DEF InFlight, Age, Inc
<1> QED BY <1>1, <1>2, <1>3

\* Where the fetch went on after an entry does not change with the entries.
LEMMA KeepsFollower ==
  ASSUME CoreTypeOK, RobWindow, KeepsEntries, UNCHANGED fetch_pc, NEW t \in Tags, InFlight(t)
  PROVE  Follower(t)' = Follower(t)
<1>1. Age(t)' = Age(t) /\ rob_count' = rob_count
  BY DEF KeepsEntries, Age
<1>2. Age(t) + 1 # rob_count => rob'[Inc(t)].pc = rob[Inc(t)].pc
  BY NextInRing DEF KeepsEntries
<1> QED BY <1>1, <1>2 DEF Follower, Inc

\* The number of branches in flight is a number.
LEMMA BranchesFinite == ASSUME CoreTypeOK PROVE IsFiniteSet(Branches)
<1>1. IsFiniteSet(Tags)
  <2>1. 0 \in Int /\ ROB_SZ - 1 \in Int
    BY Counters
  <2> QED BY <2>1, FS_Interval DEF Tags
<1>2. Branches \in SUBSET Tags
  BY DEF Branches
<1> QED BY <1>1, <1>2, FS_Subset

LEMMA AccountingIs == BranchAccounting <=> branch_pending = Cardinality(Branches)
  BY DEF BranchAccounting, Branches

\* The four ways to change the pipeline, and the count.  Nothing here is about
\* the fetch, so it serves whatever runs beside the core too.
LEMMA FlushCounts == ASSUME CoreTypeOK, NEW p, Redirect(p) PROVE BranchAccounting'
<1>1. PipelineFlush /\ branch_pending' = 0
  BY DEF Redirect, PipelineFlush
<1>2. {t \in Tags : InFlight(t) /\ rob[t].is_branch}' = {}
  BY <1>1, FlushWindow
<1>3. Cardinality({t \in Tags : InFlight(t) /\ rob[t].is_branch}') = 0
  BY <1>2, FS_EmptySet
<1> QED BY <1>1, <1>3 DEF BranchAccounting

LEMMA RetireCounts ==
  ASSUME CoreTypeOK, RobWindow, BranchAccounting, HeadReady, Retire,
         branch_pending' = IF HeadEntry.is_branch THEN branch_pending - 1 ELSE branch_pending
  PROVE  BranchAccounting'
<1>1. rob_head \in Tags /\ InFlight(rob_head) /\ HeadEntry = rob[rob_head]
  BY HeadInFlight, Counters DEF HeadReady, HeadEntry
<1>2. /\ \A t \in Tags : InFlight(t)' <=> InFlight(t) /\ t # rob_head
      /\ \A t \in Tags : t # rob_head => rob'[t] = rob[t]
  BY <1>1, RetireWindow DEF Retire, HeadReady
<1>3. Branches' = Branches \ {rob_head}
  BY <1>1, <1>2 DEF Branches
<1>4. IsFiniteSet(Branches) /\ branch_pending = Cardinality(Branches)
  BY BranchesFinite, AccountingIs
<1>5. rob_head \in Branches <=> HeadEntry.is_branch
  BY <1>1 DEF Branches
<1>6. branch_pending' = Cardinality(Branches \ {rob_head})
  BY <1>4, <1>5, FS_RemoveElement
<1> QED BY <1>3, <1>6 DEF BranchAccounting, Branches

LEMMA KeptCounts ==
  ASSUME BranchAccounting, UNCHANGED <<rob_head, rob_tail, rob_count, branch_pending>>,
         \A t \in Tags : InFlight(t) => rob'[t].is_branch = rob[t].is_branch
  PROVE  BranchAccounting'
<1>1. \A t \in Tags : InFlight(t)' <=> InFlight(t)
  BY DEF InFlight, Age
<1>2. {t \in Tags : InFlight(t) /\ rob[t].is_branch}' = {t \in Tags : InFlight(t) /\ rob[t].is_branch}
  BY <1>1
<1> QED BY <1>2 DEF BranchAccounting

LEMMA EnterCounts ==
  ASSUME CoreTypeOK, RobWindow, BranchAccounting, MayFetch,
         NEW e \in RobEntry, NEW p, e.valid, Enter(e, p),
         branch_pending' = IF e.is_branch THEN branch_pending + 1 ELSE branch_pending
  PROVE  BranchAccounting'
<1>1. /\ \A t \in Tags : InFlight(t)' <=> InFlight(t) \/ t = rob_tail
      /\ \A t \in Tags : t # rob_tail => rob'[t] = rob[t]
      /\ rob'[rob_tail] = e
  BY EnterWindow
<1>2. ~InFlight(rob_tail) /\ rob_tail \in Tags
  BY TailIsFree, Counters DEF MayFetch
<1>3. Branches' = IF e.is_branch THEN Branches \cup {rob_tail} ELSE Branches
  BY <1>1, <1>2 DEF Branches
<1>4. IsFiniteSet(Branches) /\ branch_pending = Cardinality(Branches) /\ rob_tail \notin Branches
  BY <1>2, BranchesFinite, AccountingIs DEF Branches
<1>5. Cardinality(Branches \cup {rob_tail}) = Cardinality(Branches) + 1
  BY <1>4, FS_AddElement
<1>6. branch_pending' = Cardinality(Branches')
  BY <1>3, <1>4, <1>5
<1> QED BY <1>6 DEF BranchAccounting, Branches

\* A branch that retires is counted, so the guard against counting below zero
\* is never the reason to stay.
LEMMA BranchIsCounted ==
  ASSUME CoreTypeOK, BranchAccounting, HeadReady, HeadEntry.is_branch PROVE branch_pending > 0
<1>1. rob_head \in Branches
  BY HeadInFlight, Counters DEF Branches, HeadReady, HeadEntry
<1>2. branch_pending = Cardinality(Branches) /\ IsFiniteSet(Branches)
  BY AccountingIs, BranchesFinite
<1>3. Cardinality(Branches) \in Nat /\ Cardinality(Branches) # 0
  BY <1>1, <1>2, FS_CardinalityType, FS_EmptySet
<1> QED BY <1>2, <1>3

-----------------------------------------------------------------------------
(* What the blocks of the tick do to one entry and to one station.         *)

\* An operand after a broadcast, by cases.
LEMMA Heard ==
  ASSUME NEW op \in Operand, NEW S, NEW res \in [S -> Word]
  PROVE  LET h == Hear(op, res) IN
         /\ h \in Operand
         /\ op.ready \/ op.tag \notin S => h = op
         /\ ~op.ready /\ op.tag \in S => h.ready /\ h.val = res[op.tag]
<1>1. DOMAIN res = S
  OBVIOUS
<1> QED BY <1>1, HearTyped DEF Hear, Operand

\* A busy station after a broadcast: only its operands have changed.
LEMMA StationHeard ==
  ASSUME CoreTypeOK, NEW S, NEW res \in [S -> Word], NEW u \in Units
  PROVE  LET h == cdb_broadcast(res)[u] IN
         /\ h \in Station /\ h.busy = rs[u].busy /\ h.executing = rs[u].executing
         /\ h.rob_tag = rs[u].rob_tag /\ h.pc = rs[u].pc
         /\ rs[u].busy => \A k \in 1 .. 3 : h.src[k] = Hear(rs[u].src[k], res)
<1> DEFINE h == cdb_broadcast(res)[u]
<1>1. h \in Station /\ rs[u] \in Station
  BY BroadcastTyped DEF CoreTypeOK
<1>2. CASE rs[u].busy
  <2>1. h = [rs[u] EXCEPT !.src = [k \in 1 .. 3 |-> Hear(rs[u].src[k], res)]]
    BY <1>2 DEF cdb_broadcast
  <2> QED BY <1>1, <2>1 DEF Station
<1>3. CASE ~rs[u].busy
  <2>1. h = rs[u]
    BY <1>3 DEF cdb_broadcast
  <2> QED BY <1>1, <1>3, <2>1
<1> QED BY <1>2, <1>3

\* An entry after the execution block.
LEMMA ExecuteEntry ==
  ASSUME CoreTypeOK, Execute, NEW t \in Tags
  PROVE  /\ t \notin DOMAIN Results => rob'[t] = rob[t]
         /\ t \in DOMAIN Results => rob'[t].ready /\ rob'[t].value = Results[t]
         /\ rob'[t].valid = rob[t].valid /\ rob'[t].is_store = rob[t].is_store
         /\ rob'[t].takes_trap = rob[t].takes_trap /\ rob'[t].is_mret = rob[t].is_mret
         /\ rob'[t].is_branch = rob[t].is_branch /\ rob'[t].pred_taken = rob[t].pred_taken
         /\ rob'[t].pc = rob[t].pc /\ rob'[t].cause = rob[t].cause /\ rob'[t].dest = rob[t].dest
         /\ rob'[t].addr = rob[t].addr /\ rob'[t].sdata = rob[t].sdata
         /\ t \in DOMAIN Results /\ BranchDone /\ t = rs["br"].rob_tag =>
              /\ rob'[t].br_target = IF BranchTaken THEN InsOf("br").imm ELSE NextPc(rs["br"].pc)
              /\ rob'[t].br_mispred = (BranchTaken # rob[t].pred_taken)
<1>1. rob[t] \in RobEntry
  BY DEF CoreTypeOK
<1>2. CASE t \in DOMAIN Results
  <2>1. rob'[t] = Completed(t)
    BY <1>2 DEF Execute
  <2> DEFINE e == [rob[t] EXCEPT !.ready = TRUE, !.value = Results[t]]
  <2>2. /\ e \in RobEntry /\ e.ready /\ e.value = Results[t]
        /\ e.valid = rob[t].valid /\ e.is_store = rob[t].is_store
        /\ e.takes_trap = rob[t].takes_trap /\ e.is_mret = rob[t].is_mret
        /\ e.is_branch = rob[t].is_branch /\ e.pred_taken = rob[t].pred_taken
        /\ e.pc = rob[t].pc /\ e.cause = rob[t].cause /\ e.dest = rob[t].dest
        /\ e.addr = rob[t].addr /\ e.sdata = rob[t].sdata
    BY <1>1, <1>2, ResultsTyped DEF RobEntry
  <2> HIDE DEF e
  <2> DEFINE b == BranchDone /\ t = rs["br"].rob_tag
             target == IF BranchTaken THEN InsOf("br").imm ELSE NextPc(rs["br"].pc)
             wrong == (BranchTaken # rob[t].pred_taken)
  <2>3. Completed(t) = IF b THEN [e EXCEPT !.br_target = target, !.br_mispred = wrong] ELSE e
    BY DEF Completed, e
  <2> HIDE DEF b, target, wrong
  <2>4. CASE b
    BY <1>2, <2>1, <2>2, <2>3, <2>4 DEF RobEntry, b, target, wrong
  <2>5. CASE ~b
    BY <1>2, <2>1, <2>2, <2>3, <2>5 DEF b
  <2> QED BY <2>4, <2>5
<1>3. CASE t \notin DOMAIN Results
  <2>1. rob'[t] = rob[t]
    BY <1>3 DEF Execute
  <2> QED BY <1>3, <2>1
<1> QED BY <1>2, <1>3

\* A station after the execution block.
LEMMA ExecuteStation ==
  ASSUME CoreTypeOK, Execute, NEW u \in Units
  PROVE  /\ rs'[u].rob_tag = rs[u].rob_tag /\ rs'[u].pc = rs[u].pc
         /\ u \in Done => ~rs'[u].busy
         /\ u \notin Done => rs'[u].busy = rs[u].busy /\ rs'[u].executing = rs[u].executing
         /\ rs[u].busy => \A k \in 1 .. 3 : rs'[u].src[k] = Hear(rs[u].src[k], Results)
<1> DEFINE h == cdb_broadcast(Results)[u]
<1>1. /\ h \in Station /\ h.busy = rs[u].busy /\ h.executing = rs[u].executing
      /\ h.rob_tag = rs[u].rob_tag /\ h.pc = rs[u].pc
      /\ rs[u].busy => \A k \in 1 .. 3 : h.src[k] = Hear(rs[u].src[k], Results)
  BY ResultsTyped, StationHeard
<1>2. rs'[u] = IF u \in Done
               THEN [h EXCEPT !.busy = FALSE, !.executing = FALSE, !.remaining = 0]
               ELSE IF u \in TimedUnits /\ h.busy /\ h.executing
               THEN [h EXCEPT !.remaining = h.remaining - 1]
               ELSE h
  BY DEF Execute
<1> HIDE DEF h
<1>3. /\ rs'[u].rob_tag = h.rob_tag /\ rs'[u].pc = h.pc /\ rs'[u].src = h.src
      /\ u \in Done => ~rs'[u].busy
      /\ u \notin Done => rs'[u].busy = h.busy /\ rs'[u].executing = h.executing
  BY <1>1, <1>2 DEF Station
<1> QED BY <1>1, <1>3

\* Entries and stations when the unit w delivers a result by itself.
LEMMA DeliverEntry ==
  ASSUME CoreTypeOK, NEW w \in Units, NEW v \in Word, Delivers(w, v), NEW t \in Tags
  PROVE  /\ t # rs[w].rob_tag => rob'[t] = rob[t]
         /\ t = rs[w].rob_tag => rob'[t].ready /\ rob'[t].value = v
         /\ rob'[t].valid = rob[t].valid /\ rob'[t].is_store = rob[t].is_store
         /\ rob'[t].takes_trap = rob[t].takes_trap /\ rob'[t].is_mret = rob[t].is_mret
         /\ rob'[t].is_branch = rob[t].is_branch /\ rob'[t].pred_taken = rob[t].pred_taken
         /\ rob'[t].pc = rob[t].pc /\ rob'[t].cause = rob[t].cause /\ rob'[t].dest = rob[t].dest
<1>1. rob \in [Tags -> RobEntry] /\ rob[t] \in RobEntry
  BY DEF CoreTypeOK
<1>2. rob' = [rob EXCEPT ![rs[w].rob_tag] = [@ EXCEPT !.value = v, !.ready = TRUE]]
  BY DEF Delivers
<1>3. CASE t # rs[w].rob_tag
  BY <1>1, <1>2, <1>3
<1>4. CASE t = rs[w].rob_tag
  <2>1. rob'[t] = [rob[t] EXCEPT !.value = v, !.ready = TRUE]
    BY <1>1, <1>2, <1>4
  <2> QED BY <1>1, <1>4, <2>1 DEF RobEntry
<1> QED BY <1>3, <1>4

LEMMA DeliverStation ==
  ASSUME CoreTypeOK, NEW w \in Units, NEW v \in Word, Delivers(w, v), NEW u \in Units
  PROVE  /\ rs'[u].rob_tag = rs[u].rob_tag /\ rs'[u].pc = rs[u].pc
         /\ u = w => ~rs'[u].busy
         /\ u # w => rs'[u].busy = rs[u].busy /\ rs'[u].executing = rs[u].executing
         /\ rs[u].busy => \A k \in 1 .. 3 :
              rs'[u].src[k] = Hear(rs[u].src[k], [t \in {rs[w].rob_tag} |-> v])
<1> DEFINE res == [t \in {rs[w].rob_tag} |-> v]
           all == cdb_broadcast(res)
           h   == all[u]
<1>1. res \in [{rs[w].rob_tag} -> Word]
  OBVIOUS
<1>2. all \in [Units -> Station]
  BY <1>1, BroadcastTyped DEF CoreTypeOK
<1>3. /\ h \in Station /\ h.busy = rs[u].busy /\ h.executing = rs[u].executing
      /\ h.rob_tag = rs[u].rob_tag /\ h.pc = rs[u].pc
      /\ rs[u].busy => \A k \in 1 .. 3 : h.src[k] = Hear(rs[u].src[k], res)
  BY <1>1, StationHeard
<1>4. rs' = [all EXCEPT ![w].busy = FALSE]
  BY DEF Delivers
<1> HIDE DEF all, res
<1>5. CASE u = w
  <2>1. rs'[u] = [h EXCEPT !.busy = FALSE]
    BY <1>2, <1>4, <1>5
  <2> HIDE DEF h
  <2> QED BY <1>3, <1>5, <2>1 DEF Station, res
<1>6. CASE u # w
  <2>1. rs'[u] = h
    BY <1>2, <1>4, <1>6
  <2> QED BY <1>3, <1>6, <2>1 DEF res
<1> QED BY <1>5, <1>6

\* A store that has its operands.
LEMMA LsuStoreEffect ==
  ASSUME CoreTypeOK, LsuStore
  PROVE  /\ rs["lsu"].busy /\ OperandsReady("lsu") /\ InsOf("lsu").op \notin LoadOps
         /\ \A u \in Units \ {"lsu"} : rs'[u] = rs[u]
         /\ ~rs'["lsu"].busy /\ rs'["lsu"].rob_tag = rs["lsu"].rob_tag /\ rs'["lsu"].pc = rs["lsu"].pc
         /\ \A t \in Tags :
              /\ t # rs["lsu"].rob_tag => rob'[t] = rob[t]
              /\ t = rs["lsu"].rob_tag =>
                   rob'[t].ready /\ rob'[t].addr = LsuAddr /\ rob'[t].sdata = Val("lsu", 2)
              /\ rob'[t].valid = rob[t].valid /\ rob'[t].is_store = rob[t].is_store
              /\ rob'[t].takes_trap = rob[t].takes_trap /\ rob'[t].is_mret = rob[t].is_mret
              /\ rob'[t].is_branch = rob[t].is_branch /\ rob'[t].pred_taken = rob[t].pred_taken
              /\ rob'[t].pc = rob[t].pc /\ rob'[t].cause = rob[t].cause /\ rob'[t].dest = rob[t].dest
              /\ rob'[t].value = rob[t].value
<1>1. rs["lsu"].busy /\ OperandsReady("lsu") /\ InsOf("lsu").op \notin LoadOps
  BY DEF LsuStore, LsuReady, LsuIsLoad
<1>2. "lsu" \in Units
  BY DEF Units
<1>3. rs \in [Units -> Station] /\ rs' = [rs EXCEPT !["lsu"].busy = FALSE]
  BY DEF LsuStore, CoreTypeOK
<1>4. \A u \in Units \ {"lsu"} : rs'[u] = rs[u]
  BY <1>3
<1>5. ~rs'["lsu"].busy /\ rs'["lsu"].rob_tag = rs["lsu"].rob_tag /\ rs'["lsu"].pc = rs["lsu"].pc
  <2>1. rs["lsu"] \in Station /\ rs'["lsu"] = [rs["lsu"] EXCEPT !.busy = FALSE]
    BY <1>2, <1>3
  <2> QED BY <2>1 DEF Station
<1>6. /\ rob \in [Tags -> RobEntry]
      /\ rob' = [rob EXCEPT ![rs["lsu"].rob_tag] =
                   [@ EXCEPT !.addr = LsuAddr, !.sdata = Val("lsu", 2), !.ready = TRUE]]
  BY DEF LsuStore, CoreTypeOK
<1>7. ASSUME NEW t \in Tags
      PROVE  /\ t # rs["lsu"].rob_tag => rob'[t] = rob[t]
             /\ t = rs["lsu"].rob_tag =>
                   rob'[t].ready /\ rob'[t].addr = LsuAddr /\ rob'[t].sdata = Val("lsu", 2)
             /\ rob'[t].valid = rob[t].valid /\ rob'[t].is_store = rob[t].is_store
             /\ rob'[t].takes_trap = rob[t].takes_trap /\ rob'[t].is_mret = rob[t].is_mret
             /\ rob'[t].is_branch = rob[t].is_branch /\ rob'[t].pred_taken = rob[t].pred_taken
             /\ rob'[t].pc = rob[t].pc /\ rob'[t].cause = rob[t].cause /\ rob'[t].dest = rob[t].dest
             /\ rob'[t].value = rob[t].value
  <2>1. CASE t # rs["lsu"].rob_tag
    BY <1>6, <2>1
  <2>2. CASE t = rs["lsu"].rob_tag
    <3>1. rob'[t] = [rob[t] EXCEPT !.addr = LsuAddr, !.sdata = Val("lsu", 2), !.ready = TRUE]
      BY <1>6, <2>2
    <3>2. rob[t] \in RobEntry
      BY <1>6
    <3> QED BY <2>2, <3>1, <3>2 DEF RobEntry
  <2> QED BY <2>1, <2>2
<1> QED BY <1>1, <1>4, <1>5, <1>7

\* A load delivers a word of memory and a CSR instruction the old value.
LEMMA HeadUnitsDeliver ==
  ASSUME CoreTypeOK, SysExecute => InsOf("sys") \in Instr
  PROVE  /\ LsuLoad => /\ rs["lsu"].busy /\ dmem[MemIndex(LsuAddr)] \in Word
                       /\ Delivers("lsu", dmem[MemIndex(LsuAddr)])
         /\ SysExecute => /\ rs["sys"].busy /\ read_csr(csr, InsOf("sys").csr) \in Word
                          /\ Delivers("sys", read_csr(csr, InsOf("sys").csr))
<1>0. "lsu" \in Units /\ "sys" \in Units
  BY DEF Units
<1>1. LsuLoad => rs["lsu"].busy /\ Delivers("lsu", dmem[MemIndex(LsuAddr)])
  BY DEF LsuLoad, LoadMayExecute, LsuReady, Delivers
<1>2. SysExecute => rs["sys"].busy /\ Delivers("sys", read_csr(csr, InsOf("sys").csr))
  BY DEF SysExecute, SysMayExecute, Delivers
<1>3. ASSUME rs["lsu"].busy PROVE dmem[MemIndex(LsuAddr)] \in Word
  <2>1. Val("lsu", 1) \in Word /\ InsOf("lsu").imm \in Word
    BY <1>0, <1>3, StationTyped, InsTyped
  <2>2. LsuAddr \in Word
    BY <2>1, PlusIsWord DEF LsuAddr
  <2>3. MemIndex(LsuAddr) \in 0 .. MemWords - 1
    BY <2>2, WordAssumption, MemAssumption DEF MemIndex, Word
  <2> QED BY <2>3 DEF CoreTypeOK
<1>4. ASSUME SysExecute PROVE read_csr(csr, InsOf("sys").csr) \in Word
  <2>1. InsOf("sys").csr \in CsrNames
    BY <1>4 DEF Instr
  <2> QED BY <2>1, ReadCsrIsWord DEF CoreTypeOK
<1> QED BY <1>1, <1>2, <1>3, <1>4

\* A station that starts counting changes in nothing else.
LEMMA IssueEffect ==
  ASSUME CoreTypeOK, Issue, NEW u \in Units
  PROVE  /\ rs'[u].busy = rs[u].busy /\ rs'[u].rob_tag = rs[u].rob_tag
         /\ rs'[u].pc = rs[u].pc /\ rs'[u].src = rs[u].src
         /\ rs'[u].executing => rs[u].executing \/ (u \in TimedUnits /\ OperandsReady(u))
<1>1. rs[u] \in Station
  BY DEF CoreTypeOK
<1>2. CASE u \in TimedUnits /\ rs[u].busy /\ ~rs[u].executing /\ OperandsReady(u)
  <2>1. rs'[u] = [rs[u] EXCEPT !.executing = TRUE, !.remaining = Latency(u)]
    BY <1>2 DEF Issue
  <2> QED BY <1>1, <1>2, <2>1 DEF Station
<1>3. CASE ~(u \in TimedUnits /\ rs[u].busy /\ ~rs[u].executing /\ OperandsReady(u))
  <2>1. rs'[u] = rs[u]
    BY <1>3 DEF Issue
  <2> QED BY <2>1
<1> QED BY <1>2, <1>3

-----------------------------------------------------------------------------
(* The four ways to change the pipeline, and the path.                     *)

\* After a flush there is nothing on the path, and the fetch is free.
LEMMA FlushPath == ASSUME CoreTypeOK, NEW p, Redirect(p) PROVE PathInv'
<1>1. PipelineFlush /\ fetch_stalled' = FALSE /\ branch_pending' = 0 /\ fetch_done' = FALSE
  BY DEF Redirect, PipelineFlush
<1>2. \A t \in Tags : ~InFlight(t)'
  BY <1>1, FlushWindow
<1>3. ~rs'["br"].busy
  <2>1. "br" \in Units
    BY DEF Units, TimedUnits
  <2>2. rs["br"] \in Station /\ rs'["br"] = [rs["br"] EXCEPT !.busy = FALSE, !.executing = FALSE]
    BY <1>1, <2>1 DEF PipelineFlush, CoreTypeOK
  <2> QED BY <2>2 DEF Station
<1>4. BranchAccounting'
  BY FlushCounts
<1>5. OnPredictedPath'
  BY <1>2 DEF OnPredictedPath, Follower
<1>6. StalledOnlyByJalr' /\ JalrIsYoungest' /\ StopsAtEnd'
  BY <1>1, <1>3 DEF StalledOnlyByJalr, JalrIsYoungest, StopsAtEnd
<1> QED BY <1>4, <1>5, <1>6 DEF PathInv

\* The head leaves: the path begins one later, with one branch less if it was one.
LEMMA RetirePath ==
  ASSUME PathPipe, HeadReady, Retire, UNCHANGED <<prog, front, rs>>,
         branch_pending' = IF HeadEntry.is_branch THEN branch_pending - 1 ELSE branch_pending
  PROVE  PathInv'
<1>0. /\ CoreTypeOK /\ RobWindow /\ StationsOwn /\ PathInv
      /\ rob_head \in Tags /\ InFlight(rob_head) /\ HeadEntry = rob[rob_head] /\ rob[rob_head].ready
      /\ prog' = prog /\ rs' = rs /\ fetch_pc' = fetch_pc
      /\ fetch_stalled' = fetch_stalled /\ fetch_done' = fetch_done
  BY HeadInFlight, Counters DEF PathPipe, PipeCore, PipelineInv, HeadReady, HeadEntry, front
<1>1. /\ \A t \in Tags : InFlight(t)' <=> InFlight(t) /\ t # rob_head
      /\ \A t \in Tags : InFlight(t) /\ t # rob_head => Age(t)' = Age(t) - 1
      /\ \A t \in Tags : t # rob_head => rob'[t] = rob[t]
      /\ rob_count' = rob_count - 1
  BY <1>0, RetireWindow DEF Retire
<1>2. BranchAccounting'
  BY <1>0, RetireCounts DEF PathInv
<1>3. OnPredictedPath'
  <2> SUFFICES ASSUME NEW t \in Tags, InFlight(t)', prog'[rob'[t].pc].op # "jalr"
               PROVE  Successor(t)' = IF Age(t)' + 1 = rob_count' THEN fetch_pc' ELSE rob'[Inc(t)].pc
    BY DEF OnPredictedPath, Inc, Follower
  <2>1. InFlight(t) /\ t # rob_head /\ rob'[t] = rob[t] /\ Age(t)' = Age(t) - 1
    BY <1>1
  <2>2. Successor(t)' = Successor(t)
    BY <1>0, <2>1 DEF Successor
  <2>3. Successor(t) = IF Age(t) + 1 = rob_count THEN fetch_pc ELSE rob[Inc(t)].pc
    BY <1>0, <2>1 DEF PathInv, OnPredictedPath, Follower
  <2>4. Age(t)' + 1 = rob_count' <=> Age(t) + 1 = rob_count
    BY <1>0, <1>1, <2>1, Counters, AgeBounds
  <2>5. Age(t) + 1 # rob_count => rob'[Inc(t)] = rob[Inc(t)]
    BY <1>0, <1>1, <2>1, NextInRing
  <2> QED BY <1>0, <2>2, <2>3, <2>4, <2>5
<1>4. JalrIsYoungest'
  <2> SUFFICES ASSUME fetch_stalled PROVE Age(rs["br"].rob_tag)' + 1 = rob_count'
    BY <1>0 DEF JalrIsYoungest
  <2>0. "br" \in Units
    BY DEF Units, TimedUnits
  <2>1. PICK t \in Tags : t = rs["br"].rob_tag
    BY <1>0, <2>0, TagsTyped
  <2>2. rs["br"].busy /\ Age(t) + 1 = rob_count
    BY <1>0, <2>1 DEF PathInv, StalledOnlyByJalr, JalrIsYoungest
  <2>3. InFlight(t) /\ ~rob[t].ready
    BY <1>0, <2>0, <2>1, <2>2 DEF StationsOwn
  <2>4. Age(t)' = Age(t) - 1
    BY <1>0, <1>1, <2>3
  <2>5. Age(t)' + 1 = rob_count'
    BY <1>0, <1>1, <2>2, <2>4, Counters, AgeBounds
  <2> QED BY <1>0, <2>1, <2>5 DEF Age
<1>5. StalledOnlyByJalr' /\ StopsAtEnd'
  BY <1>0 DEF PathInv, StalledOnlyByJalr, StopsAtEnd, InsOf, Fetched
<1> QED BY <1>2, <1>3, <1>4, <1>5 DEF PathInv

\* The entries stay on their path while units work.
LEMMA EntriesPath ==
  ASSUME CoreTypeOK, RobWindow, OnPredictedPath, BranchAccounting, KeepsEntries, UNCHANGED branch_pending
  PROVE  BranchAccounting' /\ (UNCHANGED fetch_pc => OnPredictedPath')
<1>1. \A t \in Tags : (InFlight(t)' <=> InFlight(t)) /\ Age(t)' = Age(t)
  BY DEF KeepsEntries, InFlight, Age
<1>2. BranchAccounting'
  BY KeptCounts DEF KeepsEntries
<1>3. ASSUME UNCHANGED fetch_pc PROVE OnPredictedPath'
  <2> SUFFICES ASSUME NEW t \in Tags, InFlight(t)', prog'[rob'[t].pc].op # "jalr"
               PROVE  Successor(t)' = Follower(t)'
    BY DEF OnPredictedPath, Follower
  <2>1. InFlight(t) /\ prog' = prog /\ rob'[t].pc = rob[t].pc
    BY <1>1 DEF KeepsEntries
  <2>2. Successor(t)' = Successor(t)
    BY <2>1 DEF Successor, KeepsEntries
  <2>3. Successor(t) = Follower(t)
    BY <2>1 DEF OnPredictedPath, Follower
  <2> QED BY <1>3, <2>1, <2>2, <2>3, KeepsFollower
<1> QED BY <1>2, <1>3

\* A step that touches neither the fetch nor the branch unit.
LEMMA QuietPath ==
  ASSUME PathPipe, KeepsEntries, UNCHANGED <<fetch_pc, fetch_stalled, branch_pending>>,
         fetch_done' => fetch_done \/ (~fetch_stalled /\ Fetched.op = "end"),
         rs'["br"].busy = rs["br"].busy /\ rs'["br"].pc = rs["br"].pc
           /\ rs'["br"].rob_tag = rs["br"].rob_tag
  PROVE  PathInv'
<1>1. BranchAccounting' /\ OnPredictedPath'
  BY EntriesPath DEF PathPipe, PipeCore, PipelineInv, PathInv
<1>2. StalledOnlyByJalr' /\ JalrIsYoungest' /\ StopsAtEnd'
  BY DEF PathPipe, PathInv, StalledOnlyByJalr, JalrIsYoungest, StopsAtEnd, InsOf, Age, Fetched,
         KeepsEntries
<1> QED BY <1>1, <1>2 DEF PathInv

\* An instruction enters: the fetch moves to its successor.
LEMMA EnterPath ==
  ASSUME PathPipe, MayFetch, NEW e \in RobEntry, NEW p, e.valid, e.pc = fetch_pc,
         Enter(e, p), prog' = prog,
         Fetched.op # "jalr" =>
           p = IF Fetched.op = "jal" \/ (e.is_branch /\ e.pred_taken)
               THEN Fetched.imm ELSE NextPc(fetch_pc),
         branch_pending' = IF e.is_branch THEN branch_pending + 1 ELSE branch_pending,
         StalledOnlyByJalr', fetch_stalled' => rs'["br"].rob_tag = rob_tail
  PROVE  PathInv'
<1>0. CoreTypeOK /\ RobWindow /\ PathInv /\ rob_tail \in Tags /\ rob_count < ROB_SZ
  BY Counters DEF PathPipe, PipeCore, PipelineInv, MayFetch
<1>1. /\ \A t \in Tags : InFlight(t)' <=> InFlight(t) \/ t = rob_tail
      /\ \A t \in Tags : Age(t)' = Age(t)
      /\ \A t \in Tags : t # rob_tail => rob'[t] = rob[t]
      /\ rob'[rob_tail] = e
  BY <1>0, EnterWindow
<1>2. ~InFlight(rob_tail) /\ Age(rob_tail) = rob_count
  BY <1>0, TailIsFree
<1>3. /\ rob_count' = rob_count + 1 /\ fetch_pc' = p /\ ~fetch_done'
  BY DEF Enter, MayFetch
<1>4. BranchAccounting'
  BY <1>0, EnterCounts DEF PathInv
<1>5. OnPredictedPath'
  <2> SUFFICES ASSUME NEW t \in Tags, InFlight(t)', prog'[rob'[t].pc].op # "jalr"
               PROVE  Successor(t)' = IF Age(t)' + 1 = rob_count' THEN fetch_pc' ELSE rob'[Inc(t)].pc
    BY DEF OnPredictedPath, Inc, Follower
  <2>1. CASE t = rob_tail
    <3>1. Age(t)' + 1 = rob_count'
      BY <1>0, <1>1, <1>2, <1>3, <2>1
    <3>2. Successor(t)' = p
      BY <1>1, <2>1 DEF Successor, Fetched
    <3> QED BY <1>3, <3>1, <3>2
  <2>2. CASE t # rob_tail
    <3>1. InFlight(t) /\ rob'[t] = rob[t] /\ Age(t)' = Age(t)
      BY <1>1, <2>2
    <3>2. Successor(t)' = Successor(t)
      BY <3>1 DEF Successor
    <3>3. Successor(t) = IF Age(t) + 1 = rob_count THEN fetch_pc ELSE rob[Inc(t)].pc
      BY <1>0, <3>1 DEF PathInv, OnPredictedPath, Follower
    <3>4. Age(t)' + 1 # rob_count'
      BY <1>0, <1>3, <3>1, Counters, AgeBounds DEF InFlight
    <3>5. CASE Age(t) + 1 = rob_count
      <4>1. Inc(t) = rob_tail
        BY <1>0, <3>1, <3>5, NextInRing
      <4> QED BY <1>1, <3>2, <3>3, <3>4, <3>5, <4>1
    <3>6. CASE Age(t) + 1 # rob_count
      <4>1. Inc(t) \in Tags /\ Inc(t) # rob_tail
        BY <1>0, <1>2, <3>1, <3>6, NextInRing
      <4> QED BY <1>1, <3>2, <3>3, <3>4, <3>6, <4>1
    <3> QED BY <3>5, <3>6
  <2> QED BY <2>1, <2>2
<1>6. JalrIsYoungest'
  <2> SUFFICES ASSUME fetch_stalled' PROVE Age(rs["br"].rob_tag)' + 1 = rob_count'
    BY DEF JalrIsYoungest
  <2>1. PICK t \in Tags : t = rob_tail /\ t = rs'["br"].rob_tag
    BY <1>0
  <2>2. Age(t)' + 1 = rob_count'
    BY <1>0, <1>1, <1>2, <1>3, <2>1
  <2> QED BY <2>1, <2>2 DEF Age
<1> QED BY <1>3, <1>4, <1>5, <1>6 DEF PathInv, StopsAtEnd

-----------------------------------------------------------------------------
(* Each step is one of the four.                                           *)

\* A commit moves the fetch only by a redirection.
LEMMA CommitPath == ASSUME PathPipe, CommitStage PROVE PathInv'
<1>0. CoreTypeOK /\ RobWindow
  BY DEF PathPipe, PipeCore, PipelineInv
<1>1. CASE TakeInterrupt \/ CommitMispredict \/ CommitMret \/ CommitTrap
  <2>1. \E p : Redirect(p)
    BY <1>1 DEF TakeInterrupt, CommitMispredict, CommitMret, CommitTrap
  <2> QED BY <1>0, <2>1, FlushPath
<1>2. CASE CommitBranch
  <2>1. /\ HeadReady /\ Retire /\ UNCHANGED <<prog, front, rs>> /\ HeadEntry.is_branch
        /\ branch_pending' = IF branch_pending > 0 THEN branch_pending - 1 ELSE branch_pending
    BY <1>2 DEF CommitBranch, Commit
  <2>2. branch_pending > 0
    BY <1>0, <2>1, BranchIsCounted DEF PathPipe, PathInv
  <2> QED BY <2>1, <2>2, RetirePath
<1>3. CASE CommitHalt \/ CommitStore \/ CommitRegister
  <2>1. /\ HeadReady /\ Retire /\ UNCHANGED <<prog, front, rs, branch_pending>>
        /\ ~HeadEntry.is_branch
    BY <1>3 DEF CommitHalt, CommitStore, CommitRegister, CommitPlain, Commit
  <2> QED BY <2>1, RetirePath
<1>4. CASE NoCommit
  <2>1. UNCHANGED <<prog, front, robs, rs, branch_pending>>
    BY <1>4 DEF NoCommit
  <2> QED BY <2>1, QuietPath DEF KeepsEntries, robs, front
<1> QED BY <1>1, <1>2, <1>3, <1>4 DEF CommitStage

\* The branch unit moves the fetch only for a JALR, which no instruction
\* follows: the entries before it keep their successors.
LEMMA ExecutePath == ASSUME PathPipe, Execute PROVE PathInv'
<1>0. CoreTypeOK /\ RobWindow /\ PathInv /\ StationsOwn /\ "br" \in Units
  BY DEF PathPipe, PipeCore, PipelineInv, Units, TimedUnits
<1>1. KeepsEntries
  <2>1. UNCHANGED <<prog, rob_head, rob_tail, rob_count>>
    BY DEF Execute
  <2>2. \A t \in Tags : /\ rob'[t].pc = rob[t].pc
                        /\ rob'[t].is_branch = rob[t].is_branch
                        /\ rob'[t].pred_taken = rob[t].pred_taken
    BY <1>0, ExecuteEntry
  <2> QED BY <2>1, <2>2 DEF KeepsEntries
<1>2. /\ rs'["br"].rob_tag = rs["br"].rob_tag /\ rs'["br"].pc = rs["br"].pc
      /\ "br" \in Done => ~rs'["br"].busy /\ rs["br"].busy
      /\ "br" \notin Done => rs'["br"].busy = rs["br"].busy
  BY <1>0, ExecuteStation DEF Done
<1>3. UNCHANGED <<branch_pending, fetch_done, prog>>
  BY DEF Execute
<1>4. CASE ~JalrDone
  <2>1. UNCHANGED <<fetch_pc, fetch_stalled>>
    BY <1>4 DEF Execute
  <2>2. BranchAccounting' /\ OnPredictedPath'
    BY <1>0, <1>1, <1>3, <2>1, EntriesPath DEF PathInv
  <2>3. StalledOnlyByJalr'
    BY <1>0, <1>2, <1>3, <1>4, <2>1 DEF PathInv, StalledOnlyByJalr, JalrDone, InsOf
  <2>4. JalrIsYoungest' /\ StopsAtEnd'
    BY <1>0, <1>1, <1>2, <1>3, <2>1
       DEF PathInv, JalrIsYoungest, StopsAtEnd, Age, Fetched, KeepsEntries
  <2> QED BY <2>2, <2>3, <2>4 DEF PathInv
<1>5. CASE JalrDone
  <2>1. fetch_stalled' = FALSE /\ "br" \in Done /\ InsOf("br").op = "jalr"
    BY <1>5 DEF Execute, JalrDone
  <2>2. StalledOnlyByJalr' /\ JalrIsYoungest'
    BY <1>2, <2>1 DEF StalledOnlyByJalr, JalrIsYoungest
  <2>3. fetch_stalled /\ ~fetch_done
    BY <1>0, <1>2, <2>1 DEF PathInv, StalledOnlyByJalr, StopsAtEnd
  <2>4. PICK j \in Tags : /\ j = rs["br"].rob_tag /\ InFlight(j) /\ Age(j) + 1 = rob_count
                          /\ rob[j].pc = rs["br"].pc
    <3>1. rs["br"].rob_tag \in Tags
      BY <1>0, TagsTyped
    <3> QED BY <1>0, <1>2, <2>1, <2>3, <3>1 DEF PathInv, JalrIsYoungest, StationsOwn
  <2>5. OnPredictedPath'
    <3> SUFFICES ASSUME NEW t \in Tags, InFlight(t)', prog'[rob'[t].pc].op # "jalr"
                 PROVE  Successor(t)' = IF Age(t)' + 1 = rob_count' THEN fetch_pc' ELSE rob'[Inc(t)].pc
      BY DEF OnPredictedPath, Inc, Follower
    <3>1. InFlight(t) /\ Age(t)' = Age(t) /\ rob_count' = rob_count /\ rob'[t].pc = rob[t].pc
      BY <1>1 DEF KeepsEntries, InFlight, Age
    <3>2. Successor(t)' = Successor(t)
      BY <1>1, <3>1 DEF KeepsEntries, Successor
    <3>3. t # j
      BY <1>3, <2>1, <2>4, <3>1 DEF InsOf
    <3>4. Age(t) + 1 # rob_count
      <4>1. Age(t) # Age(j)
        BY <1>0, <3>3, AgeInjective
      <4> QED BY <1>0, <2>4, <4>1, Counters, AgeBounds
    <3>5. Successor(t) = rob[Inc(t)].pc
      BY <1>0, <1>3, <3>1, <3>4 DEF PathInv, OnPredictedPath, Follower
    <3>6. rob'[Inc(t)].pc = rob[Inc(t)].pc
      BY <1>0, <1>1, <3>1, <3>4, NextInRing DEF KeepsEntries
    <3> QED BY <3>1, <3>2, <3>4, <3>5, <3>6
  <2>6. BranchAccounting'
    BY <1>0, <1>1, <1>3, EntriesPath DEF PathInv
  <2>7. StopsAtEnd'
    BY <1>3, <2>3 DEF StopsAtEnd
  <2> QED BY <2>2, <2>5, <2>6, <2>7 DEF PathInv
<1> QED BY <1>4, <1>5

\* Memory and CSR instructions are not on anybody's mind here.
LEMMA HeadUnitsPath ==
  ASSUME PathPipe, LsuStore \/ LsuLoad \/ LsuIdle \/ SysExecute \/ SysIdle \/ Issue,
         SysExecute => InsOf("sys") \in Instr
  PROVE  PathInv'
<1>0. CoreTypeOK /\ "br" \in Units /\ "lsu" \in Units /\ "sys" \in Units
  BY DEF PathPipe, PipeCore, Units, TimedUnits
<1>1. UNCHANGED <<prog, rob_head, rob_tail, rob_count, fetch_pc, fetch_stalled, fetch_done, branch_pending>>
  BY DEF LsuStore, LsuLoad, LsuIdle, SysExecute, SysIdle, Issue, front, robs
<1>2. \A t \in Tags : /\ rob'[t].pc = rob[t].pc
                      /\ rob'[t].is_branch = rob[t].is_branch /\ rob'[t].pred_taken = rob[t].pred_taken
  <2>1. CASE LsuStore
    BY <1>0, <2>1, LsuStoreEffect
  <2>2. CASE LsuLoad
    BY <1>0, <2>2, HeadUnitsDeliver, DeliverEntry
  <2>3. CASE SysExecute
    BY <1>0, <2>3, HeadUnitsDeliver, DeliverEntry
  <2>4. CASE LsuIdle \/ SysIdle \/ Issue
    BY <2>4 DEF LsuIdle, SysIdle, Issue, robs
  <2> QED BY <2>1, <2>2, <2>3, <2>4
<1>3. /\ rs'["br"].busy = rs["br"].busy /\ rs'["br"].pc = rs["br"].pc
      /\ rs'["br"].rob_tag = rs["br"].rob_tag
  <2>1. CASE LsuStore
    BY <1>0, <2>1, LsuStoreEffect
  <2>2. CASE LsuLoad
    BY <1>0, <2>2, HeadUnitsDeliver, DeliverStation
  <2>3. CASE SysExecute
    BY <1>0, <2>3, HeadUnitsDeliver, DeliverStation
  <2>4. CASE Issue
    BY <1>0, <2>4, IssueEffect
  <2>5. CASE LsuIdle \/ SysIdle
    BY <2>5 DEF LsuIdle, SysIdle
  <2> QED BY <2>1, <2>2, <2>3, <2>4, <2>5
<1>4. KeepsEntries
  BY <1>1, <1>2 DEF KeepsEntries
<1> QED BY <1>1, <1>3, <1>4, QuietPath

\* The entry of an instruction that is complete at dispatch, and the address
\* the fetch goes on at.
QuickEntry(ins) ==
  [FreshEntry EXCEPT
     !.valid = TRUE, !.ready = TRUE, !.is_store = FALSE, !.dest = Dest(ins),
     !.takes_trap = (ins.op \in TrapOps), !.is_mret = (ins.op = "mret"),
     !.cause = IF ins.op \in TrapOps THEN CauseOf(ins) ELSE @,
     !.value = CASE ins.op = "lui" -> ins.imm
                 [] ins.op = "jal" -> NextPc(fetch_pc)
                 [] OTHER          -> 0]
QuickNext(ins) == IF ins.op = "jal" THEN ins.imm ELSE NextPc(fetch_pc)

LEMMA QuickFacts ==
  ASSUME CoreTypeOK, Fetched \in Instr
  PROVE  LET e == QuickEntry(Fetched) IN
         /\ e \in RobEntry /\ e.valid /\ e.ready /\ e.pc = fetch_pc /\ e.dest = Dest(Fetched)
         /\ ~e.is_branch /\ ~e.is_store
         /\ e.takes_trap = (Fetched.op \in TrapOps) /\ e.is_mret = (Fetched.op = "mret")
         /\ Fetched.op \in TrapOps => e.cause = CauseOf(Fetched)
         /\ Fetched.op = "lui" => e.value = Fetched.imm
         /\ Fetched.op = "jal" => e.value = NextPc(fetch_pc)
<1> DEFINE i == Fetched
           v == CASE i.op = "lui" -> i.imm [] i.op = "jal" -> NextPc(fetch_pc) [] OTHER -> 0
           c == IF i.op \in TrapOps THEN CauseOf(i) ELSE FreshEntry.cause
           traps == (i.op \in TrapOps)
           mret == (i.op = "mret")
<1>1. /\ FreshEntry \in RobEntry /\ FreshEntry.pc = fetch_pc /\ ~FreshEntry.is_branch
      /\ FreshEntry.cause \in Word
  <2>1. rob[rob_tail] \in RobEntry /\ FreshEntry \in RobEntry
    BY FreshEntryTyped DEF CoreTypeOK
  <2> QED BY <2>1 DEF FreshEntry, RobEntry
<1>2. v \in Word /\ c \in Word /\ Dest(i) \in Regs /\ traps \in BOOLEAN /\ mret \in BOOLEAN
  <2>1. fetch_pc \in Word
    BY DEF CoreTypeOK
  <2> QED BY <1>1, <2>1, FetchedTyped, NextPcIsWord, CauseIsWord, DestIsRegister, SmallWords
<1>3. i.op = "lui" => v = i.imm
  OBVIOUS
<1>4. i.op = "jal" => v = NextPc(fetch_pc)
  OBVIOUS
<1>5. i.op \in TrapOps => c = CauseOf(i)
  OBVIOUS
<1>6. QuickEntry(i) = [FreshEntry EXCEPT
        !.valid = TRUE, !.ready = TRUE, !.is_store = FALSE, !.dest = Dest(i),
        !.takes_trap = traps, !.is_mret = mret, !.cause = c, !.value = v]
  BY DEF QuickEntry
<1> HIDE DEF v, c, traps, mret
<1>7. /\ QuickEntry(i) \in RobEntry /\ QuickEntry(i).valid /\ QuickEntry(i).ready
      /\ QuickEntry(i).pc = fetch_pc /\ QuickEntry(i).dest = Dest(i)
      /\ ~QuickEntry(i).is_branch /\ ~QuickEntry(i).is_store
      /\ QuickEntry(i).takes_trap = traps /\ QuickEntry(i).is_mret = mret
      /\ QuickEntry(i).cause = c /\ QuickEntry(i).value = v
  BY <1>1, <1>2, <1>6 DEF RobEntry
<1> QED BY <1>3, <1>4, <1>5, <1>7 DEF traps, mret

\* The station that takes the fetched instruction.
LEMMA FillEffect ==
  ASSUME CoreTypeOK, NEW u \in Units, rs' = [rs EXCEPT ![u] = FilledStation(@, Fetched)]
  PROVE  /\ \A w \in Units \ {u} : rs'[w] = rs[w]
         /\ rs'[u].busy /\ ~rs'[u].executing
         /\ rs'[u].rob_tag = rob_tail /\ rs'[u].pc = fetch_pc
         /\ \A k \in 1 .. 3 : rs'[u].src[k] = Source(Fetched, k)
<1>1. rs \in [Units -> Station] /\ rs[u] \in Station
  BY DEF CoreTypeOK
<1>2. rs'[u] = FilledStation(rs[u], Fetched) /\ \A w \in Units \ {u} : rs'[w] = rs[w]
  BY <1>1
<1> QED BY <1>1, <1>2 DEF FilledStation, Station

\* A dispatch extends the path by the fetched instruction.
LEMMA ScalarDispatchPath == ASSUME PathPipe, Fetched \in Instr, DispatchStage PROVE PathInv'
<1>0. CoreTypeOK /\ RobWindow /\ PathInv /\ "br" \in Units
  BY DEF PathPipe, PipeCore, PipelineInv, Units, TimedUnits
<1> DEFINE e == PendingEntry(Fetched)
<1>1. /\ e \in RobEntry /\ e.valid /\ ~e.ready /\ e.pc = fetch_pc
      /\ ~e.is_branch /\ ~e.takes_trap /\ e.dest = Dest(Fetched)
  BY <1>0, PendingFacts
<1> HIDE DEF e
<1>2. EndOfTick => prog' = prog
  BY DEF EndOfTick
<1>3. CASE DispatchQuick
  <2>1. /\ Enter(QuickEntry(Fetched), QuickNext(Fetched)) /\ MayFetch /\ prog' = prog
        /\ UNCHANGED <<fetch_stalled, rs, branch_pending>>
    BY <1>2, <1>3 DEF DispatchQuick, Dispatch, QuickEntry, QuickNext
  <2>2. /\ QuickEntry(Fetched) \in RobEntry /\ QuickEntry(Fetched).valid
        /\ QuickEntry(Fetched).pc = fetch_pc /\ ~QuickEntry(Fetched).is_branch
    BY <1>0, QuickFacts
  <2>3. StalledOnlyByJalr' /\ ~fetch_stalled'
    BY <1>0, <2>1 DEF PathInv, StalledOnlyByJalr, InsOf, MayFetch
  <2> DEFINE q == QuickEntry(Fetched)
             p == QuickNext(Fetched)
  <2>4. p = IF Fetched.op = "jal" \/ (q.is_branch /\ q.pred_taken) THEN Fetched.imm ELSE NextPc(fetch_pc)
    BY <2>2 DEF QuickNext
  <2> HIDE DEF q, p
  <2>5. /\ Enter(q, p) /\ q \in RobEntry /\ q.valid /\ q.pc = fetch_pc /\ ~q.is_branch
    BY <2>1, <2>2 DEF q, p
  <2> QED BY <2>1, <2>3, <2>4, <2>5, EnterPath
<1>4. CASE DispatchToUnit
  <2> DEFINE u == UnitFor(Fetched.op)
  <2>1. /\ MayFetch /\ prog' = prog /\ Enter(e, NextPc(fetch_pc))
        /\ rs' = [rs EXCEPT ![u] = FilledStation(@, Fetched)]
        /\ Fetched.op \in AluOps \cup MdOps \cup FpuOps \cup LoadOps \cup StoreOps \cup CsrOps
        /\ UNCHANGED <<fetch_stalled, branch_pending>>
    BY <1>2, <1>4 DEF DispatchToUnit, Dispatch, e
  <2>2. /\ u \in Units /\ u # "br" /\ Fetched.op # "jalr" /\ Fetched.op # "jal"
    <3>1. Fetched.op \in Ops \ (QuickOps \cup {"end"}) /\ Fetched.op \notin BranchOps \cup {"jalr", "jal"}
      BY <2>1 DEF Ops, QuickOps, TrapOps, AluOps, MdOps, FpuOps, LoadOps, StoreOps, BranchOps, CsrOps
    <3>2. u # "br"
      BY <2>1, <3>1 DEF UnitFor
    <3> QED BY <3>1, <3>2, UnitForIsUnit
  <2> HIDE DEF u
  <2>3. rs'["br"] = rs["br"]
    BY <1>0, <2>1, <2>2, FillEffect
  <2>4. StalledOnlyByJalr' /\ ~fetch_stalled'
    BY <1>0, <2>1, <2>3 DEF PathInv, StalledOnlyByJalr, InsOf, MayFetch
  <2> QED BY <1>1, <2>1, <2>2, <2>4, EnterPath
<1>5. CASE DispatchJalr
  <2>1. /\ MayFetch /\ prog' = prog /\ Enter(e, NextPc(fetch_pc)) /\ Fetched.op = "jalr"
        /\ rs' = [rs EXCEPT !["br"] = FilledStation(@, Fetched)]
        /\ fetch_stalled' = TRUE /\ UNCHANGED branch_pending
    BY <1>2, <1>5 DEF DispatchJalr, Dispatch, e
  <2>2. rs'["br"].busy /\ rs'["br"].pc = fetch_pc /\ rs'["br"].rob_tag = rob_tail
    BY <1>0, <2>1, FillEffect
  <2>3. StalledOnlyByJalr'
    BY <2>1, <2>2 DEF StalledOnlyByJalr, InsOf, Fetched
  <2> QED BY <1>1, <2>1, <2>2, <2>3, EnterPath
<1>6. CASE DispatchBranch
  <2>1. /\ MayFetch /\ prog' = prog /\ Fetched.op \in BranchOps
        /\ rs' = [rs EXCEPT !["br"] = FilledStation(@, Fetched)]
        /\ UNCHANGED fetch_stalled /\ branch_pending' = branch_pending + 1
    BY <1>2, <1>6 DEF DispatchBranch, Dispatch
  <2>2. PICK pred \in BOOLEAN :
          Enter([e EXCEPT !.is_branch = TRUE, !.pred_taken = pred],
                IF pred THEN Fetched.imm ELSE NextPc(fetch_pc))
    BY <1>6 DEF DispatchBranch, e
  <2> DEFINE b == [e EXCEPT !.is_branch = TRUE, !.pred_taken = pred]
             p == IF pred THEN Fetched.imm ELSE NextPc(fetch_pc)
  <2>3. /\ b \in RobEntry /\ b.valid /\ b.pc = fetch_pc /\ b.is_branch /\ b.pred_taken = pred
    BY <1>1 DEF RobEntry
  <2>4. Enter(b, p)
    BY <2>2
  <2>5. Fetched.op # "jal"
    BY <2>1 DEF BranchOps
  <2>6. p = IF Fetched.op = "jal" \/ (b.is_branch /\ b.pred_taken) THEN Fetched.imm ELSE NextPc(fetch_pc)
    BY <2>3, <2>5
  <2> HIDE DEF b, p
  <2>7. rs'["br"].busy /\ rs'["br"].pc = fetch_pc
    BY <1>0, <2>1, FillEffect
  <2>8. StalledOnlyByJalr' /\ ~fetch_stalled'
    BY <2>1, <2>7 DEF StalledOnlyByJalr, InsOf, Fetched, MayFetch, BranchOps
  <2> QED BY <2>1, <2>3, <2>4, <2>6, <2>8, EnterPath
<1>7. CASE DispatchStall
  <2>1. /\ UNCHANGED <<prog, front, rob_head, rob_tail, rob_count, rs, branch_pending>>
        /\ rob' = [rob EXCEPT ![rob_tail] = FreshEntry] /\ rob_count < ROB_SZ
    BY <1>2, <1>7 DEF DispatchStall, Dispatch, MayFetch
  <2>2. ~InFlight(rob_tail)
    BY <1>0, <2>1, TailIsFree
  <2>3. KeepsEntries
    BY <1>0, <2>1, <2>2 DEF KeepsEntries, CoreTypeOK
  <2> QED BY <2>1, <2>3, QuietPath DEF front
<1>8. CASE FetchEnd
  <2>1. /\ UNCHANGED <<prog, fetch_pc, fetch_stalled, robs, rs, branch_pending>>
        /\ MayFetch /\ Fetched.op = "end"
    BY <1>2, <1>8 DEF FetchEnd, Dispatch
  <2> QED BY <2>1, QuietPath DEF KeepsEntries, robs, MayFetch
<1>9. CASE FetchIdle
  <2>1. UNCHANGED <<prog, front, robs, rs, branch_pending>>
    BY <1>2, <1>9 DEF FetchIdle
  <2> QED BY <2>1, QuietPath DEF KeepsEntries, robs, front
<1> QED BY <1>3, <1>4, <1>5, <1>6, <1>7, <1>8, <1>9 DEF DispatchStage

LEMMA DispatchPath ==
  ASSUME PathPipe, FetchIdle \/ (Fetched \in Instr /\ DispatchStage) PROVE PathInv'
<1>1. CASE FetchIdle
  <2>1. UNCHANGED <<prog, front, robs, rs, branch_pending>>
    BY <1>1 DEF FetchIdle, EndOfTick
  <2> QED BY <2>1, QuietPath DEF KeepsEntries, robs, front
<1>2. CASE Fetched \in Instr /\ DispatchStage
  BY <1>2, ScalarDispatchPath
<1> QED BY <1>1, <1>2

-----------------------------------------------------------------------------
(* The invariant, and what follows from it.                                *)

LEMMA PathStart == Start => PathCore
<1> SUFFICES ASSUME Start PROVE PathCore
  OBVIOUS
<1>1. CoreInv
  BY CoreStart
<1>2. /\ rob_head = 0 /\ rob_count = 0 /\ branch_pending = 0
      /\ fetch_stalled = FALSE /\ fetch_done = FALSE
  BY DEF Start, Reset
<1>3. \A t \in Tags : ~InFlight(t)
  BY <1>1, <1>2, Counters DEF InFlight, Age, CoreInv
<1>4. ~rs["br"].busy
  BY DEF Start, Reset, IdleStation, Units, TimedUnits
<1>5. BranchAccounting
  <2>1. {t \in Tags : InFlight(t) /\ rob[t].is_branch} = {}
    BY <1>3
  <2> QED BY <1>2, <2>1, FS_EmptySet DEF BranchAccounting
<1>6. OnPredictedPath
  BY <1>3 DEF OnPredictedPath, Follower
<1>7. StalledOnlyByJalr /\ JalrIsYoungest /\ StopsAtEnd
  BY <1>2, <1>4 DEF StalledOnlyByJalr, JalrIsYoungest, StopsAtEnd
<1> QED BY <1>1, <1>5, <1>6, <1>7 DEF PathCore, PathInv

LEMMA PathStep == PathCore /\ [Next]_vars => PathCore'
<1> SUFFICES ASSUME PathCore, [Next]_vars PROVE PathCore'
  OBVIOUS
<1>0. CoreInv' /\ PathPipe /\ Fetched \in Instr /\ InsOf("sys") \in Instr
  BY CoreStep, ScalarCode DEF PathCore, CoreInv, TypeOK, PathPipe, PipeCore, Units
<1>1. CASE CommitStage
  BY <1>0, <1>1, CommitPath DEF PathCore
<1>2. CASE Execute
  BY <1>0, <1>2, ExecutePath DEF PathCore
<1>3. CASE LsuStore \/ LsuLoad \/ LsuIdle \/ SysExecute \/ SysIdle \/ Issue
  BY <1>0, <1>3, HeadUnitsPath DEF PathCore
<1>4. CASE DispatchStage
  BY <1>0, <1>4, DispatchPath DEF PathCore
<1>5. CASE TimerFires \/ UNCHANGED vars
  <2>1. UNCHANGED <<prog, front, robs, rs, branch_pending>>
    BY <1>5 DEF TimerFires, vars
  <2>2. PathInv'
    BY <1>0, <2>1, QuietPath DEF KeepsEntries, robs, front
  <2> QED BY <1>0, <2>2 DEF PathCore
<1> QED BY <1>1, <1>2, <1>3, <1>4, <1>5 DEF Next, Tick, Stopped

LEMMA PathInvariant == Spec => []PathCore
  BY InitStarts, PathStart, PathStep, PTL DEF Spec

\* branch_pending counts exactly the conditional branches in flight, through
\* retirement, misprediction, traps and interrupts: what waits for it to be
\* zero (vset* and the vector queue) is never speculative and never waits for
\* a branch that is gone.
THEOREM BranchAccountingCorrect == Spec => []BranchAccounting
<1>1. PathCore => BranchAccounting
  BY DEF PathCore, PathInv
<1> QED BY <1>1, PathInvariant, PTL

\* The fetch waits exactly while the branch unit holds a JALR: no flush leaves
\* it waiting for an instruction that was dropped, and it never goes on
\* before the target is known.
THEOREM StalledOnlyByJalrCorrect == Spec => []StalledOnlyByJalr
<1>1. PathCore => StalledOnlyByJalr
  BY DEF PathCore, PathInv
<1> QED BY <1>1, PathInvariant, PTL

\* Whatever is predicted, flushed and fetched again, the entries in flight
\* follow each other on one predicted path and the fetch continues it.
THEOREM OnPredictedPathCorrect == Spec => []OnPredictedPath
<1>1. PathCore => OnPredictedPath
  BY DEF PathCore, PathInv
<1> QED BY <1>1, PathInvariant, PTL

-----------------------------------------------------------------------------

\* The operations a unit executes.
UnitOps(u) ==
  CASE u \in AluUnits -> AluOps
    [] u = "md"  -> MdOps
    [] u = "fpu" -> FpuOps
    [] u = "br"  -> BranchOps \cup {"jalr"}
    [] u = "lsu" -> LoadOps \cup StoreOps
    [] u = "sys" -> CsrOps

\* The flags of an entry and the place of a station are those of its instruction.
EntryDecoded(t) ==
  LET i == prog[rob[t].pc] IN
  /\ i.op # "end"
  /\ rob[t].is_store <=> i.op \in StoreOps
  /\ rob[t].is_branch <=> i.op \in BranchOps
  /\ rob[t].is_mret <=> i.op = "mret"
  /\ i \in Instr => rob[t].dest = Dest(i) /\ (rob[t].takes_trap <=> i.op \in TrapOps)
  /\ rob[t].takes_trap \/ rob[t].is_store \/ rob[t].is_branch => rob[t].dest = X0

StationDecoded(u) ==
  /\ InsOf(u) \in Instr => InsOf(u).op \in UnitOps(u)
  /\ \A k \in 1 .. 3 : ReadsReg(InsOf(u), k) => SrcReg(InsOf(u), k) \in Regs
  /\ rs[u].executing => u \in TimedUnits /\ OperandsReady(u)

Decoded ==
  /\ \A t \in Tags : InFlight(t) => EntryDecoded(t)
  /\ \A u \in Units : rs[u].busy => StationDecoded(u)

\* After an exception without a handler nothing more is executed.
Halts == ecall_halt => halted

ZeroRegister == regfile[X0] = 0

\* Only scalar instructions are explained here.
ScalarResultsRight ==
  \A t \in Tags : InFlight(t) /\ rob[t].ready /\ prog[rob[t].pc] \in Instr => Explained(t)

DataInv == Decoded /\ Halts /\ OperandsRight /\ ScalarResultsRight /\ ZeroRegister

ValueCore == PathCore /\ DataInv

\* What a step needs of it, whatever runs beside the core.
ValuePipe == PathPipe /\ DataInv

\* The entries in flight keep their instruction, and the completed ones
\* everything, where the operands look for them.
KeepsValues ==
  /\ UNCHANGED <<prog, rob_head, rob_count, regfile>>
  /\ \A t \in Tags : InFlight(t) =>
       /\ rob'[t].pc = rob[t].pc /\ rob'[t].dest = rob[t].dest
       /\ rob[t].ready => rob'[t] = rob[t]

\* A retiring instruction writes its register.
WritesBack ==
  regfile' = IF HeadEntry.dest = X0 THEN regfile
             ELSE [regfile EXCEPT ![HeadEntry.dest] = HeadEntry.value]

\* A busy station is still the same, and its operands have at most heard a result.
HearsOnly(u) ==
  /\ rs[u].busy /\ rs'[u].rob_tag = rs[u].rob_tag /\ rs'[u].pc = rs[u].pc
  /\ \A k \in 1 .. 3 :
       \/ rs'[u].src[k] = rs[u].src[k]
       \/ LET w == rs[u].src[k].tag IN
          /\ ~rs[u].src[k].ready /\ rs'[u].src[k].ready
          /\ rob'[w].ready /\ rs'[u].src[k].val = rob'[w].value

\* e is the entry of the fetched instruction, complete only if it needs no unit.
FitsFetched(e) ==
  /\ e \in RobEntry /\ e.valid /\ e.pc = fetch_pc
  /\ Fetched.op # "end"
  /\ e.is_store <=> Fetched.op \in StoreOps
  /\ e.is_branch <=> Fetched.op \in BranchOps
  /\ e.is_mret <=> Fetched.op = "mret"
  /\ e.takes_trap \/ e.is_store \/ e.is_branch => e.dest = X0
  /\ Fetched \in Instr =>
       /\ e.dest = Dest(Fetched)
       /\ e.takes_trap <=> Fetched.op \in TrapOps
       /\ e.ready => /\ Fetched.op \in QuickOps
                     /\ Fetched.op = "lui" => e.value = Fetched.imm
                     /\ Fetched.op = "jal" => e.value = NextPc(fetch_pc)
                     /\ Fetched.op \in TrapOps => e.cause = CauseOf(Fetched)

\* The station u has just taken the fetched instruction.
Takes(u) ==
  /\ Fetched \in Instr => Fetched.op \in UnitOps(u)
  /\ \A k \in 1 .. 3 : ReadsReg(Fetched, k) => SrcReg(Fetched, k) \in Regs
  /\ rs'[u].rob_tag = rob_tail /\ rs'[u].pc = fetch_pc /\ ~rs'[u].executing
  /\ \A k \in 1 .. 3 : rs'[u].src[k] = Source(Fetched, k)

-----------------------------------------------------------------------------
(* Where an instruction finds its operands, through each kind of step.     *)

LEMMA ArgumentsTyped ==
  ASSUME NEW i \in Instr, NEW k \in 1 .. 3 PROVE SrcReg(i, k) \in Regs /\ SrcImm(i, k) \in Word
  BY SmallWords DEF Instr, SrcReg, SrcImm

\* Units that work move no register.
LEMMA SeesKept ==
  ASSUME KeepsValues, NEW r, NEW t \in Tags
  PROVE  /\ NoWriter(r, t)' <=> NoWriter(r, t)
         /\ \A w \in Tags : LastWriter(w, r, t)' <=> LastWriter(w, r, t)
         /\ \A v : Sees(r, t, v) => Sees(r, t, v)'
<1>1. \A x \in Tags : /\ InFlight(x)' <=> InFlight(x)
                      /\ Age(x)' = Age(x)
                      /\ InFlight(x) => rob'[x].dest = rob[x].dest /\ (rob[x].ready => rob'[x] = rob[x])
  BY DEF KeepsValues, InFlight, Age
<1>2. NoWriter(r, t)' <=> NoWriter(r, t)
  BY <1>1 DEF NoWriter
<1>3. \A w \in Tags : LastWriter(w, r, t)' <=> LastWriter(w, r, t)
  BY <1>1 DEF LastWriter
<1>4. ASSUME NEW v, Sees(r, t, v) PROVE Sees(r, t, v)'
  <2>1. CASE r = X0
    BY <1>4, <2>1 DEF Sees
  <2>2. CASE r # X0 /\ NoWriter(r, t) /\ v = regfile[r]
    BY <1>2, <2>2 DEF Sees, KeepsValues
  <2>3. ASSUME NEW w \in Tags, r # X0, LastWriter(w, r, t), rob[w].ready, v = rob[w].value
        PROVE  Sees(r, t, v)'
    <3>1. rob'[w] = rob[w]
      BY <1>1, <2>3 DEF LastWriter
    <3> QED BY <1>3, <2>3, <3>1 DEF Sees
  <2> QED BY <1>4, <2>1, <2>2, <2>3 DEF Sees
<1> QED BY <1>2, <1>3, <1>4

LEMMA ReadsKept ==
  ASSUME KeepsValues, NEW i, NEW k \in 1 .. 3, NEW t \in Tags, NEW v, Reads(i, k, t, v)
  PROVE  Reads(i, k, t, v)'
  BY SeesKept DEF Reads

\* The register of the head moves from the ROB to the register file: who
\* found it there finds it here.
LEMMA RetireSees ==
  ASSUME CoreTypeOK, RobWindow, HeadReady, Retire, WritesBack,
         NEW r \in Regs \ {X0}, NEW t \in Tags, InFlight(t), t # rob_head
  PROVE  /\ NoWriter(r, t) => NoWriter(r, t)' /\ regfile'[r] = regfile[r]
         /\ \A w \in Tags : LastWriter(w, r, t) /\ w # rob_head => LastWriter(w, r, t)'
         /\ LastWriter(rob_head, r, t) => NoWriter(r, t)' /\ regfile'[r] = rob[rob_head].value
<1>1. /\ \A x \in Tags : InFlight(x)' <=> InFlight(x) /\ x # rob_head
      /\ \A x \in Tags : InFlight(x) /\ x # rob_head => Age(x)' = Age(x) - 1
      /\ \A x \in Tags : x # rob_head => rob'[x] = rob[x]
  BY RetireWindow
<1>2. /\ rob_head \in Tags /\ InFlight(rob_head) /\ Age(rob_head) = 0
      /\ \A x \in Tags : Age(x) \in Nat /\ (Age(x) = 0 <=> x = rob_head)
  BY HeadInFlight, Counters, AgeBounds DEF HeadReady
<1>3. regfile \in [Regs -> Word] /\ HeadEntry = rob[rob_head]
  BY DEF CoreTypeOK, HeadEntry
<1>4. \A x, y \in Tags : InFlight(x) /\ x # rob_head /\ InFlight(y) /\ y # rob_head =>
        /\ Age(x)' < Age(y)' <=> Age(x) < Age(y)
        /\ Age(x)' <= Age(y)' <=> Age(x) <= Age(y)
  BY <1>1, <1>2
<1>5. ASSUME NoWriter(r, t) PROVE NoWriter(r, t)' /\ regfile'[r] = regfile[r]
  <2>1. rob[rob_head].dest # r
    BY <1>2, <1>5 DEF NoWriter
  <2>2. regfile'[r] = regfile[r]
    BY <1>3, <2>1 DEF WritesBack
  <2> QED BY <1>1, <1>4, <1>5, <2>2 DEF NoWriter
<1>6. ASSUME NEW w \in Tags, LastWriter(w, r, t), w # rob_head PROVE LastWriter(w, r, t)'
  BY <1>1, <1>4, <1>6 DEF LastWriter
<1>7. ASSUME LastWriter(rob_head, r, t)
      PROVE  NoWriter(r, t)' /\ regfile'[r] = rob[rob_head].value
  <2>1. regfile'[r] = rob[rob_head].value
    BY <1>3, <1>7 DEF LastWriter, WritesBack
  <2>2. \A x \in Tags : InFlight(x) /\ rob[x].dest = r /\ Age(x) < Age(t) => x = rob_head
    BY <1>2, <1>7 DEF LastWriter
  <2> QED BY <1>1, <1>4, <2>1, <2>2 DEF NoWriter
<1> QED BY <1>5, <1>6, <1>7

LEMMA RetireReads ==
  ASSUME CoreTypeOK, RobWindow, HeadReady, Retire, WritesBack,
         NEW i, NEW k \in 1 .. 3, ReadsReg(i, k) => SrcReg(i, k) \in Regs,
         NEW t \in Tags, InFlight(t), t # rob_head, NEW v, Reads(i, k, t, v)
  PROVE  Reads(i, k, t, v)'
<1>1. CASE ~ReadsReg(i, k)
  BY <1>1 DEF Reads
<1>2. CASE ReadsReg(i, k)
  <2>1. PICK r \in Regs : r = SrcReg(i, k)
    BY <1>2
  <2>2. Sees(r, t, v)
    BY <1>2, <2>1 DEF Reads
  <2> SUFFICES Sees(r, t, v)'
    BY <1>2, <2>1 DEF Reads
  <2>3. CASE r = X0
    BY <2>2, <2>3 DEF Sees
  <2>4. CASE r # X0 /\ NoWriter(r, t) /\ v = regfile[r]
    BY <2>1, <2>4, RetireSees DEF Sees
  <2>5. ASSUME NEW w \in Tags, r # X0, LastWriter(w, r, t), rob[w].ready, v = rob[w].value
        PROVE  Sees(r, t, v)'
    <3>1. CASE w = rob_head
      BY <2>1, <2>5, <3>1, RetireSees DEF Sees
    <3>2. CASE w # rob_head
      <4>1. rob'[w] = rob[w]
        BY <3>2, RetireWindow
      <4> QED BY <2>1, <2>5, <3>2, <4>1, RetireSees DEF Sees
    <3> QED BY <3>1, <3>2
  <2> QED BY <2>2, <2>3, <2>4, <2>5 DEF Sees
<1> QED BY <1>1, <1>2

\* An instruction that enters is younger than everyone: it changes nothing
\* for them.
LEMMA EnterSees ==
  ASSUME CoreTypeOK, RobWindow, MayFetch, NEW e \in RobEntry, NEW p, e.valid, Enter(e, p),
         regfile' = regfile, NEW r, NEW t \in Tags, InFlight(t) \/ t = rob_tail
  PROVE  /\ NoWriter(r, t)' <=> NoWriter(r, t)
         /\ \A w \in Tags : LastWriter(w, r, t)' <=> LastWriter(w, r, t)
         /\ \A v : Sees(r, t, v) => Sees(r, t, v)'
<1>1. /\ \A x \in Tags : InFlight(x)' <=> InFlight(x) \/ x = rob_tail
      /\ \A x \in Tags : Age(x)' = Age(x)
      /\ \A x \in Tags : x # rob_tail => rob'[x] = rob[x]
  BY EnterWindow
<1>2. rob_tail \in Tags /\ ~InFlight(rob_tail) /\ Age(rob_tail) = rob_count
  BY TailIsFree, Counters DEF MayFetch
<1>3. \A x \in Tags : Age(x) \in Nat /\ (InFlight(x) <=> Age(x) < rob_count)
  BY AgeBounds DEF InFlight
<1>4. rob_count \in Nat /\ ~(Age(rob_tail) < Age(t))
  BY <1>2, <1>3, Counters
<1>5. NoWriter(r, t)' <=> NoWriter(r, t)
  BY <1>1, <1>2, <1>4 DEF NoWriter
<1>6. \A w \in Tags : LastWriter(w, r, t)' <=> LastWriter(w, r, t)
  BY <1>1, <1>2, <1>4 DEF LastWriter
<1>7. ASSUME NEW v, Sees(r, t, v) PROVE Sees(r, t, v)'
  <2>1. CASE r = X0
    BY <1>7, <2>1 DEF Sees
  <2>2. CASE r # X0 /\ NoWriter(r, t) /\ v = regfile[r]
    BY <1>5, <2>2 DEF Sees
  <2>3. ASSUME NEW w \in Tags, r # X0, LastWriter(w, r, t), rob[w].ready, v = rob[w].value
        PROVE  Sees(r, t, v)'
    <3>1. rob'[w] = rob[w]
      BY <1>1, <1>2, <2>3 DEF LastWriter
    <3> QED BY <1>6, <2>3, <3>1 DEF Sees
  <2> QED BY <1>7, <2>1, <2>2, <2>3 DEF Sees
<1> QED BY <1>5, <1>6, <1>7

LEMMA EnterReads ==
  ASSUME CoreTypeOK, RobWindow, MayFetch, NEW e \in RobEntry, NEW p, e.valid, Enter(e, p),
         regfile' = regfile, NEW t \in Tags, InFlight(t) \/ t = rob_tail,
         NEW i, NEW k \in 1 .. 3, NEW v, Reads(i, k, t, v)
  PROVE  Reads(i, k, t, v)'
  BY EnterSees DEF Reads

\* The renamed operand read finds what the instruction that enters would
\* find in program order, or whom to wait for.
LEMMA ReadRight ==
  ASSUME PipeCore, MayFetch, NEW r \in Regs
  PROVE  LET op == read_operand(r) IN
         /\ op.ready => Sees(r, rob_tail, op.val)
         /\ ~op.ready => r # X0 /\ LastWriter(op.tag, r, rob_tail)
<1> DEFINE op == read_operand(r)
<1>0. CoreTypeOK /\ RobWindow /\ RatNamesYoungestWriter
  BY DEF PipeCore, PipelineInv
<1>1. rob_tail \in Tags /\ Age(rob_tail) = rob_count
  BY <1>0, TailIsFree, Counters DEF MayFetch
<1>2. CASE r = X0
  BY <1>2 DEF read_operand, Ready, Sees
<1>3. CASE r # X0 /\ ~rat[r].has_tag
  <2>1. NoWriter(r, rob_tail)
    BY <1>0, <1>3 DEF RatNamesYoungestWriter, NoWriter
  <2> QED BY <1>3, <2>1 DEF read_operand, Ready, Sees
<1>4. CASE r # X0 /\ rat[r].has_tag
  <2> DEFINE w == rat[r].tag
  <2>1. w \in Tags /\ InFlight(w) /\ rob[w].dest = r
    BY <1>0, <1>4 DEF RatNamesYoungestWriter, CoreTypeOK, RatEntry
  <2>2. \A x \in Tags : InFlight(x) /\ rob[x].dest = r => Age(x) <= Age(w)
    BY <1>0, <1>4 DEF RatNamesYoungestWriter
  <2>3. LastWriter(w, r, rob_tail)
    BY <1>1, <2>1, <2>2 DEF LastWriter, InFlight
  <2>4. op = IF rob[w].ready THEN Ready(rob[w].value) ELSE Waiting(w)
    BY <1>4 DEF read_operand
  <2> HIDE DEF w, op
  <2>5. CASE rob[w].ready
    <3>1. op.ready /\ op.val = rob[w].value
      BY <2>4, <2>5 DEF Ready
    <3> QED BY <1>4, <2>1, <2>3, <2>5, <3>1 DEF Sees, op
  <2>6. CASE ~rob[w].ready
    <3>1. ~op.ready /\ op.tag = w
      BY <2>4, <2>6 DEF Waiting
    <3> QED BY <1>4, <2>3, <3>1 DEF op
  <2> QED BY <2>5, <2>6
<1> QED BY <1>2, <1>3, <1>4

\* The operand a station is given is the register it reads, or its immediate.
LEMMA SourceIs ==
  ASSUME NEW i, NEW k \in 1 .. 3
  PROVE  Source(i, k) = IF ReadsReg(i, k) THEN read_operand(SrcReg(i, k)) ELSE Ready(SrcImm(i, k))
<1> DEFINE s == Source(i, k)
<1>1. CASE k = 1
  BY <1>1 DEF ReadsReg, Source, SrcReg, SrcImm
<1>2. CASE k = 2
  <2> DEFINE two == i.op \in {"add", "sub", "fadd", "fdiv", "fmadd"} \cup MdOps \cup StoreOps \cup BranchOps
  <2>1. s = IF i.op = "addi" THEN Ready(i.imm) ELSE IF two THEN read_operand(i.rs2) ELSE Ready(0)
    BY <1>2 DEF Source, s
  <2>2. ReadsReg(i, k) <=> two
    BY <1>2 DEF ReadsReg
  <2>3. i.op = "addi" => ~two
    BY DEF MdOps, StoreOps, BranchOps
  <2>4. SrcReg(i, k) = i.rs2 /\ SrcImm(i, k) = IF i.op = "addi" THEN i.imm ELSE 0
    BY <1>2 DEF SrcReg, SrcImm
  <2> HIDE DEF two, s
  <2> QED BY <2>1, <2>2, <2>3, <2>4 DEF s
<1>3. CASE k = 3
  BY <1>3 DEF ReadsReg, Source, SrcReg, SrcImm
<1> QED BY <1>1, <1>2, <1>3

LEMMA SourceRight ==
  ASSUME PipeCore, MayFetch, NEW k \in 1 .. 3, ReadsReg(Fetched, k) => SrcReg(Fetched, k) \in Regs
  PROVE  LET s == Source(Fetched, k) IN
         /\ s.ready => Reads(Fetched, k, rob_tail, s.val)
         /\ ~s.ready => /\ ReadsReg(Fetched, k) /\ SrcReg(Fetched, k) # X0
                        /\ s.tag \in Tags /\ LastWriter(s.tag, SrcReg(Fetched, k), rob_tail)
<1> DEFINE i == Fetched
           s == Source(i, k)
<1>1. s = IF ReadsReg(i, k) THEN read_operand(SrcReg(i, k)) ELSE Ready(SrcImm(i, k))
  BY SourceIs
<1> HIDE DEF s
<1>2. CASE ReadsReg(i, k)
  <2>1. PICK r \in Regs : r = SrcReg(i, k)
    BY <1>2
  <2>2. s = read_operand(r)
    BY <1>1, <1>2, <2>1
  <2>3. s.tag \in Tags
    BY <2>2, ReadOperandTyped DEF PipeCore, Operand
  <2>4. /\ s.ready => Sees(r, rob_tail, s.val)
        /\ ~s.ready => r # X0 /\ LastWriter(s.tag, r, rob_tail)
    BY <2>2, ReadRight
  <2> QED BY <1>2, <2>1, <2>3, <2>4 DEF Reads, s
<1>3. CASE ~ReadsReg(i, k)
  <2>1. s.ready /\ s.val = SrcImm(i, k)
    BY <1>1, <1>3 DEF Ready
  <2> QED BY <1>3, <2>1 DEF Reads, s
<1> QED BY <1>2, <1>3

-----------------------------------------------------------------------------
(* Where the fetch went on after an entry, through each kind of step.      *)

LEMMA RetireFollower ==
  ASSUME CoreTypeOK, RobWindow, HeadReady, Retire, UNCHANGED fetch_pc,
         NEW t \in Tags, InFlight(t), t # rob_head
  PROVE  Follower(t)' = Follower(t)
<1>1. /\ Age(t)' = Age(t) - 1 /\ rob_count' = rob_count - 1
      /\ \A x \in Tags : x # rob_head => rob'[x] = rob[x]
  BY RetireWindow DEF Retire
<1>2. Age(t)' + 1 = rob_count' <=> Age(t) + 1 = rob_count
  BY <1>1, Counters, AgeBounds
<1>3. Age(t) + 1 # rob_count => rob'[Inc(t)] = rob[Inc(t)]
  BY <1>1, NextInRing
<1> QED BY <1>2, <1>3 DEF Follower, Inc

LEMMA EnterFollower ==
  ASSUME CoreTypeOK, RobWindow, MayFetch, NEW e \in RobEntry, NEW p, e.valid, e.pc = fetch_pc, Enter(e, p),
         NEW t \in Tags, InFlight(t)
  PROVE  Follower(t)' = Follower(t)
<1>1. /\ Age(t)' = Age(t) /\ rob_count' = rob_count + 1
      /\ \A x \in Tags : x # rob_tail => rob'[x] = rob[x]
      /\ rob'[rob_tail] = e
  BY EnterWindow DEF Enter
<1>2. Age(t)' + 1 # rob_count'
  BY <1>1, Counters, AgeBounds DEF InFlight
<1>3. Follower(t)' = rob'[Inc(t)].pc
  BY <1>2 DEF Follower, Inc
<1>4. CASE Age(t) + 1 = rob_count
  BY <1>1, <1>3, <1>4, NextInRing DEF Follower
<1>5. CASE Age(t) + 1 # rob_count
  <2>1. Inc(t) # rob_tail /\ Inc(t) \in Tags
    BY <1>5, NextInRing, TailIsFree DEF MayFetch
  <2> QED BY <1>1, <1>3, <1>5, <2>1 DEF Follower
<1> QED BY <1>4, <1>5

-----------------------------------------------------------------------------
(* What explains a completed entry.                                        *)

\* An explanation lasts while its operands do.
LEMMA ExplainedKept ==
  ASSUME CoreTypeOK, NEW t \in Tags, prog[rob[t].pc] \in Instr, Explained(t), prog' = prog, rob'[t] = rob[t],
         t = rob_head => UNCHANGED <<dmem, rob_head>>,
         Follower(t)' = Follower(t) \/ prog[rob[t].pc].op # "jalr",
         \A i \in Instr, k \in 1 .. 3, v \in Word : Reads(i, k, t, v) => Reads(i, k, t, v)'
  PROVE  Explained(t)'
<1>1. PICK i \in Instr : i = prog[rob[t].pc] /\ i = prog'[rob'[t].pc]
  OBVIOUS
<1>2. ASSUME NEW a \in Word, NEW b \in Word, NEW c \in Word, Outcome(t, a, b, c)
      PROVE  Outcome(t, a, b, c)'
  BY <1>1, <1>2 DEF Outcome
<1>3. 1 \in 1 .. 3 /\ 2 \in 1 .. 3 /\ 3 \in 1 .. 3
  OBVIOUS
<1>4. ASSUME i.op \notin QuickOps \cup CsrOps
      PROVE  \E a, b, c \in Word :
               Reads(i, 1, t, a)' /\ Reads(i, 2, t, b)' /\ Reads(i, 3, t, c)' /\ Outcome(t, a, b, c)'
  <2>1. PICK a \in Word, b \in Word, c \in Word :
          Reads(i, 1, t, a) /\ Reads(i, 2, t, b) /\ Reads(i, 3, t, c) /\ Outcome(t, a, b, c)
    BY <1>1, <1>4 DEF Explained
  <2>2. Reads(i, 1, t, a)' /\ Reads(i, 2, t, b)' /\ Reads(i, 3, t, c)'
    BY <1>3, <2>1
  <2> QED BY <1>2, <2>1, <2>2
<1>5. i.op \in CsrOps => t = rob_head'
  BY <1>1 DEF Explained
<1>6. /\ i.op = "lui" => rob'[t].value = i.imm
      /\ i.op = "jal" => rob'[t].value = NextPc(rob'[t].pc)
      /\ i.op \in TrapOps => rob'[t].cause = CauseOf(i)
  BY <1>1 DEF Explained
<1> QED BY <1>1, <1>4, <1>5, <1>6 DEF Explained

\* A unit whose operands are all ready explains the entry it completes.
LEMMA FinishExplained ==
  ASSUME CoreTypeOK, OperandsRight, KeepsValues,
         NEW u \in Units, rs[u].busy, OperandsReady(u), InsOf(u) \in Instr, NEW t \in Tags, t = rs[u].rob_tag,
         InFlight(t), rob[t].pc = rs[u].pc, InsOf(u).op \notin QuickOps \cup CsrOps,
         NEW a, NEW b, NEW c, a = Val(u, 1), b = Val(u, 2), c = Val(u, 3), Outcome(t, a, b, c)'
  PROVE  Explained(t)'
<1>1. PICK i \in Instr : i = InsOf(u) /\ i = prog'[rob'[t].pc]
  BY DEF KeepsValues, InsOf
<1>2. 1 \in 1 .. 3 /\ 2 \in 1 .. 3 /\ 3 \in 1 .. 3
  OBVIOUS
<1>3. a \in Word /\ b \in Word /\ c \in Word
  BY <1>2, StationTyped
<1>4. Reads(i, 1, t, a) /\ Reads(i, 2, t, b) /\ Reads(i, 3, t, c)
  BY <1>1, <1>2 DEF OperandsRight, OperandRight, OperandsReady, Val
<1>5. Reads(i, 1, t, a)' /\ Reads(i, 2, t, b)' /\ Reads(i, 3, t, c)'
  BY <1>2, <1>4, ReadsKept
<1>6. i.op \notin QuickOps \cup CsrOps /\ i.op \notin TrapOps \cup {"lui", "jal"}
  BY <1>1 DEF QuickOps
<1> QED BY <1>1, <1>3, <1>5, <1>6 DEF Explained
-----------------------------------------------------------------------------
(* The four ways to change the pipeline, and the data.                     *)

\* A flush leaves nothing in flight, and the registers as they are.
LEMMA FlushData ==
  ASSUME ValuePipe, NEW p, Redirect(p), regfile' = regfile, Halts' PROVE DataInv'
<1>0. CoreTypeOK /\ PipelineFlush
  BY DEF ValuePipe, PathPipe, PipeCore, Redirect
<1>1. \A t \in Tags : ~InFlight(t)'
  BY <1>0, FlushWindow
<1>2. \A u \in Units : ~rs'[u].busy
  <2> SUFFICES ASSUME NEW u \in Units PROVE ~rs'[u].busy
    OBVIOUS
  <2>1. rs[u] \in Station /\ rs'[u] = [rs[u] EXCEPT !.busy = FALSE, !.executing = FALSE]
    BY <1>0 DEF PipelineFlush, CoreTypeOK
  <2> QED BY <2>1 DEF Station
<1>3. Decoded'
  BY <1>1, <1>2 DEF Decoded
<1>4. OperandsRight' /\ ScalarResultsRight'
  BY <1>1, <1>2 DEF OperandsRight, ScalarResultsRight
<1>5. ZeroRegister'
  BY DEF ValuePipe, DataInv, ZeroRegister
<1> QED BY <1>3, <1>4, <1>5 DEF DataInv

\* The head retires: its result moves to the register file.
LEMMA RetireData ==
  ASSUME ValuePipe, HeadReady, Retire, WritesBack, UNCHANGED <<prog, front, rs>>, Halts'
  PROVE  DataInv'
<1>0. /\ CoreTypeOK /\ RobWindow /\ StationsOwn /\ NoLostWakeup
      /\ Decoded /\ OperandsRight /\ ScalarResultsRight /\ ZeroRegister
      /\ rob_head \in Tags /\ InFlight(rob_head) /\ HeadEntry = rob[rob_head] /\ rob[rob_head].ready
      /\ prog' = prog /\ rs' = rs /\ fetch_pc' = fetch_pc
  BY HeadInFlight, Counters
     DEF ValuePipe, DataInv, PathPipe, PipeCore, PipelineInv, HeadReady, HeadEntry, front
<1>1. /\ \A t \in Tags : InFlight(t)' <=> InFlight(t) /\ t # rob_head
      /\ \A t \in Tags : t # rob_head => rob'[t] = rob[t]
  BY <1>0, RetireWindow
<1>2. Decoded'
  <2>1. ASSUME NEW t \in Tags, InFlight(t)' PROVE EntryDecoded(t)'
    <3>1. EntryDecoded(t) /\ rob'[t] = rob[t]
      BY <1>0, <1>1, <2>1 DEF Decoded
    <3> QED BY <1>0, <3>1 DEF EntryDecoded
  <2>2. \A u \in Units : rs'[u].busy => StationDecoded(u)'
    BY <1>0 DEF Decoded, StationDecoded, InsOf, OperandsReady
  <2> QED BY <2>1, <2>2 DEF Decoded
<1>3. OperandsRight'
  <2> SUFFICES ASSUME NEW u \in Units, rs'[u].busy, NEW k \in 1 .. 3
               PROVE  OperandRight(u, k)'
    BY DEF OperandsRight
  <2>0. PICK i : i = InsOf(u)
    OBVIOUS
  <2>1. PICK t \in Tags, w \in Tags :
          i = InsOf(u) /\ i = InsOf(u)' /\ t = rs[u].rob_tag /\ w = rs[u].src[k].tag
    BY <1>0, <2>0, TagsTyped DEF InsOf
  <2>6. ReadsReg(i, k) => SrcReg(i, k) \in Regs
    BY <1>0, <2>1 DEF Decoded, StationDecoded
  <2>2. InFlight(t) /\ t # rob_head
    BY <1>0, <2>1 DEF StationsOwn
  <2>3. CASE rs[u].src[k].ready
    <3>1. PICK v : v = rs[u].src[k].val
      OBVIOUS
    <3>2. Reads(i, k, t, v)
      BY <1>0, <2>1, <2>3, <3>1 DEF OperandsRight, OperandRight
    <3>3. Reads(i, k, t, v)'
      BY <1>0, <2>2, <2>6, <3>2, RetireReads
    <3> QED BY <1>0, <2>1, <2>3, <3>1, <3>3 DEF OperandRight
  <2>4. CASE ~rs[u].src[k].ready
    <3>0. ReadsReg(i, k)
      BY <1>0, <2>1, <2>4 DEF OperandsRight, OperandRight
    <3>1. PICK r \in Regs : r = SrcReg(i, k)
      BY <2>6, <3>0
    <3>2. ReadsReg(i, k) /\ r # X0 /\ LastWriter(w, r, t)
      BY <1>0, <2>1, <2>4, <3>1 DEF OperandsRight, OperandRight
    <3>3. w # rob_head
      BY <1>0, <2>1, <2>4 DEF NoLostWakeup
    <3>4. LastWriter(w, r, t)'
      BY <1>0, <2>2, <3>2, <3>3, RetireSees
    <3> QED BY <1>0, <2>1, <2>4, <3>1, <3>2, <3>4 DEF OperandRight
  <2> QED BY <2>3, <2>4
<1>4. ScalarResultsRight'
  <2> SUFFICES ASSUME NEW t \in Tags, InFlight(t)', rob'[t].ready, prog'[rob'[t].pc] \in Instr
               PROVE  Explained(t)'
    BY DEF ScalarResultsRight
  <2>1. InFlight(t) /\ t # rob_head /\ rob'[t] = rob[t]
    BY <1>1
  <2>2. Explained(t) /\ Follower(t)' = Follower(t)
    BY <1>0, <2>1, RetireFollower DEF ScalarResultsRight
  <2>3. \A i \in Instr, k \in 1 .. 3, v \in Word : Reads(i, k, t, v) => Reads(i, k, t, v)'
    BY <1>0, <2>1, ArgumentsTyped, RetireReads
  <2> QED BY <1>0, <2>1, <2>2, <2>3, ExplainedKept
<1>5. ZeroRegister'
  <2>1. X0 \in Regs
    BY RegAssumption DEF Regs
  <2> QED BY <1>0, <2>1 DEF ZeroRegister, WritesBack, CoreTypeOK
<1> QED BY <1>2, <1>3, <1>4, <1>5 DEF DataInv

\* Units complete entries, each one explained; the others keep theirs.
LEMMA WorkData ==
  ASSUME ValuePipe, KeepsValues, Halts',
         dmem' = dmem \/ prog[HeadEntry.pc] \notin Instr,
         \A t \in Tags : InFlight(t) =>
           /\ rob'[t].is_store = rob[t].is_store /\ rob'[t].is_branch = rob[t].is_branch
           /\ rob'[t].is_mret = rob[t].is_mret
           /\ \/ rob'[t].takes_trap = rob[t].takes_trap
              \/ prog[rob[t].pc] \notin Instr /\ rob[t].dest = X0
           /\ rob[t].ready => Follower(t)' = Follower(t)
           /\ ~rob[t].ready /\ rob'[t].ready /\ prog[rob[t].pc] \in Instr => Explained(t)',
         \A u \in Units : rs'[u].busy =>
           /\ HearsOnly(u)
           /\ rs'[u].executing => rs[u].executing \/ (u \in TimedUnits /\ OperandsReady(u))
  PROVE  DataInv'
<1>0. /\ CoreTypeOK /\ RobWindow /\ StationsOwn
      /\ Decoded /\ OperandsRight /\ ScalarResultsRight /\ ZeroRegister /\ prog' = prog
  BY DEF ValuePipe, DataInv, PathPipe, PipeCore, PipelineInv, KeepsValues
<1>1. \A t \in Tags : InFlight(t)' <=> InFlight(t)
  BY DEF KeepsValues, InFlight, Age
<1>2. Decoded'
  <2>1. ASSUME NEW t \in Tags, InFlight(t)' PROVE EntryDecoded(t)'
    <3>1. EntryDecoded(t) /\ InFlight(t)
      BY <1>0, <1>1, <2>1 DEF Decoded
    <3> QED BY <1>0, <3>1 DEF EntryDecoded, KeepsValues
  <2>2. ASSUME NEW u \in Units, rs'[u].busy PROVE StationDecoded(u)'
    <3>1. StationDecoded(u) /\ InsOf(u)' = InsOf(u) /\ UnitOps(u)' = UnitOps(u)
      BY <1>0, <2>2 DEF Decoded, HearsOnly, InsOf, UnitOps
    <3>2. OperandsReady(u) => OperandsReady(u)'
      BY <2>2 DEF HearsOnly, OperandsReady
    <3> QED BY <2>2, <3>1, <3>2 DEF StationDecoded
  <2> QED BY <2>1, <2>2 DEF Decoded
<1>3. OperandsRight'
  <2> SUFFICES ASSUME NEW u \in Units, rs'[u].busy, NEW k \in 1 .. 3
               PROVE  OperandRight(u, k)'
    BY DEF OperandsRight
  <2>0. HearsOnly(u) /\ OperandRight(u, k)
    <3>1. HearsOnly(u)
      OBVIOUS
    <3> QED BY <1>0, <3>1 DEF OperandsRight, HearsOnly
  <2>4. PICK i : i = InsOf(u)
    OBVIOUS
  <2>1. PICK t \in Tags, w \in Tags :
          /\ i = InsOf(u) /\ i = InsOf(u)' /\ t = rs[u].rob_tag /\ t = rs'[u].rob_tag
          /\ w = rs[u].src[k].tag
    BY <1>0, <2>0, <2>4, TagsTyped DEF InsOf, HearsOnly
  <2>2. CASE rs[u].src[k].ready
    <3>1. PICK v : v = rs[u].src[k].val
      OBVIOUS
    <3>2. Reads(i, k, t, v)
      BY <2>0, <2>1, <2>2, <3>1 DEF OperandRight
    <3>3. Reads(i, k, t, v)'
      BY <3>2, ReadsKept
    <3>4. rs'[u].src[k] = rs[u].src[k]
      BY <2>0, <2>2 DEF HearsOnly
    <3> QED BY <2>1, <2>2, <3>1, <3>3, <3>4 DEF OperandRight
  <2>3. CASE ~rs[u].src[k].ready
    <3>1. PICK r : r = SrcReg(i, k)
      OBVIOUS
    <3>2. ReadsReg(i, k) /\ r # X0 /\ LastWriter(w, r, t)
      BY <2>0, <2>1, <2>3, <3>1 DEF OperandRight
    <3>3. LastWriter(w, r, t)'
      BY <3>2, SeesKept
    <3>4. CASE rs'[u].src[k] = rs[u].src[k]
      BY <2>1, <2>3, <3>1, <3>2, <3>3, <3>4 DEF OperandRight
    <3>5. CASE rs'[u].src[k].ready /\ rob'[w].ready /\ rs'[u].src[k].val = rob'[w].value
      <4>1. PICK v : v = rs'[u].src[k].val
        OBVIOUS
      <4>2. Reads(i, k, t, v)'
        BY <3>1, <3>2, <3>3, <3>5, <4>1 DEF Reads, Sees
      <4> QED BY <2>1, <3>5, <4>1, <4>2 DEF OperandRight
    <3> QED BY <2>0, <2>1, <3>4, <3>5 DEF HearsOnly
  <2> QED BY <2>2, <2>3
<1>4. ScalarResultsRight'
  <2> SUFFICES ASSUME NEW t \in Tags, InFlight(t)', rob'[t].ready, prog'[rob'[t].pc] \in Instr
               PROVE  Explained(t)'
    BY DEF ScalarResultsRight
  <2>1. CASE ~rob[t].ready
    BY <1>0, <1>1, <2>1 DEF KeepsValues
  <2>2. CASE rob[t].ready
    <3>1. /\ InFlight(t) /\ prog[rob[t].pc] \in Instr /\ Explained(t)
          /\ Follower(t)' = Follower(t) /\ rob'[t] = rob[t] /\ rob_head' = rob_head
      BY <1>0, <1>1, <2>2 DEF ScalarResultsRight, KeepsValues
    <3>2. \A i \in Instr, k \in 1 .. 3, v \in Word : Reads(i, k, t, v) => Reads(i, k, t, v)'
      BY ReadsKept
    <3>3. t = rob_head => dmem' = dmem
      BY <3>1 DEF HeadEntry
    <3> QED BY <1>0, <3>1, <3>2, <3>3, ExplainedKept
  <2> QED BY <2>1, <2>2
<1>5. ZeroRegister'
  BY <1>0 DEF ZeroRegister, KeepsValues
<1> QED BY <1>2, <1>3, <1>4, <1>5 DEF DataInv

\* An instruction enters with the operands of program order.
LEMMA EnterData ==
  ASSUME ValuePipe, MayFetch, NEW e, NEW p, FitsFetched(e), Enter(e, p),
         UNCHANGED <<prog, regfile, dmem>>, Halts',
         \A u \in Units : rs'[u].busy => (rs[u].busy /\ rs'[u] = rs[u]) \/ Takes(u)
  PROVE  DataInv'
<1>0. /\ CoreTypeOK /\ RobWindow /\ StationsOwn /\ PipeCore
      /\ Decoded /\ OperandsRight /\ ScalarResultsRight /\ ZeroRegister
      /\ prog' = prog /\ e \in RobEntry /\ e.valid /\ e.pc = fetch_pc
      /\ rob_tail \in Tags /\ rob_head' = rob_head
  BY Counters DEF ValuePipe, DataInv, PathPipe, PipeCore, PipelineInv, FitsFetched, Enter
<1>1. /\ \A t \in Tags : InFlight(t)' <=> InFlight(t) \/ t = rob_tail
      /\ \A t \in Tags : t # rob_tail => rob'[t] = rob[t]
      /\ rob'[rob_tail] = e
  BY <1>0, EnterWindow
<1>2. PICK f, tail : f = Fetched /\ tail = rob_tail /\ tail \in Tags
  BY <1>0
<1>3. Decoded'
  <2>1. ASSUME NEW t \in Tags, InFlight(t)' PROVE EntryDecoded(t)'
    <3>1. CASE t = rob_tail
      BY <1>0, <1>1, <3>1 DEF EntryDecoded, FitsFetched, Fetched
    <3>2. CASE t # rob_tail
      BY <1>0, <1>1, <2>1, <3>2 DEF Decoded, EntryDecoded
    <3> QED BY <3>1, <3>2
  <2>2. ASSUME NEW u \in Units, rs'[u].busy PROVE StationDecoded(u)'
    <3>1. CASE rs[u].busy /\ rs'[u] = rs[u]
      <4>1. StationDecoded(u) /\ InsOf(u)' = InsOf(u) /\ UnitOps(u)' = UnitOps(u)
        BY <1>0, <3>1 DEF Decoded, InsOf, UnitOps
      <4> QED BY <3>1, <4>1 DEF StationDecoded, OperandsReady
    <3>2. CASE Takes(u)
      <4>1. InsOf(u)' = Fetched /\ UnitOps(u)' = UnitOps(u)
        BY <1>0, <3>2 DEF Takes, Fetched, InsOf, UnitOps
      <4> QED BY <3>2, <4>1 DEF StationDecoded, Takes
    <3> QED BY <2>2, <3>1, <3>2
  <2> QED BY <2>1, <2>2 DEF Decoded
<1>4. OperandsRight'
  <2> SUFFICES ASSUME NEW u \in Units, rs'[u].busy, NEW k \in 1 .. 3
               PROVE  OperandRight(u, k)'
    BY DEF OperandsRight
  <2>1. CASE rs[u].busy /\ rs'[u] = rs[u]
    <3>0. PICK i : i = InsOf(u)
      OBVIOUS
    <3>1. PICK t \in Tags, w \in Tags :
            i = InsOf(u) /\ i = InsOf(u)' /\ t = rs[u].rob_tag /\ w = rs[u].src[k].tag
      BY <1>0, <2>1, <3>0, TagsTyped DEF InsOf
    <3>2. InFlight(t) /\ OperandRight(u, k)
      BY <1>0, <2>1, <3>1 DEF StationsOwn, OperandsRight
    <3>3. PICK v, r : v = rs[u].src[k].val /\ r = SrcReg(i, k)
      OBVIOUS
    <3>4. CASE rs[u].src[k].ready
      <4>1. Reads(i, k, t, v)
        BY <3>1, <3>2, <3>3, <3>4 DEF OperandRight
      <4>2. Reads(i, k, t, v)'
        BY <1>0, <3>2, <4>1, EnterReads
      <4> QED BY <2>1, <3>1, <3>3, <3>4, <4>2 DEF OperandRight
    <3>5. CASE ~rs[u].src[k].ready
      <4>1. ReadsReg(i, k) /\ r # X0 /\ LastWriter(w, r, t)
        BY <3>1, <3>2, <3>3, <3>5 DEF OperandRight
      <4>2. LastWriter(w, r, t)'
        BY <1>0, <3>2, <4>1, EnterSees
      <4> QED BY <2>1, <3>1, <3>3, <3>5, <4>1, <4>2 DEF OperandRight
    <3> QED BY <3>4, <3>5
  <2>2. CASE Takes(u)
    <3>0. ReadsReg(Fetched, k) => SrcReg(Fetched, k) \in Regs
      BY <2>2 DEF Takes
    <3>1. PICK w, v, r : /\ w = Source(Fetched, k).tag /\ v = Source(Fetched, k).val
                         /\ r = SrcReg(f, k)
      OBVIOUS
    <3>2. /\ rs'[u].src[k] = Source(Fetched, k) /\ rs'[u].src[k].tag = w /\ rs'[u].src[k].val = v
          /\ rs'[u].rob_tag = tail /\ InsOf(u)' = f
      BY <1>0, <1>2, <2>2, <3>1 DEF Takes, InsOf, Fetched
    <3>3. CASE Source(Fetched, k).ready
      <4>1. Reads(f, k, tail, v)
        BY <1>0, <1>2, <3>0, <3>1, <3>3, SourceRight
      <4>2. Reads(f, k, tail, v)'
        BY <1>0, <1>2, <4>1, EnterReads
      <4> QED BY <3>2, <3>3, <4>2 DEF OperandRight
    <3>4. CASE ~Source(Fetched, k).ready
      <4>1. ReadsReg(f, k) /\ r # X0 /\ w \in Tags /\ LastWriter(w, r, tail)
        BY <1>0, <1>2, <3>0, <3>1, <3>4, SourceRight
      <4>3. LastWriter(w, r, tail)'
        BY <1>0, <1>2, <4>1, EnterSees
      <4> QED BY <3>1, <3>2, <3>4, <4>1, <4>3 DEF OperandRight
    <3> QED BY <3>3, <3>4
  <2> QED BY <2>1, <2>2
<1>5. ScalarResultsRight'
  <2> SUFFICES ASSUME NEW t \in Tags, InFlight(t)', rob'[t].ready, prog'[rob'[t].pc] \in Instr
               PROVE  Explained(t)'
    BY DEF ScalarResultsRight
  <2>1. CASE t = rob_tail
    <3>1. prog'[rob'[t].pc] = f /\ rob'[t] = e
      BY <1>0, <1>1, <1>2, <2>1 DEF Fetched
    <3>2. f \in Instr /\ f.op \in QuickOps /\ f.op \notin CsrOps
      BY <1>0, <1>2, <3>1 DEF FitsFetched, QuickOps, TrapOps, CsrOps
    <3> QED BY <1>0, <1>2, <3>1, <3>2 DEF Explained, FitsFetched
  <2>2. CASE t # rob_tail
    <3>1. InFlight(t) /\ rob'[t] = rob[t] /\ Explained(t) /\ prog[rob[t].pc] \in Instr
      BY <1>0, <1>1, <2>2 DEF ScalarResultsRight
    <3>2. Follower(t)' = Follower(t)
      BY <1>0, <3>1, EnterFollower
    <3>3. \A i \in Instr, k \in 1 .. 3, v \in Word : Reads(i, k, t, v) => Reads(i, k, t, v)'
      BY <1>0, <3>1, EnterReads
    <3> QED BY <1>0, <3>1, <3>2, <3>3, ExplainedKept
  <2> QED BY <2>1, <2>2
<1>6. ZeroRegister'
  BY <1>0 DEF ZeroRegister
<1> QED BY <1>3, <1>4, <1>5, <1>6 DEF DataInv

-----------------------------------------------------------------------------
(* Each step is one of the four.                                           *)

\* Nothing in flight changes.
LEMMA QuietData ==
  ASSUME ValuePipe, Halts',
         UNCHANGED <<prog, rob_head, rob_tail, rob_count, rs, regfile, dmem, fetch_pc>>,
         \A t \in Tags : InFlight(t) => rob'[t] = rob[t]
  PROVE  DataInv'
<1>1. KeepsValues /\ KeepsEntries
  BY DEF KeepsValues, KeepsEntries
<1>2. \A t \in Tags : InFlight(t) => Follower(t)' = Follower(t)
  BY <1>1, KeepsFollower DEF ValuePipe, PathPipe, PipeCore, PipelineInv
<1>3. \A u \in Units : rs'[u].busy => HearsOnly(u) /\ rs'[u].executing = rs[u].executing
  BY DEF HearsOnly
<1> QED BY <1>1, <1>2, <1>3, WorkData

LEMMA CommitData == ASSUME ValuePipe, ~halted, CommitStage PROVE DataInv'
<1>0. /\ CoreTypeOK /\ Decoded /\ ~ecall_halt
      /\ HeadReady => InFlight(rob_head) /\ rob_head \in Tags /\ HeadEntry = rob[rob_head]
  BY HeadInFlight, Counters
     DEF ValuePipe, DataInv, PathPipe, PipeCore, Halts, HeadReady, HeadEntry
<1>1. HeadReady => EntryDecoded(rob_head)
  BY <1>0 DEF Decoded
<1>2. HeadReady /\ (HeadEntry.is_branch \/ HeadEntry.takes_trap \/ HeadEntry.is_store) => HeadEntry.dest = X0
  BY <1>0, <1>1 DEF EntryDecoded
<1>3. CASE TakeInterrupt \/ CommitMispredict \/ CommitMret \/ CommitTrap
  <2>1. (\E p : Redirect(p)) /\ regfile' = regfile /\ Halts'
    BY <1>0, <1>3 DEF TakeInterrupt, CommitMispredict, CommitMret, CommitTrap, Halts
  <2> QED BY <2>1, FlushData
<1>4. CASE CommitBranch \/ CommitHalt \/ CommitStore
  <2>1. /\ HeadReady /\ Retire /\ UNCHANGED <<prog, front, rs>> /\ regfile' = regfile /\ Halts'
        /\ HeadEntry.is_branch \/ HeadEntry.takes_trap \/ HeadEntry.is_store
    BY <1>0, <1>4 DEF CommitBranch, CommitHalt, CommitStore, CommitPlain, Commit, Halts
  <2> QED BY <1>2, <2>1, RetireData DEF WritesBack
<1>5. CASE CommitRegister
  <2>1. HeadReady /\ Retire /\ UNCHANGED <<prog, front, rs>> /\ WritesBack /\ Halts'
    BY <1>0, <1>5 DEF CommitRegister, CommitPlain, Commit, Halts, WritesBack
  <2> QED BY <2>1, RetireData
<1>6. CASE NoCommit
  <2>1. UNCHANGED <<prog, robs, rs, regfile, dmem, front>> /\ Halts'
    BY <1>0, <1>6 DEF NoCommit, Halts
  <2> QED BY <2>1, QuietData DEF robs, front
<1> QED BY <1>3, <1>4, <1>5, <1>6 DEF CommitStage

\* A unit delivers its own result: no two work for one tag.
LEMMA ResultIs ==
  ASSUME CoreTypeOK, StationsOwn, NEW u \in Done
  PROVE  /\ u \in Units /\ rs[u].busy /\ rs[u].executing
         /\ rs[u].rob_tag \in DOMAIN Results /\ Results[rs[u].rob_tag] = Result(u)
<1>1. Done \subseteq Units /\ \A w \in Done : rs[w].busy /\ rs[w].executing
  BY DEF Done, Units
<1>2. \A w \in Done : rs[w].rob_tag = rs[u].rob_tag => w = u
  BY <1>1 DEF StationsOwn
<1>3. (CHOOSE w \in Done : rs[w].rob_tag = rs[u].rob_tag) = u
  BY <1>2
<1>4. /\ rs[u].rob_tag \in {rs[w].rob_tag : w \in Done}
      /\ DOMAIN Results = {rs[w].rob_tag : w \in Done}
  BY DEF Results
<1>5. Results[rs[u].rob_tag] = Result(CHOOSE w \in Done : rs[w].rob_tag = rs[u].rob_tag)
  BY <1>4 DEF Results
<1> QED BY <1>1, <1>3, <1>4, <1>5

\* The only entry whose successor moves in the execution block is the JALR
\* that has found its target.
LEMMA ExecuteFollower ==
  ASSUME PathPipe, Execute, NEW t \in Tags, InFlight(t)
  PROVE  /\ ~JalrDone \/ t # rs["br"].rob_tag => Follower(t)' = Follower(t)
         /\ JalrDone /\ t = rs["br"].rob_tag => Follower(t)' = Plus(Val("br", 1), InsOf("br").imm)
<1>0. CoreTypeOK /\ RobWindow /\ PathInv /\ StationsOwn /\ "br" \in Units
  BY DEF PathPipe, PipeCore, PipelineInv, Units, TimedUnits
<1>1. UNCHANGED <<prog, rob_head, rob_tail, rob_count>> /\ \A x \in Tags : rob'[x].pc = rob[x].pc
  BY <1>0, ExecuteEntry DEF Execute
<1>2. Age(t)' = Age(t) /\ Inc(t) \in Tags /\ Inc(t)' = Inc(t)
  BY <1>1, IncIsTag DEF Age, Inc
<1>3. CASE ~JalrDone
  BY <1>1, <1>2, <1>3 DEF Follower, Execute
<1>4. CASE JalrDone
  <2>1. fetch_pc' = Plus(Val("br", 1), InsOf("br").imm) /\ rs["br"].busy
    BY <1>4 DEF Execute, JalrDone, Done
  <2>2. PICK j \in Tags : j = rs["br"].rob_tag /\ Age(j) + 1 = rob_count
    <3>1. rs["br"].rob_tag \in Tags
      BY <1>0, TagsTyped
    <3> QED BY <1>0, <1>4, <2>1, <3>1 DEF PathInv, JalrIsYoungest, StalledOnlyByJalr, JalrDone
  <2>3. t # j => Age(t) + 1 # rob_count
    <3>1. t # j => Age(t) # Age(j)
      BY <1>0, AgeInjective
    <3> QED BY <1>0, <2>2, <3>1, Counters, AgeBounds
  <2> QED BY <1>1, <1>2, <1>4, <2>1, <2>2, <2>3 DEF Follower
<1> QED BY <1>3, <1>4

\* What a unit of fixed latency leaves in its entry.
LEMMA ExecuteExplains ==
  ASSUME ValuePipe, Execute, KeepsValues, NEW u \in Done, NEW t \in Tags, t = rs[u].rob_tag
  PROVE  Explained(t)'
<1>0. CoreTypeOK /\ StationsOwn /\ Decoded /\ OperandsRight /\ PathPipe /\ prog' = prog
  BY DEF ValuePipe, DataInv, PathPipe, PipeCore, PipelineInv, KeepsValues
<1>1. /\ u \in Units /\ rs[u].busy /\ u \in TimedUnits /\ OperandsReady(u)
      /\ InsOf(u) \in Instr /\ InsOf(u).op \in UnitOps(u)
      /\ t \in DOMAIN Results /\ Results[t] = Result(u)
  <2>1. u \in Units /\ u # "sys" /\ rs[u].busy /\ u \in TimedUnits /\ OperandsReady(u)
    BY <1>0, ResultIs DEF Decoded, StationDecoded, Done, TimedUnits, AluUnits
  <2> QED BY <1>0, <2>1, ResultIs, InsTyped DEF Decoded, StationDecoded
<1>2. InFlight(t) /\ rob[t].pc = rs[u].pc
  BY <1>0, <1>1 DEF StationsOwn
<1>3. PICK i \in Instr : i = InsOf(u) /\ i = prog'[rob'[t].pc]
  BY <1>0, <1>1, <1>2 DEF KeepsValues, InsOf
<1>4. PICK a, b, c : a = Val(u, 1) /\ b = Val(u, 2) /\ c = Val(u, 3)
  OBVIOUS
<1>5. /\ rob'[t].value = Result(u) /\ rob'[t].pc = rob[t].pc /\ rob'[t].pred_taken = rob[t].pred_taken
      /\ BranchDone /\ u = "br" =>
           /\ rob'[t].br_target = IF BranchTaken THEN i.imm ELSE NextPc(rs["br"].pc)
           /\ rob'[t].br_mispred = (BranchTaken # rob[t].pred_taken)
  <2>1. rob'[t].value = Results[t] /\ rob'[t].pc = rob[t].pc /\ rob'[t].pred_taken = rob[t].pred_taken
    BY <1>0, <1>1, ExecuteEntry
  <2>2. BranchDone /\ t = rs["br"].rob_tag =>
          /\ rob'[t].br_target = IF BranchTaken THEN InsOf("br").imm ELSE NextPc(rs["br"].pc)
          /\ rob'[t].br_mispred = (BranchTaken # rob[t].pred_taken)
    BY <1>0, <1>1, ExecuteEntry
  <2> QED BY <1>1, <1>3, <2>1, <2>2
<1>6. Outcome(t, a, b, c)' /\ i.op \notin QuickOps \cup CsrOps
  <2>1. CASE u \in AluUnits
    <3>1. i.op \in AluOps /\ Result(u) = alu_compute(i, a, b)
      BY <1>1, <1>3, <1>4, <2>1 DEF UnitOps, Result, AluUnits
    <3> QED BY <1>3, <1>5, <3>1
            DEF Outcome, QuickOps, TrapOps, AluOps, MdOps, FpuOps, LoadOps, StoreOps, BranchOps, CsrOps
  <2>2. CASE u = "md"
    <3>1. i.op \in MdOps /\ Result(u) = md_compute(i, a, b)
      BY <1>1, <1>3, <1>4, <2>2 DEF UnitOps, Result, AluUnits
    <3> QED BY <1>3, <1>5, <3>1
            DEF Outcome, QuickOps, TrapOps, AluOps, MdOps, FpuOps, LoadOps, StoreOps, BranchOps, CsrOps
  <2>3. CASE u = "fpu"
    <3>1. i.op \in FpuOps /\ Result(u) = fpu_compute(i, a, b, c)
      BY <1>1, <1>3, <1>4, <2>3 DEF UnitOps, Result, AluUnits
    <3> QED BY <1>3, <1>5, <3>1
            DEF Outcome, QuickOps, TrapOps, AluOps, MdOps, FpuOps, LoadOps, StoreOps, BranchOps, CsrOps
  <2>4. CASE u = "br" /\ i.op = "jalr"
    <3>1. JalrDone /\ Result(u) = NextPc(rs[u].pc)
      BY <1>3, <2>4 DEF JalrDone, Result, AluUnits
    <3>2. Follower(t)' = Plus(a, i.imm)
      BY <1>0, <1>2, <1>3, <1>4, <2>4, <3>1, ExecuteFollower
    <3> QED BY <1>2, <1>3, <1>5, <2>4, <3>1, <3>2
            DEF Outcome, QuickOps, TrapOps, AluOps, MdOps, FpuOps, LoadOps, StoreOps, BranchOps, CsrOps
  <2>5. CASE u = "br" /\ i.op # "jalr"
    <3>1. i.op \in BranchOps
      BY <1>1, <1>3, <2>5 DEF UnitOps, AluUnits
    <3>2. BranchDone /\ BranchTaken = branch_taken(i, a, b)
      BY <1>3, <1>4, <2>5 DEF BranchDone, BranchTaken
    <3> QED BY <1>2, <1>3, <1>5, <2>5, <3>1, <3>2
            DEF Outcome, QuickOps, TrapOps, AluOps, MdOps, FpuOps, LoadOps, StoreOps, BranchOps, CsrOps
  <2> QED BY <1>1, <2>1, <2>2, <2>3, <2>4, <2>5 DEF TimedUnits
<1> QED BY <1>0, <1>1, <1>2, <1>3, <1>4, <1>6, FinishExplained

\* What is in the ROB already stays there, and the fetch goes on behind it.
LEMMA ExecuteWork ==
  ASSUME ValuePipe, Execute
  PROVE  /\ KeepsValues
         /\ \A t \in Tags : InFlight(t) /\ rob[t].ready => Follower(t)' = Follower(t)
<1>0. CoreTypeOK /\ RobWindow /\ StationsOwn /\ PathPipe
  BY DEF ValuePipe, PathPipe, PipeCore, PipelineInv
<1>1. \A t \in Tags : rob[t].ready /\ InFlight(t) => t \notin DOMAIN Results
  <2>1. \A u \in Done : u \in Units /\ rs[u].busy
    BY DEF Done, Units
  <2> QED BY <1>0, <2>1 DEF StationsOwn, Results
<1>2. KeepsValues
  BY <1>0, <1>1, ExecuteEntry DEF KeepsValues, Execute
<1>3. JalrDone => rs["br"].rob_tag \in DOMAIN Results
  BY <1>0, ResultIs DEF JalrDone
<1> QED BY <1>0, <1>1, <1>2, <1>3, ExecuteFollower

LEMMA ExecuteData == ASSUME ValuePipe, Execute, ~halted PROVE DataInv'
<1>0. CoreTypeOK /\ RobWindow /\ StationsOwn /\ PathPipe
  BY DEF ValuePipe, PathPipe, PipeCore, PipelineInv
<1>1. UNCHANGED <<prog, rob_head, rob_tail, rob_count, regfile, dmem, ecall_halt, halted>>
  BY DEF Execute
<1>2. /\ KeepsValues
      /\ \A t \in Tags : InFlight(t) /\ rob[t].ready => Follower(t)' = Follower(t)
  BY ExecuteWork
<1>3. \A t \in Tags :
        /\ rob'[t].pc = rob[t].pc /\ rob'[t].dest = rob[t].dest
        /\ rob'[t].is_store = rob[t].is_store /\ rob'[t].is_branch = rob[t].is_branch
        /\ rob'[t].is_mret = rob[t].is_mret /\ rob'[t].takes_trap = rob[t].takes_trap
        /\ t \notin DOMAIN Results => rob'[t] = rob[t]
        /\ t \in DOMAIN Results => rob'[t].ready /\ rob'[t].value = Results[t]
  BY <1>0, ExecuteEntry
<1>4. Halts'
  BY <1>1 DEF ValuePipe, DataInv, Halts
<1>5. \A t \in Tags : InFlight(t) /\ ~rob[t].ready /\ rob'[t].ready => Explained(t)'
  <2> SUFFICES ASSUME NEW t \in Tags, InFlight(t), ~rob[t].ready, rob'[t].ready PROVE Explained(t)'
    OBVIOUS
  <2>1. t \in DOMAIN Results
    BY <1>3
  <2>2. PICK u \in Done : rs[u].rob_tag = t
    BY <2>1 DEF Results
  <2> QED BY <1>2, <2>2, ExecuteExplains
<1>6. ASSUME NEW u \in Units, rs'[u].busy
      PROVE  HearsOnly(u) /\ (rs'[u].executing => rs[u].executing)
  <2>1. /\ rs[u].busy /\ rs'[u].rob_tag = rs[u].rob_tag /\ rs'[u].pc = rs[u].pc
        /\ rs'[u].executing = rs[u].executing
        /\ \A k \in 1 .. 3 : rs'[u].src[k] = Hear(rs[u].src[k], Results)
    BY <1>0, <1>6, ExecuteStation
  <2>2. ASSUME NEW k \in 1 .. 3
        PROVE  \/ rs'[u].src[k] = rs[u].src[k]
               \/ LET w == rs[u].src[k].tag IN
                  /\ ~rs[u].src[k].ready /\ rs'[u].src[k].ready
                  /\ rob'[w].ready /\ rs'[u].src[k].val = rob'[w].value
    <3>1. rs[u].src[k] \in Operand /\ rs[u].src[k].tag \in Tags
      BY <1>0 DEF CoreTypeOK, Station, Operand
    <3>2. Results \in [DOMAIN Results -> Word]
      BY <1>0, ResultsTyped
    <3> QED BY <1>3, <2>1, <3>1, <3>2, Heard
  <2> QED BY <2>1, <2>2 DEF HearsOnly
<1> QED BY <1>1, <1>2, <1>3, <1>4, <1>5, <1>6, WorkData

\* A unit that acts at the head delivers its result.
LEMMA DeliverWork ==
  ASSUME ValuePipe, NEW w \in Units, rs[w].busy, NEW v \in Word, Delivers(w, v),
         UNCHANGED <<prog, rob_head, rob_tail, rob_count, regfile, fetch_pc>>
  PROVE  /\ KeepsValues
         /\ \A t \in Tags : InFlight(t) => Follower(t)' = Follower(t)
<1>0. CoreTypeOK /\ RobWindow /\ StationsOwn
  BY DEF ValuePipe, PathPipe, PipeCore, PipelineInv
<1>1. ~rob[rs[w].rob_tag].ready
  BY <1>0 DEF StationsOwn
<1>2. \A t \in Tags :
        /\ rob'[t].pc = rob[t].pc /\ rob'[t].dest = rob[t].dest
        /\ rob'[t].is_branch = rob[t].is_branch /\ rob'[t].pred_taken = rob[t].pred_taken
        /\ t # rs[w].rob_tag => rob'[t] = rob[t]
  BY <1>0, DeliverEntry
<1>3. KeepsValues /\ KeepsEntries
  BY <1>1, <1>2 DEF KeepsValues, KeepsEntries
<1> QED BY <1>0, <1>3, KeepsFollower

LEMMA DeliverData ==
  ASSUME ValuePipe, NEW w \in Units, rs[w].busy, NEW v \in Word, Delivers(w, v), Halts',
         UNCHANGED <<prog, rob_head, rob_tail, rob_count, regfile, dmem, fetch_pc>>,
         NEW h \in Tags, h = rs[w].rob_tag, KeepsValues /\ prog[rob[h].pc] \in Instr => Explained(h)'
  PROVE  DataInv'
<1>0. CoreTypeOK /\ RobWindow /\ StationsOwn
  BY DEF ValuePipe, PathPipe, PipeCore, PipelineInv
<1>1. \A t \in Tags :
        /\ rob'[t].pc = rob[t].pc /\ rob'[t].dest = rob[t].dest
        /\ rob'[t].is_store = rob[t].is_store /\ rob'[t].is_branch = rob[t].is_branch
        /\ rob'[t].is_mret = rob[t].is_mret /\ rob'[t].takes_trap = rob[t].takes_trap
        /\ t # h => rob'[t] = rob[t]
        /\ t = h => rob'[t].ready /\ rob'[t].value = v
  BY <1>0, DeliverEntry
<1>2. /\ KeepsValues
      /\ \A t \in Tags : InFlight(t) => Follower(t)' = Follower(t)
  BY DeliverWork
<1>3. ASSUME NEW u \in Units, rs'[u].busy
      PROVE  HearsOnly(u) /\ (rs'[u].executing => rs[u].executing)
  <2>1. /\ rs[u].busy /\ rs'[u].rob_tag = rs[u].rob_tag /\ rs'[u].pc = rs[u].pc
        /\ rs'[u].executing = rs[u].executing
        /\ \A k \in 1 .. 3 : rs'[u].src[k] = Hear(rs[u].src[k], [t \in {h} |-> v])
    BY <1>0, <1>3, DeliverStation
  <2>2. ASSUME NEW k \in 1 .. 3
        PROVE  \/ rs'[u].src[k] = rs[u].src[k]
               \/ LET x == rs[u].src[k].tag IN
                  /\ ~rs[u].src[k].ready /\ rs'[u].src[k].ready
                  /\ rob'[x].ready /\ rs'[u].src[k].val = rob'[x].value
    <3> DEFINE res == [t \in {h} |-> v]
    <3>1. rs[u].src[k] \in Operand
      BY <1>0 DEF CoreTypeOK, Station
    <3>2. res \in [{h} -> Word] /\ res[h] = v
      OBVIOUS
    <3>3. rs'[u].src[k] = Hear(rs[u].src[k], res)
      BY <2>1
    <3> HIDE DEF res
    <3> QED BY <1>1, <3>1, <3>2, <3>3, Heard
  <2> QED BY <2>1, <2>2 DEF HearsOnly
<1> QED BY <1>1, <1>2, <1>3, WorkData

\* A store has computed its address and captured its data.
LEMMA LsuStoreWork ==
  ASSUME ValuePipe, LsuStore
  PROVE  /\ KeepsValues
         /\ \A t \in Tags : InFlight(t) => Follower(t)' = Follower(t)
<1>0. /\ CoreTypeOK /\ RobWindow /\ StationsOwn /\ "lsu" \in Units
      /\ UNCHANGED <<prog, rob_head, rob_tail, rob_count, regfile, fetch_pc>>
  BY DEF ValuePipe, PathPipe, PipeCore, PipelineInv, LsuStore, front, Units
<1>1. rs["lsu"].busy /\ ~rob[rs["lsu"].rob_tag].ready
  BY <1>0, LsuStoreEffect DEF StationsOwn
<1>2. \A t \in Tags :
        /\ rob'[t].pc = rob[t].pc /\ rob'[t].dest = rob[t].dest
        /\ rob'[t].is_branch = rob[t].is_branch /\ rob'[t].pred_taken = rob[t].pred_taken
        /\ t # rs["lsu"].rob_tag => rob'[t] = rob[t]
  BY <1>0, LsuStoreEffect
<1>3. KeepsValues /\ KeepsEntries
  BY <1>0, <1>1, <1>2 DEF KeepsValues, KeepsEntries
<1> QED BY <1>0, <1>3, KeepsFollower

LEMMA LsuStoreData == ASSUME ValuePipe, LsuStore, ~halted PROVE DataInv'
<1>0. /\ CoreTypeOK /\ RobWindow /\ StationsOwn /\ Decoded /\ OperandsRight
      /\ UNCHANGED <<prog, rob_head, rob_tail, rob_count, regfile, dmem, fetch_pc>>
  BY DEF ValuePipe, DataInv, PathPipe, PipeCore, PipelineInv, LsuStore, front
<1>1. "lsu" \in Units /\ rs["lsu"].busy /\ OperandsReady("lsu") /\ InsOf("lsu").op \in StoreOps
  <2>1. /\ "lsu" \in Units /\ rs["lsu"].busy /\ OperandsReady("lsu")
        /\ InsOf("lsu").op \notin LoadOps
    BY <1>0, LsuStoreEffect DEF Units
  <2>2. InsOf("lsu").op \in LoadOps \cup StoreOps
    BY <1>0, <2>1, InsTyped DEF Decoded, StationDecoded, UnitOps, AluUnits
  <2> QED BY <2>1, <2>2
<1>2. PICK h \in Tags : h = rs["lsu"].rob_tag
  BY <1>0, <1>1, TagsTyped
<1>3. InFlight(h) /\ ~rob[h].ready /\ rob[h].pc = rs["lsu"].pc
  BY <1>0, <1>1, <1>2 DEF StationsOwn
<1>4. /\ \A u \in Units \ {"lsu"} : rs'[u] = rs[u]
      /\ ~rs'["lsu"].busy
      /\ \A t \in Tags :
           /\ rob'[t].pc = rob[t].pc /\ rob'[t].dest = rob[t].dest
           /\ rob'[t].is_store = rob[t].is_store /\ rob'[t].is_branch = rob[t].is_branch
           /\ rob'[t].is_mret = rob[t].is_mret /\ rob'[t].takes_trap = rob[t].takes_trap
           /\ t # h => rob'[t] = rob[t]
           /\ t = h => rob'[t].addr = LsuAddr /\ rob'[t].sdata = Val("lsu", 2)
  BY <1>0, <1>2, LsuStoreEffect
<1>5. /\ KeepsValues
      /\ \A t \in Tags : InFlight(t) => Follower(t)' = Follower(t)
  BY LsuStoreWork
<1>6. Explained(h)'
  <2>1. PICK a, b, c : a = Val("lsu", 1) /\ b = Val("lsu", 2) /\ c = Val("lsu", 3)
    OBVIOUS
  <2>2. PICK i : i = InsOf("lsu") /\ i = prog'[rob'[h].pc]
    BY <1>0, <1>3, <1>4 DEF InsOf
  <2>3. Outcome(h, a, b, c)' /\ i.op \notin QuickOps \cup CsrOps
    BY <1>1, <1>4, <2>1, <2>2
       DEF Outcome, LsuAddr, QuickOps, TrapOps, AluOps, MdOps, FpuOps, LoadOps, StoreOps, BranchOps, CsrOps
  <2>4. InsOf("lsu") \in Instr
    BY <1>0, <1>1, InsTyped
  <2> QED BY <1>0, <1>1, <1>2, <1>3, <1>5, <2>1, <2>2, <2>3, <2>4, FinishExplained
<1>7. Halts'
  BY DEF ValuePipe, DataInv, Halts, LsuStore
<1>8. \A u \in Units : rs'[u].busy => HearsOnly(u) /\ rs'[u].executing = rs[u].executing
  BY <1>4 DEF HearsOnly
<1> QED BY <1>0, <1>4, <1>5, <1>6, <1>7, <1>8, WorkData

\* A load reads memory, a CSR instruction its CSR, at the head of the ROB.
LEMMA HeadUnitsData ==
  ASSUME ValuePipe, ~halted, LsuLoad \/ LsuIdle \/ SysExecute \/ SysIdle \/ Issue,
         SysExecute => InsOf("sys") \in Instr
  PROVE  DataInv'
<1>0. /\ CoreTypeOK /\ RobWindow /\ StationsOwn /\ Decoded /\ OperandsRight /\ PathPipe
      /\ "lsu" \in Units /\ "sys" \in Units
  BY DEF ValuePipe, DataInv, PathPipe, PipeCore, PipelineInv, Units
<1>1. UNCHANGED <<prog, rob_head, rob_tail, rob_count, regfile, dmem, fetch_pc>> /\ Halts'
  <2>1. UNCHANGED <<prog, rob_head, rob_tail, rob_count, regfile, dmem, fetch_pc, ecall_halt, halted>>
    BY DEF LsuLoad, LsuIdle, SysExecute, SysIdle, Issue, robs, front
  <2> QED BY <2>1 DEF ValuePipe, DataInv, Halts
<1>2. CASE LsuLoad
  <2>1. PICK v \in Word : v = dmem[MemIndex(LsuAddr)]
    BY <1>0, <1>2, HeadUnitsDeliver
  <2>2. /\ rs["lsu"].busy /\ OperandsReady("lsu") /\ Delivers("lsu", v)
        /\ InsOf("lsu").op \in LoadOps /\ rs["lsu"].rob_tag = rob_head
    BY <1>0, <1>2, <2>1, HeadUnitsDeliver DEF LsuLoad, LoadMayExecute, LsuReady, LsuIsLoad, AtHead
  <2>3. PICK h \in Tags : h = rs["lsu"].rob_tag
    BY <1>0, TagsTyped
  <2>4. InFlight(h) /\ rob[h].pc = rs["lsu"].pc
    BY <1>0, <2>2, <2>3 DEF StationsOwn
  <2>5. ASSUME KeepsValues PROVE Explained(h)'
    <3>1. PICK a, b, c : a = Val("lsu", 1) /\ b = Val("lsu", 2) /\ c = Val("lsu", 3)
      OBVIOUS
    <3>2. PICK i : i = InsOf("lsu") /\ i = prog'[rob'[h].pc]
      BY <1>1, <2>4, <2>5 DEF InsOf, KeepsValues
    <3>3. rob'[h].value = v
      BY <1>0, <2>2, <2>3, DeliverEntry
    <3>4. Outcome(h, a, b, c)' /\ i.op \notin QuickOps \cup CsrOps
      BY <1>1, <2>1, <2>2, <2>3, <3>1, <3>2, <3>3
         DEF Outcome, LsuAddr, QuickOps, TrapOps, AluOps, MdOps, FpuOps, LoadOps, StoreOps, BranchOps, CsrOps
    <3>5. InsOf("lsu") \in Instr
      BY <1>0, <2>2, InsTyped
    <3> QED BY <1>0, <2>2, <2>3, <2>4, <2>5, <3>1, <3>2, <3>4, <3>5, FinishExplained
  <2> QED BY <1>0, <1>1, <2>2, <2>3, <2>5, DeliverData
<1>3. CASE SysExecute
  <2>1. PICK v \in Word : v = read_csr(csr, InsOf("sys").csr)
    BY <1>0, <1>3, HeadUnitsDeliver
  <2>2. rs["sys"].busy /\ Delivers("sys", v) /\ rs["sys"].rob_tag = rob_head
    BY <1>0, <1>3, <2>1, HeadUnitsDeliver DEF SysExecute, SysMayExecute, AtHead
  <2>3. InsOf("sys").op \in CsrOps
    BY <1>0, <1>3, <2>2 DEF Decoded, StationDecoded, UnitOps, AluUnits
  <2>4. PICK h \in Tags : h = rs["sys"].rob_tag
    BY <1>0, TagsTyped
  <2>5. InFlight(h) /\ rob[h].pc = rs["sys"].pc
    BY <1>0, <2>2, <2>4 DEF StationsOwn
  <2>6. ASSUME KeepsValues PROVE Explained(h)'
    <3>1. prog'[rob'[h].pc] = InsOf("sys") /\ h = rob_head'
      BY <1>1, <2>2, <2>4, <2>5, <2>6 DEF InsOf, KeepsValues
    <3> QED BY <2>3, <3>1 DEF Explained, CsrOps, TrapOps
  <2> QED BY <1>0, <1>1, <2>2, <2>4, <2>6, DeliverData
<1>4. CASE LsuIdle \/ SysIdle
  <2>1. UNCHANGED <<robs, rs>>
    BY <1>4 DEF LsuIdle, SysIdle
  <2> QED BY <1>1, <2>1, QuietData DEF robs
<1>5. CASE Issue
  <2>1. UNCHANGED rob
    BY <1>5 DEF Issue, robs
  <2>2. KeepsValues /\ KeepsEntries
    BY <1>1, <2>1 DEF KeepsValues, KeepsEntries
  <2>3. \A t \in Tags : InFlight(t) => Follower(t)' = Follower(t)
    BY <1>0, <1>1, <2>2, KeepsFollower
  <2>4. \A u \in Units : rs'[u].busy =>
          HearsOnly(u) /\ (rs'[u].executing => rs[u].executing \/ (u \in TimedUnits /\ OperandsReady(u)))
    BY <1>0, <1>5, IssueEffect DEF HearsOnly
  <2> QED BY <1>1, <2>1, <2>2, <2>3, <2>4, WorkData
<1> QED BY <1>2, <1>3, <1>4, <1>5

\* The flags of the entry of an instruction that needs a unit.
LEMMA PendingFits ==
  ASSUME CoreTypeOK, Fetched \in Instr, Fetched.op \notin QuickOps \cup {"end"}
  PROVE  LET e == PendingEntry(Fetched) IN
         /\ e \in RobEntry /\ e.valid /\ ~e.ready /\ e.pc = fetch_pc /\ e.dest = Dest(Fetched)
         /\ e.is_store <=> Fetched.op \in StoreOps
         /\ ~e.is_branch /\ ~e.is_mret /\ ~e.takes_trap
         /\ Fetched.op # "mret" /\ Fetched.op \notin TrapOps
<1> DEFINE i == Fetched
           store == (i.op \in StoreOps)
           e == PendingEntry(i)
<1>1. FreshEntry \in RobEntry /\ FreshEntry.pc = fetch_pc
      /\ ~FreshEntry.is_branch /\ ~FreshEntry.is_mret /\ ~FreshEntry.takes_trap
  <2>1. rob[rob_tail] \in RobEntry /\ FreshEntry \in RobEntry
    BY FreshEntryTyped DEF CoreTypeOK
  <2> QED BY <2>1 DEF FreshEntry, RobEntry
<1>2. store \in BOOLEAN /\ Dest(i) \in Regs
  BY FetchedTyped, DestIsRegister
<1>3. e = [FreshEntry EXCEPT !.valid = TRUE, !.ready = FALSE, !.is_store = store, !.dest = Dest(i)]
  BY DEF PendingEntry
<1> HIDE DEF store, e
<1>4. /\ e \in RobEntry /\ e.valid /\ ~e.ready /\ e.pc = fetch_pc /\ e.dest = Dest(i)
      /\ e.is_store = store /\ ~e.is_branch /\ ~e.is_mret /\ ~e.takes_trap
  BY <1>1, <1>2, <1>3 DEF RobEntry
<1>5. i.op # "mret" /\ i.op \notin TrapOps
  BY DEF QuickOps
<1> QED BY <1>4, <1>5 DEF store, e

LEMMA ScalarDispatchData == ASSUME ValuePipe, Fetched \in Instr, DispatchStage PROVE DataInv'
<1>0. CoreTypeOK /\ RobWindow
  BY DEF ValuePipe, PathPipe, PipeCore, PipelineInv
<1>1. EndOfTick => UNCHANGED <<prog, regfile, dmem>> /\ Halts'
  <2>1. EndOfTick => UNCHANGED <<prog, regfile, dmem, ecall_halt>>
    BY DEF EndOfTick
  <2>2. EndOfTick /\ ecall_halt => halted'
    BY DEF EndOfTick
  <2> QED BY <2>1, <2>2 DEF Halts
<1>2. ASSUME NEW u \in Units, Fetched.op \in UnitOps(u), rs' = [rs EXCEPT ![u] = FilledStation(@, Fetched)]
      PROVE  \A w \in Units : rs'[w].busy => (rs[w].busy /\ rs'[w] = rs[w]) \/ Takes(w)
  BY <1>0, <1>2, FillEffect, ArgumentsTyped DEF Takes
<1>3. CASE DispatchQuick
  <2> DEFINE e == QuickEntry(Fetched)
  <2>1. /\ Enter(e, QuickNext(Fetched)) /\ MayFetch /\ rs' = rs
        /\ Fetched.op \in QuickOps /\ UNCHANGED <<prog, regfile, dmem>> /\ Halts'
    BY <1>1, <1>3 DEF DispatchQuick, Dispatch, QuickEntry, QuickNext
  <2>2. FitsFetched(e)
    <3>1. Fetched.op \notin StoreOps \cup BranchOps \cup {"end"}
      BY <2>1 DEF QuickOps, TrapOps, StoreOps, BranchOps
    <3> HIDE DEF e
    <3>2. /\ e \in RobEntry /\ e.valid /\ e.ready /\ e.pc = fetch_pc /\ e.dest = Dest(Fetched)
          /\ ~e.is_branch /\ ~e.is_store
          /\ e.takes_trap = (Fetched.op \in TrapOps) /\ e.is_mret = (Fetched.op = "mret")
          /\ Fetched.op \in TrapOps => e.cause = CauseOf(Fetched)
          /\ Fetched.op = "lui" => e.value = Fetched.imm
          /\ Fetched.op = "jal" => e.value = NextPc(fetch_pc)
      BY <1>0, QuickFacts DEF e
    <3>3. e.takes_trap => e.dest = X0
      BY <3>2 DEF Dest, TrapOps
    <3> QED BY <2>1, <3>1, <3>2, <3>3 DEF FitsFetched
  <2>3. \A u \in Units : rs'[u].busy => rs[u].busy /\ rs'[u] = rs[u]
    BY <2>1
  <2> HIDE DEF e
  <2> QED BY <2>1, <2>2, <2>3, EnterData
<1>4. CASE DispatchToUnit \/ DispatchJalr
  <2> DEFINE e == PendingEntry(Fetched)
             u == UnitFor(Fetched.op)
  <2>1. /\ Enter(e, NextPc(fetch_pc)) /\ MayFetch
        /\ rs' = [rs EXCEPT ![u] = FilledStation(@, Fetched)]
        /\ Fetched.op \in AluOps \cup MdOps \cup FpuOps \cup LoadOps \cup StoreOps \cup CsrOps \cup {"jalr"}
        /\ UNCHANGED <<prog, regfile, dmem>> /\ Halts'
    <3>1. CASE DispatchToUnit
      BY <1>1, <3>1 DEF DispatchToUnit, Dispatch
    <3>2. CASE DispatchJalr
      <4>1. Fetched.op = "jalr" /\ rs' = [rs EXCEPT !["br"] = FilledStation(@, Fetched)]
        BY <3>2 DEF DispatchJalr, Dispatch
      <4>2. u = "br"
        <5>1. /\ Fetched.op \notin AluOps /\ Fetched.op \notin MdOps /\ Fetched.op \notin FpuOps
              /\ Fetched.op \notin LoadOps \cup StoreOps /\ Fetched.op \notin CsrOps
              /\ Fetched.op \in BranchOps \cup {"jalr"}
          BY <4>1 DEF AluOps, MdOps, FpuOps, LoadOps, StoreOps, CsrOps
        <5> QED BY <5>1 DEF UnitFor
      <4> QED BY <1>1, <3>2, <4>1, <4>2 DEF DispatchJalr, Dispatch
    <3> QED BY <1>4, <3>1, <3>2
  <2>2. /\ Fetched.op \in Ops \ (QuickOps \cup {"end"})
        /\ Fetched.op \notin QuickOps \cup {"end"} /\ Fetched.op \notin BranchOps
    BY <2>1 DEF Ops, QuickOps, TrapOps, AluOps, MdOps, FpuOps, LoadOps, StoreOps, BranchOps, CsrOps
  <2>3. u \in Units /\ Fetched.op \in UnitOps(u)
    <3>1. u \in Units
      BY <2>2, UnitForIsUnit
    <3>2. Fetched.op \in UnitOps(u)
      BY <2>1 DEF UnitFor, UnitOps, AluUnits, AluOps, MdOps, FpuOps, LoadOps, StoreOps, BranchOps, CsrOps
    <3> QED BY <3>1, <3>2
  <2>4. FitsFetched(e)
    <3>1. Fetched.op \in StoreOps => Dest(Fetched) = X0
      BY DEF Dest
    <3> HIDE DEF e
    <3>2. /\ e \in RobEntry /\ e.valid /\ ~e.ready /\ e.pc = fetch_pc /\ e.dest = Dest(Fetched)
          /\ e.is_store <=> Fetched.op \in StoreOps
          /\ ~e.is_branch /\ ~e.is_mret /\ ~e.takes_trap
          /\ Fetched.op # "mret" /\ Fetched.op \notin TrapOps
      BY <1>0, <2>2, PendingFits DEF e
    <3> QED BY <2>2, <3>1, <3>2 DEF FitsFetched
  <2> HIDE DEF e, u
  <2>5. \A w \in Units : rs'[w].busy => (rs[w].busy /\ rs'[w] = rs[w]) \/ Takes(w)
    BY <1>2, <2>1, <2>3
  <2> QED BY <2>1, <2>4, <2>5, EnterData
<1>5. CASE DispatchBranch
  <2> DEFINE e == PendingEntry(Fetched)
  <2>1. /\ MayFetch /\ rs' = [rs EXCEPT !["br"] = FilledStation(@, Fetched)]
        /\ Fetched.op \in BranchOps
        /\ UNCHANGED <<prog, regfile, dmem>> /\ Halts'
    BY <1>1, <1>5 DEF DispatchBranch, Dispatch
  <2>2. PICK pred \in BOOLEAN :
          Enter([e EXCEPT !.is_branch = TRUE, !.pred_taken = pred],
                IF pred THEN Fetched.imm ELSE NextPc(fetch_pc))
    BY <1>5 DEF DispatchBranch
  <2> DEFINE p == IF pred THEN Fetched.imm ELSE NextPc(fetch_pc)
  <2>3. Fetched.op \notin QuickOps \cup {"end"} /\ Fetched.op \notin StoreOps
    BY <2>1 DEF QuickOps, TrapOps, BranchOps, StoreOps
  <2> DEFINE b == [e EXCEPT !.is_branch = TRUE, !.pred_taken = pred]
  <2>4. FitsFetched(b)
    <3>1. /\ e \in RobEntry /\ e.valid /\ ~e.ready /\ e.pc = fetch_pc /\ e.dest = Dest(Fetched)
          /\ ~e.is_store /\ ~e.is_mret /\ ~e.takes_trap
          /\ Fetched.op # "mret" /\ Fetched.op \notin TrapOps
      BY <1>0, <2>3, PendingFits
    <3> HIDE DEF e
    <3>2. /\ b \in RobEntry /\ b.valid /\ ~b.ready /\ b.pc = fetch_pc /\ b.dest = Dest(Fetched)
          /\ ~b.is_store /\ ~b.is_mret /\ ~b.takes_trap /\ b.is_branch
      BY <3>1 DEF RobEntry
    <3>3. Dest(Fetched) = X0
      BY <2>1 DEF Dest
    <3> HIDE DEF b
    <3> QED BY <2>1, <2>3, <3>1, <3>2, <3>3 DEF FitsFetched
  <2>5. \A w \in Units : rs'[w].busy => (rs[w].busy /\ rs'[w] = rs[w]) \/ Takes(w)
    <3>1. "br" \in Units /\ Fetched.op \in UnitOps("br")
      BY <2>1 DEF Units, TimedUnits, UnitOps, AluUnits
    <3> QED BY <1>2, <2>1, <3>1
  <2>6. Enter(b, p)
    BY <2>2
  <2> HIDE DEF b, p
  <2> QED BY <2>1, <2>4, <2>5, <2>6, EnterData
<1>6. CASE DispatchStall
  <2>1. /\ UNCHANGED <<prog, front, rob_head, rob_tail, rob_count, rs, regfile, dmem>> /\ Halts'
        /\ rob' = [rob EXCEPT ![rob_tail] = FreshEntry] /\ rob_count < ROB_SZ
    BY <1>1, <1>6 DEF DispatchStall, Dispatch, MayFetch
  <2>2. ~InFlight(rob_tail)
    BY <1>0, <2>1, TailIsFree
  <2>3. \A t \in Tags : InFlight(t) => rob'[t] = rob[t]
    BY <1>0, <2>1, <2>2 DEF CoreTypeOK
  <2> QED BY <2>1, <2>3, QuietData DEF front
<1>7. CASE FetchEnd \/ FetchIdle
  <2>1. UNCHANGED <<prog, fetch_pc, robs, rs, regfile, dmem>> /\ Halts'
    BY <1>1, <1>7 DEF FetchEnd, FetchIdle, front
  <2> QED BY <2>1, QuietData DEF robs
<1> QED BY <1>3, <1>4, <1>5, <1>6, <1>7 DEF DispatchStage

LEMMA DispatchData ==
  ASSUME ValuePipe, FetchIdle \/ (Fetched \in Instr /\ DispatchStage) PROVE DataInv'
<1>1. CASE FetchIdle
  <2>1. UNCHANGED <<prog, fetch_pc, robs, rs, regfile, dmem, ecall_halt>> /\ (ecall_halt => halted')
    BY <1>1 DEF FetchIdle, front, EndOfTick
  <2> QED BY <2>1, QuietData DEF robs, Halts
<1>2. CASE Fetched \in Instr /\ DispatchStage
  BY <1>2, ScalarDispatchData
<1> QED BY <1>1, <1>2

-----------------------------------------------------------------------------
(* The invariant, and what follows from it.                                *)

LEMMA ValueInit == Init => ValueCore
<1> SUFFICES ASSUME Init PROVE ValueCore
  OBVIOUS
<1>1. PathCore
  BY InitStarts, PathStart
<1>2. rob_head = 0 /\ rob_count = 0 /\ ~ecall_halt
  BY DEF Init, Reset
<1>3. \A t \in Tags : ~InFlight(t)
  BY <1>1, <1>2, Counters DEF InFlight, Age, PathCore, CoreInv
<1>4. \A u \in Units : ~rs[u].busy
  BY DEF Init, Reset, IdleStation
<1>5. ZeroRegister
  BY RegAssumption DEF Init, Reset, ZeroRegister, Regs
<1>6. Decoded /\ OperandsRight /\ ScalarResultsRight /\ Halts
  BY <1>2, <1>3, <1>4 DEF Decoded, OperandsRight, ScalarResultsRight, Halts
<1> QED BY <1>1, <1>5, <1>6 DEF ValueCore, DataInv

LEMMA ValueStep == ValueCore /\ [Next]_vars => ValueCore'
<1> SUFFICES ASSUME ValueCore, [Next]_vars PROVE ValueCore'
  OBVIOUS
<1>0. PathCore' /\ ValuePipe /\ Fetched \in Instr /\ InsOf("sys") \in Instr
  BY PathStep, ScalarCode DEF ValueCore, ValuePipe, PathCore, PathPipe, CoreInv, PipeCore, Units
<1>1. CASE ~halted /\ CommitStage
  BY <1>0, <1>1, CommitData DEF ValueCore
<1>2. CASE ~halted /\ Execute
  BY <1>0, <1>2, ExecuteData DEF ValueCore
<1>3. CASE ~halted /\ LsuStore
  BY <1>0, <1>3, LsuStoreData DEF ValueCore
<1>4. CASE ~halted /\ (LsuLoad \/ LsuIdle \/ SysExecute \/ SysIdle \/ Issue)
  BY <1>0, <1>4, HeadUnitsData DEF ValueCore
<1>5. CASE DispatchStage
  BY <1>0, <1>5, DispatchData DEF ValueCore
<1>6. CASE TimerFires \/ UNCHANGED vars
  <2>1. UNCHANGED <<prog, front, robs, rs, regfile, dmem, ecall_halt, halted>>
    BY <1>6 DEF TimerFires, vars
  <2>2. Halts'
    BY <2>1 DEF ValueCore, DataInv, Halts
  <2>3. DataInv'
    BY <1>0, <2>1, <2>2, QuietData DEF robs, front
  <2> QED BY <1>0, <2>3 DEF ValueCore
<1> QED BY <1>1, <1>2, <1>3, <1>4, <1>5, <1>6 DEF Next, Tick, Stopped

LEMMA ValueInvariant == Spec => []ValueCore
  BY ValueInit, ValueStep, PTL DEF Spec

\* However it came to its station, from the register file, out of the ROB or
\* over the CDB, every operand is that of program order, on the right path
\* and on a mispredicted one.
THEOREM OperandsRightCorrect == Spec => []OperandsRight
<1>1. ValueCore => OperandsRight
  BY DEF ValueCore, DataInv
<1> QED BY <1>1, ValueInvariant, PTL

\* Every completed entry holds what its instruction computes from the
\* operands of program order, and only the oldest one has read memory or
\* touched a CSR.
THEOREM ResultsRightCorrect == Spec => []ResultsRight
<1>1. ValueCore => ResultsRight
  <2> SUFFICES ASSUME ValueCore, NEW t \in Tags, InFlight(t), rob[t].ready PROVE Explained(t)
    BY DEF ResultsRight
  <2>1. prog[rob[t].pc] \in Instr
    BY DEF ValueCore, PathCore, CoreInv, CoreTypeOK, RobEntry
  <2> QED BY <2>1 DEF ValueCore, DataInv, ScalarResultsRight
<1> QED BY <1>1, ValueInvariant, PTL
=============================================================================
