-------------------------- MODULE SocVectorValues --------------------------
(***************************************************************************)
(* The data of the core beside its coprocessor, proved for every value of  *)
(* the constants: every operand of a scalar instruction, and every scalar  *)
(* operand of a vector instruction that waits in the queue or in the unit, *)
(* is that of program order; and so are the vl, vstart and element width   *)
(* its queue entry captured.                                               *)
(*                                                                         *)
(* The scalar core does what SocCoreValues says of it, whatever the        *)
(* coprocessor does: a step of the coprocessor completes entries (of       *)
(* vector instructions, which SocCoreValues does not explain) or lets one  *)
(* enter, and the lemmas there allow for that.  The operands of the queue  *)
(* are kept where they were by the same four kinds of step.                *)
(***************************************************************************)
EXTENDS SocVectorSafety

\* The invariant of the scalar core holds beside that of the queue.
VecValues == VecCore /\ PathInv /\ DataInv

LEMMA ValuesIsPipe == VecValues => ValuePipe /\ PathPipe /\ PipeCore /\ CoreTypeOK /\ RobWindow
  BY DEF VecValues, VecCore, ValuePipe, PathPipe, PipeCore, PipelineInv

-----------------------------------------------------------------------------
(* What a turn of the coprocessor does to the entries and the stations.    *)

\* The entry f is e, completed perhaps and with a fault perhaps.
CompletedFrom(e, f) ==
  /\ f \in RobEntry /\ f.valid = e.valid
  /\ f.pc = e.pc /\ f.dest = e.dest /\ f.is_store = e.is_store /\ f.is_branch = e.is_branch
  /\ f.is_mret = e.is_mret /\ f.pred_taken = e.pred_taken
  /\ f.takes_trap = e.takes_trap \/ e.dest = X0

\* The scalar side of a turn.
TurnEffect ==
  /\ VectorFrame
  /\ dmem' = dmem \/ (unit.busy /\ unit.rob_tag = rob_head)
  /\ \/ rob' = rob
     \/ /\ unit.busy
        /\ \E e \in RobEntry : CompletedFrom(rob[unit.rob_tag], e) /\ rob' = [rob EXCEPT ![unit.rob_tag] = e]
  /\ \/ rs' = rs
     \/ \E v \in Word : /\ unit.busy /\ rob'[unit.rob_tag].ready /\ rob'[unit.rob_tag].value = v
                        /\ rs' = cdb_broadcast([t \in {unit.rob_tag} |-> v])

LEMMA MarkedCompletes ==
  ASSUME NEW r \in RobEntry, r.dest = X0
  PROVE  LET m == Marked(r) IN m \in RobEntry /\ CompletedFrom(r, m) /\ CompletedFrom(r, [m EXCEPT !.ready = TRUE])
<1>0. CAUSE_LOAD_FAULT \in Word
  BY WordAssumption DEF Word, CAUSE_LOAD_FAULT
<1>1. PICK m : m = Marked(r)
  OBVIOUS
<1>2. m = [r EXCEPT !.takes_trap = TRUE, !.cause = CAUSE_LOAD_FAULT] \/ m = r
  BY <1>1 DEF Marked
<1>3. CompletedFrom(r, m)
  BY <1>0, <1>2 DEF CompletedFrom, RobEntry
<1>4. PICK n : n = [m EXCEPT !.ready = TRUE]
  OBVIOUS
<1>5. CompletedFrom(r, n)
  <2>1. m \in RobEntry
    BY <1>3 DEF CompletedFrom
  <2>2. /\ n \in RobEntry /\ n.valid = m.valid /\ n.pc = m.pc /\ n.dest = m.dest /\ n.is_store = m.is_store
        /\ n.is_branch = m.is_branch /\ n.is_mret = m.is_mret /\ n.pred_taken = m.pred_taken
        /\ n.takes_trap = m.takes_trap
    BY <1>4, <2>1 DEF RobEntry
  <2> QED BY <1>3, <2>2 DEF CompletedFrom
<1> QED BY <1>1, <1>3, <1>4, <1>5 DEF CompletedFrom

LEMMA TurnHasEffect ==
  ASSUME VecCore, VecUnit PROVE TurnEffect
<1>0. CoreTypeOK /\ VecControlOK
  BY DEF VecCore, PipeCore
<1>1. VectorFrame
  BY DEF VecUnit, VecCount, VecComplete, VecWait, VlsuEndOfField, VlsuSkip, VlsuMove, VlsuRefused
<1>2. unit.busy => unit.rob_tag \in Tags /\ rob[unit.rob_tag] \in RobEntry
  BY <1>0, UnitOwns DEF CoreTypeOK
<1>3. ASSUME VlsuMayExecute
      PROVE  unit.busy /\ unit.rob_tag = rob_head /\ rob[unit.rob_tag].dest = X0
  <2>1. unit.busy /\ vins.op \in VMemOps /\ unit.rob_tag = rob_head
    BY <1>3 DEF VlsuMayExecute, IsMem
  <2>2. Owns(unit)
    BY <2>1, UnitOwns
  <2> QED BY <2>1, <2>2 DEF Owns, vins, VMemOps
<1>4. CASE VecCount \/ VecWait \/ VlsuSkip \/ VlsuRefused
  <2>1. UNCHANGED <<rob, rs, dmem>>
    BY <1>4 DEF VecCount, VecWait, VlsuSkip, VlsuRefused
  <2> QED BY <1>1, <2>1 DEF TurnEffect
<1>5. CASE VecComplete
  <2>1. unit.busy /\ dmem' = dmem
    BY <1>5 DEF VecComplete, ArithRuns, IsArith
  <2>2. PICK r \in RobEntry : r = rob[unit.rob_tag]
    BY <1>2, <2>1
  <2>3. CASE VCat(vins) = "xres"
    <3>0. unit.vl \in 0 .. CELLS
      BY <1>0, UnitIs DEF VecRs
    <3>1. PICK x \in Word : x = VXResult(vins, vregs, unit.vl)
      BY <3>0, VXResultIsWord
    <3>2. /\ rob' = [rob EXCEPT ![unit.rob_tag] = [@ EXCEPT !.ready = TRUE, !.value = x]]
          /\ rs' = cdb_broadcast([t \in {unit.rob_tag} |-> x])
      BY <1>5, <2>3, <3>1 DEF VecComplete
    <3>3. PICK e : e = [r EXCEPT !.ready = TRUE, !.value = x]
      OBVIOUS
    <3>4. CompletedFrom(r, e) /\ e \in RobEntry /\ e.ready /\ e.value = x
      BY <3>3 DEF RobEntry, CompletedFrom
    <3>5. rob' = [rob EXCEPT ![unit.rob_tag] = e]
      BY <2>2, <3>2, <3>3
    <3>6. rob'[unit.rob_tag] = e
      BY <1>0, <1>2, <2>1, <3>5 DEF CoreTypeOK
    <3> QED BY <1>1, <2>1, <2>2, <3>2, <3>4, <3>5, <3>6 DEF TurnEffect
  <2>4. CASE VCat(vins) # "xres"
    <3>1. rob' = [rob EXCEPT ![unit.rob_tag].ready = TRUE] /\ rs' = rs
      BY <1>5, <2>4 DEF VecComplete
    <3>2. PICK e : e = [r EXCEPT !.ready = TRUE]
      OBVIOUS
    <3>3. CompletedFrom(r, e) /\ e \in RobEntry
      BY <3>2 DEF RobEntry, CompletedFrom
    <3>4. rob' = [rob EXCEPT ![unit.rob_tag] = e]
      BY <2>2, <3>1, <3>2
    <3> QED BY <1>1, <2>1, <2>2, <3>1, <3>3, <3>4 DEF TurnEffect
  <2> QED BY <2>3, <2>4
<1>6. CASE VlsuEndOfField \/ VlsuMove
  <2>1. VlsuMayExecute /\ rs' = rs
    BY <1>6 DEF VlsuEndOfField, VlsuMove
  <2>2. unit.busy /\ unit.rob_tag = rob_head
    BY <1>3, <2>1
  <2>3. PICK r \in RobEntry : r = rob[unit.rob_tag] /\ r.dest = X0
    BY <1>2, <1>3, <2>1
  <2>4. PICK m \in RobEntry : m = Marked(r) /\ CompletedFrom(r, m) /\ CompletedFrom(r, [m EXCEPT !.ready = TRUE])
    BY <2>3, MarkedCompletes
  <2>5. \/ rob' = rob
        \/ rob' = [rob EXCEPT ![unit.rob_tag] = m]
        \/ rob' = [rob EXCEPT ![unit.rob_tag] = [m EXCEPT !.ready = TRUE]]
    BY <1>6, <2>3, <2>4 DEF VlsuEndOfField, VlsuMove, VlsuDone
  <2>6. [m EXCEPT !.ready = TRUE] \in RobEntry
    BY <2>4 DEF CompletedFrom
  <2> QED BY <1>1, <2>1, <2>2, <2>3, <2>4, <2>5, <2>6 DEF TurnEffect
<1> QED BY <1>4, <1>5, <1>6 DEF VecUnit

\* What the turn leaves of the entries, and what the stations hear.
LEMMA TurnEntries ==
  ASSUME VecCore, TurnEffect
  PROVE  /\ \A t \in Tags : t # unit.rob_tag \/ ~unit.busy => rob'[t] = rob[t]
         /\ \A t \in Tags : CompletedFrom(rob[t], rob'[t])
         /\ \A u \in Units : /\ rs'[u].busy = rs[u].busy /\ rs'[u].executing = rs[u].executing
                             /\ rs'[u].rob_tag = rs[u].rob_tag /\ rs'[u].pc = rs[u].pc
                             /\ rs'[u].busy => HearsOnly(u)
<1>0. CoreTypeOK /\ rob \in [Tags -> RobEntry] /\ rs \in [Units -> Station]
  BY DEF VecCore, PipeCore, CoreTypeOK
<1>1. \A r \in RobEntry : CompletedFrom(r, r)
  BY DEF CompletedFrom
<1>2. unit.busy => unit.rob_tag \in Tags
  BY UnitOwns
<1>3. /\ \A t \in Tags : t # unit.rob_tag \/ ~unit.busy => rob'[t] = rob[t]
      /\ \A t \in Tags : CompletedFrom(rob[t], rob'[t])
  <2>1. CASE rob' = rob
    BY <1>0, <1>1, <2>1
  <2>2. CASE unit.busy /\ \E e \in RobEntry : CompletedFrom(rob[unit.rob_tag], e) /\ rob' = [rob EXCEPT ![unit.rob_tag] = e]
    BY <1>0, <1>1, <1>2, <2>2
  <2> QED BY <2>1, <2>2 DEF TurnEffect
<1>4. ASSUME NEW u \in Units
      PROVE  /\ rs'[u].busy = rs[u].busy /\ rs'[u].executing = rs[u].executing
             /\ rs'[u].rob_tag = rs[u].rob_tag /\ rs'[u].pc = rs[u].pc
             /\ rs'[u].busy => HearsOnly(u)
  <2>1. CASE rs' = rs
    BY <2>1 DEF HearsOnly
  <2>2. CASE rs' # rs
    <3>1. PICK v \in Word : /\ unit.busy /\ rob'[unit.rob_tag].ready /\ rob'[unit.rob_tag].value = v
                            /\ rs' = cdb_broadcast([t \in {unit.rob_tag} |-> v])
      BY <2>2 DEF TurnEffect
    <3>2. PICK res \in [{unit.rob_tag} -> Word] :
            res = [t \in {unit.rob_tag} |-> v] /\ res[unit.rob_tag] = v
      <4>1. [t \in {unit.rob_tag} |-> v] \in [{unit.rob_tag} -> Word]
            /\ [t \in {unit.rob_tag} |-> v][unit.rob_tag] = v
        OBVIOUS
      <4> QED BY <4>1
    <3>3. rs' = cdb_broadcast(res)
      BY <3>1, <3>2
    <3>4. /\ rs'[u].busy = rs[u].busy /\ rs'[u].executing = rs[u].executing
          /\ rs'[u].rob_tag = rs[u].rob_tag /\ rs'[u].pc = rs[u].pc
          /\ rs[u].busy => \A k \in 1 .. 3 : rs'[u].src[k] = Hear(rs[u].src[k], res)
      BY <1>0, <3>3, StationHeard
    <3>5. ASSUME NEW k \in 1 .. 3, rs[u].busy
          PROVE  \/ rs'[u].src[k] = rs[u].src[k]
                 \/ LET w == rs[u].src[k].tag IN
                    /\ ~rs[u].src[k].ready /\ rs'[u].src[k].ready
                    /\ rob'[w].ready /\ rs'[u].src[k].val = rob'[w].value
      <4>1. rs[u].src[k] \in Operand
        BY <1>0 DEF Station
      <4> QED BY <3>1, <3>2, <3>4, <3>5, <4>1, Heard
    <3> QED BY <3>4, <3>5 DEF HearsOnly
  <2> QED BY <2>1, <2>2
<1> QED BY <1>3, <1>4

\* A turn of the coprocessor completes an entry that needs no explanation.
LEMMA TurnWork ==
  ASSUME VecValues, VecUnit
  PROVE  /\ KeepsValues /\ KeepsEntries
         /\ \A t \in Tags : rob[t].ready \/ prog[rob[t].pc] \in Instr => rob'[t] = rob[t]
         /\ unit.busy => prog[rob[unit.rob_tag].pc] \notin Instr
<1>0. /\ VecCore /\ ValuePipe /\ PathPipe /\ CoreTypeOK /\ RobWindow
      /\ rob \in [Tags -> RobEntry]
  BY ValuesIsPipe DEF VecValues, CoreTypeOK
<1>1. /\ UNCHANGED <<prog, rob_head, rob_tail, rob_count, regfile, fetch_pc, fetch_stalled, fetch_done,
                     branch_pending, ecall_halt, halted>>
      /\ dmem' = dmem \/ (unit.busy /\ unit.rob_tag = rob_head)
  BY <1>0, TurnHasEffect DEF TurnEffect, VectorFrame, front
<1>2. /\ \A t \in Tags : t # unit.rob_tag \/ ~unit.busy => rob'[t] = rob[t]
      /\ \A t \in Tags : CompletedFrom(rob[t], rob'[t])
      /\ \A u \in Units : /\ rs'[u].busy = rs[u].busy /\ rs'[u].executing = rs[u].executing
                          /\ rs'[u].rob_tag = rs[u].rob_tag /\ rs'[u].pc = rs[u].pc
                          /\ rs'[u].busy => HearsOnly(u)
  BY <1>0, TurnHasEffect, TurnEntries
<1>3. unit.busy => /\ unit.rob_tag \in Tags /\ ~rob[unit.rob_tag].ready
                   /\ prog[rob[unit.rob_tag].pc].op \in VArithOps \cup VMemOps
  BY <1>0, UnitOwns DEF Owns
<1>4. \A x \in Instr : x.op \notin VArithOps \cup VMemOps
  BY DEF Instr, Ops, AluOps, MdOps, FpuOps, LoadOps, StoreOps, BranchOps, CsrOps, QuickOps, TrapOps,
         VArithOps, VAluOps, VMemOps
<1>5. \A t \in Tags : rob[t].ready \/ prog[rob[t].pc] \in Instr => rob'[t] = rob[t]
  BY <1>2, <1>3, <1>4
<1>6. KeepsValues /\ KeepsEntries
  BY <1>1, <1>2, <1>5 DEF KeepsValues, KeepsEntries, CompletedFrom
<1> QED BY <1>3, <1>4, <1>5, <1>6

LEMMA VecUnitValues == ASSUME VecValues, VecUnit PROVE PathInv' /\ DataInv'
<1>0. /\ VecCore /\ ValuePipe /\ PathPipe /\ CoreTypeOK /\ RobWindow
      /\ rob \in [Tags -> RobEntry]
  BY ValuesIsPipe DEF VecValues, CoreTypeOK
<1>1. /\ UNCHANGED <<prog, rob_head, rob_tail, rob_count, regfile, fetch_pc, fetch_stalled, fetch_done,
                     branch_pending, ecall_halt, halted>>
      /\ dmem' = dmem \/ (unit.busy /\ unit.rob_tag = rob_head)
  BY <1>0, TurnHasEffect DEF TurnEffect, VectorFrame, front
<1>2. /\ \A t \in Tags : t # unit.rob_tag \/ ~unit.busy => rob'[t] = rob[t]
      /\ \A t \in Tags : CompletedFrom(rob[t], rob'[t])
      /\ \A u \in Units : /\ rs'[u].busy = rs[u].busy /\ rs'[u].executing = rs[u].executing
                          /\ rs'[u].rob_tag = rs[u].rob_tag /\ rs'[u].pc = rs[u].pc
                          /\ rs'[u].busy => HearsOnly(u)
  BY <1>0, TurnHasEffect, TurnEntries
<1>5. \A t \in Tags : rob[t].ready \/ prog[rob[t].pc] \in Instr => rob'[t] = rob[t]
  BY TurnWork
<1>6. KeepsValues /\ KeepsEntries
  BY TurnWork
<1>7. PathInv'
  <2>1. "br" \in Units
    BY DEF Units, TimedUnits
  <2> QED BY <1>0, <1>1, <1>2, <1>6, <2>1, QuietPath
<1>8. DataInv'
  <2>1. Halts'
    BY <1>1 DEF VecValues, DataInv, Halts
  <2>2. dmem' = dmem \/ prog[HeadEntry.pc] \notin Instr
    BY <1>1, TurnWork DEF HeadEntry
  <2>3. \A t \in Tags : InFlight(t) => Follower(t)' = Follower(t)
    BY <1>0, <1>1, <1>6, KeepsFollower
  <2>4. \A t \in Tags :
           /\ rob'[t].is_store = rob[t].is_store /\ rob'[t].is_branch = rob[t].is_branch
           /\ rob'[t].is_mret = rob[t].is_mret
           /\ \/ rob'[t].takes_trap = rob[t].takes_trap
              \/ prog[rob[t].pc] \notin Instr /\ rob[t].dest = X0
           /\ ~(~rob[t].ready /\ rob'[t].ready /\ prog[rob[t].pc] \in Instr)
    BY <1>2, <1>5 DEF CompletedFrom
  <2> QED BY <1>0, <1>2, <1>6, <2>1, <2>2, <2>3, <2>4, WorkData
<1> QED BY <1>7, <1>8

-----------------------------------------------------------------------------
(* The blocks of the scalar core, and the dispatch.                        *)

\* A block of the scalar core does here what it does alone.
LEMMA ScalarBlockValues ==
  ASSUME VecValues, ~halted, VecCommit \/ VecExecute \/ VecLsu \/ VecSys \/ ScalarOnly
  PROVE  PathInv' /\ DataInv'
<1>0. VecCore /\ ValuePipe /\ PathPipe
  BY ValuesIsPipe DEF VecValues
<1>1. CASE VecCommit
  <2>1. CommitStage
    BY <1>1 DEF VecCommit, CommitStage
  <2> QED BY <1>0, <2>1, CommitPath, CommitData
<1>2. CASE VecExecute
  BY <1>0, <1>2, ExecutePath, ExecuteData DEF VecExecute
<1>3. CASE VecLsu
  <2>1. (LsuStore \/ LsuLoad \/ LsuIdle) /\ ~SysExecute
    BY <1>3 DEF VecLsu, LsuStore, LsuLoad, LsuIdle, SysExecute
  <2> QED BY <1>0, <2>1, HeadUnitsPath, LsuStoreData, HeadUnitsData
<1>4. CASE VecSys
  <2>1. SysIdle \/ (SysExecute /\ InsOf("sys").op \in CsrOps)
    BY <1>4 DEF VecSys
  <2>2. SysExecute => InsOf("sys") \in Instr
    BY <1>0, <2>1, SysScalar DEF SysIdle, SysExecute
  <2> QED BY <1>0, <2>1, <2>2, HeadUnitsPath, HeadUnitsData
<1>5. CASE ScalarOnly /\ Issue
  <2>1. ~SysExecute
    BY <1>5 DEF Issue, SysExecute
  <2> QED BY <1>0, <1>5, <2>1, HeadUnitsPath, HeadUnitsData
<1>6. CASE ScalarOnly /\ DispatchStage
  <2>1. FetchIdle \/ MayFetch
    BY <1>6 DEF DispatchStage, DispatchQuick, DispatchToUnit, DispatchJalr, DispatchBranch,
                DispatchStall, FetchEnd, Dispatch
  <2>2. FetchIdle \/ (Fetched \in Instr /\ DispatchStage)
    BY <1>0, <1>6, <2>1, FetchedScalar
  <2> QED BY <1>0, <2>2, DispatchPath, DispatchData
<1> QED BY <1>1, <1>2, <1>3, <1>4, <1>5, <1>6 DEF ScalarOnly

\* A vector CSR is read at the head of the ROB.
LEMMA VecSysExecuteValues == ASSUME VecValues, VecSysExecute PROVE PathInv' /\ DataInv'
<1>0. VecCore /\ ValuePipe /\ PathPipe /\ CoreTypeOK /\ RobWindow /\ VecControlOK /\ StationsOwn
  BY ValuesIsPipe DEF VecValues, VecCore, PipeCore, PipelineInv
<1>1. PICK old \in Word : old = IF InsOf("sys").op = "csrr_vl" THEN csr_vl ELSE csr_vstart
  BY <1>0, VecAssumption, WordAssumption DEF VecControlOK, Word
<1>2. "sys" \in Units /\ "br" \in Units /\ "br" # "sys" /\ rs["sys"].busy
  BY DEF VecSysExecute, SysMayExecute, Units, TimedUnits
<1>3. Delivers("sys", old)
  BY <1>1 DEF VecSysExecute, Delivers
<1>4. UNCHANGED <<prog, rob_head, rob_tail, rob_count, regfile, dmem, fetch_pc, fetch_stalled, fetch_done,
                  branch_pending, ecall_halt, halted>>
  BY DEF VecSysExecute, front
<1>5. PICK h \in Tags : h = rs["sys"].rob_tag
  BY <1>0, <1>2, TagsTyped
<1>6. prog[rob[h].pc].op \in VCsrOps
  <2>1. rob[h].pc = rs["sys"].pc
    BY <1>0, <1>2, <1>5 DEF StationsOwn
  <2> QED BY <2>1 DEF VecSysExecute, InsOf
<1>7. prog[rob[h].pc] \notin Instr
  BY <1>6 DEF Instr, Ops, AluOps, MdOps, FpuOps, LoadOps, StoreOps, BranchOps, CsrOps, QuickOps, TrapOps,
              VCsrOps
<1>8. Halts'
  BY <1>4 DEF VecValues, DataInv, Halts
<1>9. DataInv'
  BY <1>0, <1>2, <1>3, <1>4, <1>5, <1>7, <1>8, DeliverData
<1>10. PathInv'
  <2>1. /\ rs'["br"].busy = rs["br"].busy /\ rs'["br"].pc = rs["br"].pc
        /\ rs'["br"].rob_tag = rs["br"].rob_tag
    BY <1>0, <1>2, <1>3, DeliverStation
  <2>2. KeepsEntries
    BY <1>0, <1>2, <1>3, <1>4, DeliverEntry DEF KeepsEntries
  <2> QED BY <1>0, <1>4, <2>1, <2>2, QuietPath
<1> QED BY <1>9, <1>10

\* The fields an entry starts with.
LEMMA FreshFlags ==
  ASSUME CoreTypeOK
  PROVE  /\ FreshEntry \in RobEntry /\ FreshEntry.pc = fetch_pc /\ ~FreshEntry.is_branch
         /\ ~FreshEntry.is_mret /\ ~FreshEntry.takes_trap
<1>1. rob_tail \in Tags /\ fetch_pc \in Word /\ rob \in [Tags -> RobEntry]
  BY DEF CoreTypeOK
<1>2. PICK r \in RobEntry : r = rob[rob_tail]
  BY <1>1
<1>3. PICK f : f = [r EXCEPT !.takes_trap = FALSE, !.is_mret = FALSE, !.is_branch = FALSE,
                             !.br_mispred = FALSE, !.pc = fetch_pc]
  OBVIOUS
<1>4. f \in RobEntry /\ f.pc = fetch_pc /\ ~f.is_branch /\ ~f.is_mret /\ ~f.takes_trap
  BY <1>1, <1>3 DEF RobEntry
<1> QED BY <1>2, <1>3, <1>4 DEF FreshEntry

\* The entry of a vector instruction needs no explanation.
LEMMA VectorFits ==
  ASSUME VecCore, Fetched \in VInstr, NEW e \in RobEntry, e.valid, e.pc = fetch_pc,
         ~e.is_store, ~e.is_branch, ~e.is_mret, e.takes_trap => e.dest = X0
  PROVE  FitsFetched(e) /\ Fetched.op # "jal" /\ Fetched.op # "jalr"
<1>1. Fetched.op \in VecOps \cup VCsrOps
  BY DEF VInstr
<1>2. Fetched.op \notin Ops /\ Fetched.op # "end" /\ Fetched.op \notin StoreOps
      /\ Fetched.op \notin BranchOps /\ Fetched.op # "mret" /\ Fetched.op # "jal" /\ Fetched.op # "jalr"
  BY <1>1 DEF VecOps, VCsrOps, VSetOps, VArithOps, VAluOps, VMemOps, Ops, AluOps, MdOps, FpuOps, LoadOps,
              StoreOps, BranchOps, CsrOps, QuickOps, TrapOps
<1>3. Fetched \notin Instr
  BY <1>2 DEF Instr
<1> QED BY <1>2, <1>3 DEF FitsFetched

\* A vector instruction enters: the scalar core sees an entry without effect.
LEMMA VectorEntersValues ==
  ASSUME VecValues, MayFetch, Fetched \in VInstr, NEW e, FitsFetched(e), ~e.is_branch,
         Fetched.op # "jal", Fetched.op # "jalr",
         Enter(e, NextPc(fetch_pc)), EndOfTick, UNCHANGED <<fetch_stalled, branch_pending>>,
         \A u \in Units : rs'[u] = rs[u] \/ (u = "sys" /\ Takes("sys"))
  PROVE  PathInv' /\ DataInv'
<1>0. VecCore /\ ValuePipe /\ PathPipe /\ CoreTypeOK /\ e \in RobEntry /\ e.valid /\ e.pc = fetch_pc
  BY ValuesIsPipe DEF VecValues, FitsFetched
<1>1. UNCHANGED <<prog, regfile, dmem, ecall_halt>> /\ (ecall_halt => halted')
  BY DEF EndOfTick
<1>2. "br" \in Units /\ rs'["br"] = rs["br"]
  <2>1. "br" \in Units /\ "br" # "sys"
    BY DEF Units, TimedUnits
  <2> QED BY <2>1
<1>3. StalledOnlyByJalr /\ ~fetch_stalled
  BY DEF VecValues, PathInv, MayFetch
<1>4. StalledOnlyByJalr' /\ ~fetch_stalled'
  BY <1>1, <1>2, <1>3 DEF StalledOnlyByJalr, InsOf
<1>5. PathInv'
  BY <1>0, <1>1, <1>4, EnterPath
<1>6. Halts'
  BY <1>1 DEF Halts
<1>7. \A u \in Units : rs'[u].busy => (rs[u].busy /\ rs'[u] = rs[u]) \/ Takes(u)
  OBVIOUS
<1>8. DataInv'
  BY <1>0, <1>1, <1>6, <1>7, EnterData
<1> QED BY <1>5, <1>8

LEMMA VecDispatchValues == ASSUME VecValues, VecDispatch PROVE PathInv' /\ DataInv'
<1>0. VecCore /\ ValuePipe /\ PathPipe /\ CoreTypeOK /\ CoreTypeOK' /\ RobWindow
  BY ValuesIsPipe, VecDispatchKeeps DEF VecValues, VecCore, PipeCore
<1>1. PICK f \in RobEntry : f = FreshEntry /\ f.pc = fetch_pc /\ ~f.is_branch /\ ~f.is_mret /\ ~f.takes_trap
  BY <1>0, FreshFlags
<1>2. CASE DispatchVectorStall
  <2>1. /\ rob' = [rob EXCEPT ![rob_tail] = FreshEntry] /\ EndOfTick /\ MayFetch
        /\ UNCHANGED <<front, rat, rob_head, rob_tail, rob_count, rs, branch_pending>>
    BY <1>2 DEF DispatchVectorStall, Dispatch
  <2>2. UNCHANGED <<prog, regfile, dmem, ecall_halt, fetch_pc, fetch_stalled, fetch_done>> /\ (ecall_halt => halted')
    BY <2>1 DEF EndOfTick, front
  <2>3. \A t \in Tags : InFlight(t) => rob'[t] = rob[t]
    <3>1. ~InFlight(rob_tail)
      BY <1>0, <2>1, TailIsFree DEF MayFetch
    <3> QED BY <1>0, <2>1, <3>1 DEF CoreTypeOK
  <2>4. Halts'
    BY <2>2 DEF Halts
  <2>5. KeepsEntries
    BY <2>1, <2>2, <2>3 DEF KeepsEntries
  <2>6. PathInv'
    BY <1>0, <2>1, <2>2, <2>5, QuietPath
  <2> QED BY <1>0, <2>1, <2>2, <2>3, <2>4, <2>6, QuietData
<1>3. CASE ~DispatchVectorStall
  <2>1. PICK e : e = rob'[rob_tail]
    OBVIOUS
  <2>2. rob_tail \in Tags /\ e \in RobEntry /\ rob \in [Tags -> RobEntry]
    BY <1>0, <2>1, Counters DEF CoreTypeOK
  <2>3. /\ Fetched \in VInstr /\ MayFetch
        /\ Fetched.rd \in Regs /\ Fetched.rs1 \in Regs
        /\ Enter(e, NextPc(fetch_pc))
        /\ e.valid /\ e.pc = fetch_pc /\ ~e.is_store /\ ~e.is_branch /\ ~e.is_mret
        /\ e.takes_trap => e.dest = X0
        /\ EndOfTick /\ UNCHANGED <<fetch_stalled, branch_pending>>
    <3>1. CASE DispatchVset
      <4>1. Dispatch(VSetOps) /\ EndOfTick /\ UNCHANGED <<fetch_stalled, branch_pending>>
        BY <3>1 DEF DispatchVset
      <4>2. VSetOps \subseteq VecOps \cup VCsrOps
        BY DEF VecOps
      <4>3. PICK n : Enter([f EXCEPT !.valid = TRUE, !.ready = TRUE, !.is_store = FALSE,
                                     !.dest = Fetched.rd, !.value = n], NextPc(fetch_pc))
        BY <1>1, <3>1 DEF DispatchVset
      <4>4. e = [f EXCEPT !.valid = TRUE, !.ready = TRUE, !.is_store = FALSE, !.dest = Fetched.rd, !.value = n]
        BY <2>1, <2>2, <4>3 DEF Enter
      <4>5. e.valid /\ e.pc = fetch_pc /\ ~e.is_store /\ ~e.is_branch /\ ~e.is_mret /\ ~e.takes_trap
        BY <1>1, <4>4 DEF RobEntry
      <4> QED BY <1>0, <4>1, <4>2, <4>3, <4>4, <4>5, FetchedVector
    <3>2. CASE DispatchVector
      <4>1. Dispatch(VArithOps \cup VMemOps) /\ EndOfTick /\ UNCHANGED <<fetch_stalled, branch_pending>>
        BY <3>2 DEF DispatchVector
      <4>2. VArithOps \cup VMemOps \subseteq VecOps \cup VCsrOps
        BY DEF VecOps
      <4>3. PICK d : Enter([f EXCEPT !.valid = TRUE, !.ready = FALSE, !.is_store = FALSE, !.dest = d],
                           NextPc(fetch_pc))
        BY <1>1, <3>2 DEF DispatchVector
      <4>4. e = [f EXCEPT !.valid = TRUE, !.ready = FALSE, !.is_store = FALSE, !.dest = d]
        BY <2>1, <2>2, <4>3 DEF Enter
      <4>5. e.valid /\ e.pc = fetch_pc /\ ~e.is_store /\ ~e.is_branch /\ ~e.is_mret /\ ~e.takes_trap
        BY <1>1, <4>4 DEF RobEntry
      <4> QED BY <1>0, <4>1, <4>2, <4>3, <4>4, <4>5, FetchedVector
    <3>3. CASE DispatchVectorIllegal
      <4>1. Dispatch(VArithOps \cup {"vreserved"}) /\ EndOfTick /\ UNCHANGED <<fetch_stalled, branch_pending>>
        BY <3>3 DEF DispatchVectorIllegal
      <4>2. VArithOps \cup {"vreserved"} \subseteq VecOps \cup VCsrOps
        BY DEF VecOps
      <4>3. Enter([f EXCEPT !.valid = TRUE, !.ready = TRUE, !.is_store = FALSE, !.takes_trap = TRUE,
                            !.cause = CAUSE_ILLEGAL, !.dest = X0, !.value = 0], NextPc(fetch_pc))
        BY <1>1, <3>3 DEF DispatchVectorIllegal
      <4>4. e = [f EXCEPT !.valid = TRUE, !.ready = TRUE, !.is_store = FALSE, !.takes_trap = TRUE,
                          !.cause = CAUSE_ILLEGAL, !.dest = X0, !.value = 0]
        BY <2>1, <2>2, <4>3 DEF Enter
      <4>5. e.valid /\ e.pc = fetch_pc /\ ~e.is_store /\ ~e.is_branch /\ ~e.is_mret /\ e.dest = X0
        BY <1>1, <4>4 DEF RobEntry
      <4> QED BY <1>0, <4>1, <4>2, <4>3, <4>4, <4>5, FetchedVector
    <3>4. CASE DispatchVectorCsr
      <4>1. Dispatch(VCsrOps) /\ EndOfTick /\ UNCHANGED <<fetch_stalled, branch_pending>>
        BY <3>4 DEF DispatchVectorCsr
      <4>2. VCsrOps \subseteq VecOps \cup VCsrOps
        OBVIOUS
      <4>3. Enter([f EXCEPT !.valid = TRUE, !.ready = FALSE, !.is_store = FALSE, !.dest = Fetched.rd],
                  NextPc(fetch_pc))
        BY <1>1, <3>4 DEF DispatchVectorCsr
      <4>4. e = [f EXCEPT !.valid = TRUE, !.ready = FALSE, !.is_store = FALSE, !.dest = Fetched.rd]
        BY <2>1, <2>2, <4>3 DEF Enter
      <4>5. e.valid /\ e.pc = fetch_pc /\ ~e.is_store /\ ~e.is_branch /\ ~e.is_mret /\ ~e.takes_trap
        BY <1>1, <4>4 DEF RobEntry
      <4> QED BY <1>0, <4>1, <4>2, <4>3, <4>4, <4>5, FetchedVector
    <3> QED BY <1>3, <3>1, <3>2, <3>3, <3>4 DEF VecDispatch
  <2>4. FitsFetched(e) /\ Fetched.op # "jal" /\ Fetched.op # "jalr"
    BY <1>0, <2>2, <2>3, VectorFits
  <2>5. \A u \in Units : rs'[u] = rs[u] \/ (u = "sys" /\ Takes("sys"))
    <3>1. CASE DispatchVectorCsr
      <4>0. "sys" \in Units /\ rs["sys"] \in Station /\ rs \in [Units -> Station]
        BY <1>0 DEF CoreTypeOK, Units
      <4>1. PICK src : src = [k \in 1 .. 3 |-> IF k = 1 THEN read_operand(Fetched.rs1) ELSE Ready(0)]
        OBVIOUS
      <4>2. rs' = [rs EXCEPT !["sys"] = [@ EXCEPT !.busy = TRUE, !.executing = FALSE,
                                                  !.rob_tag = rob_tail, !.pc = fetch_pc, !.src = src]]
        BY <3>1, <4>1 DEF DispatchVectorCsr
      <4>3. /\ rs'["sys"].rob_tag = rob_tail /\ rs'["sys"].pc = fetch_pc /\ ~rs'["sys"].executing
            /\ rs'["sys"].src = src /\ \A u \in Units \ {"sys"} : rs'[u] = rs[u]
        BY <4>0, <4>2 DEF Station
      <4>4. Fetched.op \in VCsrOps
        BY <3>1 DEF DispatchVectorCsr, Dispatch
      <4>5. /\ Fetched.op # "csrrwi" /\ Fetched.op # "fmadd" /\ Fetched.op # "addi"
            /\ Fetched.op \notin {"add", "sub", "fadd", "fdiv", "fmadd"} \cup MdOps \cup StoreOps \cup BranchOps
        BY <4>4 DEF VCsrOps, MdOps, StoreOps, BranchOps
      <4>6. ASSUME NEW k \in 1 .. 3
            PROVE  /\ src[k] = Source(Fetched, k)
                   /\ ReadsReg(Fetched, k) => SrcReg(Fetched, k) \in Regs
        <5>1. CASE k = 1
          <6>1. ReadsReg(Fetched, 1) /\ SrcReg(Fetched, 1) = Fetched.rs1
            BY <4>5 DEF ReadsReg, SrcReg
          <6> QED BY <2>3, <4>1, <5>1, <6>1, SourceIs
        <5>2. CASE k # 1
          <6>1. k = 2 \/ k = 3
            BY <5>2
          <6>2. ~ReadsReg(Fetched, k)
            <7>1. ~ReadsReg(Fetched, 2)
              BY <4>5 DEF ReadsReg
            <7>2. ~ReadsReg(Fetched, 3)
              BY <4>5 DEF ReadsReg
            <7> QED BY <6>1, <7>1, <7>2
          <6>3. SrcImm(Fetched, k) = 0
            BY <4>5, <5>2 DEF SrcImm
          <6> QED BY <4>1, <5>2, <6>2, <6>3, SourceIs
        <5> QED BY <5>1, <5>2
      <4>7. Fetched \notin Instr
        BY <4>4 DEF Instr, Ops, AluOps, MdOps, FpuOps, LoadOps, StoreOps, BranchOps, CsrOps, QuickOps, TrapOps,
                    VCsrOps
      <4> QED BY <4>3, <4>6, <4>7 DEF Takes
    <3>2. CASE ~DispatchVectorCsr
      <4>1. rs' = rs
        BY <1>3, <3>2 DEF VecDispatch, DispatchVset, DispatchVector, DispatchVectorIllegal
      <4> QED BY <4>1
    <3> QED BY <3>1, <3>2
  <2> QED BY <2>3, <2>4, <2>5, VectorEntersValues
<1> QED BY <1>2, <1>3

-----------------------------------------------------------------------------
(* The scalar operands of the coprocessor.                                 *)

\* The operand b is a, or a after it has heard the result it waited for.
HeardOp(a, b) == b = a \/ (~a.ready /\ b.ready /\ rob'[a.tag].ready /\ b.val = rob'[a.tag].value)

\* The pending instruction q is what became of p.
Advances(p, q) ==
  /\ q.rob_tag = p.rob_tag /\ q.pc = p.pc
  /\ HeardOp(p.s1, q.s1) /\ HeardOp(p.s2, q.s2)

\* Whatever will be pending is pending.
PendingAdvances == \A j \in 1 .. Len(Pending') : \E i \in 1 .. Len(Pending) : Advances(Pending[i], Pending'[j])

LEMMA PendingRightIs == ASSUME VecControlOK PROVE VectorOperandsRight <=> \A k \in 1 .. Len(Pending) : PendingRight(Pending[k])
<1>1. Pending \in Seq(VecRs)
  BY PendingIs
<1>2. DOMAIN Pending = 1 .. Len(Pending)
  BY <1>1
<1> QED BY <1>2 DEF VectorOperandsRight

LEMMA ScalarKept ==
  ASSUME KeepsValues, NEW a \in Operand, NEW b \in Operand, HeardOp(a, b),
         NEW R \in BOOLEAN, NEW r, NEW v, NEW t \in Tags, ScalarRight(a, R, r, v, t)
  PROVE  ScalarRight(b, R, r, v, t)'
<1>1. a.tag \in Tags /\ b.tag \in Tags
  BY DEF Operand
<1>2. CASE ~R
  <2>1. a = Ready(v) /\ a.ready
    BY <1>2 DEF ScalarRight, Ready
  <2>2. b = a
    BY <2>1 DEF HeardOp
  <2> QED BY <1>2, <2>1, <2>2 DEF ScalarRight, Ready
<1>3. CASE R /\ a.ready
  <2>1. b = a /\ Sees(r, t, a.val)
    BY <1>3 DEF HeardOp, ScalarRight
  <2> QED BY <1>3, <2>1, SeesKept DEF ScalarRight
<1>4. CASE R /\ ~a.ready
  <2>1. r # X0 /\ LastWriter(a.tag, r, t)
    BY <1>4 DEF ScalarRight
  <2>2. LastWriter(a.tag, r, t)'
    BY <1>1, <2>1, SeesKept
  <2>3. CASE b = a
    BY <1>4, <2>1, <2>2, <2>3 DEF ScalarRight
  <2>4. CASE b # a
    <3>1. b.ready /\ rob'[a.tag].ready /\ b.val = rob'[a.tag].value
      BY <2>4 DEF HeardOp
    <3>2. Sees(r, t, b.val)'
      BY <1>1, <2>1, <2>2, <3>1 DEF Sees
    <3> QED BY <1>4, <3>1, <3>2 DEF ScalarRight
  <2> QED BY <2>3, <2>4
<1> QED BY <1>2, <1>3, <1>4

\* Where the scalar units and the coprocessor work, the operands stay right.
LEMMA WorkOperands ==
  ASSUME VecControlOK, VecControlOK', VectorOperandsRight, KeepsValues, PendingAdvances
  PROVE  VectorOperandsRight'
<1>1. PICK P \in Seq(VecRs), Q \in Seq(VecRs) : P = Pending /\ Q = Pending'
  BY PendingIs, PendingWillBe DEF VecControlOK
<1>2. \A j \in 1 .. Len(Q) : \E i \in 1 .. Len(P) : Advances(P[i], Q[j])
  BY <1>1 DEF PendingAdvances
<1>3. \A k \in 1 .. Len(P) : PendingRight(P[k])
  BY <1>1, PendingRightIs
<1>4. ASSUME NEW j \in 1 .. Len(Q) PROVE PendingRight(Q[j])'
  <2>1. PICK i \in 1 .. Len(P) : Advances(P[i], Q[j])
    BY <1>2
  <2>2. PICK p \in VecRs, q \in VecRs : p = P[i] /\ q = Q[j]
    OBVIOUS
  <2>3. /\ p.rob_tag \in Tags /\ p.s1 \in Operand /\ p.s2 \in Operand
        /\ q.s1 \in Operand /\ q.s2 \in Operand /\ q.rob_tag = p.rob_tag /\ q.pc = p.pc
        /\ HeardOp(p.s1, q.s1) /\ HeardOp(p.s2, q.s2)
    BY <2>1, <2>2 DEF VecRs, Advances
  <2>4. PICK x : x = prog[p.pc] /\ x = prog'[q.pc]
    BY <2>3 DEF KeepsValues
  <2> DEFINE R1 == (x.op \in VMemOps \/ x.form = "vx")
             R2 == (x.op \in VMemOps /\ x.mop = "strided")
             v1 == IF x.form = "vi" THEN x.imm ELSE 0
  <2>5. ScalarRight(p.s1, R1, x.rs1, v1, p.rob_tag) /\ ScalarRight(p.s2, R2, x.rs2, 0, p.rob_tag)
    BY <1>3, <2>2, <2>4 DEF PendingRight
  <2>6. R1 \in BOOLEAN /\ R2 \in BOOLEAN
    OBVIOUS
  <2> HIDE DEF R1, R2, v1
  <2>7. ScalarRight(q.s1, R1, x.rs1, v1, q.rob_tag)' /\ ScalarRight(q.s2, R2, x.rs2, 0, q.rob_tag)'
    BY <2>3, <2>5, <2>6, ScalarKept
  <2> QED BY <2>2, <2>4, <2>7 DEF PendingRight, R1, R2, v1
<1>5. Pending' = Q /\ \A k \in 1 .. Len(Q) : PendingRight(Q[k])'
  BY <1>1, <1>4
<1>6. DOMAIN Q = 1 .. Len(Q)
  OBVIOUS
<1> QED BY <1>5, <1>6 DEF VectorOperandsRight

\* A pending instruction and its entry.
WellPlaced(p) ==
  /\ p.rob_tag \in Tags /\ p.s1.tag \in Tags /\ p.s2.tag \in Tags
  /\ InFlight(p.rob_tag) /\ ~rob[p.rob_tag].ready
  /\ prog[p.pc] \in VInstr /\ prog[p.pc].rs1 \in Regs /\ prog[p.pc].rs2 \in Regs
  /\ Awaits(p.s1, p.rob_tag) /\ Awaits(p.s2, p.rob_tag)

LEMMA WellPlacedIs ==
  ASSUME VecCore, NEW P, P = Pending, NEW k \in 1 .. Len(P), NEW p, p = P[k]
  PROVE  p \in VecRs /\ WellPlaced(p)
<1>1. P \in Seq(VecRs) /\ prog \in [Word -> Instr \cup VInstr]
  BY PendingIs DEF VecCore, VecControlOK
<1>2. p \in VecRs /\ k \in 1 .. Len(Pending) /\ p = Pending[k]
  BY <1>1
<1>3. Owns(p) /\ Awaits(p.s1, p.rob_tag) /\ Awaits(p.s2, p.rob_tag)
  BY <1>2 DEF VecCore, QueueInv, Holds
<1>4. p.rob_tag \in Tags /\ p.s1.tag \in Tags /\ p.s2.tag \in Tags /\ p.pc \in Word
  BY <1>2 DEF VecRs, Operand
<1>5. (VArithOps \cup VMemOps) \cap Ops = {}
  BY DEF Ops, AluOps, MdOps, FpuOps, LoadOps, StoreOps, BranchOps, CsrOps, QuickOps, TrapOps,
         VArithOps, VAluOps, VMemOps
<1>6. prog[p.pc] \in VInstr
  BY <1>1, <1>3, <1>4, <1>5 DEF Owns, Instr
<1>7. prog[p.pc].rs1 \in Regs /\ prog[p.pc].rs2 \in Regs
  BY <1>6 DEF VInstr, Regs
<1> QED BY <1>2, <1>3, <1>4, <1>6, <1>7 DEF Owns, WellPlaced

LEMMA ScalarRetires ==
  ASSUME CoreTypeOK, RobWindow, HeadReady, Retire, WritesBack,
         NEW t \in Tags, InFlight(t), t # rob_head, NEW a, a.tag \in Tags, Awaits(a, t),
         NEW R \in BOOLEAN, NEW r \in Regs, NEW v, ScalarRight(a, R, r, v, t)
  PROVE  ScalarRight(a, R, r, v, t)'
<1>0. rob[rob_head].ready
  BY DEF HeadReady, HeadEntry
<1>1. CASE ~R
  BY <1>1 DEF ScalarRight
<1>2. CASE R /\ ~a.ready
  <2>1. r # X0 /\ LastWriter(a.tag, r, t) /\ a.tag # rob_head
    BY <1>0, <1>2 DEF ScalarRight, Awaits
  <2> QED BY <1>2, <2>1, RetireSees DEF ScalarRight
<1>3. CASE R /\ a.ready
  <2>1. Sees(r, t, a.val)
    BY <1>3 DEF ScalarRight
  <2>2. CASE r = X0
    BY <1>3, <2>1, <2>2 DEF Sees, ScalarRight
  <2>3. CASE r # X0 /\ NoWriter(r, t) /\ a.val = regfile[r]
    BY <1>3, <2>3, RetireSees DEF Sees, ScalarRight
  <2>4. ASSUME NEW w \in Tags, r # X0, LastWriter(w, r, t), rob[w].ready, a.val = rob[w].value
        PROVE  ScalarRight(a, R, r, v, t)'
    <3>1. CASE w = rob_head
      BY <1>3, <2>4, <3>1, RetireSees DEF Sees, ScalarRight
    <3>2. CASE w # rob_head
      <4>1. rob'[w] = rob[w]
        BY <3>2, RetireWindow
      <4> QED BY <1>3, <2>4, <3>2, <4>1, RetireSees DEF Sees, ScalarRight
    <3> QED BY <3>1, <3>2
  <2> QED BY <2>1, <2>2, <2>3, <2>4 DEF Sees
<1> QED BY <1>1, <1>2, <1>3

\* The head retires: what the queue found in its entry is in the register file.
LEMMA RetireOperands ==
  ASSUME VecCore, HeadReady, Retire, WritesBack, UNCHANGED <<prog, queue>>, VectorOperandsRight
  PROVE  VectorOperandsRight'
<1>0. /\ CoreTypeOK /\ RobWindow /\ VecControlOK /\ rob[rob_head].ready
      /\ prog' = prog /\ Pending' = Pending
  BY DEF VecCore, PipeCore, PipelineInv, HeadReady, HeadEntry, queue, Pending
<1>1. \A k \in 1 .. Len(Pending) : PendingRight(Pending[k])
  BY <1>0, PendingRightIs
<1>2. PICK P \in Seq(VecRs) : P = Pending /\ P = Pending'
  BY <1>0, PendingIs
<1>3. ASSUME NEW k \in 1 .. Len(P) PROVE PendingRight(P[k])'
  <2>1. PICK p : p = P[k] /\ p \in VecRs /\ WellPlaced(p)
    <3>1. PICK p : p = P[k]
      OBVIOUS
    <3> QED BY <1>2, <3>1, WellPlacedIs DEF WellPlaced
  <2>2. PICK x : x = prog[p.pc] /\ x = prog'[p.pc]
    BY <1>0
  <2> DEFINE R1 == (x.op \in VMemOps \/ x.form = "vx")
             R2 == (x.op \in VMemOps /\ x.mop = "strided")
             v1 == IF x.form = "vi" THEN x.imm ELSE 0
  <2>3. ScalarRight(p.s1, R1, x.rs1, v1, p.rob_tag) /\ ScalarRight(p.s2, R2, x.rs2, 0, p.rob_tag)
    BY <1>1, <1>2, <2>1, <2>2 DEF PendingRight
  <2>4. R1 \in BOOLEAN /\ R2 \in BOOLEAN
    OBVIOUS
  <2> HIDE DEF R1, R2, v1
  <2>5. p.rob_tag # rob_head
    BY <1>0, <2>1 DEF WellPlaced
  <2>6. ScalarRight(p.s1, R1, x.rs1, v1, p.rob_tag)' /\ ScalarRight(p.s2, R2, x.rs2, 0, p.rob_tag)'
    BY <1>0, <2>1, <2>2, <2>3, <2>4, <2>5, ScalarRetires DEF WellPlaced
  <2> QED BY <2>1, <2>2, <2>6 DEF PendingRight, R1, R2, v1
<1>4. Pending' = P /\ \A k \in 1 .. Len(P) : PendingRight(P[k])'
  BY <1>2, <1>3
<1>5. DOMAIN P = 1 .. Len(P)
  OBVIOUS
<1> QED BY <1>4, <1>5 DEF VectorOperandsRight

\* Who enters is younger than every pending instruction.
LEMMA ScalarEntersOp ==
  ASSUME CoreTypeOK, RobWindow, MayFetch, NEW e \in RobEntry, NEW p, e.valid, Enter(e, p),
         regfile' = regfile, NEW t \in Tags, InFlight(t) \/ t = rob_tail,
         NEW a \in Operand, NEW R \in BOOLEAN, NEW r, NEW v, ScalarRight(a, R, r, v, t)
  PROVE  ScalarRight(a, R, r, v, t)'
<1>1. a.tag \in Tags
  BY DEF Operand
<1>2. /\ \A w \in Tags : LastWriter(w, r, t)' <=> LastWriter(w, r, t)
      /\ \A x : Sees(r, t, x) => Sees(r, t, x)'
  BY EnterSees
<1> QED BY <1>1, <1>2 DEF ScalarRight

LEMMA EnterRight ==
  ASSUME CoreTypeOK, RobWindow, MayFetch, NEW e \in RobEntry, NEW n, e.valid, Enter(e, n),
         UNCHANGED <<prog, regfile>>,
         NEW p \in VecRs, InFlight(p.rob_tag) \/ p.rob_tag = rob_tail, PendingRight(p)
  PROVE  PendingRight(p)'
<1>1. PICK x : x = prog[p.pc] /\ x = prog'[p.pc]
  OBVIOUS
<1>2. p.rob_tag \in Tags /\ p.s1 \in Operand /\ p.s2 \in Operand
  BY DEF VecRs
<1> DEFINE R1 == (x.op \in VMemOps \/ x.form = "vx")
           R2 == (x.op \in VMemOps /\ x.mop = "strided")
           v1 == IF x.form = "vi" THEN x.imm ELSE 0
<1>3. ScalarRight(p.s1, R1, x.rs1, v1, p.rob_tag) /\ ScalarRight(p.s2, R2, x.rs2, 0, p.rob_tag)
  BY <1>1 DEF PendingRight
<1>4. R1 \in BOOLEAN /\ R2 \in BOOLEAN
  OBVIOUS
<1> HIDE DEF R1, R2, v1
<1>5. ScalarRight(p.s1, R1, x.rs1, v1, p.rob_tag)' /\ ScalarRight(p.s2, R2, x.rs2, 0, p.rob_tag)'
  BY <1>2, <1>3, <1>4, ScalarEntersOp
<1> QED BY <1>1, <1>5 DEF PendingRight, R1, R2, v1

\* An instruction enters, and joins the queue with the operands of program order.
LEMMA EnterOperands ==
  ASSUME VecCore, MayFetch, NEW e \in RobEntry, NEW n, e.valid, Enter(e, n),
         UNCHANGED <<prog, regfile, vec_rs>>, VectorOperandsRight,
         \/ viq' = viq
         \/ \E q \in VecRs : viq' = Append(viq, q) /\ q.rob_tag = rob_tail /\ PendingRight(q)
  PROVE  VectorOperandsRight'
<1>0. CoreTypeOK /\ RobWindow /\ VecControlOK /\ vec_rs \in VecRs /\ viq \in Seq(VecRs) /\ rob_tail \in Tags
  BY Counters DEF VecCore, PipeCore, PipelineInv, VecControlOK
<1>1. PICK P \in Seq(VecRs) : P = Pending
  BY <1>0, PendingIs
<1>2. \A k \in 1 .. Len(P) : PendingRight(P[k])
  BY <1>0, <1>1, PendingRightIs
<1>3. \A k \in 1 .. Len(P) : PendingRight(P[k])'
  <2> SUFFICES ASSUME NEW k \in 1 .. Len(P) PROVE PendingRight(P[k])'
    OBVIOUS
  <2>1. PICK p : p = P[k] /\ p \in VecRs /\ WellPlaced(p)
    <3>1. PICK p : p = P[k]
      OBVIOUS
    <3> QED BY <1>1, <3>1, WellPlacedIs DEF WellPlaced
  <2>2. p = P[k] /\ PendingRight(p)
    BY <1>2, <2>1
  <2>3. PendingRight(p)'
    BY <1>0, <2>1, <2>2, EnterRight DEF WellPlaced
  <2> QED BY <2>2, <2>3
<1>4. CASE viq' = viq
  <2>1. Pending' = P
    BY <1>1, <1>4 DEF Pending
  <2>2. DOMAIN P = 1 .. Len(P)
    OBVIOUS
  <2> QED BY <1>3, <2>1, <2>2 DEF VectorOperandsRight
<1>5. ASSUME NEW q \in VecRs, viq' = Append(viq, q), q.rob_tag = rob_tail, PendingRight(q)
      PROVE  VectorOperandsRight'
  <2>1. PendingRight(q)'
    BY <1>0, <1>5, EnterRight
  <2>2. Pending' = Append(P, q)
    <3>1. CASE vec_rs.busy
      <4>1. P = <<vec_rs>> \o viq /\ Pending' = <<vec_rs>> \o Append(viq, q)
        BY <1>1, <1>5, <3>1 DEF Pending
      <4> QED BY <1>0, <4>1
    <3>2. CASE ~vec_rs.busy
      <4>1. P = viq /\ Pending' = Append(viq, q)
        BY <1>0, <1>1, <1>5, <3>2 DEF Pending
      <4> QED BY <4>1
    <3> QED BY <3>1, <3>2
  <2>3. PICK Q : Q = Append(P, q)
    OBVIOUS
  <2>4. DOMAIN Q = 1 .. Len(P) + 1 /\ Q[Len(P) + 1] = q /\ \A k \in 1 .. Len(P) : Q[k] = P[k]
    BY <1>1, <1>5, <2>3, SMT
  <2>5. \A k \in DOMAIN Q : PendingRight(Q[k])'
    BY <1>3, <2>1, <2>4
  <2> QED BY <2>2, <2>3, <2>5 DEF VectorOperandsRight
<1> QED BY <1>4, <1>5

\* What is pending after the broadcast is what was pending, and has heard it.
LEMMA HearBothAdvances ==
  ASSUME NEW v \in VecRs, NEW T, NEW res \in [T -> Word],
         \A t \in Tags : t \in T => rob'[t].ready /\ rob'[t].value = res[t]
  PROVE  Advances(v, HearBoth(v, res))
<1>1. v.s1 \in Operand /\ v.s2 \in Operand
  BY DEF VecRs
<1>2. ASSUME NEW s \in Operand PROVE HeardOp(s, Hear(s, res))
  <2>1. s.tag \in Tags
    BY DEF Operand
  <2> QED BY <2>1, Heard DEF HeardOp
<1>3. PICK a, b : a = Hear(v.s1, res) /\ b = Hear(v.s2, res)
  OBVIOUS
<1>4. PICK h : h = [v EXCEPT !.s1 = a, !.s2 = b] /\ h = HearBoth(v, res)
  BY <1>3 DEF HearBoth, VecRs
<1>5. h.rob_tag = v.rob_tag /\ h.pc = v.pc /\ h.s1 = a /\ h.s2 = b
  BY <1>4 DEF VecRs
<1> QED BY <1>1, <1>2, <1>3, <1>4, <1>5 DEF Advances

LEMMA SameAdvances == ASSUME NEW v PROVE Advances(v, v)
  BY DEF Advances, HeardOp

LEMMA HearAdvances ==
  ASSUME VecControlOK, NEW T, NEW res \in [T -> Word], VecHear(res),
         \A t \in Tags : t \in T => rob'[t].ready /\ rob'[t].value = res[t]
  PROVE  PendingAdvances
<1>1. viq \in Seq(VecRs) /\ vec_rs \in VecRs
  BY DEF VecControlOK
<1>2. viq' \in Seq(VecRs) /\ Len(viq') = Len(viq) /\ \A k \in 1 .. Len(viq) : viq'[k] = HearBoth(viq[k], res)
  BY <1>1, QueueHears DEF VecHear
<1>3. /\ vec_rs' \in VecRs /\ vec_rs'.busy = vec_rs.busy
      /\ vec_rs.busy => vec_rs' = HearBoth(vec_rs, res)
  BY <1>1, HearBothIs DEF VecHear, UnitHears
<1>4. ASSUME NEW k \in 1 .. Len(viq) PROVE Advances(viq[k], viq'[k])
  <2>1. PICK v \in VecRs : v = viq[k]
    BY <1>1
  <2> QED BY <1>2, <2>1, HearBothAdvances
<1>5. CASE vec_rs.busy
  <2>1. /\ Len(Pending) = Len(viq) + 1 /\ Pending[1] = vec_rs
        /\ \A k \in 1 .. Len(viq) : Pending[k + 1] = viq[k]
    BY <1>5, PendingIs
  <2>2. /\ Len(Pending') = Len(viq) + 1 /\ Pending'[1] = vec_rs'
        /\ \A k \in 1 .. Len(viq) : Pending'[k + 1] = viq'[k]
    BY <1>2, <1>3, <1>5, PendingWillBe
  <2>3. ASSUME NEW j \in 1 .. Len(Pending') PROVE Advances(Pending[j], Pending'[j])
    <3>1. CASE j = 1
      BY <1>1, <1>3, <1>5, <2>1, <2>2, <3>1, HearBothAdvances
    <3>2. CASE j # 1
      <4>1. PICK k \in 1 .. Len(viq) : j = k + 1
        BY <1>1, <2>2, <3>2
      <4> QED BY <1>4, <2>1, <2>2, <4>1
    <3> QED BY <3>1, <3>2
  <2> QED BY <2>1, <2>2, <2>3 DEF PendingAdvances
<1>6. CASE ~vec_rs.busy
  <2>1. Pending = viq /\ Pending' = viq'
    BY <1>2, <1>3, <1>6, PendingIs, PendingWillBe
  <2> QED BY <1>2, <1>4, <2>1 DEF PendingAdvances
<1> QED BY <1>5, <1>6

LEMMA StillAdvances == ASSUME UNCHANGED queue PROVE PendingAdvances
<1>1. Pending' = Pending
  BY DEF queue, Pending
<1>2. \A k \in 1 .. Len(Pending) : Advances(Pending[k], Pending'[k])
  BY <1>1, SameAdvances
<1> QED BY <1>1, <1>2 DEF PendingAdvances

\* A turn changes neither the operands nor the place of the instruction in the unit.
LEMMA TurnOperands ==
  ASSUME VecCore, VecUnit, VecDataOK'
  PROVE  /\ vec_rs' \in VecRs /\ (vec_rs'.busy => unit.busy)
         /\ vec_rs'.rob_tag = unit.rob_tag /\ vec_rs'.pc = unit.pc
         /\ vec_rs'.s1 = unit.s1 /\ vec_rs'.s2 = unit.s2
<1>0. VecCore'
  BY VecUnitKeeps DEF VecDataOK
<1>1. unit \in VecRs /\ vec_rs' \in VecRs
  BY <1>0, UnitIs DEF VecCore, VecControlOK
<1>2. PICK u \in VecRs : u = unit
  BY <1>1
<1> DEFINE Same(w) == w.rob_tag = u.rob_tag /\ w.pc = u.pc /\ w.s1 = u.s1 /\ w.s2 = u.s2 /\ (w.busy => u.busy)
<1>3. /\ \A x, y : Same([u EXCEPT !.executing = x, !.remaining = y])
      /\ \A x, y : Same([u EXCEPT !.busy = FALSE, !.executing = x, !.remaining = y])
      /\ \A x : Same([u EXCEPT !.busy = FALSE, !.vl = x]) /\ Same([u EXCEPT !.vl = x])
      /\ \A x, y, z : Same([u EXCEPT !.fld = x, !.elem = y, !.vl = z])
      /\ \A x, y : Same([u EXCEPT !.elem = x, !.fld = y]) /\ Same([u EXCEPT !.elem = x, !.vl = y])
      /\ Same(u)
  BY DEF VecRs
<1> HIDE DEF Same
<1>4. ASSUME VecCount PROVE Same(vec_rs')
  <2>1. PICK x, y : x = TRUE /\ y = Countdown
    OBVIOUS
  <2>2. vec_rs' = [u EXCEPT !.executing = x, !.remaining = y]
    BY <1>2, <1>4, <2>1 DEF VecCount
  <2> QED BY <1>3, <2>2
<1>5. ASSUME VecComplete PROVE Same(vec_rs')
  <2>1. PICK x, y : x = FALSE /\ y = 0
    OBVIOUS
  <2>2. vec_rs' = [u EXCEPT !.busy = FALSE, !.executing = x, !.remaining = y]
    BY <1>2, <1>5, <2>1 DEF VecComplete
  <2> QED BY <1>3, <2>2
<1>6. VecWait => Same(vec_rs')
  BY <1>2, <1>3 DEF VecWait
<1>7. ASSUME VlsuRefused PROVE Same(vec_rs')
  <2>1. \E n : vec_rs' = [u EXCEPT !.vl = n]
    BY <1>2, <1>7 DEF VlsuRefused
  <2> QED BY <1>3, <2>1
<1>8. ASSUME VlsuEndOfField \/ VlsuSkip \/ VlsuMove PROVE Same(vec_rs')
  <2>0. VlsuDone \/ vec_rs' = NextElem \/ vec_rs' = [u EXCEPT !.fld = u.fld + 1, !.elem = 0, !.vl = vl_eff]
    BY <1>2, <1>8 DEF VlsuEndOfField, VlsuSkip, VlsuMove
  <2>1. CASE vec_rs' = [u EXCEPT !.fld = u.fld + 1, !.elem = 0, !.vl = vl_eff]
    <3>1. PICK f, n : f = u.fld + 1 /\ n = vl_eff
      OBVIOUS
    <3>2. vec_rs' = [u EXCEPT !.fld = f, !.elem = 0, !.vl = n]
      BY <2>1, <3>1
    <3> QED BY <1>3, <3>2
  <2>2. CASE VlsuDone
    BY <1>2, <1>3, <2>2 DEF VlsuDone
  <2>3. CASE vec_rs' = NextElem
    <3>0. \/ vec_rs' = [u EXCEPT !.elem = 0, !.fld = u.fld + 1]
          \/ vec_rs' = [u EXCEPT !.elem = u.elem + 1, !.vl = vl_eff]
      BY <1>2, <2>3 DEF NextElem
    <3>1. PICK f, e, n : f = u.fld + 1 /\ e = u.elem + 1 /\ n = vl_eff
      OBVIOUS
    <3>2. vec_rs' = [u EXCEPT !.elem = 0, !.fld = f] \/ vec_rs' = [u EXCEPT !.elem = e, !.vl = n]
      BY <3>0, <3>1
    <3>3. CASE vec_rs' = [u EXCEPT !.elem = 0, !.fld = f]
      BY <1>3, <3>3
    <3>4. CASE vec_rs' = [u EXCEPT !.elem = e, !.vl = n]
      BY <1>3, <3>4
    <3> QED BY <3>2, <3>3, <3>4
  <2> QED BY <2>0, <2>1, <2>2, <2>3
<1>9. Same(vec_rs')
  BY <1>4, <1>5, <1>6, <1>7, <1>8 DEF VecUnit
<1> QED BY <1>1, <1>2, <1>9 DEF Same

\* The queue behind the unit hears the result of vcpop.
LEMMA TurnQueue ==
  ASSUME VecCore, VecUnit
  PROVE  /\ viq' \in Seq(VecRs) /\ Len(viq') = Len(Rest)
         /\ \A k \in 1 .. Len(Rest) : Advances(Rest[k], viq'[k])
<1>1. Rest \in Seq(VecRs)
  BY UnitIs DEF VecCore
<1>2. CASE viq' = Rest
  BY <1>1, <1>2, SameAdvances
<1>3. CASE viq' # Rest
  <2>1. VecComplete /\ VCat(vins) = "xres" /\ unit.busy
    BY <1>3 DEF VecUnit, VecCount, VecComplete, VecWait, VlsuEndOfField, VlsuSkip, VlsuMove, VlsuRefused,
                TakenFromQueue, ArithRuns, IsArith
  <2>2. unit.vl \in 0 .. CELLS /\ unit.rob_tag \in Tags /\ rob \in [Tags -> RobEntry]
    BY <2>1, UnitIs, UnitOwns DEF VecCore, VecRs, PipeCore, CoreTypeOK
  <2>3. PICK x \in Word : x = VXResult(vins, vregs, unit.vl)
    BY <2>2, VXResultIsWord
  <2>4. PICK res \in [{unit.rob_tag} -> Word] : res = [t \in {unit.rob_tag} |-> x]
    OBVIOUS
  <2>5. /\ rob' = [rob EXCEPT ![unit.rob_tag] = [@ EXCEPT !.ready = TRUE, !.value = x]]
        /\ viq' = [k \in DOMAIN Rest |-> HearBoth(Rest[k], res)]
    BY <2>1, <2>3, <2>4 DEF VecComplete
  <2>6. PICK r \in RobEntry : r = rob[unit.rob_tag]
    BY <2>2
  <2>7. rob'[unit.rob_tag] = [r EXCEPT !.ready = TRUE, !.value = x]
    BY <2>2, <2>5, <2>6
  <2>8. rob'[unit.rob_tag].ready /\ rob'[unit.rob_tag].value = x
    BY <2>7 DEF RobEntry
  <2>9. \A t \in Tags : t \in {unit.rob_tag} => rob'[t].ready /\ rob'[t].value = res[t]
    BY <2>4, <2>8
  <2>10. viq' \in Seq(VecRs) /\ Len(viq') = Len(Rest) /\ \A k \in 1 .. Len(Rest) : viq'[k] = HearBoth(Rest[k], res)
    BY <1>1, <2>5, QueueHears
  <2>11. ASSUME NEW k \in 1 .. Len(Rest) PROVE Advances(Rest[k], viq'[k])
    <3>1. PICK v \in VecRs : v = Rest[k]
      BY <1>1
    <3> QED BY <2>9, <2>10, <3>1, HearBothAdvances
  <2> QED BY <2>10, <2>11
<1> QED BY <1>2, <1>3

LEMMA TurnAdvances == ASSUME VecCore, VecUnit, VecDataOK' PROVE PendingAdvances
<1>1. /\ unit \in VecRs /\ Rest \in Seq(VecRs)
      /\ ~unit.busy => Pending = <<>> /\ Rest = <<>>
      /\ unit.busy => /\ Len(Pending) = Len(Rest) + 1
                      /\ unit.rob_tag = Pending[1].rob_tag /\ unit.pc = Pending[1].pc
                      /\ unit.s1 = Pending[1].s1 /\ unit.s2 = Pending[1].s2
                      /\ \A i \in 1 .. Len(Rest) : Pending[i + 1] = Rest[i]
  BY UnitIs DEF VecCore
<1>2. /\ vec_rs' \in VecRs /\ (vec_rs'.busy => unit.busy)
      /\ vec_rs'.rob_tag = unit.rob_tag /\ vec_rs'.pc = unit.pc
      /\ vec_rs'.s1 = unit.s1 /\ vec_rs'.s2 = unit.s2
  BY TurnOperands
<1>3. /\ viq' \in Seq(VecRs) /\ Len(viq') = Len(Rest)
      /\ \A k \in 1 .. Len(Rest) : Advances(Rest[k], viq'[k])
  BY TurnQueue
<1>4. CASE vec_rs'.busy
  <2>1. /\ Len(Pending') = Len(viq') + 1 /\ Pending'[1] = vec_rs'
        /\ \A i \in 1 .. Len(viq') : Pending'[i + 1] = viq'[i]
    BY <1>2, <1>3, <1>4, PendingWillBe
  <2>2. ASSUME NEW j \in 1 .. Len(Pending') PROVE Advances(Pending[j], Pending'[j])
    <3>1. CASE j = 1
      BY <1>1, <1>2, <1>4, <2>1, <3>1 DEF Advances, HeardOp
    <3>2. CASE j # 1
      <4>1. PICK k \in 1 .. Len(Rest) : j = k + 1
        BY <1>1, <1>3, <2>1, <3>2
      <4> QED BY <1>1, <1>2, <1>3, <1>4, <2>1, <4>1
    <3> QED BY <3>1, <3>2
  <2>3. 1 .. Len(Pending') = 1 .. Len(Pending)
    BY <1>1, <1>2, <1>3, <1>4, <2>1
  <2> QED BY <2>2, <2>3 DEF PendingAdvances
<1>5. CASE ~vec_rs'.busy
  <2>1. Pending' = viq'
    BY <1>2, <1>3, <1>5, PendingWillBe
  <2>2. CASE unit.busy
    <3>1. ASSUME NEW j \in 1 .. Len(Pending') PROVE \E i \in 1 .. Len(Pending) : Advances(Pending[i], Pending'[j])
      <4>1. j + 1 \in 1 .. Len(Pending) /\ Pending[j + 1] = Rest[j] /\ j \in 1 .. Len(Rest)
        BY <1>1, <1>3, <2>1, <2>2
      <4> QED BY <1>3, <2>1, <4>1
    <3> QED BY <3>1 DEF PendingAdvances
  <2>3. CASE ~unit.busy
    BY <1>1, <1>3, <2>1, <2>3 DEF PendingAdvances
  <2> QED BY <2>2, <2>3
<1> QED BY <1>4, <1>5

\* The operands the dispatch finds for the queue are those of program order.
LEMMA QueuedRight ==
  ASSUME VecCore, MayFetch, Fetched \in VInstr, Fetched.rs1 \in Regs, Fetched.rs2 \in Regs
  PROVE  LET q == Queued(Fetched) IN q.rob_tag = rob_tail /\ PendingRight(q)
<1>1. PICK x : x = Fetched
  OBVIOUS
<1>2. PICK q : q = Queued(x)
  OBVIOUS
<1> DEFINE R1 == (x.op \in VMemOps \/ x.form = "vx")
           R2 == (x.op \in VMemOps /\ x.mop = "strided")
           v1 == IF x.form = "vi" THEN x.imm ELSE 0
<1>3. /\ q.rob_tag = rob_tail /\ q.pc = fetch_pc
      /\ q.s1 = IF R1 THEN read_operand(x.rs1) ELSE Ready(v1)
      /\ q.s2 = IF R2 THEN read_operand(x.rs2) ELSE Ready(0)
  BY <1>2 DEF Queued
<1>4. prog[q.pc] = x
  BY <1>1, <1>3 DEF Fetched
<1> HIDE DEF R1, R2, v1
<1>5. \A r \in Regs : ScalarRight(read_operand(r), TRUE, r, 0, rob_tail)
  <2>1. PipeCore
    BY DEF VecCore
  <2> QED BY <2>1, ReadRight DEF ScalarRight
<1>6. ScalarRight(q.s1, R1, x.rs1, v1, rob_tail) /\ ScalarRight(q.s2, R2, x.rs2, 0, rob_tail)
  BY <1>1, <1>3, <1>5 DEF ScalarRight
<1> QED BY <1>1, <1>2, <1>3, <1>4, <1>6 DEF PendingRight, R1, R2, v1

\* What an instruction that finds no room does to the pipeline: nothing.
StillFetched == UNCHANGED <<prog, regfile, rob_head, rob_count>> /\ \A t \in Tags : InFlight(t) => rob'[t] = rob[t]

LEMMA StallIsStill ==
  ASSUME CoreTypeOK, RobWindow, MayFetch, UNCHANGED <<prog, regfile, rob_head, rob_count>>,
         rob' = [rob EXCEPT ![rob_tail] = FreshEntry]
  PROVE  StillFetched
<1>1. ~InFlight(rob_tail)
  BY TailIsFree DEF MayFetch
<1> QED BY <1>1 DEF StillFetched, CoreTypeOK

\* A scalar instruction enters, or nothing does.
LEMMA ScalarDispatchEnters ==
  ASSUME VecCore, DispatchStage
  PROVE  \/ StillFetched
         \/ /\ MayFetch /\ UNCHANGED <<prog, regfile>>
            /\ \E e \in RobEntry, n \in Word : e.valid /\ Enter(e, n)
<1>0. CoreTypeOK /\ RobWindow
  BY DEF VecCore, PipeCore, PipelineInv
<1>1. UNCHANGED <<prog, regfile>>
  BY DEF DispatchStage, DispatchQuick, DispatchToUnit, DispatchJalr, DispatchBranch, DispatchStall,
         FetchEnd, FetchIdle, EndOfTick
<1>2. CASE FetchEnd \/ FetchIdle
  BY <1>1, <1>2 DEF FetchEnd, FetchIdle, StillFetched, robs
<1>3. CASE DispatchStall
  <2>1. rob' = [rob EXCEPT ![rob_tail] = FreshEntry] /\ UNCHANGED <<rob_head, rob_count>> /\ MayFetch
    BY <1>3 DEF DispatchStall, Dispatch
  <2> QED BY <1>0, <1>1, <2>1, StallIsStill
<1>4. CASE DispatchQuick \/ DispatchToUnit \/ DispatchJalr \/ DispatchBranch
  <2>1. MayFetch /\ Fetched \in Instr
    BY <1>4, FetchedScalar
       DEF DispatchQuick, DispatchToUnit, DispatchJalr, DispatchBranch, Dispatch, DispatchStage
  <2>2. \A m : m \in {NextPc(fetch_pc), Fetched.imm} => m \in Word
    BY <1>0, <2>1, NextPcIsWord DEF CoreTypeOK, Instr
  <2>3. CASE DispatchQuick
    <3>1. Enter(QuickEntry(Fetched), QuickNext(Fetched))
      BY <2>3 DEF DispatchQuick, QuickEntry, QuickNext
    <3>2. QuickEntry(Fetched) \in RobEntry /\ QuickEntry(Fetched).valid
      BY <1>0, <2>1, QuickFacts
    <3>3. QuickNext(Fetched) \in Word
      BY <2>2 DEF QuickNext
    <3> QED BY <1>1, <2>1, <3>1, <3>2, <3>3
  <2>4. PICK e \in RobEntry : e = PendingEntry(Fetched) /\ e.valid
    BY <1>0, <2>1, PendingFacts
  <2>5. CASE DispatchToUnit \/ DispatchJalr
    <3>1. Enter(e, NextPc(fetch_pc))
      BY <2>4, <2>5 DEF DispatchToUnit, DispatchJalr
    <3> QED BY <1>1, <2>1, <2>2, <2>4, <3>1
  <2>6. CASE DispatchBranch
    <3>1. PICK b \in BOOLEAN, n \in {NextPc(fetch_pc), Fetched.imm} :
            Enter([e EXCEPT !.is_branch = TRUE, !.pred_taken = b], n)
      BY <2>4, <2>6 DEF DispatchBranch
    <3>2. PICK d : d = [e EXCEPT !.is_branch = TRUE, !.pred_taken = b]
      OBVIOUS
    <3>3. d \in RobEntry /\ d.valid
      BY <2>4, <3>2 DEF RobEntry
    <3> QED BY <1>1, <2>1, <2>2, <3>1, <3>2, <3>3
  <2> QED BY <1>4, <2>3, <2>5, <2>6
<1> QED BY <1>2, <1>3, <1>4 DEF DispatchStage

\* A vector instruction enters, with its place in the queue, or nothing does.
LEMMA VecDispatchEnters ==
  ASSUME VecCore, VecDispatch
  PROVE  \/ StillFetched /\ UNCHANGED queue
         \/ /\ MayFetch /\ UNCHANGED <<prog, regfile, vec_rs>>
            /\ \E e \in RobEntry, n \in Word : e.valid /\ Enter(e, n)
            /\ \/ viq' = viq
               \/ \E q \in VecRs : viq' = Append(viq, q) /\ q.rob_tag = rob_tail /\ PendingRight(q)
<1>0. CoreTypeOK /\ RobWindow /\ VecCore'
  BY VecDispatchKeeps DEF VecCore, PipeCore, PipelineInv
<1>1. MayFetch /\ UNCHANGED <<prog, regfile, vec_rs>>
  BY DEF VecDispatch, DispatchVset, DispatchVector, DispatchVectorIllegal, DispatchVectorCsr,
         DispatchVectorStall, Dispatch, EndOfTick, queue
<1>2. CASE DispatchVectorStall
  <2>1. rob' = [rob EXCEPT ![rob_tail] = FreshEntry] /\ UNCHANGED <<rob_head, rob_count, queue>>
    BY <1>2 DEF DispatchVectorStall
  <2> QED BY <1>0, <1>1, <2>1, StallIsStill
<1>3. CASE ~DispatchVectorStall
  <2>1. \E e \in RobEntry, n \in Word : e.valid /\ Enter(e, n)
    <3>0. PICK g \in RobEntry : g = FreshEntry
      BY <1>0, FreshFlags
    <3>1. PICK f, n : Enter(f, n) /\ n = NextPc(fetch_pc) /\ f.valid
      <4>1. CASE DispatchVset
        <5>1. PICK n, f : /\ f = [g EXCEPT !.valid = TRUE, !.ready = TRUE, !.is_store = FALSE,
                                           !.dest = Fetched.rd, !.value = n]
                          /\ Enter(f, NextPc(fetch_pc))
          BY <3>0, <4>1 DEF DispatchVset
        <5>2. f.valid
          BY <5>1 DEF RobEntry
        <5> QED BY <5>1, <5>2
      <4>2. CASE DispatchVector
        <5>1. PICK d, f : /\ f = [g EXCEPT !.valid = TRUE, !.ready = FALSE, !.is_store = FALSE, !.dest = d]
                          /\ Enter(f, NextPc(fetch_pc))
          BY <3>0, <4>2 DEF DispatchVector
        <5>2. f.valid
          BY <5>1 DEF RobEntry
        <5> QED BY <5>1, <5>2
      <4>3. CASE DispatchVectorIllegal
        <5>1. PICK f : /\ f = [g EXCEPT !.valid = TRUE, !.ready = TRUE, !.is_store = FALSE, !.takes_trap = TRUE,
                                        !.cause = CAUSE_ILLEGAL, !.dest = X0, !.value = 0]
                       /\ Enter(f, NextPc(fetch_pc))
          BY <3>0, <4>3 DEF DispatchVectorIllegal
        <5>2. f.valid
          BY <5>1 DEF RobEntry
        <5> QED BY <5>1, <5>2
      <4>4. CASE DispatchVectorCsr
        <5>1. PICK f : /\ f = [g EXCEPT !.valid = TRUE, !.ready = FALSE, !.is_store = FALSE, !.dest = Fetched.rd]
                       /\ Enter(f, NextPc(fetch_pc))
          BY <3>0, <4>4 DEF DispatchVectorCsr
        <5>2. f.valid
          BY <5>1 DEF RobEntry
        <5> QED BY <5>1, <5>2
      <4> QED BY <1>3, <4>1, <4>2, <4>3, <4>4 DEF VecDispatch
    <3>2. rob' = [rob EXCEPT ![rob_tail] = f] /\ rob_tail \in Tags /\ rob' \in [Tags -> RobEntry]
      BY <1>0, <3>1, Counters DEF Enter, VecCore, PipeCore, CoreTypeOK
    <3>3. f = rob'[rob_tail] /\ f \in RobEntry
      BY <1>0, <3>2 DEF CoreTypeOK
    <3>4. n \in Word
      BY <1>0, <3>1, NextPcIsWord DEF CoreTypeOK
    <3> QED BY <3>1, <3>3, <3>4
  <2>2. CASE ~DispatchVector
    <3>1. viq' = viq
      BY <1>3, <2>2 DEF VecDispatch, DispatchVset, DispatchVectorIllegal, DispatchVectorCsr, queue
    <3> QED BY <1>1, <2>1, <3>1
  <2>3. CASE DispatchVector
    <3>1. Dispatch(VArithOps \cup VMemOps)
      BY <2>3 DEF DispatchVector
    <3>2. VArithOps \cup VMemOps \subseteq VecOps \cup VCsrOps
      BY DEF VecOps
    <3>3. Fetched \in VInstr /\ Fetched.rs1 \in Regs /\ Fetched.rs2 \in Regs
      BY <3>1, <3>2, FetchedVector
    <3>4. PICK q : q = Queued(Fetched)
      OBVIOUS
    <3>5. viq' = Append(viq, q) /\ q.rob_tag = rob_tail /\ PendingRight(q)
      BY <1>1, <2>3, <3>3, <3>4, QueuedRight DEF DispatchVector
    <3>6. q \in VecRs
      <4>1. viq \in Seq(VecRs) /\ viq' \in Seq(VecRs)
        BY <1>0 DEF VecCore, VecControlOK
      <4>2. PICK s, z : s = viq /\ z = Append(s, q) /\ s \in Seq(VecRs) /\ z \in Seq(VecRs)
        BY <3>5, <4>1
      <4>3. z[Len(s) + 1] = q /\ Len(s) + 1 \in 1 .. Len(z)
        BY <4>2
      <4> QED BY <4>2, <4>3
    <3> QED BY <1>1, <2>1, <3>5, <3>6
  <2> QED BY <2>2, <2>3
<1> QED BY <1>2, <1>3

-----------------------------------------------------------------------------
(* The operands of the coprocessor, step by step.                          *)

LEMMA StillOperands ==
  ASSUME VecControlOK, VecControlOK', VectorOperandsRight, StillFetched, UNCHANGED queue
  PROVE  VectorOperandsRight'
<1>1. KeepsValues
  BY DEF StillFetched, KeepsValues
<1> QED BY <1>1, StillAdvances, WorkOperands

LEMMA CommitOperands == ASSUME VecValues, VecCore', ~halted, VecCommit, VectorOperandsRight PROVE VectorOperandsRight'
<1>0. /\ VecCore /\ CoreTypeOK /\ Decoded /\ ~ecall_halt /\ VecControlOK /\ VecControlOK'
      /\ HeadReady => InFlight(rob_head) /\ rob_head \in Tags /\ HeadEntry = rob[rob_head]
  BY ValuesIsPipe, HeadInFlight, Counters
     DEF VecValues, VecCore, DataInv, PathPipe, PipeCore, Halts, HeadReady, HeadEntry
<1>1. HeadReady => EntryDecoded(rob_head)
  BY <1>0 DEF Decoded
<1>2. HeadReady /\ (HeadEntry.is_branch \/ HeadEntry.takes_trap \/ HeadEntry.is_store) => HeadEntry.dest = X0
  BY <1>0, <1>1 DEF EntryDecoded
<1>3. CASE VecFlush
  <2>1. viq' = <<>> /\ ~vec_rs'.busy
    BY <1>0, <1>3 DEF VecFlush, VecControlOK, VecRs
  <2>2. Pending' = <<>>
    BY <1>0, <2>1, PendingWillBe DEF VecControlOK
  <2> QED BY <2>2 DEF VectorOperandsRight
<1>4. CASE ~VecFlush
  <2>1. (CommitBranch \/ CommitHalt \/ CommitStore \/ CommitRegister \/ NoCommit) /\ UNCHANGED queue
    BY <1>4 DEF VecCommit
  <2>2. CASE NoCommit
    <3>1. StillFetched
      BY <2>2 DEF NoCommit, StillFetched, robs
    <3> QED BY <1>0, <2>1, <3>1, StillOperands
  <2>3. CASE CommitBranch \/ CommitHalt \/ CommitStore
    <3>1. /\ HeadReady /\ Retire /\ UNCHANGED prog /\ regfile' = regfile
          /\ HeadEntry.is_branch \/ HeadEntry.takes_trap \/ HeadEntry.is_store
      BY <1>0, <2>3 DEF CommitBranch, CommitHalt, CommitStore, CommitPlain, Commit
    <3>2. WritesBack
      BY <1>2, <3>1 DEF WritesBack
    <3> QED BY <1>0, <2>1, <3>1, <3>2, RetireOperands
  <2>4. CASE CommitRegister
    <3>1. HeadReady /\ Retire /\ UNCHANGED prog /\ WritesBack
      BY <2>4 DEF CommitRegister, CommitPlain, Commit, WritesBack
    <3> QED BY <1>0, <2>1, <3>1, RetireOperands
  <2> QED BY <2>1, <2>2, <2>3, <2>4
<1> QED BY <1>3, <1>4

\* A unit that acts at the head: the coprocessor hears its result.
LEMMA DeliverOperands ==
  ASSUME VecValues, VecCore', VectorOperandsRight, NEW w \in Units, rs[w].busy, NEW v \in Word, Delivers(w, v),
         UNCHANGED <<prog, rob_head, rob_tail, rob_count, regfile, fetch_pc>>,
         NEW res \in [{rs[w].rob_tag} -> Word], res[rs[w].rob_tag] = v, VecHear(res)
  PROVE  VectorOperandsRight'
<1>0. ValuePipe /\ CoreTypeOK /\ VecControlOK /\ VecControlOK'
  BY ValuesIsPipe DEF VecValues, VecCore
<1>1. KeepsValues
  BY <1>0, DeliverWork
<1>2. \A t \in Tags : t \in {rs[w].rob_tag} => rob'[t].ready /\ rob'[t].value = res[t]
  BY <1>0, DeliverEntry
<1>3. PendingAdvances
  BY <1>0, <1>2, HearAdvances
<1> QED BY <1>0, <1>1, <1>3, WorkOperands

LEMMA WorkingUnitsOperands ==
  ASSUME VecValues, VecCore', VectorOperandsRight, VecExecute \/ VecLsu \/ VecSys \/ VecSysExecute
  PROVE  VectorOperandsRight'
<1>0. ValuePipe /\ CoreTypeOK /\ VecControlOK /\ VecControlOK' /\ "lsu" \in Units /\ "sys" \in Units
  BY ValuesIsPipe DEF VecValues, VecCore, Units
<1>1. CASE VecExecute
  <2>1. Execute /\ VecHear(Results) /\ Results \in [DOMAIN Results -> Word]
    BY <1>0, <1>1, ResultsTyped DEF VecExecute
  <2>2. KeepsValues
    BY <1>0, <2>1, ExecuteWork
  <2>3. \A t \in Tags : t \in DOMAIN Results => rob'[t].ready /\ rob'[t].value = Results[t]
    BY <1>0, <2>1, ExecuteEntry
  <2>4. PendingAdvances
    BY <1>0, <2>1, <2>3, HearAdvances
  <2> QED BY <1>0, <2>2, <2>4, WorkOperands
<1>2. CASE VecLsu /\ LsuLoad
  <2>1. PICK v \in Word : rs["lsu"].busy /\ Delivers("lsu", v)
    <3>1. ~SysExecute
      BY <1>2 DEF LsuLoad, SysExecute, SysMayExecute, LoadMayExecute, LsuReady
    <3> QED BY <1>0, <1>2, <3>1, HeadUnitsDeliver
  <2>2. PICK res \in [{rs["lsu"].rob_tag} -> Word] : res = [t \in {rs["lsu"].rob_tag} |-> rob'[t].value]
    <3>1. rob' \in [Tags -> RobEntry] /\ rs["lsu"].rob_tag \in Tags
      BY <1>0, TagsTyped DEF VecCore, PipeCore, CoreTypeOK
    <3>2. rob'[rs["lsu"].rob_tag].value \in Word
      BY <3>1 DEF RobEntry
    <3> QED BY <3>2
  <2>3. VecHear(res) /\ UNCHANGED <<prog, rob_head, rob_tail, rob_count, regfile, fetch_pc>>
    BY <1>2, <2>2 DEF VecLsu, LsuLoad, LsuStore, LsuIdle, front
  <2>4. res[rs["lsu"].rob_tag] = v
    <3>1. rs["lsu"].rob_tag \in Tags
      BY <1>0, TagsTyped
    <3> QED BY <1>0, <2>1, <2>2, <3>1, DeliverEntry
  <2> QED BY <1>0, <2>1, <2>3, <2>4, DeliverOperands
<1>3. CASE VecLsu /\ ~LsuLoad
  <2>1. (LsuStore \/ LsuIdle) /\ UNCHANGED queue
    BY <1>3 DEF VecLsu
  <2>2. CASE LsuStore
    BY <1>0, <2>1, <2>2, LsuStoreWork, StillAdvances, WorkOperands
  <2>3. CASE LsuIdle
    <3>1. StillFetched
      BY <2>3 DEF LsuIdle, StillFetched, robs
    <3> QED BY <1>0, <2>1, <3>1, StillOperands
  <2> QED BY <2>1, <2>2, <2>3
<1>4. CASE VecSys /\ SysExecute
  <2>1. InsOf("sys").op \in CsrOps /\ VecHear([t \in {rs["sys"].rob_tag} |-> rob'[t].value])
    BY <1>4 DEF VecSys, SysIdle, SysExecute
  <2>2. InsOf("sys") \in Instr
    BY <2>1, SysScalar DEF VecValues
  <2>3. PICK v \in Word : rs["sys"].busy /\ Delivers("sys", v)
    BY <1>0, <1>4, <2>2, HeadUnitsDeliver
  <2>4. PICK res \in [{rs["sys"].rob_tag} -> Word] : res = [t \in {rs["sys"].rob_tag} |-> rob'[t].value]
    <3>1. rob' \in [Tags -> RobEntry] /\ rs["sys"].rob_tag \in Tags
      BY <1>0, TagsTyped DEF VecCore, PipeCore, CoreTypeOK
    <3>2. rob'[rs["sys"].rob_tag].value \in Word
      BY <3>1 DEF RobEntry
    <3> QED BY <3>2
  <2>5. VecHear(res) /\ UNCHANGED <<prog, rob_head, rob_tail, rob_count, regfile, fetch_pc>>
    BY <1>4, <2>1, <2>4 DEF SysExecute, front
  <2>6. res[rs["sys"].rob_tag] = v
    <3>1. rs["sys"].rob_tag \in Tags
      BY <1>0, TagsTyped
    <3> QED BY <1>0, <2>3, <2>4, <3>1, DeliverEntry
  <2> QED BY <1>0, <2>3, <2>5, <2>6, DeliverOperands
<1>5. CASE VecSys /\ ~SysExecute
  <2>1. SysIdle /\ UNCHANGED queue
    BY <1>5 DEF VecSys
  <2>2. StillFetched
    BY <2>1 DEF SysIdle, StillFetched, robs
  <2> QED BY <1>0, <2>1, <2>2, StillOperands
<1>6. CASE VecSysExecute
  <2>1. PICK v \in Word : v = IF InsOf("sys").op = "csrr_vl" THEN csr_vl ELSE csr_vstart
    <3>1. csr_vl \in 0 .. CELLS /\ csr_vstart \in 0 .. CELLS - 1
      BY <1>0 DEF VecControlOK
    <3> QED BY <3>1, VecAssumption, WordAssumption DEF Word
  <2>2. PICK res \in [{rs["sys"].rob_tag} -> Word] : res = [t \in {rs["sys"].rob_tag} |-> v]
    OBVIOUS
  <2>3. rs["sys"].busy /\ Delivers("sys", v) /\ VecHear(res)
    BY <1>6, <2>1, <2>2 DEF VecSysExecute, SysMayExecute, Delivers
  <2>4. UNCHANGED <<prog, rob_head, rob_tail, rob_count, regfile, fetch_pc>>
    BY <1>6 DEF VecSysExecute, front
  <2> QED BY <1>0, <2>2, <2>3, <2>4, DeliverOperands
<1> QED BY <1>1, <1>2, <1>3, <1>4, <1>5, <1>6

LEMMA DispatchOperands ==
  ASSUME VecValues, VecCore', VectorOperandsRight, ScalarOnly \/ VecDispatch
  PROVE  VectorOperandsRight'
<1>0. VecCore /\ CoreTypeOK /\ VecControlOK /\ VecControlOK'
  BY ValuesIsPipe DEF VecValues, VecCore
<1>1. CASE ScalarOnly /\ Issue
  <2>1. StillFetched /\ UNCHANGED queue
    BY <1>1 DEF ScalarOnly, Issue, StillFetched, robs
  <2> QED BY <1>0, <2>1, StillOperands
<1>2. CASE ScalarOnly /\ DispatchStage
  <2>1. UNCHANGED queue /\ vec_rs' = vec_rs /\ viq' = viq
    BY <1>2 DEF ScalarOnly, queue
  <2>2. CASE StillFetched
    BY <1>0, <2>1, <2>2, StillOperands
  <2>3. CASE ~StillFetched
    <3>1. /\ MayFetch /\ UNCHANGED <<prog, regfile>>
          /\ \E e \in RobEntry, n \in Word : e.valid /\ Enter(e, n)
      BY <1>0, <1>2, <2>3, ScalarDispatchEnters
    <3> QED BY <1>0, <2>1, <3>1, EnterOperands
  <2> QED BY <2>2, <2>3
<1>3. CASE VecDispatch
  <2>1. CASE StillFetched /\ UNCHANGED queue
    BY <1>0, <2>1, StillOperands
  <2>2. CASE ~(StillFetched /\ UNCHANGED queue)
    BY <1>0, <1>3, <2>2, VecDispatchEnters, EnterOperands
  <2> QED BY <2>1, <2>2
<1> QED BY <1>1, <1>2, <1>3 DEF ScalarOnly

-----------------------------------------------------------------------------
(* The invariant.                                                          *)

LEMMA VecValuesStart == VInit => VecValues
<1> SUFFICES ASSUME VInit PROVE VecValues
  OBVIOUS
<1>1. VecCore /\ CoreTypeOK /\ Reset
  BY VecStart DEF VInit, VecCore, PipeCore
<1>2. /\ rob_head = 0 /\ rob_count = 0 /\ branch_pending = 0 /\ ~ecall_halt
      /\ fetch_stalled = FALSE /\ fetch_done = FALSE
  BY <1>1 DEF Reset
<1>3. \A t \in Tags : ~InFlight(t)
  BY <1>1, <1>2, Counters DEF InFlight, Age
<1>4. \A u \in Units : ~rs[u].busy
  BY <1>1 DEF Reset, IdleStation
<1>5. PathInv
  <2>1. BranchAccounting
    BY <1>1 DEF VecCore
  <2>2. OnPredictedPath
    BY <1>3 DEF OnPredictedPath, Follower
  <2>3. "br" \in Units
    BY DEF Units, TimedUnits
  <2> QED BY <1>2, <1>4, <2>1, <2>2, <2>3 DEF PathInv, StalledOnlyByJalr, JalrIsYoungest, StopsAtEnd
<1>6. ZeroRegister
  BY <1>1, RegAssumption DEF Reset, ZeroRegister, Regs
<1>7. DataInv
  BY <1>2, <1>3, <1>4, <1>6 DEF DataInv, Decoded, OperandsRight, ScalarResultsRight, Halts
<1> QED BY <1>1, <1>5, <1>7 DEF VecValues

LEMMA VecValuesStep == VecValues /\ VecDataOK' /\ [VNext]_vvars => VecValues'
<1> SUFFICES ASSUME VecValues, VecDataOK', [VNext]_vvars PROVE VecValues'
  OBVIOUS
<1>1. VecCore' /\ ValuePipe /\ PathPipe
  BY VecStep, ValuesIsPipe DEF VecValues
<1>2. CASE VTick
  <2>1. ~halted
    BY <1>2 DEF VTick
  <2>2. CASE VecUnit
    BY <1>1, <2>2, VecUnitValues DEF VecValues
  <2>3. CASE VecSysExecute
    BY <1>1, <2>3, VecSysExecuteValues DEF VecValues
  <2>4. CASE VecDispatch
    BY <1>1, <2>4, VecDispatchValues DEF VecValues
  <2>5. CASE VecCommit \/ VecExecute \/ VecLsu \/ VecSys \/ ScalarOnly
    BY <1>1, <2>1, <2>5, ScalarBlockValues DEF VecValues
  <2> QED BY <1>2, <2>2, <2>3, <2>4, <2>5 DEF VTick
<1>3. CASE VTimerFires \/ UNCHANGED vvars
  <2>1. UNCHANGED <<prog, front, robs, rs, regfile, dmem, ecall_halt, halted, branch_pending>>
    BY <1>3 DEF VTimerFires, TimerFires, vvars, vars
  <2>2. Halts'
    BY <2>1 DEF VecValues, DataInv, Halts
  <2>3. DataInv'
    BY <1>1, <2>1, <2>2, QuietData DEF robs, front
  <2>4. PathInv'
    BY <1>1, <2>1, QuietPath DEF KeepsEntries, robs, front
  <2> QED BY <1>1, <2>3, <2>4 DEF VecValues
<1> QED BY <1>2, <1>3 DEF VNext, VStopped

LEMMA VectorOperandsStart == VInit => VectorOperandsRight
<1> SUFFICES ASSUME VInit PROVE VectorOperandsRight
  OBVIOUS
<1>1. viq = <<>> /\ ~vec_rs.busy
  BY DEF VInit, IdleVec
<1>2. Pending = <<>>
  BY <1>1 DEF Pending
<1> QED BY <1>2 DEF VectorOperandsRight

LEMMA VectorOperandsStep ==
  VecValues /\ VecDataOK' /\ VectorOperandsRight /\ [VNext]_vvars => VectorOperandsRight'
<1> SUFFICES ASSUME VecValues, VecDataOK', VectorOperandsRight, [VNext]_vvars PROVE VectorOperandsRight'
  OBVIOUS
<1>1. VecCore' /\ VecControlOK /\ VecControlOK'
  BY VecStep DEF VecValues, VecCore
<1>2. CASE VTick
  <2>1. CASE VecCommit
    BY <1>1, <1>2, <2>1, CommitOperands DEF VTick
  <2>2. CASE VecUnit
    <3>1. KeepsValues /\ PendingAdvances
      BY <2>2, TurnWork, TurnAdvances DEF VecValues
    <3> QED BY <1>1, <3>1, WorkOperands
  <2>3. CASE VecExecute \/ VecLsu \/ VecSys \/ VecSysExecute
    BY <1>1, <2>3, WorkingUnitsOperands
  <2>4. CASE ScalarOnly \/ VecDispatch
    BY <1>1, <2>4, DispatchOperands
  <2> QED BY <1>2, <2>1, <2>2, <2>3, <2>4 DEF VTick
<1>3. CASE VTimerFires \/ UNCHANGED vvars
  <2>1. StillFetched /\ UNCHANGED queue
    BY <1>3 DEF VTimerFires, TimerFires, vvars, vars, StillFetched, robs, queue
  <2> QED BY <1>1, <2>1, StillOperands
<1> QED BY <1>2, <1>3 DEF VNext, VStopped

\* The invariant, for as long as elements are words.
LEMMA VecValuesCorrect == VSpec /\ []VecDataOK => []VecValues
  BY VecValuesStart, VecValuesStep, PTL DEF VSpec

\* Beside the coprocessor too, every operand a scalar unit holds is that of
\* program order: the result of vcpop or of a vset reaches those who wait for
\* it, and a turn of the coprocessor disturbs none.
THEOREM ScalarOperandsRight == VSpec /\ []VecDataOK => []OperandsRight
<1>1. VecValues => OperandsRight
  BY DEF VecValues, DataInv
<1> QED BY <1>1, VecValuesCorrect, PTL

\* The front end beside the coprocessor: branches in flight are counted, the
\* fetch waits only for a JALR, and the entries follow one predicted path.
THEOREM FrontRight ==
  VSpec /\ []VecDataOK => [](BranchAccounting /\ StalledOnlyByJalr /\ OnPredictedPath)
<1>1. VecValues => BranchAccounting /\ StalledOnlyByJalr /\ OnPredictedPath
  BY DEF VecValues, PathInv
<1> QED BY <1>1, VecValuesCorrect, PTL

\* And every scalar operand of a vector instruction that waits, in the unit or
\* in the queue, is that of program order, however long it waits there: no
\* older producer is missed, and no younger instruction overwrites it.
THEOREM CoprocessorOperandsRight == VSpec /\ []VecDataOK => []VectorOperandsRight
<1>1. VSpec /\ []VecDataOK => []VecValues
  BY VecValuesCorrect
<1> QED BY <1>1, VectorOperandsStart, VectorOperandsStep, PTL DEF VSpec

-----------------------------------------------------------------------------
(* The vector state that the coprocessor has captured.                     *)

\* A CSR instruction in flight is younger than every legal vector instruction.
CsrWaits ==
  rs["sys"].busy => \A t \in Tags : IsVector(t) /\ ~IsIllegal(t) => Age(t) < Age(rs["sys"].rob_tag)

\* The youngest vset* in flight has set vl.
LastVset ==
  \A s \in Tags : IsVset(s) /\ (\A o \in Tags : IsVset(o) => Age(o) <= Age(s)) => rob[s].value = csr_vl

\* While there is a vstart, no vector instruction in flight has cleared it.
VstartPends ==
  csr_vstart # 0 => \A s \in Tags : IsVector(s) /\ ~rob[s].takes_trap => ~rob[s].ready

\* What traps is illegal at dispatch, and no vset*, or is a load that has faulted.
VectorTraps ==
  \A s \in Tags : IsVector(s) /\ rob[s].takes_trap =>
    (IsIllegal(s) /\ ~IsVset(s)) \/ prog[rob[s].pc].op \in VMemOps

\* What the instruction of the entry t has captured of vl, vstart and the element width.
Captured(t, n, v, w) ==
  /\ (\A s \in Tags : IsVset(s) => Age(s) < Age(t)) => n = csr_vl /\ v = csr_vstart /\ w = csr_vtype.sew
  /\ \A s \in Tags :
       /\ IsVset(s) /\ Age(s) < Age(t)
       /\ \A o \in Tags : IsVset(o) /\ Age(o) < Age(t) => Age(o) <= Age(s)
       => n = rob[s].value
  /\ \A s \in Tags : IsVector(s) /\ ~rob[s].takes_trap /\ Age(s) < Age(t) => v = 0

PendingCaptured ==
  \A k \in 1 .. Len(Pending) : LET p == Pending[k] IN
    ~rob[p.rob_tag].takes_trap => Captured(p.rob_tag, p.vl, p.vstart, p.sew)

CaptureInv == CsrWaits /\ LastVset /\ VstartPends /\ VectorTraps /\ PendingCaptured

LEMMA CaptureIsRight == ASSUME VecCore, CaptureInv PROVE CapturesInOrder
<1>1. PICK P \in Seq(VecRs) : P = Pending /\ DOMAIN P = 1 .. Len(P)
  <2>1. Pending \in Seq(VecRs)
    BY PendingIs DEF VecCore
  <2> QED BY <2>1
<1>2. ASSUME NEW k \in 1 .. Len(P), ~rob[P[k].rob_tag].takes_trap PROVE CapturedRight(P[k])
  <2>1. PICK p \in VecRs : p = P[k]
    OBVIOUS
  <2>2. WellPlaced(p) /\ Owns(p)
    BY <1>1, <2>1, WellPlacedIs DEF VecCore, QueueInv, Holds
  <2>3. p.rob_tag \in Tags /\ IsVector(p.rob_tag) /\ ~IsIllegal(p.rob_tag)
    BY <2>2 DEF WellPlaced, Owns, IsVector, VecOps
  <2>4. Captured(p.rob_tag, p.vl, p.vstart, p.sew)
    BY <1>1, <1>2, <2>1 DEF CaptureInv, PendingCaptured
  <2>5. rs["sys"].busy => Age(p.rob_tag) < Age(rs["sys"].rob_tag)
    BY <2>3 DEF CaptureInv, CsrWaits
  <2> QED BY <2>1, <2>4, <2>5 DEF Captured, CapturedRight
<1> QED BY <1>1, <1>2 DEF CapturesInOrder

-----------------------------------------------------------------------------
(* The steps that let no legal vector instruction enter.                   *)

\* Who is a vector instruction was one, and is at most completed; an illegal
\* one may have entered.
VectorKept ==
  \A t \in Tags : IsVector(t)' =>
    \/ IsIllegal(t)' /\ ~IsVset(t)'
    \/ /\ IsVector(t) /\ ~IsIllegal(t) /\ prog'[rob'[t].pc].op = prog[rob[t].pc].op
       /\ rob[t].takes_trap => rob'[t].takes_trap
       /\ rob'[t].takes_trap => rob[t].takes_trap \/ prog[rob[t].pc].op \in VMemOps
       /\ csr_vstart' # 0 /\ ~rob'[t].takes_trap /\ rob'[t].ready => rob[t].ready
       /\ IsVset(t) => rob'[t].value = rob[t].value

\* Those in flight keep their order, and only the oldest leave.
OrderKept ==
  /\ \A t, o \in Tags : InFlight(t) /\ InFlight(o) /\ InFlight(t)' /\ InFlight(o)' =>
       (Age(t)' < Age(o)' <=> Age(t) < Age(o))
  /\ \A s, t \in Tags : IsVset(s) /\ InFlight(t) /\ InFlight(t)' => IsVset(s)' \/ Age(s) < Age(t)

\* The pending instruction q has captured what p has, unless it has faulted or
\* is the head of the ROB, at which vl was trimmed.
SameCapture(p, q) ==
  /\ q.rob_tag = p.rob_tag /\ q.sew = p.sew /\ q.vstart = p.vstart
  /\ \/ q.vl = p.vl
     \/ rob'[q.rob_tag].takes_trap
     \/ q.vl = csr_vl' /\ q.rob_tag = rob_head'

PendingKept == \A j \in 1 .. Len(Pending') : \E i \in 1 .. Len(Pending) : SameCapture(Pending[i], Pending'[j])

\* The CSRs stay, but for a vl trimmed for a single instruction and a vstart
\* cleared before all that is pending.
ConfigKept ==
  /\ csr_vtype' = csr_vtype
  /\ \/ csr_vl' = csr_vl
     \/ /\ \A s \in Tags : ~IsVset(s)'
        /\ \A j \in 1 .. Len(Pending') : Pending'[j].vl = csr_vl'
  /\ \/ csr_vstart' = csr_vstart
     \/ /\ csr_vstart' = 0
        /\ \A j \in 1 .. Len(Pending') : ~rob'[Pending'[j].rob_tag].takes_trap => Pending'[j].vstart = 0

\* The SYS station serves whom it has served, or the youngest instruction.
SysServes ==
  rs'["sys"].busy =>
    \/ rs["sys"].busy /\ rs'["sys"].rob_tag = rs["sys"].rob_tag
    \/ \A t \in Tags : IsVector(t)' /\ ~IsIllegal(t)' => Age(t)' < Age(rs["sys"].rob_tag)'

LEMMA CapturesKept ==
  ASSUME VecCore, VecCore', CaptureInv, VectorKept, OrderKept, PendingKept, ConfigKept, SysServes
  PROVE  CaptureInv'
<1>0. /\ CoreTypeOK /\ CoreTypeOK' /\ StationsOwn /\ StationsOwn' /\ "sys" \in Units
      /\ \A t \in Tags : Age(t) \in Int /\ Age(t)' \in Nat /\ (t = rob_head' => Age(t)' = 0)
  <2>1. CoreTypeOK /\ CoreTypeOK' /\ StationsOwn /\ StationsOwn' /\ "sys" \in Units
    BY DEF VecCore, PipeCore, PipelineInv, Units
  <2>2. ASSUME NEW t \in Tags
        PROVE  Age(t) \in Int /\ Age(t)' \in Nat /\ (t = rob_head' => Age(t)' = 0)
    <3>1. Age(t) \in 0 .. ROB_SZ - 1
      BY <2>1, AgeBounds
    <3>2. rob_head' \in Tags
      BY <2>1 DEF CoreTypeOK
    <3>3. PICK h \in Tags : h = rob_head'
      BY <3>2
    <3>4. PICK a : a = Age(t)'
      OBVIOUS
    <3>5. a = IF t >= h THEN t - h ELSE t + ROB_SZ - h
      BY <3>3, <3>4 DEF Age
    <3>6. a \in Nat /\ (t = h => a = 0)
      BY <3>5, RobAssumption DEF Tags
    <3> QED BY <3>1, <3>3, <3>4, <3>6
  <2> QED BY <2>1, <2>2
<1>1. ASSUME NEW t \in Tags, IsVset(t)'
      PROVE  /\ IsVset(t) /\ rob'[t].value = rob[t].value /\ InFlight(t) /\ InFlight(t)'
  BY <1>1 DEF IsVset, IsVector, VecOps, VectorKept
<1>2. ASSUME NEW t \in Tags, IsVector(t)', ~IsIllegal(t)'
      PROVE  /\ IsVector(t) /\ ~IsIllegal(t) /\ InFlight(t) /\ InFlight(t)'
             /\ rob[t].takes_trap => rob'[t].takes_trap
             /\ rob'[t].takes_trap => rob[t].takes_trap \/ prog[rob[t].pc].op \in VMemOps
             /\ prog'[rob'[t].pc].op = prog[rob[t].pc].op
             /\ csr_vstart' # 0 /\ ~rob'[t].takes_trap /\ rob'[t].ready => rob[t].ready
  BY <1>2 DEF VectorKept, IsVector
<1>3. CsrWaits'
  <2> SUFFICES ASSUME rs'["sys"].busy, NEW t \in Tags, IsVector(t)', ~IsIllegal(t)'
               PROVE  Age(t)' < Age(rs["sys"].rob_tag)'
    BY DEF CsrWaits
  <2>1. CASE rs["sys"].busy /\ rs'["sys"].rob_tag = rs["sys"].rob_tag
    <3>1. PICK c \in Tags : c = rs["sys"].rob_tag /\ c = rs'["sys"].rob_tag /\ InFlight(c) /\ InFlight(c)'
      BY <1>0, <2>1, TagsTyped DEF StationsOwn
    <3>2. Age(t) < Age(c) /\ InFlight(t) /\ InFlight(t)'
      BY <1>2, <2>1, <3>1 DEF CaptureInv, CsrWaits
    <3> QED BY <3>1, <3>2 DEF OrderKept
  <2> QED BY <2>1 DEF SysServes
<1>4. LastVset'
  <2> SUFFICES ASSUME NEW s \in Tags, IsVset(s)', \A o \in Tags : IsVset(o)' => Age(o)' <= Age(s)'
               PROVE  rob'[s].value = csr_vl'
    BY DEF LastVset
  <2>1. IsVset(s) /\ rob'[s].value = rob[s].value /\ InFlight(s) /\ InFlight(s)'
    BY <1>1
  <2>2. ASSUME NEW o \in Tags, IsVset(o) PROVE Age(o) <= Age(s)
    <3>1. CASE IsVset(o)'
      <4>1. ~(Age(s)' < Age(o)') /\ InFlight(o) /\ InFlight(o)'
        BY <1>0, <1>1, <3>1
      <4>2. ~(Age(s) < Age(o))
        BY <2>1, <4>1 DEF OrderKept
      <4> QED BY <1>0, <4>2
    <3>2. CASE ~IsVset(o)'
      <4>1. Age(o) < Age(s)
        BY <2>1, <2>2, <3>2 DEF OrderKept
      <4> QED BY <1>0, <4>1
    <3> QED BY <3>1, <3>2
  <2>3. rob[s].value = csr_vl
    BY <2>1, <2>2 DEF CaptureInv, LastVset
  <2> QED BY <2>1, <2>3 DEF ConfigKept
<1>5. VstartPends'
  <2> SUFFICES ASSUME csr_vstart' # 0, NEW s \in Tags, IsVector(s)', ~rob'[s].takes_trap
               PROVE  ~rob'[s].ready
    BY DEF VstartPends
  <2>1. csr_vstart' = csr_vstart
    BY DEF ConfigKept
  <2>2. ~IsIllegal(s)'
    BY DEF IsIllegal
  <2> QED BY <1>2, <2>1, <2>2 DEF CaptureInv, VstartPends
<1>6. VectorTraps'
  <2> SUFFICES ASSUME NEW s \in Tags, IsVector(s)', rob'[s].takes_trap
               PROVE  (IsIllegal(s)' /\ ~IsVset(s)') \/ prog'[rob'[s].pc].op \in VMemOps
    BY DEF VectorTraps
  <2>1. CASE ~(IsIllegal(s)' /\ ~IsVset(s)')
    <3>1. IsVector(s) /\ ~IsIllegal(s) /\ prog'[rob'[s].pc].op = prog[rob[s].pc].op
      BY <2>1 DEF VectorKept
    <3>2. rob[s].takes_trap \/ prog[rob[s].pc].op \in VMemOps
      BY <2>1 DEF VectorKept
    <3> QED BY <3>1, <3>2 DEF CaptureInv, VectorTraps
  <2> QED BY <2>1
<1>7. PendingCaptured'
  <2>1. PICK P \in Seq(VecRs), Q \in Seq(VecRs) : P = Pending /\ Q = Pending'
    BY PendingIs, PendingWillBe DEF VecCore, VecControlOK
  <2>2. ASSUME NEW j \in 1 .. Len(Q), ~rob'[Q[j].rob_tag].takes_trap
        PROVE  Captured(Q[j].rob_tag, Q[j].vl, Q[j].vstart, Q[j].sew)'
    <3>1. PICK i \in 1 .. Len(P) : SameCapture(P[i], Q[j])
      BY <2>1 DEF PendingKept
    <3>0. PICK p \in VecRs, q \in VecRs : p = P[i] /\ q = Q[j]
      OBVIOUS
    <3>2. PICK t \in Tags : p = P[i] /\ q = Q[j] /\ t = q.rob_tag
      BY <3>0 DEF VecRs
    <3>3. t \in Tags /\ t = p.rob_tag /\ InFlight(t) /\ InFlight(t)' /\ ~rob'[t].takes_trap
          /\ IsVector(t)' /\ ~IsIllegal(t)' /\ ~rob[t].takes_trap
      <4>1. t = p.rob_tag /\ t \in Tags
        BY <3>1, <3>2 DEF SameCapture, VecRs
      <4>2. Owns(p) /\ Owns(q)'
        <5>1. Holds(P) /\ Holds(Q)'
          BY <2>1 DEF VecCore, QueueInv, Holds
        <5> QED BY <3>2, <5>1 DEF Holds
      <4>3. IsVector(t)' /\ ~IsIllegal(t)'
        BY <3>2, <4>2 DEF Owns, IsVector, VecOps
      <4> QED BY <1>2, <2>2, <3>2, <4>1, <4>2, <4>3 DEF Owns
    <3>4. Captured(t, p.vl, p.vstart, p.sew)
      BY <2>1, <3>2, <3>3 DEF CaptureInv, PendingCaptured
    <3>5. /\ q.sew = p.sew /\ q.vstart = p.vstart
          /\ q.vl = p.vl \/ (q.vl = csr_vl' /\ t = rob_head')
      BY <2>2, <3>1, <3>2 DEF SameCapture
    <3>6. (\A s \in Tags : IsVset(s)' => Age(s)' < Age(t)') =>
            q.vl = csr_vl' /\ q.vstart = csr_vstart' /\ q.sew = csr_vtype'.sew
      <4> SUFFICES ASSUME \A s \in Tags : IsVset(s)' => Age(s)' < Age(t)'
                   PROVE  q.vl = csr_vl' /\ q.vstart = csr_vstart' /\ q.sew = csr_vtype'.sew
        OBVIOUS
      <4>1. ASSUME NEW s \in Tags, IsVset(s) PROVE Age(s) < Age(t)
        BY <1>1, <3>3, <4>1 DEF OrderKept
      <4>2. p.vl = csr_vl /\ p.vstart = csr_vstart /\ p.sew = csr_vtype.sew
        BY <3>4, <4>1 DEF Captured
      <4>3. q.vl = csr_vl'
        BY <2>1, <3>2, <3>5, <4>2 DEF ConfigKept
      <4>4. q.vstart = csr_vstart'
        BY <2>1, <2>2, <3>2, <3>5, <4>2 DEF ConfigKept
      <4> QED BY <3>5, <4>2, <4>3, <4>4 DEF ConfigKept
    <3>7. ASSUME NEW s \in Tags, IsVset(s)', Age(s)' < Age(t)',
                 \A o \in Tags : IsVset(o)' /\ Age(o)' < Age(t)' => Age(o)' <= Age(s)'
          PROVE  q.vl = rob'[s].value
      <4>1. IsVset(s) /\ rob'[s].value = rob[s].value /\ InFlight(s) /\ InFlight(s)'
        BY <1>1, <3>7
      <4>2. Age(s) < Age(t)
        BY <3>3, <3>7, <4>1 DEF OrderKept
      <4>3. ASSUME NEW o \in Tags, IsVset(o), Age(o) < Age(t) PROVE Age(o) <= Age(s)
        <5>1. CASE IsVset(o)'
          <6>1. InFlight(o) /\ InFlight(o)'
            BY <1>1, <5>1
          <6>2. Age(o)' < Age(t)'
            BY <3>3, <4>3, <6>1 DEF OrderKept
          <6>3. ~(Age(s)' < Age(o)')
            BY <1>0, <3>7, <5>1, <6>2
          <6>4. ~(Age(s) < Age(o))
            BY <4>1, <6>1, <6>3 DEF OrderKept
          <6> QED BY <1>0, <6>4
        <5>2. CASE ~IsVset(o)'
          <6>1. Age(o) < Age(s)
            BY <4>1, <4>3, <5>2 DEF OrderKept
          <6> QED BY <1>0, <6>1
        <5> QED BY <5>1, <5>2
      <4>4. p.vl = rob[s].value
        BY <3>4, <4>1, <4>2, <4>3 DEF Captured
      <4>5. t # rob_head'
        <5>1. Age(s)' \in Nat /\ Age(t)' \in Nat /\ (t = rob_head' => Age(t)' = 0)
          BY <1>0
        <5> QED BY <3>7, <5>1
      <4> QED BY <3>5, <4>1, <4>4, <4>5
    <3>8. ASSUME NEW s \in Tags, IsVector(s)', ~rob'[s].takes_trap, Age(s)' < Age(t)'
          PROVE  q.vstart = 0
      <4>1. ~IsIllegal(s)'
        BY <3>8 DEF IsIllegal
      <4>2. IsVector(s) /\ ~rob[s].takes_trap /\ InFlight(s) /\ InFlight(s)'
        BY <1>2, <3>8, <4>1
      <4>3. Age(s) < Age(t)
        BY <3>3, <3>8, <4>2 DEF OrderKept
      <4> QED BY <3>4, <3>5, <4>2, <4>3 DEF Captured
    <3> QED BY <3>2, <3>6, <3>7, <3>8 DEF Captured
  <2> QED BY <2>1, <2>2 DEF PendingCaptured
<1> QED BY <1>3, <1>4, <1>5, <1>6, <1>7 DEF CaptureInv

-----------------------------------------------------------------------------
(* The captures, block by block.                                           *)

LEMMA HearBothCaptures == ASSUME NEW v \in VecRs, NEW res PROVE SameCapture(v, HearBoth(v, res))
<1>1. PICK a, b : a = Hear(v.s1, res) /\ b = Hear(v.s2, res)
  OBVIOUS
<1>2. PICK h : h = [v EXCEPT !.s1 = a, !.s2 = b] /\ h = HearBoth(v, res)
  BY <1>1 DEF HearBoth, VecRs
<1>3. h.rob_tag = v.rob_tag /\ h.sew = v.sew /\ h.vstart = v.vstart /\ h.vl = v.vl
  BY <1>2 DEF VecRs
<1> QED BY <1>2, <1>3 DEF SameCapture

LEMMA HearKeepsPending ==
  ASSUME VecControlOK, NEW T, NEW res \in [T -> Word], VecHear(res) PROVE PendingKept
<1>1. viq \in Seq(VecRs) /\ vec_rs \in VecRs
  BY DEF VecControlOK
<1>2. viq' \in Seq(VecRs) /\ Len(viq') = Len(viq) /\ \A k \in 1 .. Len(viq) : viq'[k] = HearBoth(viq[k], res)
  BY <1>1, QueueHears DEF VecHear
<1>3. /\ vec_rs' \in VecRs /\ vec_rs'.busy = vec_rs.busy
      /\ vec_rs.busy => vec_rs' = HearBoth(vec_rs, res)
  BY <1>1, HearBothIs DEF VecHear, UnitHears
<1>4. \A v \in VecRs : SameCapture(v, HearBoth(v, res))
  BY HearBothCaptures
<1>5. ASSUME NEW k \in 1 .. Len(viq) PROVE SameCapture(viq[k], viq'[k])
  <2>1. PICK v \in VecRs : v = viq[k]
    BY <1>1
  <2> QED BY <1>2, <1>4, <2>1
<1>6. CASE vec_rs.busy
  <2>1. /\ Len(Pending) = Len(viq) + 1 /\ Pending[1] = vec_rs
        /\ \A k \in 1 .. Len(viq) : Pending[k + 1] = viq[k]
    BY <1>6, PendingIs
  <2>2. /\ Len(Pending') = Len(viq) + 1 /\ Pending'[1] = vec_rs'
        /\ \A k \in 1 .. Len(viq) : Pending'[k + 1] = viq'[k]
    BY <1>2, <1>3, <1>6, PendingWillBe
  <2>3. ASSUME NEW j \in 1 .. Len(Pending') PROVE SameCapture(Pending[j], Pending'[j])
    <3>1. CASE j = 1
      BY <1>1, <1>3, <1>4, <1>6, <2>1, <2>2, <3>1
    <3>2. CASE j # 1
      <4>1. j \in 1 .. Len(viq) + 1 /\ Len(viq) \in Nat
        BY <1>1, <2>2
      <4>2. j - 1 \in 1 .. Len(viq) /\ j = (j - 1) + 1
        BY <3>2, <4>1
      <4>3. PICK k \in 1 .. Len(viq) : j = k + 1
        BY <4>2
      <4> QED BY <1>5, <2>1, <2>2, <4>3
    <3> QED BY <3>1, <3>2
  <2> QED BY <2>1, <2>2, <2>3 DEF PendingKept
<1>7. CASE ~vec_rs.busy
  <2>1. Pending = viq /\ Pending' = viq'
    BY <1>2, <1>3, <1>7, PendingIs, PendingWillBe
  <2> QED BY <1>2, <1>5, <2>1 DEF PendingKept
<1> QED BY <1>6, <1>7

LEMMA StillKeepsPending == ASSUME UNCHANGED queue PROVE PendingKept
<1>1. Pending' = Pending
  BY DEF queue, Pending
<1> QED BY <1>1 DEF PendingKept, SameCapture

\* No vset* is illegal.
LEMMA VsetIsLegal == ASSUME VectorTraps, NEW t \in Tags, IsVset(t) PROVE IsVector(t) /\ ~IsIllegal(t)
<1>1. IsVector(t)
  BY DEF IsVset, IsVector, VecOps
<1>2. prog[rob[t].pc].op \notin VMemOps
  BY DEF IsVset, VSetOps, VMemOps
<1> QED BY <1>1, <1>2 DEF VectorTraps, IsIllegal

\* Where scalar entries complete, the captures stay.
LEMMA WorkCaptures ==
  ASSUME VecCore, VecCore', CaptureInv, PendingKept,
         UNCHANGED <<prog, rob_head, rob_count, vcsrs>>,
         \A t \in Tags : InFlight(t) => rob'[t].pc = rob[t].pc,
         \A t \in Tags : IsVector(t) => rob'[t] = rob[t],
         rs'["sys"].busy => rs["sys"].busy /\ rs'["sys"].rob_tag = rs["sys"].rob_tag
  PROVE  CaptureInv'
<1>1. \A t \in Tags : (InFlight(t)' <=> InFlight(t)) /\ Age(t)' = Age(t)
  BY DEF InFlight, Age
<1>2. VectorKept
  <2> SUFFICES ASSUME NEW t \in Tags, IsVector(t)'
               PROVE  \/ IsIllegal(t)' /\ ~IsVset(t)'
                      \/ IsVector(t) /\ ~IsIllegal(t) /\ rob'[t] = rob[t]
    BY DEF VectorKept, IsVector
  <2>1. IsVector(t) /\ rob'[t] = rob[t]
    BY <1>1 DEF IsVector
  <2>2. IsIllegal(t) => ~IsVset(t)
    BY VsetIsLegal DEF CaptureInv
  <2> QED BY <1>1, <2>1, <2>2 DEF IsIllegal, IsVset
<1>3. OrderKept
  <2>1. \A s \in Tags : IsVset(s) => IsVset(s)'
    BY <1>1 DEF IsVset
  <2> QED BY <1>1, <2>1 DEF OrderKept
<1>4. ConfigKept
  BY DEF ConfigKept, vcsrs
<1>5. SysServes
  BY DEF SysServes
<1> QED BY <1>2, <1>3, <1>4, <1>5, CapturesKept

\* Nothing that the queue or the vector instructions know of changes.
LEMMA StillCaptures ==
  ASSUME VecCore, VecCore', CaptureInv, UNCHANGED <<prog, rob_head, rob_count, queue, vcsrs>>,
         \A t \in Tags : InFlight(t) => rob'[t] = rob[t],
         rs'["sys"].busy => rs["sys"].busy /\ rs'["sys"].rob_tag = rs["sys"].rob_tag
  PROVE  CaptureInv'
<1>1. PendingKept
  BY StillKeepsPending
<1>2. \A t \in Tags : IsVector(t) => rob'[t] = rob[t]
  BY DEF IsVector
<1> QED BY <1>1, <1>2, WorkCaptures

\* The head leaves: it was older than all that stay.
LEMMA RetireCaptures ==
  ASSUME VecCore, VecCore', CaptureInv, HeadReady, Retire, UNCHANGED <<prog, rs, queue, vcsrs>>
  PROVE  CaptureInv'
<1>0. CoreTypeOK /\ RobWindow
  BY DEF VecCore, PipeCore, PipelineInv
<1>1. /\ \A t \in Tags : InFlight(t)' <=> InFlight(t) /\ t # rob_head
      /\ \A t \in Tags : InFlight(t) /\ t # rob_head => Age(t)' = Age(t) - 1
      /\ \A t \in Tags : t # rob_head => rob'[t] = rob[t]
  BY <1>0, RetireWindow
<1>2. \A t \in Tags : Age(t) \in 0 .. ROB_SZ - 1 /\ (Age(t) = 0 <=> t = rob_head)
  BY <1>0, AgeBounds
<1>3. VectorKept
  <2> SUFFICES ASSUME NEW t \in Tags, IsVector(t)'
               PROVE  \/ IsIllegal(t)' /\ ~IsVset(t)'
                      \/ IsVector(t) /\ ~IsIllegal(t) /\ rob'[t] = rob[t]
    BY DEF VectorKept, IsVector
  <2>1. IsVector(t) /\ rob'[t] = rob[t]
    BY <1>1 DEF IsVector
  <2>2. IsIllegal(t) => ~IsVset(t)
    BY VsetIsLegal DEF CaptureInv
  <2> QED BY <1>1, <2>1, <2>2 DEF IsIllegal, IsVset
<1>4. OrderKept
  <2>1. \A t, o \in Tags : InFlight(t) /\ InFlight(o) /\ InFlight(t)' /\ InFlight(o)' =>
          (Age(t)' < Age(o)' <=> Age(t) < Age(o))
    BY <1>1, <1>2
  <2>2. ASSUME NEW s \in Tags, NEW t \in Tags, IsVset(s), InFlight(t), InFlight(t)'
        PROVE  IsVset(s)' \/ Age(s) < Age(t)
    <3>1. CASE s = rob_head
      <4>1. Age(s) = 0 /\ Age(t) # 0 /\ Age(t) \in 0 .. ROB_SZ - 1
        BY <1>1, <1>2, <2>2, <3>1
      <4>2. ROB_SZ \in Nat
        BY <1>0, Counters
      <4> QED BY <4>1, <4>2
    <3>2. CASE s # rob_head
      BY <1>1, <2>2, <3>2 DEF IsVset
    <3> QED BY <3>1, <3>2
  <2> QED BY <2>1, <2>2 DEF OrderKept
<1>5. PendingKept
  BY StillKeepsPending
<1>6. ConfigKept
  BY DEF ConfigKept, vcsrs
<1>7. SysServes
  BY DEF SysServes
<1> QED BY <1>3, <1>4, <1>5, <1>6, <1>7, CapturesKept

\* A flush leaves nothing in flight, and nothing pending.
LEMMA FlushCaptures ==
  ASSUME VecCore, VecCore', NEW p, Redirect(p), VecFlush PROVE CaptureInv'
<1>1. CoreTypeOK /\ PipelineFlush /\ VecControlOK /\ VecControlOK'
  BY DEF VecCore, PipeCore, Redirect
<1>2. \A t \in Tags : ~InFlight(t)'
  BY <1>1, FlushWindow
<1>3. ~vec_rs'.busy /\ viq' = <<>>
  BY <1>1 DEF VecFlush, VecControlOK, VecRs
<1>4. Pending' = <<>>
  BY <1>1, <1>3, PendingWillBe DEF VecControlOK
<1>5. PendingCaptured'
  <2>1. Len(<<>>) = 0
    OBVIOUS
  <2> QED BY <1>4, <2>1 DEF PendingCaptured
<1>6. CsrWaits' /\ LastVset' /\ VstartPends' /\ VectorTraps'
  BY <1>2 DEF CsrWaits, LastVset, VstartPends, VectorTraps, IsVector, IsVset
<1> QED BY <1>5, <1>6 DEF CaptureInv

\* What enters is no legal vector instruction; the SYS station may take it.
LEMMA EnterCaptures ==
  ASSUME VecCore, VecCore', CaptureInv, MayFetch, NEW e \in RobEntry, NEW p, e.valid, Enter(e, p),
         UNCHANGED <<prog, queue, vcsrs>>,
         \/ prog[e.pc].op \notin VecOps
         \/ e.takes_trap /\ e.cause = CAUSE_ILLEGAL /\ prog[e.pc].op \notin VSetOps,
         rs'["sys"] = rs["sys"] \/ rs'["sys"].rob_tag = rob_tail
  PROVE  CaptureInv'
<1>0. CoreTypeOK /\ RobWindow
  BY DEF VecCore, PipeCore, PipelineInv
<1>1. /\ \A t \in Tags : InFlight(t)' <=> InFlight(t) \/ t = rob_tail
      /\ \A t \in Tags : Age(t)' = Age(t)
      /\ \A t \in Tags : t # rob_tail => rob'[t] = rob[t]
      /\ rob'[rob_tail] = e
  BY <1>0, EnterWindow
<1>2. rob_tail \in Tags /\ ~InFlight(rob_tail) /\ Age(rob_tail) = rob_count
  BY <1>0, Counters, TailIsFree DEF MayFetch
<1>3. ASSUME NEW t \in Tags, IsVector(t)'
      PROVE  \/ t = rob_tail /\ IsIllegal(t)' /\ ~IsVset(t)'
             \/ t # rob_tail /\ IsVector(t) /\ rob'[t] = rob[t]
  <2>1. CASE t = rob_tail
    <3>1. prog[e.pc].op \in VecOps
      BY <1>1, <1>3, <2>1 DEF IsVector
    <3> QED BY <1>1, <2>1, <3>1 DEF IsIllegal, IsVset
  <2>2. CASE t # rob_tail
    BY <1>1, <1>3, <2>2 DEF IsVector
  <2> QED BY <2>1, <2>2
<1>4. VectorKept
  <2> SUFFICES ASSUME NEW t \in Tags, IsVector(t)'
               PROVE  \/ IsIllegal(t)' /\ ~IsVset(t)'
                      \/ IsVector(t) /\ ~IsIllegal(t) /\ rob'[t] = rob[t]
    BY DEF VectorKept, IsVector
  <2>1. CASE IsVector(t) /\ rob'[t] = rob[t]
    <3>1. IsIllegal(t) => ~IsVset(t)
      BY VsetIsLegal DEF CaptureInv
    <3> QED BY <2>1, <3>1 DEF IsIllegal, IsVset, IsVector
  <2> QED BY <1>3, <2>1
<1>5. OrderKept
  <2>1. \A s \in Tags : IsVset(s) => IsVset(s)'
    BY <1>1, <1>2 DEF IsVset
  <2> QED BY <1>1, <2>1 DEF OrderKept
<1>6. PendingKept
  BY StillKeepsPending
<1>7. ConfigKept
  BY DEF ConfigKept, vcsrs
<1>8. SysServes
  <2>1. ASSUME rs'["sys"].rob_tag = rob_tail, NEW t \in Tags, IsVector(t)', ~IsIllegal(t)'
        PROVE  Age(t)' < Age(rs["sys"].rob_tag)'
    <3>1. InFlight(t)
      BY <1>3, <2>1 DEF IsVector
    <3>2. Age(t)' = Age(t) /\ Age(t) < rob_count
      BY <1>1, <3>1 DEF InFlight
    <3>3. PICK w \in Tags : w = rob_tail /\ w = rs'["sys"].rob_tag
      BY <1>2, <2>1
    <3>4. Age(w)' = rob_count
      BY <1>1, <1>2, <3>3
    <3>5. Age(rs["sys"].rob_tag)' = Age(w)'
      BY <3>3 DEF Age
    <3> QED BY <3>2, <3>4, <3>5
  <2> QED BY <2>1 DEF SysServes
<1> QED BY <1>4, <1>5, <1>6, <1>7, <1>8, CapturesKept

-----------------------------------------------------------------------------
(* The captures, step by step: the scalar blocks.                          *)

\* A unit that acts at the head, and is heard by the coprocessor or not.
LEMMA DeliverCaptures ==
  ASSUME VecCore, VecCore', CaptureInv, NEW w \in Units, rs[w].busy, NEW v \in Word, Delivers(w, v),
         PendingKept, UNCHANGED vcsrs
  PROVE  CaptureInv'
<1>0. CoreTypeOK /\ "sys" \in Units
  BY DEF VecCore, PipeCore, Units
<1>1. rs[w].rob_tag \in Tags /\ ~IsVector(rs[w].rob_tag)
  BY ScalarTags
<1>2. \A t \in Tags : IsVector(t) => rob'[t] = rob[t]
  BY <1>0, <1>1, DeliverEntry
<1>3. \A t \in Tags : rob'[t].pc = rob[t].pc
  BY <1>0, DeliverEntry
<1>4. rs'["sys"].busy => rs["sys"].busy /\ rs'["sys"].rob_tag = rs["sys"].rob_tag
  BY <1>0, DeliverStation
<1>5. UNCHANGED <<prog, rob_head, rob_count, vcsrs>>
  BY DEF Delivers
<1> QED BY <1>2, <1>3, <1>4, <1>5, WorkCaptures

LEMMA UnitsCapture ==
  ASSUME VecCore, VecCore', CaptureInv, VecExecute \/ VecLsu \/ VecSys
  PROVE  CaptureInv'
<1>0. /\ CoreTypeOK /\ VecControlOK /\ "lsu" \in Units /\ "sys" \in Units /\ "lsu" # "sys"
      /\ UNCHANGED vcsrs
  BY DEF VecCore, PipeCore, Units, VecExecute, VecLsu, VecSys
<1>1. CASE VecExecute
  <2>1. Execute /\ VecHear(Results) /\ Results \in [DOMAIN Results -> Word]
    BY <1>0, <1>1, ResultsTyped DEF VecExecute
  <2>2. ASSUME NEW t \in DOMAIN Results PROVE ~IsVector(t)
    <3>1. PICK u \in Units : rs[u].busy /\ rs[u].rob_tag = t
      BY <1>0 DEF Results, Done, TimedUnits, Units
    <3> QED BY <3>1, ScalarTags
  <2>3. \A t \in Tags : IsVector(t) => rob'[t] = rob[t]
    BY <1>0, <2>1, <2>2, ExecuteEntry
  <2>4. \A t \in Tags : rob'[t].pc = rob[t].pc
    BY <1>0, <2>1, ExecuteEntry
  <2>5. rs'["sys"].busy => rs["sys"].busy /\ rs'["sys"].rob_tag = rs["sys"].rob_tag
    BY <1>0, <2>1, ExecuteStation
  <2>6. PendingKept
    BY <1>0, <2>1, HearKeepsPending
  <2>7. UNCHANGED <<prog, rob_head, rob_count, vcsrs>>
    BY <1>0, <2>1 DEF Execute
  <2> QED BY <2>3, <2>4, <2>5, <2>6, <2>7, WorkCaptures
<1>2. CASE VecLsu /\ LsuLoad
  <2>1. PICK v \in Word : rs["lsu"].busy /\ Delivers("lsu", v)
    <3>1. ~SysExecute
      BY <1>2 DEF LsuLoad, SysExecute, SysMayExecute, LoadMayExecute, LsuReady
    <3> QED BY <1>0, <1>2, <3>1, HeadUnitsDeliver
  <2>2. PICK res \in [{rs["lsu"].rob_tag} -> Word] : res = [t \in {rs["lsu"].rob_tag} |-> rob'[t].value]
    <3>1. rob' \in [Tags -> RobEntry] /\ rs["lsu"].rob_tag \in Tags
      BY <1>0, TagsTyped DEF VecCore, PipeCore, CoreTypeOK
    <3>2. rob'[rs["lsu"].rob_tag].value \in Word
      BY <3>1 DEF RobEntry
    <3> QED BY <3>2
  <2>3. VecHear(res)
    BY <1>2, <2>2 DEF VecLsu, LsuLoad, LsuStore, LsuIdle
  <2>4. PendingKept
    BY <1>0, <2>3, HearKeepsPending
  <2> QED BY <1>0, <2>1, <2>4, DeliverCaptures
<1>3. CASE VecLsu /\ ~LsuLoad
  <2>1. (LsuStore \/ LsuIdle) /\ UNCHANGED queue
    BY <1>3 DEF VecLsu
  <2>2. CASE LsuStore
    <3>1. rs["lsu"].busy
      BY <1>0, <2>2, LsuStoreEffect
    <3>2. ~IsVector(rs["lsu"].rob_tag)
      BY <1>0, <3>1, ScalarTags
    <3>3. \A t \in Tags : IsVector(t) => rob'[t] = rob[t]
      BY <1>0, <2>2, <3>2, LsuStoreEffect
    <3>4. \A t \in Tags : rob'[t].pc = rob[t].pc
      BY <1>0, <2>2, LsuStoreEffect
    <3>5. rs'["sys"] = rs["sys"]
      BY <1>0, <2>2, LsuStoreEffect
    <3>6. UNCHANGED <<prog, rob_head, rob_count, vcsrs>>
      BY <1>0, <2>2 DEF LsuStore
    <3> QED BY <2>1, <3>3, <3>4, <3>5, <3>6, StillKeepsPending, WorkCaptures
  <2>3. CASE LsuIdle
    <3>1. UNCHANGED <<prog, rob_head, rob_count, queue, vcsrs, rob, rs>>
      BY <1>0, <2>1, <2>3 DEF LsuIdle, robs
    <3> QED BY <3>1, StillCaptures
  <2> QED BY <2>1, <2>2, <2>3
<1>4. CASE VecSys /\ SysExecute
  <2>1. InsOf("sys").op \in CsrOps /\ VecHear([t \in {rs["sys"].rob_tag} |-> rob'[t].value])
    BY <1>4 DEF VecSys, SysIdle, SysExecute
  <2>2. InsOf("sys") \in Instr
    BY <2>1, SysScalar
  <2>3. PICK v \in Word : rs["sys"].busy /\ Delivers("sys", v)
    BY <1>0, <1>4, <2>2, HeadUnitsDeliver
  <2>4. PICK res \in [{rs["sys"].rob_tag} -> Word] : res = [t \in {rs["sys"].rob_tag} |-> rob'[t].value]
    <3>1. rob' \in [Tags -> RobEntry] /\ rs["sys"].rob_tag \in Tags
      BY <1>0, <2>3, TagsTyped DEF VecCore, PipeCore, CoreTypeOK
    <3>2. rob'[rs["sys"].rob_tag].value \in Word
      BY <3>1 DEF RobEntry
    <3> QED BY <3>2
  <2>5. PendingKept
    BY <1>0, <2>1, <2>4, HearKeepsPending
  <2> QED BY <1>0, <2>3, <2>5, DeliverCaptures
<1>5. CASE VecSys /\ ~SysExecute
  <2>1. UNCHANGED <<prog, rob_head, rob_count, queue, vcsrs, rob, rs>>
    BY <1>0, <1>5 DEF VecSys, SysIdle, robs
  <2> QED BY <2>1, StillCaptures
<1> QED BY <1>1, <1>2, <1>3, <1>4, <1>5

LEMMA CommitCaptures == ASSUME VecCore, VecCore', CaptureInv, VecCommit PROVE CaptureInv'
<1>0. UNCHANGED vcsrs
  BY DEF VecCommit
<1>1. CASE (TakeInterrupt \/ CommitMispredict \/ CommitMret \/ CommitTrap) /\ VecFlush
  <2>1. PICK p : Redirect(p)
    BY <1>1 DEF TakeInterrupt, CommitMispredict, CommitMret, CommitTrap
  <2> QED BY <1>1, <2>1, FlushCaptures
<1>2. CASE (CommitBranch \/ CommitHalt \/ CommitStore \/ CommitRegister) /\ UNCHANGED queue
  <2>1. HeadReady /\ Retire /\ prog' = prog /\ rs' = rs
    BY <1>2 DEF CommitBranch, CommitHalt, CommitStore, CommitRegister, CommitPlain, Commit
  <2> QED BY <1>0, <1>2, <2>1, RetireCaptures
<1>3. CASE NoCommit /\ UNCHANGED queue
  <2>1. UNCHANGED <<prog, rob_head, rob_count, queue, vcsrs, rob, rs>>
    BY <1>0, <1>3 DEF NoCommit, robs
  <2> QED BY <2>1, StillCaptures
<1> QED BY <1>1, <1>2, <1>3 DEF VecCommit

LEMMA ScalarOnlyCaptures == ASSUME VecCore, VecCore', CaptureInv, ScalarOnly PROVE CaptureInv'
<1>0. /\ CoreTypeOK /\ RobWindow /\ "sys" \in Units
      /\ UNCHANGED <<vcsrs, queue>>
  BY DEF VecCore, PipeCore, PipelineInv, Units, ScalarOnly
<1>1. CASE Issue
  <2>1. rs'["sys"].busy = rs["sys"].busy /\ rs'["sys"].rob_tag = rs["sys"].rob_tag
    BY <1>0, <1>1, IssueEffect
  <2>2. UNCHANGED <<prog, rob_head, rob_count, rob>>
    BY <1>1 DEF Issue, robs
  <2> QED BY <1>0, <2>1, <2>2, StillCaptures
<1>2. CASE DispatchStage
  <2>1. prog' = prog /\ (ScalarEnters \/ InFlightStay)
    BY <1>0, <1>2, ScalarDispatch, FetchedScalar
  <2>2. CASE InFlightStay
    <3>1. UNCHANGED <<prog, rob_head, rob_count, queue, vcsrs, rs>> /\ \A t \in Tags : InFlight(t) => rob'[t] = rob[t]
      BY <1>0, <2>1, <2>2 DEF InFlightStay
    <3> QED BY <3>1, StillCaptures
  <2>3. CASE ScalarEnters
    <3>0. PICK e \in RobEntry : e.valid /\ e.pc = fetch_pc /\ \E p : Enter(e, p)
      BY <2>3 DEF ScalarEnters
    <3>1. PICK p : Enter(e, p)
      BY <3>0
    <3>2. MayFetch /\ Fetched \in Instr /\ (rs'["sys"] = rs["sys"] \/ rs'["sys"].rob_tag = rob_tail)
      BY <2>3 DEF ScalarEnters
    <3>3. Fetched.op \notin VecOps
      <4>1. Fetched.op \in Ops
        BY <3>2 DEF Instr
      <4> QED BY <4>1 DEF Ops, AluOps, MdOps, FpuOps, LoadOps, StoreOps, BranchOps, CsrOps, QuickOps, TrapOps,
                          VecOps, VSetOps, VArithOps, VAluOps, VMemOps
    <3>4. prog[e.pc].op \notin VecOps
      BY <3>0, <3>3 DEF Fetched
    <3> QED BY <1>0, <2>1, <3>0, <3>1, <3>2, <3>4, EnterCaptures
  <2> QED BY <2>1, <2>2, <2>3
<1> QED BY <1>1, <1>2 DEF ScalarOnly

\* The dispatches at which nothing is captured.
LEMMA NoCaptureCaptures ==
  ASSUME VecCore, VecCore', CaptureInv, DispatchVectorIllegal \/ DispatchVectorCsr \/ DispatchVectorStall
  PROVE  CaptureInv'
<1>0. /\ CoreTypeOK /\ RobWindow /\ "sys" \in Units /\ rob_tail \in Tags
      /\ UNCHANGED <<vcsrs, queue, prog>> /\ MayFetch
  <2>1. CoreTypeOK /\ RobWindow /\ "sys" \in Units
    BY DEF VecCore, PipeCore, PipelineInv, Units
  <2> QED BY <2>1, Counters DEF DispatchVectorIllegal, DispatchVectorCsr, DispatchVectorStall, Dispatch, EndOfTick
<1>1. PICK g \in RobEntry : g = FreshEntry /\ g.pc = fetch_pc
  BY <1>0, FreshFlags
<1>2. CASE DispatchVectorIllegal
  <2>1. Fetched.op \in VArithOps \cup {"vreserved"} /\ rs' = rs
    BY <1>2 DEF DispatchVectorIllegal, Dispatch
  <2>2. PICK e : e = [g EXCEPT !.valid = TRUE, !.ready = TRUE, !.is_store = FALSE,
                               !.takes_trap = TRUE, !.cause = CAUSE_ILLEGAL, !.dest = X0, !.value = 0]
    OBVIOUS
  <2>3. Enter(e, NextPc(fetch_pc))
    BY <1>1, <1>2, <2>2 DEF DispatchVectorIllegal
  <2>4. e.valid /\ e.pc = fetch_pc /\ e.takes_trap /\ e.cause = CAUSE_ILLEGAL
    BY <1>1, <2>2 DEF RobEntry
  <2>5. e \in RobEntry
    <3>1. rob' = [rob EXCEPT ![rob_tail] = e] /\ rob' \in [Tags -> RobEntry] /\ rob \in [Tags -> RobEntry]
      BY <1>0, <2>3 DEF Enter, VecCore, PipeCore, CoreTypeOK
    <3>2. rob'[rob_tail] = e
      BY <1>0, <3>1
    <3> QED BY <1>0, <3>1, <3>2
  <2>6. prog[e.pc].op \notin VSetOps
    <3>1. Fetched.op \notin VSetOps
      BY <2>1 DEF VArithOps, VAluOps, VSetOps
    <3> QED BY <2>4, <3>1 DEF Fetched
  <2> QED BY <1>0, <2>1, <2>3, <2>4, <2>5, <2>6, EnterCaptures
<1>3. CASE DispatchVectorCsr
  <2>1. Fetched.op \in VCsrOps
    BY <1>3 DEF DispatchVectorCsr, Dispatch
  <2>2. PICK e : e = [g EXCEPT !.valid = TRUE, !.ready = FALSE, !.is_store = FALSE, !.dest = Fetched.rd]
    OBVIOUS
  <2>3. Enter(e, NextPc(fetch_pc))
    BY <1>1, <1>3, <2>2 DEF DispatchVectorCsr
  <2>4. e.valid /\ e.pc = fetch_pc
    BY <1>1, <2>2 DEF RobEntry
  <2>5. e \in RobEntry
    <3>1. rob' = [rob EXCEPT ![rob_tail] = e] /\ rob' \in [Tags -> RobEntry] /\ rob \in [Tags -> RobEntry]
      BY <1>0, <2>3 DEF Enter, VecCore, PipeCore, CoreTypeOK
    <3>2. rob'[rob_tail] = e
      BY <1>0, <3>1
    <3> QED BY <1>0, <3>1, <3>2
  <2>6. prog[e.pc].op \notin VecOps
    <3>1. Fetched.op \notin VecOps
      BY <2>1 DEF VCsrOps, VecOps, VSetOps, VArithOps, VAluOps, VMemOps
    <3> QED BY <2>4, <3>1 DEF Fetched
  <2>7. rs'["sys"].rob_tag = rob_tail
    <3>1. rs \in [Units -> Station] /\ rs["sys"] \in Station
      BY <1>0 DEF CoreTypeOK
    <3>2. PICK src : src = [k \in 1 .. 3 |-> IF k = 1 THEN read_operand(Fetched.rs1) ELSE Ready(0)]
      OBVIOUS
    <3>3. rs' = [rs EXCEPT !["sys"] = [@ EXCEPT !.busy = TRUE, !.executing = FALSE,
                                                !.rob_tag = rob_tail, !.pc = fetch_pc, !.src = src]]
      BY <1>3, <3>2 DEF DispatchVectorCsr
    <3> QED BY <1>0, <3>1, <3>3 DEF Station
  <2> QED BY <1>0, <2>3, <2>4, <2>5, <2>6, <2>7, EnterCaptures
<1>4. CASE DispatchVectorStall
  <2>1. rob' = [rob EXCEPT ![rob_tail] = FreshEntry] /\ UNCHANGED <<rob_head, rob_count, rs>>
    BY <1>4 DEF DispatchVectorStall
  <2>2. \A t \in Tags : InFlight(t) => rob'[t] = rob[t]
    <3>1. ~InFlight(rob_tail)
      BY <1>0, TailIsFree DEF MayFetch
    <3> QED BY <1>0, <2>1, <3>1 DEF CoreTypeOK
  <2> QED BY <1>0, <2>1, <2>2, StillCaptures
<1> QED BY <1>2, <1>3, <1>4

-----------------------------------------------------------------------------
(* The captures: vset*, the queue, and the vector CSRs.                    *)

\* What has been captured, as far as it is what older instructions leave.
CapturedOlder(t, n, v) ==
  /\ \A s \in Tags :
       /\ IsVset(s) /\ Age(s) < Age(t)
       /\ \A o \in Tags : IsVset(o) /\ Age(o) < Age(t) => Age(o) <= Age(s)
       => n = rob[s].value
  /\ \A s \in Tags : IsVector(s) /\ ~rob[s].takes_trap /\ Age(s) < Age(t) => v = 0

\* What is older than the instruction of t stays older as one enters.
LEMMA OlderStay ==
  ASSUME CoreTypeOK, RobWindow, MayFetch, NEW e \in RobEntry, NEW p, e.valid, Enter(e, p), prog' = prog,
         NEW t \in Tags, InFlight(t), NEW n, NEW v, NEW w, Captured(t, n, v, w)
  PROVE  CapturedOlder(t, n, v)'
<1>1. /\ \A s \in Tags : InFlight(s)' <=> InFlight(s) \/ s = rob_tail
      /\ \A s \in Tags : Age(s)' = Age(s)
      /\ \A s \in Tags : s # rob_tail => rob'[s] = rob[s]
  BY EnterWindow
<1>2. rob_tail \in Tags /\ ~InFlight(rob_tail) /\ Age(rob_tail) = rob_count /\ rob_count \in Nat
  BY Counters, TailIsFree DEF MayFetch
<1>3. \A s \in Tags : Age(s) \in 0 .. ROB_SZ - 1
  BY AgeBounds
<1>4. \A s \in Tags : Age(s) < Age(t) => s # rob_tail
  BY <1>2, <1>3 DEF InFlight
<1>5. \A s \in Tags : Age(s) < Age(t) => (IsVset(s)' <=> IsVset(s)) /\ (IsVector(s)' <=> IsVector(s)) /\ rob'[s] = rob[s]
  BY <1>1, <1>4 DEF IsVset, IsVector
<1>6. ASSUME NEW s \in Tags, IsVset(s)', Age(s)' < Age(t)',
             \A o \in Tags : IsVset(o)' /\ Age(o)' < Age(t)' => Age(o)' <= Age(s)'
      PROVE  n = rob'[s].value
  <2>1. IsVset(s) /\ Age(s) < Age(t) /\ rob'[s] = rob[s]
    BY <1>1, <1>5, <1>6
  <2>2. \A o \in Tags : IsVset(o) /\ Age(o) < Age(t) => Age(o) <= Age(s)
    BY <1>1, <1>5, <1>6
  <2> QED BY <2>1, <2>2 DEF Captured
<1>7. ASSUME NEW s \in Tags, IsVector(s)', ~rob'[s].takes_trap, Age(s)' < Age(t)' PROVE v = 0
  <2>1. IsVector(s) /\ Age(s) < Age(t) /\ rob'[s] = rob[s]
    BY <1>1, <1>5, <1>7
  <2> QED BY <1>7, <2>1 DEF Captured
<1> QED BY <1>6, <1>7 DEF CapturedOlder

LEMMA VsetCaptures == ASSUME VecCore, VecCore', CaptureInv, DispatchVset PROVE CaptureInv'
<1>0. /\ CoreTypeOK /\ RobWindow /\ rob_tail \in Tags /\ MayFetch
      /\ UNCHANGED <<queue, prog, rs>> /\ csr_vstart' = 0 /\ ~rs["sys"].busy
      /\ Fetched.op \in VSetOps
  <2>1. CoreTypeOK /\ RobWindow
    BY DEF VecCore, PipeCore, PipelineInv
  <2> QED BY <2>1, Counters DEF DispatchVset, Dispatch, EndOfTick, VsetMayDispatch
<1>1. PICK g \in RobEntry : g = FreshEntry /\ g.pc = fetch_pc /\ ~g.takes_trap
  BY <1>0, FreshFlags
<1>2. PICK e, n : /\ e = [g EXCEPT !.valid = TRUE, !.ready = TRUE, !.is_store = FALSE,
                                   !.dest = Fetched.rd, !.value = n]
                  /\ Enter(e, NextPc(fetch_pc)) /\ csr_vl' = n
  BY <1>1 DEF DispatchVset
<1>3. e.valid /\ e.pc = fetch_pc /\ e.value = csr_vl' /\ ~e.takes_trap
  BY <1>1, <1>2 DEF RobEntry
<1>4. e \in RobEntry
  <2>1. rob' = [rob EXCEPT ![rob_tail] = e] /\ rob' \in [Tags -> RobEntry] /\ rob \in [Tags -> RobEntry]
    BY <1>0, <1>2 DEF Enter, VecCore, PipeCore, CoreTypeOK
  <2>2. rob'[rob_tail] = e
    BY <1>0, <2>1
  <2> QED BY <1>0, <2>1, <2>2
<1>5. /\ \A s \in Tags : InFlight(s)' <=> InFlight(s) \/ s = rob_tail
      /\ \A s \in Tags : Age(s)' = Age(s)
      /\ \A s \in Tags : s # rob_tail => rob'[s] = rob[s]
      /\ rob'[rob_tail] = e
  BY <1>0, <1>2, <1>3, <1>4, EnterWindow
<1>6. ~InFlight(rob_tail) /\ Age(rob_tail) = rob_count /\ rob_count \in Nat
  BY <1>0, Counters, TailIsFree DEF MayFetch
<1>7. \A s \in Tags : Age(s) \in Int /\ (InFlight(s) => Age(s) < rob_count)
  BY <1>0, AgeBounds DEF InFlight
<1> PICK tail \in Tags : tail = rob_tail
  BY <1>0
<1>8. IsVset(tail)'
  BY <1>0, <1>3, <1>5 DEF IsVset, Fetched
<1>9. CsrWaits' /\ VstartPends'
  BY <1>0 DEF CsrWaits, VstartPends
<1>10. LastVset'
  <2> SUFFICES ASSUME NEW s \in Tags, IsVset(s)', \A o \in Tags : IsVset(o)' => Age(o)' <= Age(s)'
               PROVE  rob'[s].value = csr_vl'
    BY DEF LastVset
  <2>1. rob_count <= Age(s)
    BY <1>0, <1>5, <1>6, <1>8
  <2>2. InFlight(s) \/ s = rob_tail
    BY <1>5 DEF IsVset
  <2>3. s = rob_tail
    BY <1>6, <1>7, <2>1, <2>2
  <2> QED BY <1>3, <1>5, <2>3
<1>11. VectorTraps'
  <2> SUFFICES ASSUME NEW s \in Tags, IsVector(s)', rob'[s].takes_trap
               PROVE  (IsIllegal(s)' /\ ~IsVset(s)') \/ prog'[rob'[s].pc].op \in VMemOps
    BY DEF VectorTraps
  <2>1. s # rob_tail /\ rob'[s] = rob[s] /\ IsVector(s)
    BY <1>0, <1>3, <1>5 DEF IsVector
  <2> QED BY <1>0, <1>5, <2>1 DEF CaptureInv, VectorTraps, IsIllegal, IsVset
<1>12. PendingCaptured'
  <2>1. PICK P \in Seq(VecRs) : P = Pending
    BY PendingIs DEF VecCore
  <2>2. Pending' = P
    BY <1>0, <2>1 DEF queue, Pending
  <2>3. ASSUME NEW k \in 1 .. Len(P), ~rob'[P[k].rob_tag].takes_trap
        PROVE  Captured(P[k].rob_tag, P[k].vl, P[k].vstart, P[k].sew)'
    <3>1. PICK p \in VecRs : p = P[k]
      OBVIOUS
    <3>2. p.rob_tag \in Tags /\ InFlight(p.rob_tag)
      BY <2>1, <3>1 DEF VecCore, QueueInv, Holds, Owns, VecRs
    <3>3. PICK t \in Tags : t = p.rob_tag /\ InFlight(t)
      BY <3>2
    <3>4. ~rob[t].takes_trap
      BY <1>5, <1>6, <2>3, <3>1, <3>3
    <3>5. Captured(t, p.vl, p.vstart, p.sew)
      BY <2>1, <3>1, <3>3, <3>4 DEF CaptureInv, PendingCaptured
    <3>6. ~(Age(tail)' < Age(t)')
      BY <1>0, <1>5, <1>6, <1>7, <3>3
    <3>7. CapturedOlder(t, p.vl, p.vstart)'
      BY <1>0, <1>2, <1>3, <1>4, <3>3, <3>5, OlderStay
    <3>8. Captured(t, p.vl, p.vstart, p.sew)'
      BY <1>0, <1>8, <3>6, <3>7 DEF Captured, CapturedOlder
    <3> QED BY <3>1, <3>3, <3>8
  <2> QED BY <2>1, <2>2, <2>3 DEF PendingCaptured
<1> QED BY <1>9, <1>10, <1>11, <1>12 DEF CaptureInv

LEMMA QueueCaptures == ASSUME VecCore, VecCore', CaptureInv, DispatchVector PROVE CaptureInv'
<1>0. /\ CoreTypeOK /\ RobWindow /\ rob_tail \in Tags /\ MayFetch /\ VecControlOK /\ viq \in Seq(VecRs)
      /\ UNCHANGED <<vec_rs, prog, rs, csr_vl, csr_vtype, csr_vstart>> /\ ~rs["sys"].busy
      /\ csr_vstart = 0 \/ (viq = <<>> /\ ~vec_rs.busy)
      /\ Fetched.op \in VArithOps \cup VMemOps
  <2>1. CoreTypeOK /\ RobWindow /\ VecControlOK
    BY DEF VecCore, PipeCore, PipelineInv
  <2> QED BY <2>1, Counters DEF DispatchVector, Dispatch, EndOfTick, QueueMayTake, vcsrs, VecControlOK
<1>1. PICK g \in RobEntry : g = FreshEntry /\ g.pc = fetch_pc /\ ~g.takes_trap
  BY <1>0, FreshFlags
<1>2. PICK e, d : /\ e = [g EXCEPT !.valid = TRUE, !.ready = FALSE, !.is_store = FALSE, !.dest = d]
                  /\ Enter(e, NextPc(fetch_pc))
  BY <1>1 DEF DispatchVector
<1>3. e.valid /\ e.pc = fetch_pc /\ ~e.ready /\ ~e.takes_trap
  BY <1>1, <1>2 DEF RobEntry
<1>4. e \in RobEntry
  <2>1. rob' = [rob EXCEPT ![rob_tail] = e] /\ rob' \in [Tags -> RobEntry] /\ rob \in [Tags -> RobEntry]
    BY <1>0, <1>2 DEF Enter, VecCore, PipeCore, CoreTypeOK
  <2>2. rob'[rob_tail] = e
    BY <1>0, <2>1
  <2> QED BY <1>0, <2>1, <2>2
<1>5. /\ \A s \in Tags : InFlight(s)' <=> InFlight(s) \/ s = rob_tail
      /\ \A s \in Tags : Age(s)' = Age(s)
      /\ \A s \in Tags : s # rob_tail => rob'[s] = rob[s]
      /\ rob'[rob_tail] = e
  BY <1>0, <1>2, <1>3, <1>4, EnterWindow
<1>6. ~InFlight(rob_tail) /\ Age(rob_tail) = rob_count /\ rob_count \in Nat
  BY <1>0, Counters, TailIsFree DEF MayFetch
<1>7. \A s \in Tags : Age(s) \in Int /\ (InFlight(s) => Age(s) < rob_count)
  BY <1>0, AgeBounds DEF InFlight
<1> PICK tail \in Tags : tail = rob_tail
  BY <1>0
<1>8. \A s \in Tags : IsVset(s)' <=> IsVset(s)
  <2>1. ~IsVset(tail)'
    <3>1. Fetched.op \notin VSetOps
      BY <1>0 DEF VSetOps, VArithOps, VAluOps, VMemOps
    <3> QED BY <1>0, <1>3, <1>5, <3>1 DEF IsVset, Fetched
  <2> QED BY <1>0, <1>5, <1>6, <2>1 DEF IsVset
<1>9. ASSUME NEW s \in Tags, IsVset(s) PROVE rob'[s] = rob[s] /\ Age(s) < rob_count
  BY <1>5, <1>6, <1>7, <1>9 DEF IsVset
<1>10. CsrWaits'
  BY <1>0 DEF CsrWaits
<1>11. LastVset'
  <2> SUFFICES ASSUME NEW s \in Tags, IsVset(s)', \A o \in Tags : IsVset(o)' => Age(o)' <= Age(s)'
               PROVE  rob'[s].value = csr_vl'
    BY DEF LastVset
  <2>1. IsVset(s) /\ rob'[s] = rob[s] /\ \A o \in Tags : IsVset(o) => Age(o) <= Age(s)
    BY <1>5, <1>8, <1>9
  <2> QED BY <1>0, <2>1 DEF CaptureInv, LastVset
<1>12. VectorTraps'
  <2> SUFFICES ASSUME NEW s \in Tags, IsVector(s)', rob'[s].takes_trap
               PROVE  (IsIllegal(s)' /\ ~IsVset(s)') \/ prog'[rob'[s].pc].op \in VMemOps
    BY DEF VectorTraps
  <2>1. s # rob_tail /\ rob'[s] = rob[s] /\ IsVector(s)
    BY <1>0, <1>3, <1>5 DEF IsVector
  <2> QED BY <1>0, <1>5, <2>1 DEF CaptureInv, VectorTraps, IsIllegal, IsVset
<1>13. VstartPends'
  <2> SUFFICES ASSUME csr_vstart' # 0, NEW s \in Tags, IsVector(s)', ~rob'[s].takes_trap
               PROVE  ~rob'[s].ready
    BY DEF VstartPends
  <2>1. CASE s = rob_tail
    BY <1>3, <1>5, <2>1
  <2>2. CASE s # rob_tail
    <3>1. IsVector(s) /\ rob'[s] = rob[s]
      BY <1>0, <1>5, <2>2 DEF IsVector
    <3> QED BY <1>0, <3>1 DEF CaptureInv, VstartPends
  <2> QED BY <2>1, <2>2
<1>14. PICK P \in Seq(VecRs) : P = Pending
  BY <1>0, PendingIs
<1>15. PICK q : q = Queued(Fetched) /\ viq' = Append(viq, q)
  BY DEF DispatchVector
<1>16. q.rob_tag = rob_tail /\ q.vl = csr_vl /\ q.vstart = csr_vstart /\ q.sew = csr_vtype.sew
  BY <1>15 DEF Queued
<1>17. q \in VecRs
  <2>1. viq \in Seq(VecRs) /\ viq' \in Seq(VecRs)
    BY DEF VecCore, VecControlOK
  <2>2. PICK s, z : s = viq /\ z = Append(s, q) /\ s \in Seq(VecRs) /\ z \in Seq(VecRs)
    BY <1>15, <2>1
  <2>3. z[Len(s) + 1] = q /\ Len(s) + 1 \in 1 .. Len(z)
    BY <2>2
  <2> QED BY <2>2, <2>3
<1>18. Pending' = Append(P, q)
  <2>1. CASE vec_rs.busy
    <3>1. P = <<vec_rs>> \o viq /\ Pending' = <<vec_rs>> \o Append(viq, q) /\ vec_rs \in VecRs
      BY <1>0, <1>14, <1>15, <2>1 DEF Pending, VecControlOK
    <3> QED BY <1>0, <1>17, <3>1
  <2>2. CASE ~vec_rs.busy
    <3>1. P = viq /\ Pending' = Append(viq, q)
      BY <1>0, <1>14, <1>15, <1>17, <2>2 DEF Pending
    <3> QED BY <3>1
  <2> QED BY <2>1, <2>2
<1>19. PICK Q : Q = Append(P, q)
  OBVIOUS
<1>20. Len(Q) = Len(P) + 1 /\ Q[Len(P) + 1] = q /\ Len(P) \in Nat /\ \A k \in 1 .. Len(P) : Q[k] = P[k]
  BY <1>14, <1>17, <1>19, SMT
<1>21. ASSUME NEW k \in 1 .. Len(P), ~rob'[P[k].rob_tag].takes_trap
       PROVE  Captured(P[k].rob_tag, P[k].vl, P[k].vstart, P[k].sew)'
  <2>1. PICK p \in VecRs : p = P[k]
    OBVIOUS
  <2>2. p.rob_tag \in Tags /\ InFlight(p.rob_tag)
    BY <1>14, <2>1 DEF VecCore, QueueInv, Holds, Owns, VecRs
  <2>3. PICK t \in Tags : t = p.rob_tag /\ InFlight(t)
    BY <2>2
  <2>4. ~rob[t].takes_trap
    BY <1>5, <1>6, <1>21, <2>1, <2>3
  <2>5. Captured(t, p.vl, p.vstart, p.sew)
    BY <1>14, <2>1, <2>3, <2>4 DEF CaptureInv, PendingCaptured
  <2>6. CapturedOlder(t, p.vl, p.vstart)'
    BY <1>0, <1>2, <1>3, <1>4, <2>3, <2>5, OlderStay
  <2>7. (\A s \in Tags : IsVset(s)' => Age(s)' < Age(t)') =>
          p.vl = csr_vl' /\ p.vstart = csr_vstart' /\ p.sew = csr_vtype'.sew
    BY <1>0, <1>5, <1>8, <2>3, <2>5 DEF Captured
  <2>8. Captured(t, p.vl, p.vstart, p.sew)'
    BY <2>6, <2>7 DEF Captured, CapturedOlder
  <2> QED BY <2>1, <2>3, <2>8
<1>22. Captured(tail, q.vl, q.vstart, q.sew)'
  <2>1. q.vl = csr_vl' /\ q.vstart = csr_vstart' /\ q.sew = csr_vtype'.sew
    BY <1>0, <1>16
  <2>2. PICK t \in Tags : t = tail /\ t = rob_tail
    OBVIOUS
  <2>3. ASSUME NEW s \in Tags, IsVset(s)', Age(s)' < Age(t)',
               \A o \in Tags : IsVset(o)' /\ Age(o)' < Age(t)' => Age(o)' <= Age(s)'
        PROVE  q.vl = rob'[s].value
    <3>1. IsVset(s) /\ rob'[s] = rob[s]
      BY <1>8, <1>9, <2>3
    <3>2. ASSUME NEW o \in Tags, IsVset(o) PROVE Age(o) <= Age(s)
      BY <1>5, <1>6, <1>8, <1>9, <2>2, <2>3, <3>2
    <3> QED BY <1>16, <3>1, <3>2 DEF CaptureInv, LastVset
  <2>4. ASSUME NEW s \in Tags, IsVector(s)', ~rob'[s].takes_trap, Age(s)' < Age(t)' PROVE q.vstart = 0
    <3>1. s # rob_tail
      BY <1>5, <1>6, <1>7, <2>2, <2>4
    <3>2. IsVector(s) /\ rob'[s] = rob[s]
      BY <1>0, <1>5, <2>4, <3>1 DEF IsVector
    <3>3. ASSUME csr_vstart # 0 PROVE FALSE
      <4>1. ~rob[s].ready
        BY <2>4, <3>2, <3>3 DEF CaptureInv, VstartPends
      <4>2. P = <<>>
        BY <1>0, <1>14, <3>3, PendingIs
      <4>3. \E i \in 1 .. Len(P) : P[i].rob_tag = s
        BY <1>14, <3>2, <4>1 DEF VecCore, QueueInv, Holds
      <4> QED BY <4>2, <4>3
    <3> QED BY <1>16, <3>3
  <2>5. Captured(t, q.vl, q.vstart, q.sew)'
    BY <2>1, <2>3, <2>4 DEF Captured
  <2> QED BY <2>2, <2>5
<1>23. PendingCaptured'
  <2>1. ASSUME NEW k \in 1 .. Len(Q), ~rob'[Q[k].rob_tag].takes_trap
        PROVE  Captured(Q[k].rob_tag, Q[k].vl, Q[k].vstart, Q[k].sew)'
    <3>1. CASE k \in 1 .. Len(P)
      <4>1. Q[k] = P[k]
        BY <1>20, <3>1
      <4> QED BY <1>21, <2>1, <3>1, <4>1
    <3>2. CASE k \notin 1 .. Len(P)
      <4>1. Q[k] = q
        BY <1>20, <3>2
      <4>2. q.rob_tag = tail
        BY <1>16
      <4> QED BY <1>22, <4>1, <4>2
    <3> QED BY <3>1, <3>2
  <2> QED BY <1>18, <1>19, <2>1 DEF PendingCaptured
<1> QED BY <1>10, <1>11, <1>12, <1>13, <1>23 DEF CaptureInv

\* A vector CSR instruction acts when no legal vector instruction is in flight.
LEMMA VecCsrCaptures == ASSUME VecCore, VecCore', CaptureInv, VecSysExecute PROVE CaptureInv'
<1>0. CoreTypeOK /\ VecControlOK /\ "sys" \in Units /\ rs["sys"].busy /\ AtHead("sys")
  BY DEF VecCore, PipeCore, Units, VecSysExecute, SysMayExecute
<1>1. PICK v \in Word : v = IF InsOf("sys").op = "csrr_vl" THEN csr_vl ELSE csr_vstart
  <2>1. csr_vl \in 0 .. CELLS /\ csr_vstart \in 0 .. CELLS - 1
    BY <1>0 DEF VecControlOK
  <2> QED BY <2>1, VecAssumption, WordAssumption DEF Word
<1>2. PICK res \in [{rs["sys"].rob_tag} -> Word] : res = [t \in {rs["sys"].rob_tag} |-> v]
  OBVIOUS
<1>3. Delivers("sys", v) /\ VecHear(res) /\ UNCHANGED <<prog, rob_head, rob_count>>
  BY <1>1, <1>2 DEF VecSysExecute, SysMayExecute, Delivers
<1>4. ASSUME NEW t \in Tags, IsVector(t) PROVE IsIllegal(t)
  <2>1. rs["sys"].rob_tag = rob_head /\ rob_head \in Tags
    BY <1>0, Counters DEF AtHead
  <2>2. PICK h \in Tags : h = rs["sys"].rob_tag /\ h = rob_head
    BY <2>1
  <2>3. Age(h) = 0 /\ Age(t) \in 0 .. ROB_SZ - 1
    BY <1>0, <2>2, AgeBounds
  <2>4. ~(Age(t) < Age(h))
    <3>1. ROB_SZ \in Nat
      BY <1>0, Counters
    <3> QED BY <2>3, <3>1
  <2> QED BY <1>0, <1>4, <2>2, <2>4 DEF CaptureInv, CsrWaits
<1>5. rs["sys"].rob_tag \in Tags /\ ~IsVector(rs["sys"].rob_tag)
  BY <1>0, ScalarTags
<1>6. ASSUME NEW t \in Tags, IsVector(t)'
      PROVE  IsVector(t) /\ rob'[t] = rob[t] /\ IsIllegal(t) /\ ~IsVset(t)
  <2>1. rob'[t].pc = rob[t].pc /\ (InFlight(t)' <=> InFlight(t))
    BY <1>0, <1>3, DeliverEntry DEF InFlight, Age
  <2>2. IsVector(t)
    BY <1>3, <1>6, <2>1 DEF IsVector
  <2>3. rob'[t] = rob[t]
    BY <1>0, <1>3, <1>5, <2>2, DeliverEntry
  <2> QED BY <1>4, <2>2, <2>3, VsetIsLegal DEF CaptureInv
<1>7. ASSUME NEW t \in Tags, IsVset(t)' PROVE FALSE
  <2>1. IsVector(t)'
    BY <1>7 DEF IsVset, IsVector, VecOps
  <2>2. IsVector(t) /\ rob'[t] = rob[t] /\ ~IsVset(t)
    BY <1>6, <2>1
  <2> QED BY <1>3, <1>7, <2>2 DEF IsVset, IsVector
<1>8. CsrWaits'
  <2>1. ~rs'["sys"].busy
    BY <1>0, <1>3, DeliverStation
  <2> QED BY <2>1 DEF CsrWaits
<1>9. LastVset'
  BY <1>7 DEF LastVset
<1>10. VstartPends'
  BY <1>6 DEF VstartPends, IsIllegal
<1>11. VectorTraps'
  <2> SUFFICES ASSUME NEW s \in Tags, IsVector(s)' PROVE IsIllegal(s)' /\ ~IsVset(s)'
    BY DEF VectorTraps
  <2> QED BY <1>6, <1>7 DEF IsIllegal
<1>12. PendingCaptured'
  <2>1. PICK P \in Seq(VecRs), Q \in Seq(VecRs) : P = Pending /\ Q = Pending'
    BY PendingIs, PendingWillBe DEF VecCore, VecControlOK
  <2>2. ASSUME NEW j \in 1 .. Len(Q) PROVE FALSE
    <3>1. PICK i \in 1 .. Len(P) : SameCapture(P[i], Q[j])
      BY <1>0, <1>3, <2>1, HearKeepsPending DEF PendingKept
    <3>2. PICK p \in VecRs : p = P[i]
      OBVIOUS
    <3>3. Owns(p) /\ p.rob_tag \in Tags
      BY <2>1, <3>2 DEF VecCore, QueueInv, Holds, VecRs
    <3>4. IsVector(p.rob_tag)
      BY <3>3 DEF Owns, IsVector, VecOps
    <3> QED BY <1>4, <3>3, <3>4 DEF Owns
  <2> QED BY <2>1, <2>2 DEF PendingCaptured
<1> QED BY <1>8, <1>9, <1>10, <1>11, <1>12 DEF CaptureInv

-----------------------------------------------------------------------------
(* The captures in the turn of the coprocessor.                            *)

\* What the turn does to the capture in the unit, to its entry and to the CSRs.
TurnConfig ==
  /\ vec_rs'.sew = unit.sew /\ vec_rs'.vstart = unit.vstart
  /\ \/ vec_rs'.vl = unit.vl
     \/ unit.busy /\ rob'[unit.rob_tag].takes_trap
     \/ unit.busy /\ vec_rs'.vl = csr_vl' /\ unit.rob_tag = rob_head
  /\ csr_vtype' = csr_vtype
  /\ csr_vl' # csr_vl => unit.busy /\ vins.op \in VMemOps /\ vec_rs'.vl = csr_vl'
  /\ csr_vstart' # csr_vstart =>
       csr_vstart' = 0 /\ unit.busy /\ ~vec_rs'.busy /\ ~rob'[unit.rob_tag].takes_trap
  /\ unit.busy =>
       /\ rob[unit.rob_tag].takes_trap => rob'[unit.rob_tag].takes_trap
       /\ rob'[unit.rob_tag].takes_trap => rob[unit.rob_tag].takes_trap \/ vins.op \in VMemOps
       /\ rob'[unit.rob_tag].ready =>
            rob[unit.rob_tag].ready \/ rob'[unit.rob_tag].takes_trap \/ csr_vstart' = 0

\* The load or store at the head, element by element.
LEMMA MemoryConfig ==
  ASSUME VecCore, VlsuEndOfField \/ VlsuSkip \/ VlsuMove \/ VlsuRefused
  PROVE  TurnConfig
<1>0. /\ CoreTypeOK /\ VecControlOK /\ unit \in VecRs
      /\ VlsuMayExecute /\ unit.busy /\ vins.op \in VMemOps /\ unit.rob_tag = rob_head
  BY UnitIs DEF VecCore, PipeCore, VlsuEndOfField, VlsuSkip, VlsuMove, VlsuRefused, VlsuMayExecute, IsMem
<1>1. PICK u \in VecRs, n \in 0 .. CELLS : u = unit /\ n = vl_eff
  BY <1>0, UnitBounds
<1>2. /\ n \in Int /\ n <= u.vl /\ u.vl \in Int /\ u.elem \in Int /\ u.elem >= 0
      /\ n # u.vl => Checks /\ u.elem = 0 /\ ~IsWhole
  <2>1. n \in 0 .. CELLS /\ n <= u.vl
    BY <1>0, <1>1, UnitBounds
  <2>2. u.vl \in 0 .. CELLS /\ u.elem \in 0 .. CELLS /\ CELLS \in Nat
    BY VecAssumption DEF VecRs
  <2>3. n # u.vl => Checks
    BY <1>1 DEF vl_eff
  <2>4. Checks => u.elem = 0 /\ ~IsWhole
    BY <1>1 DEF Checks, IsWhole
  <2> QED BY <2>1, <2>2, <2>3, <2>4
<1>3. PICK r \in RobEntry, tag \in Tags : tag = unit.rob_tag /\ r = rob[tag]
  BY <1>0, UnitOwns DEF CoreTypeOK
<1> DEFINE m == Marked(r)
<1>4. /\ m.takes_trap <=> r.takes_trap \/ FofFault
      /\ m.ready = r.ready
      /\ [m EXCEPT !.ready = TRUE].takes_trap = m.takes_trap
      /\ [m EXCEPT !.ready = TRUE].ready
  <2>1. CASE FofFault
    <3>1. PICK e : e = [r EXCEPT !.takes_trap = TRUE, !.cause = CAUSE_LOAD_FAULT]
      OBVIOUS
    <3>2. m = e
      BY <2>1, <3>1 DEF Marked
    <3>3. e.takes_trap /\ e.ready = r.ready /\ [e EXCEPT !.ready = TRUE].takes_trap = e.takes_trap
          /\ [e EXCEPT !.ready = TRUE].ready
      BY <3>1 DEF RobEntry
    <3> HIDE DEF m
    <3> QED BY <2>1, <3>2, <3>3
  <2>2. CASE ~FofFault
    <3>1. m = r
      BY <2>2 DEF Marked
    <3> HIDE DEF m
    <3>2. [r EXCEPT !.ready = TRUE].takes_trap = r.takes_trap /\ [r EXCEPT !.ready = TRUE].ready
      BY DEF RobEntry
    <3> QED BY <2>2, <3>1, <3>2
  <2> QED BY <2>1, <2>2
<1> HIDE DEF m
<1>5. FofFault => n = 0 /\ n # u.vl
  BY <1>1, <1>2 DEF FofFault
<1>6. csr_vl' = IF Checks /\ ~FofFault /\ n < u.vl THEN n ELSE csr_vl
  BY <1>1 DEF VlsuEndOfField, VlsuSkip, VlsuMove, VlsuRefused, Trim
<1>7. csr_vtype' = csr_vtype
  BY DEF VlsuEndOfField, VlsuSkip, VlsuMove, VlsuRefused
<1> DEFINE w == vec_rs'
<1>8. /\ w.sew = u.sew /\ w.vstart = u.vstart
      /\ w.vl = n \/ (IsWhole /\ w.vl = u.vl)
  <2>1. CASE VlsuRefused
    <3>1. w = [u EXCEPT !.vl = IF IsWhole THEN u.vl ELSE n]
      BY <1>1, <2>1 DEF VlsuRefused
    <3>2. PICK x : x = IF IsWhole THEN u.vl ELSE n
      OBVIOUS
    <3>3. w = [u EXCEPT !.vl = x]
      BY <3>1, <3>2
    <3> QED BY <3>2, <3>3 DEF VecRs
  <2>2. CASE VlsuDone
    <3>1. w = [u EXCEPT !.busy = FALSE, !.vl = n]
      BY <1>1, <2>2 DEF VlsuDone
    <3> QED BY <3>1 DEF VecRs
  <2>3. CASE vec_rs' = NextElem
    <3>1. PICK f, e : f = u.fld + 1 /\ e = u.elem + 1
      OBVIOUS
    <3>2. \/ IsWhole /\ w = [u EXCEPT !.elem = 0, !.fld = f]
          \/ w = [u EXCEPT !.elem = e, !.vl = n]
      BY <1>1, <2>3, <3>1 DEF NextElem
    <3> QED BY <3>2 DEF VecRs
  <2>4. CASE VlsuEndOfField /\ ~Finishes
    <3>1. PICK f : f = u.fld + 1
      OBVIOUS
    <3>2. w = [u EXCEPT !.fld = f, !.elem = 0, !.vl = n]
      BY <1>1, <2>4, <3>1 DEF VlsuEndOfField
    <3> QED BY <3>2 DEF VecRs
  <2> QED BY <2>1, <2>2, <2>3, <2>4 DEF VlsuEndOfField, VlsuSkip, VlsuMove
<1>9. w.vl = n
  BY <1>2, <1>8
<1>10. FofFault => VlsuEndOfField
  <2>1. ASSUME FofFault PROVE u.elem >= n /\ ~IsWhole
    BY <1>2, <1>5, <2>1
  <2>2. ASSUME FofFault PROVE ~VlsuSkip
    BY <1>1, <1>2, <2>1, <2>2 DEF VlsuSkip
  <2>3. ASSUME FofFault PROVE ~Moves
    BY <1>1, <1>2, <2>1, <2>3 DEF Moves
  <2> QED BY <2>2, <2>3 DEF VlsuMove, VlsuRefused
<1> DEFINE R == rob'[tag]
<1>11. \/ rob' = rob /\ csr_vstart' = csr_vstart /\ ~FofFault
       \/ VlsuEndOfField /\ rob' = [rob EXCEPT ![tag] = m] /\ csr_vstart' = csr_vstart
       \/ VlsuDone
  <2>1. CASE VlsuEndOfField
    <3>1. CASE Finishes
      BY <2>1, <3>1 DEF VlsuEndOfField
    <3>2. CASE ~Finishes
      BY <1>3, <2>1, <3>2 DEF VlsuEndOfField, m
    <3> QED BY <3>1, <3>2
  <2>2. CASE ~VlsuEndOfField
    BY <1>10, <2>2 DEF VlsuSkip, VlsuMove, VlsuRefused
  <2> QED BY <2>1, <2>2
<1>12. /\ r.takes_trap => R.takes_trap
       /\ FofFault => R.takes_trap
       /\ R.ready => r.ready \/ R.takes_trap \/ csr_vstart' = 0
       /\ csr_vstart' # csr_vstart => csr_vstart' = 0 /\ ~w.busy /\ ~R.takes_trap
  <2>0. rob \in [Tags -> RobEntry]
    BY <1>0 DEF CoreTypeOK
  <2>1. CASE rob' = rob /\ csr_vstart' = csr_vstart /\ ~FofFault
    BY <1>3, <2>1
  <2>2. CASE rob' = [rob EXCEPT ![tag] = m] /\ csr_vstart' = csr_vstart
    <3>1. R = m
      BY <2>0, <2>2
    <3> QED BY <1>4, <2>2, <3>1
  <2>3. CASE VlsuDone
    <3>1. rob' = [rob EXCEPT ![tag] = [m EXCEPT !.ready = TRUE]]
      BY <1>3, <2>3 DEF VlsuDone, m
    <3>2. R = [m EXCEPT !.ready = TRUE]
      BY <2>0, <3>1
    <3>3. R.takes_trap = m.takes_trap
      BY <1>4, <3>2
    <3>4. csr_vstart' = IF R.takes_trap THEN csr_vstart ELSE 0
      BY <1>3, <2>3 DEF VlsuDone
    <3>5. ~w.busy
      BY <1>1, <2>3 DEF VlsuDone, VecRs
    <3> QED BY <1>4, <3>3, <3>4, <3>5
  <2> QED BY <1>11, <2>1, <2>2, <2>3
<1>13. csr_vl' # csr_vl => w.vl = csr_vl'
  BY <1>6, <1>9
<1>14. w.vl = u.vl \/ R.takes_trap \/ w.vl = csr_vl'
  BY <1>2, <1>6, <1>9, <1>12
<1> QED BY <1>0, <1>1, <1>3, <1>7, <1>8, <1>12, <1>13, <1>14 DEF TurnConfig

LEMMA TurnConfigures == ASSUME VecCore, VectorTraps, VecUnit PROVE TurnConfig
<1>0. CoreTypeOK /\ VecControlOK /\ unit \in VecRs
  BY UnitIs DEF VecCore, PipeCore
<1>1. PICK u \in VecRs : u = unit
  BY <1>0
<1>2. CASE VecCount
  <2>1. PICK x, y : x = TRUE /\ y = Countdown
    OBVIOUS
  <2>2. vec_rs' = [u EXCEPT !.executing = x, !.remaining = y] /\ UNCHANGED <<rob, csr_vl, csr_vtype, csr_vstart>>
    BY <1>1, <1>2, <2>1 DEF VecCount, vcsrs
  <2>3. vec_rs'.vl = u.vl /\ vec_rs'.sew = u.sew /\ vec_rs'.vstart = u.vstart
    BY <2>2 DEF VecRs
  <2> QED BY <1>1, <2>2, <2>3 DEF TurnConfig
<1>3. CASE VecWait
  BY <1>3 DEF VecWait, vcsrs, TurnConfig
<1>4. CASE VecComplete
  <2>1. unit.busy /\ vins.op \in VArithOps /\ csr_vstart' = 0 /\ UNCHANGED <<csr_vl, csr_vtype>>
    BY <1>4 DEF VecComplete, ArithRuns, IsArith
  <2>2. vec_rs' = [u EXCEPT !.busy = FALSE, !.executing = FALSE, !.remaining = 0]
    BY <1>1, <1>4 DEF VecComplete
  <2>3. vec_rs'.vl = u.vl /\ vec_rs'.sew = u.sew /\ vec_rs'.vstart = u.vstart /\ ~vec_rs'.busy
    BY <2>2 DEF VecRs
  <2>4. PICK tag \in Tags, r \in RobEntry : tag = unit.rob_tag /\ r = rob[tag]
    BY <1>0, <2>1, UnitOwns DEF CoreTypeOK
  <2>5. ~r.takes_trap
    <3>1. Owns(unit) /\ IsVector(unit.rob_tag)
      BY <2>1, UnitOwns
    <3>2. prog[r.pc].op \in VArithOps /\ ~IsIllegal(tag)
      BY <2>1, <2>4, <3>1 DEF Owns, vins
    <3>3. prog[r.pc].op \notin VMemOps
      BY <3>2 DEF VArithOps, VAluOps, VMemOps
    <3> QED BY <2>4, <3>1, <3>2, <3>3 DEF VectorTraps
  <2>6. rob'[tag].takes_trap = r.takes_trap
    <3>0. rob \in [Tags -> RobEntry]
      BY <1>0 DEF CoreTypeOK
    <3>1. CASE VCat(vins) = "xres"
      <4>1. PICK x : rob' = [rob EXCEPT ![unit.rob_tag] = [@ EXCEPT !.ready = TRUE, !.value = x]]
        BY <1>4, <3>1 DEF VecComplete
      <4>2. rob'[tag] = [r EXCEPT !.ready = TRUE, !.value = x]
        BY <2>4, <3>0, <4>1
      <4> QED BY <4>2 DEF RobEntry
    <3>2. CASE VCat(vins) # "xres"
      <4>1. rob' = [rob EXCEPT ![unit.rob_tag].ready = TRUE]
        BY <1>4, <3>2 DEF VecComplete
      <4>2. rob'[tag] = [r EXCEPT !.ready = TRUE]
        BY <2>4, <3>0, <4>1
      <4> QED BY <4>2 DEF RobEntry
    <3> QED BY <3>1, <3>2
  <2> QED BY <1>1, <2>1, <2>3, <2>4, <2>5, <2>6 DEF TurnConfig
<1>5. CASE VlsuEndOfField \/ VlsuSkip \/ VlsuMove \/ VlsuRefused
  BY <1>5, MemoryConfig
<1> QED BY <1>2, <1>3, <1>4, <1>5 DEF VecUnit

\* The queue behind the unit keeps its captures.
LEMMA RestCaptures ==
  ASSUME VecCore, VecUnit
  PROVE  /\ viq' \in Seq(VecRs) /\ Len(viq') = Len(Rest)
         /\ \A k \in 1 .. Len(Rest) : SameCapture(Rest[k], viq'[k])
<1>1. Rest \in Seq(VecRs)
  BY UnitIs DEF VecCore
<1>2. CASE viq' = Rest
  BY <1>1, <1>2 DEF SameCapture
<1>3. CASE viq' # Rest
  <2>1. VecComplete /\ VCat(vins) = "xres" /\ unit.busy
    BY <1>3 DEF VecUnit, VecCount, VecComplete, VecWait, VlsuEndOfField, VlsuSkip, VlsuMove, VlsuRefused,
                TakenFromQueue, ArithRuns, IsArith
  <2>2. unit.vl \in 0 .. CELLS
    BY UnitIs DEF VecCore, VecRs
  <2>3. PICK x \in Word : x = VXResult(vins, vregs, unit.vl)
    BY <2>2, VXResultIsWord
  <2>4. PICK res \in [{unit.rob_tag} -> Word] : res = [t \in {unit.rob_tag} |-> x]
    OBVIOUS
  <2>5. viq' = [k \in DOMAIN Rest |-> HearBoth(Rest[k], res)]
    BY <2>1, <2>3, <2>4 DEF VecComplete
  <2>6. viq' \in Seq(VecRs) /\ Len(viq') = Len(Rest) /\ \A k \in 1 .. Len(Rest) : viq'[k] = HearBoth(Rest[k], res)
    BY <1>1, <2>5, QueueHears
  <2>7. ASSUME NEW k \in 1 .. Len(Rest) PROVE SameCapture(Rest[k], viq'[k])
    <3>1. PICK v \in VecRs : v = Rest[k]
      BY <1>1
    <3>2. SameCapture(v, HearBoth(v, res))
      BY HearBothCaptures
    <3> QED BY <2>6, <3>1, <3>2
  <2> QED BY <2>6, <2>7
<1> QED BY <1>2, <1>3

\* What is behind the unit is younger than its instruction.
LEMMA RestIsYounger ==
  ASSUME VecCore, unit.busy, NEW k \in 1 .. Len(Rest)
  PROVE  /\ k + 1 \in 1 .. Len(Pending) /\ Pending[k + 1] = Rest[k]
         /\ Age(unit.rob_tag) < Age(Rest[k].rob_tag)
<1>1. /\ Rest \in Seq(VecRs) /\ Len(Pending) = Len(Rest) + 1 /\ Pending[k + 1] = Rest[k]
      /\ unit.rob_tag = Pending[1].rob_tag
  BY UnitIs DEF VecCore
<1>2. k + 1 \in 1 .. Len(Pending) /\ 1 \in 1 .. Len(Pending) /\ 1 < k + 1
  BY <1>1
<1>3. Age(Pending[1].rob_tag) < Age(Pending[k + 1].rob_tag)
  BY <1>2 DEF VecCore, QueueInv, Holds
<1>4. PICK a, b : a = unit.rob_tag /\ a = Pending[1].rob_tag /\ b = Rest[k].rob_tag /\ b = Pending[k + 1].rob_tag
  BY <1>1
<1>5. Age(a) < Age(b)
  BY <1>3, <1>4
<1> QED BY <1>1, <1>2, <1>4, <1>5

LEMMA TurnPending == ASSUME VecCore, VecUnit, VecDataOK', TurnConfig PROVE PendingKept
<1>0. VecControlOK
  BY DEF VecCore
<1>1. /\ unit \in VecRs /\ Rest \in Seq(VecRs)
      /\ ~unit.busy => Pending = <<>> /\ Rest = <<>>
      /\ unit.busy => /\ Len(Pending) = Len(Rest) + 1 /\ unit.rob_tag = Pending[1].rob_tag
                      /\ unit.vl = Pending[1].vl /\ unit.vstart = Pending[1].vstart
                      /\ unit.sew = Pending[1].sew
                      /\ \A i \in 1 .. Len(Rest) : Pending[i + 1] = Rest[i]
  BY <1>0, UnitIs
<1>2. vec_rs' \in VecRs /\ (vec_rs'.busy => unit.busy) /\ vec_rs'.rob_tag = unit.rob_tag
  BY TurnOperands
<1>3. /\ viq' \in Seq(VecRs) /\ Len(viq') = Len(Rest)
      /\ \A k \in 1 .. Len(Rest) : SameCapture(Rest[k], viq'[k])
  BY RestCaptures
<1>4. CASE vec_rs'.busy
  <2>0. rob_head' = rob_head
    BY TurnHasEffect DEF TurnEffect, VectorFrame
  <2>1. /\ Len(Pending') = Len(viq') + 1 /\ Pending'[1] = vec_rs'
        /\ \A i \in 1 .. Len(viq') : Pending'[i + 1] = viq'[i]
    BY <1>2, <1>3, <1>4, PendingWillBe
  <2>2. SameCapture(Pending[1], vec_rs')
    BY <1>1, <1>2, <1>4, <2>0 DEF SameCapture, TurnConfig
  <2>3. ASSUME NEW j \in 1 .. Len(Pending') PROVE SameCapture(Pending[j], Pending'[j])
    <3>1. CASE j = 1
      BY <2>1, <2>2, <3>1
    <3>2. CASE j # 1
      <4>1. j \in 1 .. Len(Rest) + 1 /\ Len(Rest) \in Nat
        BY <1>1, <1>3, <2>1
      <4>2. j - 1 \in 1 .. Len(Rest) /\ j = (j - 1) + 1
        BY <3>2, <4>1
      <4>3. PICK k \in 1 .. Len(Rest) : j = k + 1
        BY <4>2
      <4> QED BY <1>1, <1>2, <1>3, <1>4, <2>1, <4>3
    <3> QED BY <3>1, <3>2
  <2>4. 1 .. Len(Pending') = 1 .. Len(Pending)
    BY <1>1, <1>2, <1>3, <1>4, <2>1
  <2> QED BY <2>3, <2>4 DEF PendingKept
<1>5. CASE ~vec_rs'.busy
  <2>1. Pending' = viq'
    BY <1>2, <1>3, <1>5, PendingWillBe
  <2>2. CASE unit.busy
    <3>1. ASSUME NEW j \in 1 .. Len(Pending') PROVE \E i \in 1 .. Len(Pending) : SameCapture(Pending[i], Pending'[j])
      <4>1. j + 1 \in 1 .. Len(Pending) /\ Pending[j + 1] = Rest[j] /\ j \in 1 .. Len(Rest)
        BY <1>1, <1>3, <2>1, <2>2
      <4> QED BY <1>3, <2>1, <4>1
    <3> QED BY <3>1 DEF PendingKept
  <2>3. CASE ~unit.busy
    <3>1. Len(Pending') = 0
      BY <1>1, <1>3, <2>1, <2>3
    <3> QED BY <3>1 DEF PendingKept
  <2> QED BY <2>2, <2>3
<1> QED BY <1>4, <1>5

\* A turn that trims vl does so with no other legal vector instruction in flight.
TrimAlone ==
  VecUnit /\ csr_vl' # csr_vl => \A t \in Tags : IsVector(t) /\ ~IsIllegal(t) => t = unit.rob_tag

LEMMA TurnCaptures ==
  ASSUME VecCore, VecCore', CaptureInv, VecUnit, VecDataOK', TrimAlone PROVE CaptureInv'
<1>0. /\ CoreTypeOK /\ VecControlOK /\ "sys" \in Units /\ TurnEffect /\ TurnConfig
      /\ UNCHANGED <<prog, rob_head, rob_count>>
  <2>1. TurnEffect
    BY TurnHasEffect
  <2> QED BY <2>1, TurnConfigures DEF CaptureInv, VecCore, PipeCore, Units, TurnEffect, VectorFrame
<1>1. /\ \A t \in Tags : t # unit.rob_tag \/ ~unit.busy => rob'[t] = rob[t]
      /\ \A t \in Tags : rob'[t].pc = rob[t].pc
      /\ rs'["sys"].busy = rs["sys"].busy /\ rs'["sys"].rob_tag = rs["sys"].rob_tag
  BY <1>0, TurnEntries DEF CompletedFrom
<1>2. \A t \in Tags : (InFlight(t)' <=> InFlight(t)) /\ Age(t)' = Age(t) /\ (IsVector(t)' <=> IsVector(t))
  BY <1>0, <1>1 DEF InFlight, Age, IsVector
<1>3. unit.busy => /\ unit.rob_tag \in Tags /\ IsVector(unit.rob_tag) /\ ~IsIllegal(unit.rob_tag)
                   /\ prog[rob[unit.rob_tag].pc] = vins /\ vins.op \in VArithOps \cup VMemOps
                   /\ ~IsVset(unit.rob_tag)
  <2>1. ASSUME unit.busy PROVE prog[rob[unit.rob_tag].pc] = vins /\ Owns(unit)
    BY <2>1, UnitOwns DEF Owns, vins
  <2>2. (VArithOps \cup VMemOps) \cap VSetOps = {}
    BY DEF VArithOps, VAluOps, VMemOps, VSetOps
  <2> QED BY <2>1, <2>2, UnitOwns DEF Owns, IsVset
<1>4. VectorKept
  <2> SUFFICES ASSUME NEW t \in Tags, IsVector(t)'
               PROVE  \/ IsIllegal(t)' /\ ~IsVset(t)'
                      \/ /\ IsVector(t) /\ ~IsIllegal(t) /\ prog'[rob'[t].pc].op = prog[rob[t].pc].op
                         /\ rob[t].takes_trap => rob'[t].takes_trap
                         /\ rob'[t].takes_trap => rob[t].takes_trap \/ prog[rob[t].pc].op \in VMemOps
                         /\ csr_vstart' # 0 /\ ~rob'[t].takes_trap /\ rob'[t].ready => rob[t].ready
                         /\ IsVset(t) => rob'[t].value = rob[t].value
    BY DEF VectorKept
  <2>1. CASE unit.busy /\ t = unit.rob_tag
    BY <1>0, <1>1, <1>2, <1>3, <2>1 DEF TurnConfig
  <2>2. CASE ~(unit.busy /\ t = unit.rob_tag)
    <3>1. rob'[t] = rob[t] /\ IsVector(t)
      BY <1>1, <1>2, <2>2
    <3>2. IsIllegal(t) => ~IsVset(t)
      BY VsetIsLegal DEF CaptureInv
    <3> QED BY <1>0, <1>2, <3>1, <3>2 DEF IsIllegal, IsVset
  <2> QED BY <2>1, <2>2
<1>5. OrderKept
  <2>1. \A s \in Tags : IsVset(s) <=> IsVset(s)'
    BY <1>0, <1>1, <1>2 DEF IsVset
  <2> QED BY <1>2, <2>1 DEF OrderKept
<1>6. PendingKept
  BY <1>0, TurnPending
<1>7. SysServes
  BY <1>1 DEF SysServes
<1>8. PICK P \in Seq(VecRs), Q \in Seq(VecRs) : P = Pending /\ Q = Pending'
  BY PendingIs, PendingWillBe DEF VecCore, VecControlOK
<1>9. /\ viq' \in Seq(VecRs) /\ Len(viq') = Len(Rest)
      /\ \A k \in 1 .. Len(Rest) : SameCapture(Rest[k], viq'[k])
      /\ Rest \in Seq(VecRs)
  BY <1>0, RestCaptures, UnitIs
<1>10. vec_rs' \in VecRs /\ (vec_rs'.busy => unit.busy) /\ vec_rs'.rob_tag = unit.rob_tag
  BY TurnOperands
<1>11. csr_vl' = csr_vl \/ ((\A s \in Tags : ~IsVset(s)') /\ \A j \in 1 .. Len(Pending') : Pending'[j].vl = csr_vl')
  <2> SUFFICES ASSUME csr_vl' # csr_vl
               PROVE  (\A s \in Tags : ~IsVset(s)') /\ \A j \in 1 .. Len(Q) : Q[j].vl = csr_vl'
    BY <1>8
  <2>1. unit.busy /\ vec_rs'.vl = csr_vl'
    BY <1>0 DEF TurnConfig
  <2>2. \A t \in Tags : IsVector(t) /\ ~IsIllegal(t) => t = unit.rob_tag
    BY DEF TrimAlone
  <2>3. ASSUME NEW s \in Tags, IsVset(s)' PROVE FALSE
    <3>1. IsVset(s)
      BY <1>0, <1>1, <1>2, <2>3 DEF IsVset
    <3>2. s = unit.rob_tag
      BY <2>2, <3>1, VsetIsLegal DEF CaptureInv
    <3> QED BY <1>3, <2>1, <3>1, <3>2
  <2>4. ASSUME NEW k \in 1 .. Len(Rest) PROVE FALSE
    <3>1. PICK p : p = Rest[k] /\ k + 1 \in 1 .. Len(P) /\ p = P[k + 1] /\ Age(unit.rob_tag) < Age(Rest[k].rob_tag)
      BY <1>8, <2>1, RestIsYounger
    <3>2. Owns(p) /\ p.rob_tag \in Tags
      <4>1. p \in VecRs
        BY <3>1
      <4> QED BY <1>8, <3>1, <4>1 DEF VecCore, QueueInv, Holds, VecRs
    <3>3. IsVector(p.rob_tag) /\ ~IsIllegal(p.rob_tag)
      BY <3>2 DEF Owns, IsVector, VecOps
    <3>4. PICK a \in Tags : a = unit.rob_tag /\ a = Rest[k].rob_tag
      BY <2>2, <3>1, <3>2, <3>3
    <3>5. Age(a) < Age(a) /\ Age(a) \in 0 .. ROB_SZ - 1
      BY <1>0, <3>1, <3>4, AgeBounds
    <3> QED BY <3>5
  <2>5. Len(viq') = 0 /\ Len(Rest) \in Nat
    BY <1>9, <2>4
  <2>6. CASE vec_rs'.busy
    <3>1. Len(Q) = 1 /\ Q[1] = vec_rs'
      BY <1>8, <1>9, <1>10, <2>5, <2>6, PendingWillBe
    <3> QED BY <2>1, <2>3, <3>1
  <2>7. CASE ~vec_rs'.busy
    <3>1. Len(Q) = 0
      BY <1>8, <1>9, <1>10, <2>5, <2>7, PendingWillBe
    <3> QED BY <2>3, <3>1
  <2> QED BY <2>6, <2>7
<1>12. \/ csr_vstart' = csr_vstart
       \/ /\ csr_vstart' = 0
          /\ \A j \in 1 .. Len(Pending') : ~rob'[Pending'[j].rob_tag].takes_trap => Pending'[j].vstart = 0
  <2> SUFFICES ASSUME csr_vstart' # csr_vstart
               PROVE  /\ csr_vstart' = 0
                      /\ \A j \in 1 .. Len(Q) : ~rob'[Q[j].rob_tag].takes_trap => Q[j].vstart = 0
    BY <1>8
  <2>1. csr_vstart' = 0 /\ unit.busy /\ ~vec_rs'.busy /\ ~rob'[unit.rob_tag].takes_trap
    BY <1>0 DEF TurnConfig
  <2>2. Q = viq'
    BY <1>8, <1>9, <1>10, <2>1, PendingWillBe
  <2>3. ASSUME NEW j \in 1 .. Len(Q), ~rob'[Q[j].rob_tag].takes_trap PROVE Q[j].vstart = 0
    <3>1. PICK k \in 1 .. Len(Rest) : k = j
      BY <1>9, <2>2
    <3>2. PICK p \in VecRs, q \in VecRs : p = Rest[k] /\ q = Q[j]
      BY <1>9
    <3>3. SameCapture(p, q)
      BY <1>9, <2>2, <3>1, <3>2
    <3>4. p.rob_tag \in Tags /\ unit.rob_tag \in Tags
      BY <1>3, <2>1, <3>2 DEF VecRs
    <3>5. PICK t \in Tags, s \in Tags : t = p.rob_tag /\ s = unit.rob_tag
      BY <3>4
    <3>6. k + 1 \in 1 .. Len(P) /\ P[k + 1] = p /\ Age(s) < Age(t)
      BY <1>8, <2>1, <3>2, <3>5, RestIsYounger
    <3>7. s # t
      <4>1. Age(s) \in 0 .. ROB_SZ - 1
        BY <1>0, AgeBounds
      <4> QED BY <3>6, <4>1
    <3>8. ~rob[t].takes_trap /\ ~rob[s].takes_trap /\ IsVector(s)
      BY <1>0, <1>1, <1>3, <2>1, <2>3, <3>2, <3>3, <3>5, <3>7 DEF SameCapture, TurnConfig
    <3>9. Captured(t, p.vl, p.vstart, p.sew)
      BY <1>8, <3>5, <3>6, <3>8 DEF CaptureInv, PendingCaptured
    <3> QED BY <3>2, <3>3, <3>6, <3>8, <3>9 DEF Captured, SameCapture
  <2> QED BY <2>1, <2>3
<1>13. ConfigKept
  BY <1>0, <1>11, <1>12 DEF ConfigKept, TurnConfig
<1> QED BY <1>4, <1>5, <1>6, <1>7, <1>13, CapturesKept

LEMMA CaptureStart == VInit => CaptureInv
<1> SUFFICES ASSUME VInit PROVE CaptureInv
  OBVIOUS
<1>1. VecCore /\ CoreTypeOK /\ Reset
  BY VecStart DEF VInit, VecCore, PipeCore
<1>2. rob_head = 0 /\ rob_count = 0
  BY <1>1 DEF Reset
<1>3. \A t \in Tags : ~InFlight(t)
  BY <1>1, <1>2, Counters DEF InFlight, Age
<1>4. "sys" \in Units /\ ~rs["sys"].busy
  BY <1>1 DEF Reset, IdleStation, Units
<1>5. viq = <<>> /\ ~vec_rs.busy
  BY DEF VInit, IdleVec
<1>6. Pending = <<>>
  BY <1>5 DEF Pending
<1>7. PendingCaptured
  <2>1. Len(<<>>) = 0
    OBVIOUS
  <2> QED BY <1>6, <2>1 DEF PendingCaptured
<1> QED BY <1>3, <1>4, <1>7 DEF CaptureInv, CsrWaits, LastVset, VstartPends, VectorTraps, IsVector, IsVset

LEMMA CaptureStep ==
  VecValues /\ VecDataOK' /\ CaptureInv /\ [VNext]_vvars /\ [TrimAlone]_vvars => CaptureInv'
<1> SUFFICES ASSUME VecValues, VecDataOK', CaptureInv, [VNext]_vvars, [TrimAlone]_vvars PROVE CaptureInv'
  OBVIOUS
<1>1. VecCore /\ VecCore'
  BY VecStep DEF VecValues
<1>2. CASE VTick
  <2>1. CASE VecCommit
    BY <1>1, <2>1, CommitCaptures
  <2>2. CASE VecUnit
    <3>1. TrimAlone
      <4>1. CASE UNCHANGED vvars
        BY <4>1 DEF TrimAlone, vvars, vcsrs
      <4> QED BY <4>1
    <3> QED BY <1>1, <2>2, <3>1, TurnCaptures
  <2>3. CASE VecExecute \/ VecLsu \/ VecSys
    BY <1>1, <2>3, UnitsCapture
  <2>4. CASE VecSysExecute
    BY <1>1, <2>4, VecCsrCaptures
  <2>5. CASE ScalarOnly
    BY <1>1, <2>5, ScalarOnlyCaptures
  <2>6. CASE VecDispatch
    BY <1>1, <2>6, VsetCaptures, QueueCaptures, NoCaptureCaptures DEF VecDispatch
  <2> QED BY <1>2, <2>1, <2>2, <2>3, <2>4, <2>5, <2>6 DEF VTick
<1>3. CASE VTimerFires \/ UNCHANGED vvars
  <2>1. UNCHANGED <<prog, rob_head, rob_count, queue, vcsrs, rob, rs>>
    BY <1>3 DEF VTimerFires, TimerFires, vvars, vars, robs, queue
  <2> QED BY <1>1, <2>1, StillCaptures
<1> QED BY <1>2, <1>3 DEF VNext, VStopped

\* Whatever waits or runs in the coprocessor does so under the vl, vstart and
\* element width of program order, in every run in which a load trims vl only
\* while no other vector instruction is in flight.
THEOREM CapturesAreRight == VSpec /\ []VecDataOK /\ TrimsAlone => []CapturesInOrder
<1>1. VSpec /\ []VecDataOK => []VecValues
  BY VecValuesCorrect
<1>2. TrimsAlone => [][TrimAlone]_vvars
  BY DEF TrimsAlone, TrimAlone
<1>3. VSpec /\ []VecDataOK /\ TrimsAlone => []CaptureInv
  BY <1>1, <1>2, CaptureStart, CaptureStep, PTL DEF VSpec
<1>4. VecValues /\ CaptureInv => CapturesInOrder
  BY CaptureIsRight DEF VecValues
<1> QED BY <1>1, <1>3, <1>4, PTL

\* No load of the program is fault-only-first.
TrimFree == \A a \in Word : prog[a].op \in VMemOps => prog[a].lsmode # "fof"

LEMMA TrimFreeIsAlone == VecCore /\ TrimFree => TrimAlone
<1> SUFFICES ASSUME VecCore, TrimFree, VecUnit PROVE csr_vl' = csr_vl
  BY DEF TrimAlone
<1>1. CASE VecCount \/ VecComplete \/ VecWait
  BY <1>1 DEF VecCount, VecComplete, VecWait, vcsrs
<1>2. CASE VlsuEndOfField \/ VlsuSkip \/ VlsuMove \/ VlsuRefused
  <2>1. Trim /\ vins.op \in VMemOps
    BY <1>2 DEF VlsuEndOfField, VlsuSkip, VlsuMove, VlsuRefused, VlsuMayExecute, IsMem
  <2>2. unit.pc \in Word
    BY UnitIs DEF VecCore, VecRs
  <2>3. ~Checks
    BY <2>1, <2>2 DEF TrimFree, Checks, vins
  <2> QED BY <2>1, <2>3 DEF Trim
<1> QED BY <1>1, <1>2 DEF VecUnit

\* In particular in every run of a program without fault-only-first loads.
THEOREM TrimFreeCapturesAreRight == VSpec /\ []VecDataOK /\ TrimFree => []CapturesInOrder
<1>1. VSpec /\ []VecDataOK => []VecValues
  BY VecValuesCorrect
<1>2. TrimFree /\ [VNext]_vvars => TrimFree'
  BY ProgramStays DEF TrimFree
<1>3. VSpec /\ TrimFree => []TrimFree
  BY <1>2, PTL DEF VSpec
<1>4. VecValues /\ TrimFree => TrimAlone
  BY TrimFreeIsAlone DEF VecValues
<1>5. VecValues /\ CaptureInv => CapturesInOrder
  BY CaptureIsRight DEF VecValues
<1>6. VecValues /\ TrimFree /\ VecDataOK' /\ CaptureInv /\ [VNext]_vvars => CaptureInv'
  BY <1>4, CaptureStep
<1> QED BY <1>1, <1>3, <1>5, <1>6, CaptureStart, PTL DEF VSpec
=============================================================================
