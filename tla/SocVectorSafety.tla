-------------------------- MODULE SocVectorSafety --------------------------
(***************************************************************************)
(* The safety of the vector coprocessor, proved for every value of the     *)
(* constants and for whatever the vector arithmetic computes.              *)
(*                                                                         *)
(* QueueInOrder, NoSpeculativeVector and VecNoLostWakeup hold together or  *)
(* not at all: a result is written to the entry of a tag, which is the     *)
(* instruction's own only while the queue names entries in flight; it      *)
(* completes an entry nobody waits for only because what is in the queue   *)
(* writes no register but that of vcpop; and the queue is in order only as *)
(* long as nothing but a flush removes an entry from its middle.  VecCore  *)
(* is their conjunction with the invariant of the scalar pipeline beside   *)
(* which the coprocessor runs.                                             *)
(*                                                                         *)
(* What the elements hold is a hypothesis, VecDataOK: the code does not    *)
(* check that a group of registers ends inside the register file.          *)
(***************************************************************************)
EXTENDS SocCoreValues, SocVectorTimed

\* The entry of the pending instruction p is its own, of a legal instruction
\* that has not completed and writes a register only by vcpop.
Owns(p) ==
  /\ InFlight(p.rob_tag) /\ ~rob[p.rob_tag].ready /\ rob[p.rob_tag].pc = p.pc
  /\ prog[p.pc].op \in VArithOps \cup VMemOps
  /\ ~IsIllegal(p.rob_tag)
  /\ prog[p.pc].op # "vcpop" => rob[p.rob_tag].dest = X0

\* The operand op of the entry t is there, or will be broadcast.
Awaits(op, t) ==
  ~op.ready => /\ InFlight(op.tag) /\ ~rob[op.tag].ready /\ Age(op.tag) < Age(t)
               /\ rob[op.tag].dest # X0

\* The unit has not gone past the fields and the words of its instruction.
InRange(p) ==
  p.fld <= prog[p.pc].nf /\ (prog[p.pc].lsmode = "whole" => p.elem < WordsPerReg)

\* The instructions pending in P, in program order, are the vector
\* instructions in flight that have not completed.
Holds(P) ==
  /\ \A i \in 1 .. Len(P) :
       /\ Owns(P[i]) /\ InRange(P[i])
       /\ Awaits(P[i].s1, P[i].rob_tag) /\ Awaits(P[i].s2, P[i].rob_tag)
  /\ \A i, j \in 1 .. Len(P) : i < j => Age(P[i].rob_tag) < Age(P[j].rob_tag)
  /\ \A t \in Tags : IsVector(t) /\ ~rob[t].ready => \E i \in 1 .. Len(P) : P[i].rob_tag = t

QueueInv == Holds(Pending)

\* The SYS station holds CSR instructions, scalar or vector.
SysDecoded == rs["sys"].busy => InsOf("sys").op \in CsrOps \cup VCsrOps

VecCore ==
  /\ PipeCore /\ BranchAccounting
  /\ VecControlOK /\ SysDecoded /\ QueueInv /\ NoSpeculativeVector

-----------------------------------------------------------------------------
(* The pending instructions as a sequence.                                 *)

\* One vector instruction before the queue, or none.
LEMMA PendingShape ==
  ASSUME NEW u \in VecRs, NEW q \in Seq(VecRs)
  PROVE  LET P == (IF u.busy THEN <<u>> ELSE <<>>) \o q IN
         /\ P \in Seq(VecRs)
         /\ u.busy  => Len(P) = Len(q) + 1 /\ P[1] = u /\ \A i \in 1 .. Len(q) : P[i + 1] = q[i]
         /\ ~u.busy => P = q
  OBVIOUS

LEMMA PendingIs ==
  ASSUME VecControlOK
  PROVE  /\ Pending \in Seq(VecRs)
         /\ vec_rs.busy  => /\ Len(Pending) = Len(viq) + 1 /\ Pending[1] = vec_rs
                            /\ \A i \in 1 .. Len(viq) : Pending[i + 1] = viq[i]
         /\ ~vec_rs.busy => Pending = viq
  BY PendingShape DEF VecControlOK, Pending

LEMMA PendingWillBe ==
  ASSUME vec_rs' \in VecRs, viq' \in Seq(VecRs)
  PROVE  /\ Pending' \in Seq(VecRs)
         /\ vec_rs'.busy  => /\ Len(Pending') = Len(viq') + 1 /\ Pending'[1] = vec_rs'
                             /\ \A i \in 1 .. Len(viq') : Pending'[i + 1] = viq'[i]
         /\ ~vec_rs'.busy => Pending' = viq'
<1>1. PICK u \in VecRs, q \in Seq(VecRs) : u = vec_rs' /\ q = viq'
  OBVIOUS
<1>2. Pending' = (IF u.busy THEN <<u>> ELSE <<>>) \o q
  BY <1>1 DEF Pending
<1> QED BY <1>1, <1>2, PendingShape

\* The operand b is what became of a when the tags of T were broadcast.
Listened(a, b, T) == ~b.ready => ~a.ready /\ b.tag = a.tag /\ a.tag \notin T

\* The pending instruction q is what became of p.
Continues(p, q, T) ==
  /\ q.rob_tag = p.rob_tag /\ q.pc = p.pc
  /\ Listened(p.s1, q.s1, T) /\ Listened(p.s2, q.s2, T)
  /\ InRange(q)

-----------------------------------------------------------------------------
(* What the four ways to change the pipeline do to the queue.              *)

\* The entries of T complete; nothing else in flight changes but that a
\* vector instruction may fault.
Work(T) ==
  /\ UNCHANGED <<prog, rob_head, rob_tail, rob_count>>
  /\ \A t \in Tags : InFlight(t) =>
       /\ rob'[t].pc = rob[t].pc /\ rob'[t].dest = rob[t].dest
       /\ rob'[t].is_branch = rob[t].is_branch
       /\ rob'[t].ready <=> rob[t].ready \/ t \in T
       /\ IsVector(t) => (IsIllegal(t)' <=> IsIllegal(t))

\* Q is what is left of P without its first d, which has completed; nothing
\* in it is complete or waits for one of T.
Remains(P, Q, T, d) ==
  /\ Len(Q) + d = Len(P)
  /\ d = 1 => P[1].rob_tag \in T
  /\ \A i \in 1 .. Len(Q) : Continues(P[i + d], Q[i], T) /\ Q[i].rob_tag \notin T

LEMMA WorkHolds ==
  ASSUME CoreTypeOK, NEW P \in Seq(VecRs), NEW Q \in Seq(VecRs), NEW T, NEW d \in 0 .. 1,
         Holds(P), NoSpeculativeVector, Work(T), Remains(P, Q, T, d)
  PROVE  Holds(Q)' /\ NoSpeculativeVector'
<1>0. /\ UNCHANGED <<prog, rob_head, rob_tail, rob_count>>
      /\ \A t \in Tags : InFlight(t) =>
           /\ rob'[t].pc = rob[t].pc /\ rob'[t].dest = rob[t].dest
           /\ rob'[t].is_branch = rob[t].is_branch
           /\ rob'[t].ready <=> rob[t].ready \/ t \in T
           /\ IsVector(t) => (IsIllegal(t)' <=> IsIllegal(t))
  BY DEF Work
<1>9. /\ Len(Q) + d = Len(P)
      /\ d = 1 => P[1].rob_tag \in T
      /\ \A i \in 1 .. Len(Q) : Continues(P[i + d], Q[i], T) /\ Q[i].rob_tag \notin T
  BY DEF Remains
<1>1. \A t : (InFlight(t)' <=> InFlight(t)) /\ Age(t)' = Age(t)
  BY <1>0 DEF InFlight, Age
<1>2. \A i \in 1 .. Len(P) : P[i] \in VecRs /\ P[i].rob_tag \in Tags
                             /\ P[i].s1.tag \in Tags /\ P[i].s2.tag \in Tags
  <2> SUFFICES ASSUME NEW i \in 1 .. Len(P)
               PROVE  P[i] \in VecRs /\ P[i].rob_tag \in Tags
                      /\ P[i].s1.tag \in Tags /\ P[i].s2.tag \in Tags
    OBVIOUS
  <2>1. P[i] \in VecRs
    OBVIOUS
  <2> QED BY <2>1 DEF VecRs, Operand
<1>3. \A i \in 1 .. Len(Q) : i + d \in 1 .. Len(P)
  BY <1>9
<1>4. ASSUME NEW i \in 1 .. Len(Q)
      PROVE  /\ Owns(Q[i])' /\ InRange(Q[i])'
             /\ Awaits(Q[i].s1, Q[i].rob_tag)' /\ Awaits(Q[i].s2, Q[i].rob_tag)'
  <2>1. PICK p \in VecRs, t \in Tags : p = P[i + d] /\ t = p.rob_tag /\ t = Q[i].rob_tag
    BY <1>2, <1>3, <1>9 DEF Continues
  <2>2. Continues(p, Q[i], T) /\ t \notin T
    BY <1>9, <2>1
  <2>3. Owns(p) /\ Awaits(p.s1, t) /\ Awaits(p.s2, t)
    <3>1. \A j \in 1 .. Len(P) : Owns(P[j]) /\ Awaits(P[j].s1, P[j].rob_tag) /\ Awaits(P[j].s2, P[j].rob_tag)
      BY DEF Holds
    <3>2. PICK j \in 1 .. Len(P) : j = i + d
      BY <1>3
    <3>3. Owns(P[j]) /\ Awaits(P[j].s1, P[j].rob_tag) /\ Awaits(P[j].s2, P[j].rob_tag)
      BY <3>1
    <3>4. P[j] = p /\ P[j].rob_tag = t
      BY <2>1, <3>2
    <3> QED BY <3>3, <3>4
  <2>4. IsVector(t)
    BY <2>1, <2>3 DEF Owns, IsVector, VecOps
  <2>5. Owns(Q[i])'
    BY <1>0, <1>1, <2>1, <2>2, <2>3, <2>4 DEF Owns, Continues
  <2>6. InRange(Q[i])'
    BY <1>0, <2>2 DEF Continues, InRange
  <2>7. p.s1.tag \in Tags /\ p.s2.tag \in Tags
    BY <1>2, <1>3, <2>1
  <2>8. ASSUME NEW a, NEW b, a.tag \in Tags, Awaits(a, t), Listened(a, b, T) PROVE Awaits(b, t)'
    BY <1>0, <1>1, <2>8 DEF Awaits, Listened
  <2>9. Awaits(Q[i].s1, t)' /\ Awaits(Q[i].s2, t)'
    BY <2>2, <2>3, <2>7, <2>8 DEF Continues
  <2> QED BY <2>1, <2>5, <2>6, <2>9
<1>5. ASSUME NEW i \in 1 .. Len(Q), NEW j \in 1 .. Len(Q), i < j
      PROVE  Age(Q[i].rob_tag)' < Age(Q[j].rob_tag)'
  <2>1. Q[i].rob_tag = P[i + d].rob_tag /\ Q[j].rob_tag = P[j + d].rob_tag
    BY <1>9 DEF Continues
  <2>2. i + d < j + d
    BY <1>5
  <2>3. Age(P[i + d].rob_tag) < Age(P[j + d].rob_tag)
    BY <1>3, <2>2 DEF Holds
  <2> QED BY <1>1, <2>1, <2>3
<1>6. ASSUME NEW t \in Tags, IsVector(t)', ~rob'[t].ready
      PROVE  \E i \in 1 .. Len(Q) : Q[i].rob_tag = t
  <2>1. IsVector(t) /\ ~rob[t].ready /\ t \notin T
    BY <1>0, <1>1, <1>6 DEF IsVector
  <2>2. PICK j \in 1 .. Len(P) : P[j].rob_tag = t
    BY <2>1 DEF Holds
  <2>3. j - d \in 1 .. Len(Q) /\ (j - d) + d = j
    BY <1>9, <2>1, <2>2
  <2>4. Q[j - d].rob_tag = t
    BY <1>9, <2>2, <2>3 DEF Continues
  <2> QED BY <2>3, <2>4
<1>7. NoSpeculativeVector'
  <2> SUFFICES ASSUME NEW t \in Tags, NEW b \in Tags,
                      IsVector(t)', ~IsIllegal(t)', InFlight(b)', rob'[b].is_branch
               PROVE  Age(t)' < Age(b)'
    BY DEF NoSpeculativeVector
  <2>1. IsVector(t) /\ ~IsIllegal(t) /\ InFlight(b) /\ rob[b].is_branch
    BY <1>0, <1>1 DEF IsVector
  <2>2. Age(t) < Age(b)
    BY <2>1 DEF NoSpeculativeVector
  <2> QED BY <1>1, <2>2
<1> QED BY <1>4, <1>5, <1>6, <1>7 DEF Holds

\* After a flush nothing is in flight and nothing pending.
LEMMA FlushHolds ==
  ASSUME CoreTypeOK, PipelineFlush PROVE Holds(<<>>)' /\ NoSpeculativeVector'
<1>1. \A t \in Tags : ~InFlight(t)'
  BY FlushWindow
<1> QED BY <1>1 DEF Holds, IsVector, NoSpeculativeVector

\* What retires has completed, so it is not pending.
LEMMA RetireHolds ==
  ASSUME CoreTypeOK, RobWindow, HeadReady, Retire, prog' = prog,
         NEW P \in Seq(VecRs), Holds(P), NoSpeculativeVector
  PROVE  Holds(P)' /\ NoSpeculativeVector'
<1>1. /\ \A t \in Tags : InFlight(t)' <=> InFlight(t) /\ t # rob_head
      /\ \A t \in Tags : InFlight(t) /\ t # rob_head => Age(t)' = Age(t) - 1
      /\ \A t \in Tags : t # rob_head => rob'[t] = rob[t]
  BY RetireWindow
<1>2. rob[rob_head].ready /\ \A t \in Tags : Age(t) \in Int
  BY AgeBounds DEF HeadReady, HeadEntry
<1>3. ASSUME NEW t \in Tags, NEW w \in Tags, InFlight(t), InFlight(w), t # rob_head, w # rob_head
      PROVE  Age(t)' < Age(w)' <=> Age(t) < Age(w)
  BY <1>1, <1>2, <1>3
<1>4. ASSUME NEW i \in 1 .. Len(P)
      PROVE  /\ P[i].rob_tag \in Tags /\ P[i].s1.tag \in Tags /\ P[i].s2.tag \in Tags
             /\ P[i].rob_tag # rob_head
             /\ Owns(P[i]) /\ InRange(P[i])
             /\ Awaits(P[i].s1, P[i].rob_tag) /\ Awaits(P[i].s2, P[i].rob_tag)
  <2>1. P[i] \in VecRs
    OBVIOUS
  <2>2. /\ Owns(P[i]) /\ InRange(P[i])
        /\ Awaits(P[i].s1, P[i].rob_tag) /\ Awaits(P[i].s2, P[i].rob_tag)
    BY DEF Holds
  <2> QED BY <1>2, <2>1, <2>2 DEF Owns, VecRs, Operand
<1>5. ASSUME NEW t \in Tags, t # rob_head, InFlight(t), NEW a, a.tag \in Tags, Awaits(a, t)
      PROVE  Awaits(a, t)'
  <2>1. ASSUME ~a.ready PROVE InFlight(a.tag) /\ a.tag # rob_head /\ Age(a.tag) < Age(t)
    BY <1>2, <1>5, <2>1 DEF Awaits
  <2> QED BY <1>1, <1>3, <1>5, <2>1 DEF Awaits
<1>6. ASSUME NEW i \in 1 .. Len(P)
      PROVE  /\ Owns(P[i])' /\ InRange(P[i])'
             /\ Awaits(P[i].s1, P[i].rob_tag)' /\ Awaits(P[i].s2, P[i].rob_tag)'
  <2>1. PICK p \in VecRs, t \in Tags : p = P[i] /\ t = p.rob_tag /\ p.s1.tag \in Tags /\ p.s2.tag \in Tags
    BY <1>4
  <2>2. t # rob_head /\ Owns(p) /\ InRange(p) /\ Awaits(p.s1, t) /\ Awaits(p.s2, t)
    BY <1>4, <2>1
  <2>3. Owns(p)' /\ InRange(p)'
    BY <1>1, <2>1, <2>2 DEF Owns, InRange, IsIllegal
  <2>4. InFlight(t)
    BY <2>1, <2>2 DEF Owns
  <2>5. Awaits(p.s1, t)' /\ Awaits(p.s2, t)'
    BY <1>5, <2>1, <2>2, <2>4
  <2> QED BY <2>1, <2>3, <2>5
<1>7. ASSUME NEW i \in 1 .. Len(P), NEW j \in 1 .. Len(P), i < j
      PROVE  Age(P[i].rob_tag)' < Age(P[j].rob_tag)'
  <2>1. PICK t \in Tags, w \in Tags : t = P[i].rob_tag /\ w = P[j].rob_tag
    BY <1>4
  <2>2. InFlight(t) /\ InFlight(w) /\ t # rob_head /\ w # rob_head
    BY <1>4, <2>1 DEF Owns
  <2>3. Age(t) < Age(w)
    BY <1>7, <2>1 DEF Holds
  <2> QED BY <1>3, <2>1, <2>2, <2>3
<1>8. ASSUME NEW t \in Tags, IsVector(t)', ~rob'[t].ready
      PROVE  \E i \in 1 .. Len(P) : P[i].rob_tag = t
  BY <1>1, <1>8 DEF IsVector, Holds
<1>9. NoSpeculativeVector'
  <2> SUFFICES ASSUME NEW t \in Tags, NEW b \in Tags,
                      IsVector(t)', ~IsIllegal(t)', InFlight(b)', rob'[b].is_branch
               PROVE  Age(t)' < Age(b)'
    BY DEF NoSpeculativeVector
  <2>1. /\ IsVector(t) /\ ~IsIllegal(t) /\ InFlight(b) /\ rob[b].is_branch
        /\ t # rob_head /\ b # rob_head /\ InFlight(t)
    BY <1>1 DEF IsVector, IsIllegal
  <2>2. Age(t) < Age(b)
    BY <2>1 DEF NoSpeculativeVector
  <2> QED BY <1>3, <2>1, <2>2
<1> QED BY <1>6, <1>7, <1>8, <1>9 DEF Holds

\* The queue entry r of an instruction that enters as e.
Queues(r, e) ==
  /\ r.rob_tag = rob_tail /\ r.pc = e.pc /\ InRange(r)
  /\ prog[e.pc].op \in VArithOps \cup VMemOps
  /\ ~e.ready /\ ~e.takes_trap
  /\ prog[e.pc].op # "vcpop" => e.dest = X0
  /\ \A a \in {r.s1, r.s2} : ~a.ready => InFlight(a.tag) /\ ~rob[a.tag].ready /\ rob[a.tag].dest # X0

\* What enters is the youngest; a legal vector instruction enters behind no branch.
LEMMA EnterHolds ==
  ASSUME CoreTypeOK, RobWindow, MayFetch, NEW e \in RobEntry, NEW p, e.valid, Enter(e, p), prog' = prog,
         NEW P \in Seq(VecRs), NEW Q \in Seq(VecRs), Holds(P), NoSpeculativeVector,
         \/ Q = P /\ (prog[e.pc].op \in VecOps => e.ready)
         \/ \E r \in VecRs : Q = Append(P, r) /\ Queues(r, e),
         prog[e.pc].op \in VecOps =>
           /\ ~e.is_branch
           /\ \/ e.takes_trap /\ e.cause = CAUSE_ILLEGAL
              \/ \A b \in Tags : InFlight(b) => ~rob[b].is_branch
  PROVE  Holds(Q)' /\ NoSpeculativeVector'
<1>0. rob_tail \in Tags /\ rob_count < ROB_SZ
  BY Counters DEF MayFetch
<1>1. /\ \A t \in Tags : InFlight(t)' <=> InFlight(t) \/ t = rob_tail
      /\ \A t \in Tags : Age(t)' = Age(t)
      /\ \A t \in Tags : t # rob_tail => rob'[t] = rob[t]
      /\ rob'[rob_tail] = e
  BY EnterWindow
<1>2. \A t \in Tags : InFlight(t) => t # rob_tail /\ Age(t) < Age(rob_tail)
  BY <1>0, TailIsFree DEF InFlight
<1>3. ASSUME NEW i \in 1 .. Len(P)
      PROVE  \E q \in VecRs, t \in Tags :
               /\ q = P[i] /\ t = q.rob_tag /\ q.s1.tag \in Tags /\ q.s2.tag \in Tags
               /\ InFlight(t) /\ Owns(q) /\ InRange(q) /\ Awaits(q.s1, t) /\ Awaits(q.s2, t)
  <2>1. PICK q \in VecRs : q = P[i]
    OBVIOUS
  <2>2. q.rob_tag \in Tags /\ q.s1.tag \in Tags /\ q.s2.tag \in Tags
    BY DEF VecRs, Operand
  <2>3. /\ Owns(P[i]) /\ InRange(P[i])
        /\ Awaits(P[i].s1, P[i].rob_tag) /\ Awaits(P[i].s2, P[i].rob_tag)
    BY DEF Holds
  <2> QED BY <2>1, <2>2, <2>3 DEF Owns
<1>4. ASSUME NEW i \in 1 .. Len(P)
      PROVE  /\ Owns(P[i])' /\ InRange(P[i])'
             /\ Awaits(P[i].s1, P[i].rob_tag)' /\ Awaits(P[i].s2, P[i].rob_tag)'
  <2>1. PICK q \in VecRs, t \in Tags :
               /\ q = P[i] /\ t = q.rob_tag /\ q.s1.tag \in Tags /\ q.s2.tag \in Tags
               /\ InFlight(t) /\ Owns(q) /\ InRange(q) /\ Awaits(q.s1, t) /\ Awaits(q.s2, t)
    BY <1>3
  <2>2. Owns(q)' /\ InRange(q)'
    BY <1>1, <1>2, <2>1 DEF Owns, InRange, IsIllegal
  <2>3. ASSUME NEW a, a.tag \in Tags, Awaits(a, t) PROVE Awaits(a, t)'
    BY <1>1, <1>2, <2>1, <2>3 DEF Awaits
  <2> QED BY <2>1, <2>2, <2>3
<1>5. ASSUME NEW i \in 1 .. Len(P), NEW j \in 1 .. Len(P), i < j
      PROVE  Age(P[i].rob_tag)' < Age(P[j].rob_tag)'
  <2>1. Age(P[i].rob_tag) < Age(P[j].rob_tag)
    BY <1>5 DEF Holds
  <2>2. P[i].rob_tag \in Tags /\ P[j].rob_tag \in Tags
    BY <1>3
  <2> QED BY <1>1, <2>1, <2>2
<1>6. ASSUME NEW t \in Tags, t # rob_tail, IsVector(t)', ~rob'[t].ready
      PROVE  \E i \in 1 .. Len(P) : P[i].rob_tag = t
  BY <1>1, <1>6 DEF IsVector, Holds
<1>7. NoSpeculativeVector'
  <2> SUFFICES ASSUME NEW t \in Tags, NEW b \in Tags,
                      IsVector(t)', ~IsIllegal(t)', InFlight(b)', rob'[b].is_branch
               PROVE  Age(t)' < Age(b)'
    BY DEF NoSpeculativeVector
  <2>1. CASE t = rob_tail
    <3>1. prog[e.pc].op \in VecOps /\ ~(e.takes_trap /\ e.cause = CAUSE_ILLEGAL)
      BY <1>1, <2>1 DEF IsVector, IsIllegal
    <3>2. b # rob_tail /\ InFlight(b) /\ rob[b].is_branch
      BY <1>1, <3>1
    <3> QED BY <3>1, <3>2
  <2>2. CASE t # rob_tail /\ b = rob_tail
    BY <1>1, <1>2, <2>2 DEF IsVector
  <2>3. CASE t # rob_tail /\ b # rob_tail
    <3>1. IsVector(t) /\ ~IsIllegal(t) /\ InFlight(b) /\ rob[b].is_branch
      BY <1>1, <2>3 DEF IsVector, IsIllegal
    <3>2. Age(t) < Age(b)
      BY <3>1 DEF NoSpeculativeVector
    <3> QED BY <1>1, <3>2
  <2> QED BY <2>1, <2>2, <2>3
<1>8. CASE Q = P /\ (prog[e.pc].op \in VecOps => e.ready)
  <2>1. ASSUME NEW t \in Tags, IsVector(t)', ~rob'[t].ready
        PROVE  \E i \in 1 .. Len(P) : P[i].rob_tag = t
    <3>1. t # rob_tail
      BY <1>1, <1>8, <2>1 DEF IsVector
    <3> QED BY <1>6, <2>1, <3>1
  <2> QED BY <1>4, <1>5, <1>7, <1>8, <2>1 DEF Holds
<1>9. CASE \E r \in VecRs : Q = Append(P, r) /\ Queues(r, e)
  <2>1. PICK r \in VecRs : Q = Append(P, r) /\ Queues(r, e)
    BY <1>9
  <2>2. /\ Len(Q) = Len(P) + 1 /\ Q[Len(P) + 1] = r
        /\ \A i \in 1 .. Len(P) : Q[i] = P[i]
        /\ \A i \in 1 .. Len(Q) : i \in 1 .. Len(P) \/ i = Len(P) + 1
    BY <2>1
  <2>3. r.rob_tag = rob_tail /\ r.s1.tag \in Tags /\ r.s2.tag \in Tags
    BY <2>1 DEF Queues, VecRs, Operand
  <2>0. PICK w \in Tags : w = rob_tail /\ w = r.rob_tag
    BY <1>0, <2>3
  <2>4. Owns(r)' /\ InRange(r)'
    BY <1>0, <1>1, <2>1, <2>3 DEF Owns, InRange, Queues, IsIllegal
  <2>5. \A a \in {r.s1, r.s2} : Awaits(a, w)'
    BY <1>1, <1>2, <2>0, <2>1, <2>3 DEF Awaits, Queues
  <2>6. \A i \in 1 .. Len(P) : Age(P[i].rob_tag)' < Age(r.rob_tag)'
    <3> SUFFICES ASSUME NEW i \in 1 .. Len(P) PROVE Age(P[i].rob_tag)' < Age(r.rob_tag)'
      OBVIOUS
    <3>1. P[i].rob_tag \in Tags /\ InFlight(P[i].rob_tag)
      BY <1>3
    <3> QED BY <1>0, <1>1, <1>2, <2>3, <3>1
  <2>7. \A i \in 1 .. Len(Q) : /\ Owns(Q[i])' /\ InRange(Q[i])'
                               /\ Awaits(Q[i].s1, Q[i].rob_tag)' /\ Awaits(Q[i].s2, Q[i].rob_tag)'
    <3> SUFFICES ASSUME NEW i \in 1 .. Len(Q)
                 PROVE  /\ Owns(Q[i])' /\ InRange(Q[i])'
                        /\ Awaits(Q[i].s1, Q[i].rob_tag)' /\ Awaits(Q[i].s2, Q[i].rob_tag)'
      OBVIOUS
    <3>1. CASE i \in 1 .. Len(P)
      BY <1>4, <2>2, <3>1
    <3>2. CASE i = Len(P) + 1
      BY <2>0, <2>2, <2>4, <2>5, <3>2
    <3> QED BY <2>2, <3>1, <3>2
  <2>8. \A i, j \in 1 .. Len(Q) : i < j => Age(Q[i].rob_tag)' < Age(Q[j].rob_tag)'
    BY <1>5, <2>2, <2>6
  <2>9. \A t \in Tags : IsVector(t)' /\ ~rob'[t].ready => \E i \in 1 .. Len(Q) : Q[i].rob_tag = t
    BY <1>6, <2>2, <2>3
  <2> QED BY <1>7, <2>7, <2>8, <2>9 DEF Holds
<1> QED BY <1>8, <1>9

-----------------------------------------------------------------------------
(* The results of the scalar units.                                        *)

LEMMA HearBothIs ==
  ASSUME NEW v \in VecRs, NEW T, NEW res \in [T -> Word]
  PROVE  LET h == HearBoth(v, res) IN
         /\ h \in VecRs /\ h.busy = v.busy /\ h.rob_tag = v.rob_tag /\ h.pc = v.pc
         /\ h.elem = v.elem /\ h.fld = v.fld
         /\ Listened(v.s1, h.s1, T) /\ Listened(v.s2, h.s2, T)
<1> DEFINE a == Hear(v.s1, res)
           b == Hear(v.s2, res)
           h == HearBoth(v, res)
<1>1. v.s1 \in Operand /\ v.s2 \in Operand
  BY DEF VecRs
<1>2. ASSUME NEW s \in Operand PROVE Hear(s, res) \in Operand /\ Listened(s, Hear(s, res), T)
  BY Heard DEF Listened
<1>3. a \in Operand /\ b \in Operand /\ Listened(v.s1, a, T) /\ Listened(v.s2, b, T)
  BY <1>1, <1>2
<1>4. h = [v EXCEPT !.s1 = a, !.s2 = b]
  BY DEF HearBoth, VecRs
<1> HIDE DEF a, b, h
<1>5. /\ h \in VecRs /\ h.busy = v.busy /\ h.rob_tag = v.rob_tag /\ h.pc = v.pc
      /\ h.elem = v.elem /\ h.fld = v.fld /\ h.s1 = a /\ h.s2 = b
  BY <1>3, <1>4 DEF VecRs
<1> QED BY <1>3, <1>5 DEF h

\* A queue that hears stays a queue, of the same instructions.
LEMMA QueueHears ==
  ASSUME NEW q \in Seq(VecRs), NEW T, NEW res \in [T -> Word]
  PROVE  LET h == [k \in DOMAIN q |-> HearBoth(q[k], res)] IN
         /\ h \in Seq(VecRs) /\ Len(h) = Len(q)
         /\ \A k \in 1 .. Len(q) : h[k] = HearBoth(q[k], res)
<1>1. \A k \in 1 .. Len(q) : HearBoth(q[k], res) \in VecRs
  BY HearBothIs
<1> QED BY <1>1

\* After a broadcast the same instructions are pending.
LEMMA PendingHears ==
  ASSUME VecControlOK, QueueInv, NEW T, NEW res \in [T -> Word], VecHear(res)
  PROVE  /\ viq' \in Seq(VecRs) /\ Len(viq') <= VIQ_SZ /\ vec_rs' \in VecRs
         /\ Len(Pending') = Len(Pending)
         /\ \A i \in 1 .. Len(Pending') : Continues(Pending[i], Pending'[i], T)
<1>1. viq \in Seq(VecRs) /\ Len(viq) <= VIQ_SZ /\ vec_rs \in VecRs
  BY DEF VecControlOK
<1>2. viq' \in Seq(VecRs) /\ Len(viq') = Len(viq) /\ \A k \in 1 .. Len(viq) : viq'[k] = HearBoth(viq[k], res)
  BY <1>1, QueueHears DEF VecHear
<1>3. /\ vec_rs' \in VecRs /\ vec_rs'.busy = vec_rs.busy
      /\ vec_rs.busy => vec_rs' = HearBoth(vec_rs, res)
  BY <1>1, HearBothIs DEF VecHear, UnitHears
<1>4. ASSUME NEW v \in VecRs, NEW h, h = HearBoth(v, res), InRange(v) PROVE Continues(v, h, T)
  BY <1>4, HearBothIs DEF Continues, InRange
<1>5. \A i \in 1 .. Len(Pending) : InRange(Pending[i])
  BY DEF QueueInv, Holds
<1>6. CASE vec_rs.busy
  <2>1. /\ Len(Pending) = Len(viq) + 1 /\ Pending[1] = vec_rs
        /\ \A i \in 1 .. Len(viq) : Pending[i + 1] = viq[i]
    BY <1>6, PendingIs
  <2>2. /\ Len(Pending') = Len(viq) + 1 /\ Pending'[1] = vec_rs'
        /\ \A i \in 1 .. Len(viq) : Pending'[i + 1] = viq'[i]
    BY <1>2, <1>3, <1>6, PendingWillBe
  <2>3. ASSUME NEW i \in 1 .. Len(Pending') PROVE Continues(Pending[i], Pending'[i], T)
    <3>1. CASE i = 1
      <4>1. InRange(vec_rs)
        BY <1>1, <1>5, <2>1
      <4> QED BY <1>1, <1>3, <1>4, <1>6, <2>1, <2>2, <3>1, <4>1
    <3>2. CASE i # 1
      <4>1. PICK k \in 1 .. Len(viq) : i = k + 1
        BY <1>1, <2>2, <3>2
      <4>2. InRange(viq[k])
        BY <1>1, <1>5, <2>1, <4>1
      <4>3. Continues(viq[k], viq'[k], T)
        BY <1>1, <1>2, <1>4, <4>2
      <4> QED BY <2>1, <2>2, <4>1, <4>3
    <3> QED BY <3>1, <3>2
  <2> QED BY <1>1, <1>2, <1>3, <2>1, <2>2, <2>3
<1>7. CASE ~vec_rs.busy
  <2>1. Pending = viq /\ Pending' = viq'
    BY <1>2, <1>3, <1>7, PendingIs, PendingWillBe
  <2>2. ASSUME NEW i \in 1 .. Len(viq) PROVE Continues(viq[i], viq'[i], T)
    <3>1. InRange(viq[i]) /\ viq[i] \in VecRs
      BY <1>1, <1>5, <2>1
    <3> QED BY <1>2, <1>4, <3>1
  <2> QED BY <1>1, <1>2, <1>3, <2>1, <2>2
<1> QED BY <1>6, <1>7

\* A station of the core never works for a vector instruction.
LEMMA ScalarTags ==
  ASSUME VecCore, NEW u \in Units, rs[u].busy
  PROVE  rs[u].rob_tag \in Tags /\ ~IsVector(rs[u].rob_tag)
<1>1. rs[u].rob_tag \in Tags /\ rob[rs[u].rob_tag].pc = rs[u].pc
  BY TagsTyped DEF VecCore, PipeCore, PipelineInv, StationsOwn
<1>2. InsOf(u).op \in Ops \cup VCsrOps
  <2>1. CASE u = "sys"
    BY <2>1 DEF VecCore, SysDecoded, Ops
  <2>2. CASE u # "sys"
    BY <2>2, InsTyped DEF VecCore, PipeCore, Instr
  <2> QED BY <2>1, <2>2
<1>3. (Ops \cup VCsrOps) \cap VecOps = {}
  BY DEF Ops, AluOps, MdOps, FpuOps, LoadOps, StoreOps, BranchOps, CsrOps, QuickOps, TrapOps,
         VCsrOps, VecOps, VSetOps, VArithOps, VAluOps, VMemOps
<1> QED BY <1>1, <1>2, <1>3 DEF IsVector, InsOf

\* The entries of T, none of them a vector instruction's, complete.
ScalarWork(T) ==
  /\ UNCHANGED <<prog, rob_head, rob_tail, rob_count>>
  /\ \A t \in T : ~IsVector(t)
  /\ \A t \in Tags :
       /\ rob'[t].pc = rob[t].pc /\ rob'[t].dest = rob[t].dest
       /\ rob'[t].is_branch = rob[t].is_branch
       /\ rob'[t].takes_trap = rob[t].takes_trap /\ rob'[t].cause = rob[t].cause
       /\ rob'[t].ready <=> rob[t].ready \/ t \in T

LEMMA ScalarHolds ==
  ASSUME VecCore, NEW T, ScalarWork(T), vec_rs' \in VecRs, viq' \in Seq(VecRs),
         Len(Pending') = Len(Pending),
         \A i \in 1 .. Len(Pending') : Continues(Pending[i], Pending'[i], T)
  PROVE  QueueInv' /\ NoSpeculativeVector'
<1>0. PICK d \in 0 .. 1 : d = 0
  OBVIOUS
<1>1. PICK P \in Seq(VecRs), Q \in Seq(VecRs) : P = Pending /\ Q = Pending'
  BY PendingIs, PendingWillBe DEF VecCore
<1>2. CoreTypeOK /\ NoSpeculativeVector /\ Holds(P)
  BY <1>1 DEF VecCore, PipeCore, QueueInv
<1>3. ASSUME NEW i \in 1 .. Len(Q) PROVE Continues(P[i + d], Q[i], T) /\ Q[i].rob_tag \notin T
  <2>1. i \in 1 .. Len(P) /\ i + d = i /\ Continues(P[i], Q[i], T)
    BY <1>0, <1>1
  <2>2. Owns(P[i])
    BY <1>2, <2>1 DEF Holds
  <2>3. IsVector(P[i].rob_tag)
    BY <2>2 DEF Owns, IsVector, VecOps
  <2> QED BY <2>1, <2>3 DEF Continues, ScalarWork
<1>4. Remains(P, Q, T, d)
  BY <1>0, <1>1, <1>3 DEF Remains
<1>5. Work(T)
  BY DEF ScalarWork, Work, IsIllegal
<1>6. Holds(Q)' /\ NoSpeculativeVector'
  BY <1>2, <1>4, <1>5, WorkHolds
<1> QED BY <1>1, <1>6 DEF QueueInv, Holds

-----------------------------------------------------------------------------
(* The turn of the coprocessor.                                            *)

\* Before the turn the instruction in the unit is the oldest one pending.
LEMMA UnitIs ==
  ASSUME VecControlOK
  PROVE  /\ unit \in VecRs /\ Rest \in Seq(VecRs) /\ Len(Rest) <= VIQ_SZ
         /\ ~unit.busy => Pending = <<>> /\ Rest = <<>>
         /\ unit.busy => /\ Len(Pending) = Len(Rest) + 1
                         /\ unit.rob_tag = Pending[1].rob_tag /\ unit.pc = Pending[1].pc
                         /\ unit.s1 = Pending[1].s1 /\ unit.s2 = Pending[1].s2
                         /\ unit.elem = Pending[1].elem /\ unit.fld = Pending[1].fld
                         /\ unit.vl = Pending[1].vl /\ unit.vstart = Pending[1].vstart
                         /\ unit.sew = Pending[1].sew
                         /\ \A i \in 1 .. Len(Rest) : Pending[i + 1] = Rest[i]
<1>1. viq \in Seq(VecRs) /\ Len(viq) <= VIQ_SZ /\ vec_rs \in VecRs /\ VIQ_SZ \in Nat
  BY VecUnitAssumption DEF VecControlOK
<1>2. CASE Pops
  <2>1. ~vec_rs.busy /\ viq # <<>> /\ Pending = viq
    BY <1>2, PendingIs DEF Pops
  <2>2. Head(viq) \in VecRs /\ Head(viq) = viq[1] /\ Len(viq) \in Nat /\ Len(viq) >= 1
    BY <1>1, <2>1
  <2>3. PICK h \in VecRs : h = Head(viq)
    BY <2>2
  <2>4. unit = [h EXCEPT !.busy = TRUE, !.executing = FALSE]
    BY <1>2, <2>3 DEF unit
  <2>5. /\ unit \in VecRs /\ unit.busy /\ unit.rob_tag = h.rob_tag /\ unit.pc = h.pc
        /\ unit.s1 = h.s1 /\ unit.s2 = h.s2 /\ unit.elem = h.elem /\ unit.fld = h.fld
        /\ unit.vl = h.vl /\ unit.vstart = h.vstart /\ unit.sew = h.sew
    BY <2>4 DEF VecRs
  <2>6. Rest = Tail(viq)
    BY <1>2 DEF Rest
  <2>7. /\ Rest \in Seq(VecRs) /\ Len(viq) = Len(Rest) + 1
        /\ \A i \in 1 .. Len(Rest) : viq[i + 1] = Rest[i]
    BY <1>1, <2>1, <2>6
  <2>8. Len(Rest) <= VIQ_SZ
    BY <1>1, <2>2, <2>7
  <2> QED BY <2>1, <2>2, <2>3, <2>5, <2>7, <2>8
<1>3. CASE ~Pops
  <2>1. unit = vec_rs /\ Rest = viq
    BY <1>3 DEF unit, Rest
  <2>2. ~vec_rs.busy => viq = <<>>
    BY <1>3 DEF Pops
  <2> QED BY <1>1, <2>1, <2>2, PendingIs
<1> QED BY <1>2, <1>3

\* The instruction in the unit and its entry.
LEMMA UnitOwns ==
  ASSUME VecCore, unit.busy
  PROVE  /\ unit.rob_tag \in Tags /\ unit.s1.tag \in Tags /\ unit.s2.tag \in Tags
         /\ Owns(unit) /\ InRange(unit) /\ IsVector(unit.rob_tag)
         /\ vins \in VInstr /\ vins.op \in VArithOps \cup VMemOps
         /\ 1 \in 1 .. Len(Pending) /\ unit.rob_tag = Pending[1].rob_tag
<1>1. unit \in VecRs /\ Rest \in Seq(VecRs) /\ prog \in [Word -> Instr \cup VInstr]
  BY UnitIs DEF VecCore, VecControlOK
<1>2. unit.rob_tag \in Tags /\ unit.s1.tag \in Tags /\ unit.s2.tag \in Tags /\ unit.pc \in Word
  BY <1>1 DEF VecRs, Operand
<1>3. /\ Len(Pending) = Len(Rest) + 1
      /\ unit.rob_tag = Pending[1].rob_tag /\ unit.pc = Pending[1].pc
      /\ unit.elem = Pending[1].elem /\ unit.fld = Pending[1].fld
  BY UnitIs DEF VecCore
<1>4. 1 \in 1 .. Len(Pending)
  BY <1>1, <1>3
<1>5. Owns(Pending[1]) /\ InRange(Pending[1])
  BY <1>4 DEF VecCore, QueueInv, Holds
<1>6. Owns(unit) /\ InRange(unit)
  BY <1>3, <1>5 DEF Owns, InRange
<1>7. prog[unit.pc].op \in VArithOps \cup VMemOps
  BY <1>6 DEF Owns
<1>8. (VArithOps \cup VMemOps) \cap Ops = {}
  BY DEF Ops, AluOps, MdOps, FpuOps, LoadOps, StoreOps, BranchOps, CsrOps, QuickOps, TrapOps,
         VArithOps, VAluOps, VMemOps
<1>9. vins \in VInstr
  BY <1>1, <1>2, <1>7, <1>8 DEF vins, Instr
<1>10. IsVector(unit.rob_tag)
  BY <1>6, <1>7 DEF IsVector, Owns, VecOps
<1> QED BY <1>2, <1>3, <1>4, <1>6, <1>7, <1>9, <1>10 DEF vins

\* The instruction goes on, and the queue behind it; or it ends, and the queue
\* behind it hears of it.
LEMMA TurnHolds ==
  ASSUME VecCore, unit.busy, NEW T, Work(T),
         vec_rs' \in VecRs, viq' \in Seq(VecRs), Len(viq') = Len(Rest),
         \A i \in 1 .. Len(Rest) : Continues(Rest[i], viq'[i], T),
         \/ vec_rs'.busy /\ T = {} /\ Continues(unit, vec_rs', T)
         \/ ~vec_rs'.busy /\ T = {unit.rob_tag}
  PROVE  QueueInv' /\ NoSpeculativeVector'
<1>1. PICK P \in Seq(VecRs), Q \in Seq(VecRs) : P = Pending /\ Q = Pending'
  BY PendingIs, PendingWillBe DEF VecCore
<1>2. CoreTypeOK /\ NoSpeculativeVector /\ Holds(P)
  BY <1>1 DEF VecCore, PipeCore, QueueInv
<1>3. /\ Rest \in Seq(VecRs) /\ Len(P) = Len(Rest) + 1
      /\ unit.rob_tag = P[1].rob_tag /\ unit.pc = P[1].pc
      /\ unit.s1 = P[1].s1 /\ unit.s2 = P[1].s2
      /\ \A i \in 1 .. Len(Rest) : P[i + 1] = Rest[i]
  BY <1>1, UnitIs DEF VecCore
<1>4. CASE vec_rs'.busy
  <2>0. PICK d \in 0 .. 1 : d = 0
    OBVIOUS
  <2>1. T = {} /\ Continues(unit, vec_rs', T)
    BY <1>4
  <2>2. /\ Len(Q) = Len(viq') + 1 /\ Q[1] = vec_rs'
        /\ \A i \in 1 .. Len(viq') : Q[i + 1] = viq'[i]
    BY <1>1, <1>4, PendingWillBe
  <2>3. ASSUME NEW i \in 1 .. Len(Q) PROVE Continues(P[i + d], Q[i], T)
    <3>1. CASE i = 1
      <4>1. Continues(P[1], vec_rs', T)
        BY <1>3, <2>1 DEF Continues
      <4> QED BY <2>0, <2>2, <3>1, <4>1
    <3>2. CASE i # 1
      <4>1. PICK k \in 1 .. Len(Rest) : i = k + 1
        BY <1>3, <2>2, <3>2
      <4> QED BY <1>3, <2>0, <2>2, <4>1
    <3> QED BY <3>1, <3>2
  <2>4. Remains(P, Q, T, d)
    BY <1>3, <2>0, <2>1, <2>2, <2>3 DEF Remains
  <2>5. Holds(Q)' /\ NoSpeculativeVector'
    BY <1>2, <2>4, WorkHolds
  <2> QED BY <1>1, <2>5 DEF QueueInv, Holds
<1>5. CASE ~vec_rs'.busy
  <2>0. PICK d \in 0 .. 1 : d = 1
    OBVIOUS
  <2>1. T = {unit.rob_tag}
    BY <1>5
  <2>2. Q = viq'
    BY <1>1, <1>5, PendingWillBe
  <2>3. ASSUME NEW i \in 1 .. Len(Q) PROVE Continues(P[i + d], Q[i], T) /\ Q[i].rob_tag \notin T
    <3>1. i \in 1 .. Len(Rest) /\ Continues(Rest[i], Q[i], T)
      BY <2>2
    <3>2. P[i + d] = Rest[i] /\ P[i + d].rob_tag = Q[i].rob_tag
      BY <1>3, <2>0, <3>1 DEF Continues
    <3>3. 1 \in 1 .. Len(P) /\ i + d \in 1 .. Len(P) /\ 1 < i + d
      BY <1>3, <2>0, <3>1
    <3>4. Age(P[1].rob_tag) < Age(P[i + d].rob_tag)
      BY <1>2, <3>3 DEF Holds
    <3>5. P[1].rob_tag \in Tags
      BY <1>3, UnitOwns
    <3>6. P[i + d].rob_tag # P[1].rob_tag
      BY <1>2, <3>4, <3>5, AgeBounds
    <3> QED BY <1>3, <2>1, <3>1, <3>2, <3>6
  <2>4. Remains(P, Q, T, d)
    BY <1>3, <2>0, <2>1, <2>2, <2>3 DEF Remains
  <2>5. Holds(Q)' /\ NoSpeculativeVector'
    BY <1>2, <2>4, WorkHolds
  <2> QED BY <1>1, <2>5 DEF QueueInv, Holds
<1> QED BY <1>4, <1>5

\* The scalar pipeline beside the coprocessor.
Beside == PipeCore /\ BranchAccounting /\ SysDecoded

\* What completes entries without emptying a station keeps the pipeline.
LEMMA CompleteBeside ==
  ASSUME VecCore, NEW S, NEW D, Completes(S, D), CoreTypeOK', UNCHANGED branch_pending PROVE Beside'
<1>1. PipeCore /\ BranchAccounting /\ SysDecoded
  BY DEF VecCore
<1>2. PipelineInv'
  BY <1>1, CompleteKeeps
<1>3. BranchAccounting'
  <2>1. UNCHANGED <<rob_head, rob_tail, rob_count, branch_pending>>
        /\ \A t \in Tags : InFlight(t) => rob'[t].is_branch = rob[t].is_branch
    BY DEF Completes
  <2> QED BY <1>1, <2>1, KeptCounts
<1>4. SysDecoded'
  <2>1. "sys" \in Units
    BY DEF Units
  <2>2. prog' = prog /\ (rs'["sys"].busy => rs["sys"].busy /\ rs'["sys"].pc = rs["sys"].pc)
    BY <2>1 DEF Completes
  <2> QED BY <1>1, <2>2 DEF SysDecoded, InsOf
<1> QED BY <1>2, <1>3, <1>4 DEF Beside, PipeCore

\* The registers a turn may write.
LEMMA TurnTyped ==
  ASSUME CoreTypeOK, VectorFrame, rob' \in [Tags -> RobEntry], rs' \in [Units -> Station],
         dmem' \in [0 .. MemWords - 1 -> Word], mem_port_used' \in BOOLEAN,
         \A u \in Units : rs'[u].busy => rs[u].busy /\ rs'[u].pc = rs[u].pc
  PROVE  CoreTypeOK'
<1>1. UnitsScalar'
  BY UnitsKept DEF VectorFrame
<1> QED BY <1>1 DEF CoreTypeOK, VectorFrame, front, timer

\* A turn that leaves the entries and the stations alone.
LEMMA TurnQuiet ==
  ASSUME VecCore, VectorFrame, UNCHANGED <<rob, rs>>,
         dmem' \in [0 .. MemWords - 1 -> Word], mem_port_used' \in BOOLEAN
  PROVE  Work({}) /\ Beside'
<1>1. CoreTypeOK
  BY DEF VecCore, PipeCore
<1>2. CoreTypeOK'
  BY <1>1, TurnTyped DEF CoreTypeOK
<1>3. Completes({}, {})
  BY DEF VectorFrame, Completes
<1>4. Beside'
  BY <1>2, <1>3, CompleteBeside DEF VectorFrame
<1> QED BY <1>4 DEF Work, VectorFrame, IsIllegal

\* A turn that writes e to the entry of the instruction in the unit: its
\* completion is heard by whoever waits for it.
LEMMA TurnWrites ==
  ASSUME VecCore, unit.busy, VectorFrame,
         NEW e \in RobEntry, rob' = [rob EXCEPT ![unit.rob_tag] = e],
         e.valid = rob[unit.rob_tag].valid, e.pc = rob[unit.rob_tag].pc,
         e.dest = rob[unit.rob_tag].dest, e.is_branch = rob[unit.rob_tag].is_branch,
         e.takes_trap => rob[unit.rob_tag].takes_trap \/ e.dest = X0,
         ~(e.takes_trap /\ e.cause = CAUSE_ILLEGAL),
         NEW T, T = IF e.ready THEN {unit.rob_tag} ELSE {},
         \/ rs' = rs /\ (e.ready => e.dest = X0)
         \/ e.ready /\ \E v \in Word : rs' = cdb_broadcast([t \in {unit.rob_tag} |-> v]),
         dmem' \in [0 .. MemWords - 1 -> Word], mem_port_used' \in BOOLEAN
  PROVE  Work(T) /\ Beside'
<1> DEFINE tag == unit.rob_tag
<1>1. CoreTypeOK /\ PipelineInv
  BY DEF VecCore, PipeCore
<1>2. tag \in Tags /\ IsVector(tag) /\ InFlight(tag) /\ ~rob[tag].ready /\ ~IsIllegal(tag)
  BY UnitOwns DEF Owns
<1>3. \A t \in Tags : rob'[t] = IF t = tag THEN e ELSE rob[t]
  BY <1>1, <1>2 DEF CoreTypeOK
<1>4. \A u \in Units : rs[u].busy => rs[u].rob_tag # tag
  BY <1>2, ScalarTags
<1>5. ASSUME NEW u \in Units
      PROVE  /\ rs'[u] \in Station
             /\ rs'[u].busy = rs[u].busy /\ rs'[u].rob_tag = rs[u].rob_tag /\ rs'[u].pc = rs[u].pc
             /\ rs[u].busy => \A k \in 1 .. 3 : ~rs'[u].src[k].ready =>
                  ~rs[u].src[k].ready /\ rs'[u].src[k].tag = rs[u].src[k].tag /\ rs[u].src[k].tag \notin T
  <2>1. CASE rs' = rs /\ (e.ready => e.dest = X0)
    <3>1. \A k \in 1 .. 3 : rs[u].busy /\ ~rs[u].src[k].ready => rob[rs[u].src[k].tag].dest # X0
      BY <1>1 DEF PipelineInv, WritersOnly
    <3>2. rs[u] \in Station
      BY <1>1 DEF CoreTypeOK
    <3> QED BY <2>1, <3>1, <3>2
  <2>2. CASE e.ready /\ \E v \in Word : rs' = cdb_broadcast([t \in {tag} |-> v])
    <3>1. PICK v \in Word : rs' = cdb_broadcast([t \in {tag} |-> v])
      BY <2>2
    <3>2. [t \in {tag} |-> v] \in [{tag} -> Word]
      OBVIOUS
    <3> DEFINE h == cdb_broadcast([t \in {tag} |-> v])[u]
    <3>3. /\ h \in Station /\ h.busy = rs[u].busy /\ h.rob_tag = rs[u].rob_tag /\ h.pc = rs[u].pc
          /\ rs[u].busy => \A k \in 1 .. 3 : ~h.src[k].ready =>
               ~rs[u].src[k].ready /\ h.src[k].tag = rs[u].src[k].tag /\ rs[u].src[k].tag \notin {tag}
      BY <1>1, <3>2, BroadcastHeard
    <3>4. rs'[u] = h
      BY <3>1
    <3> HIDE DEF h
    <3> QED BY <2>2, <3>3, <3>4
  <2> QED BY <2>1, <2>2
<1>6. rob' \in [Tags -> RobEntry]
  BY <1>1 DEF CoreTypeOK
<1>7. rs' \in [Units -> Station]
  <2>1. CASE rs' = rs
    BY <1>1, <2>1 DEF CoreTypeOK
  <2>2. CASE \E v \in Word : rs' = cdb_broadcast([t \in {tag} |-> v])
    <3>1. PICK v \in Word : rs' = cdb_broadcast([t \in {tag} |-> v])
      BY <2>2
    <3>2. [t \in {tag} |-> v] \in [{tag} -> Word] /\ rs \in [Units -> Station]
      BY <1>1 DEF CoreTypeOK
    <3> QED BY <3>1, <3>2, BroadcastTyped
  <2> QED BY <2>1, <2>2
<1>8. CoreTypeOK'
  BY <1>1, <1>5, <1>6, <1>7, TurnTyped
<1>9. \A t \in Tags : rob'[t].ready <=> rob[t].ready \/ t \in T
  BY <1>2, <1>3
<1>10. Completes({}, T)
  <2>1. UNCHANGED <<prog, rat, rob_head, rob_tail, rob_count>>
    BY DEF VectorFrame
  <2>2. \A t \in Tags : /\ rob'[t].valid = rob[t].valid
                        /\ rob'[t].pc = rob[t].pc /\ rob'[t].dest = rob[t].dest
                        /\ rob'[t].is_branch = rob[t].is_branch
                        /\ rob'[t].takes_trap => rob[t].takes_trap \/ rob[t].dest = X0
    BY <1>3
  <2>3. \A u \in Units : rs'[u].busy => rs[u].rob_tag \notin T
    BY <1>4, <1>5
  <2> QED BY <1>5, <1>9, <2>1, <2>2, <2>3 DEF Completes
<1>11. Beside'
  BY <1>8, <1>10, CompleteBeside DEF VectorFrame
<1>12. Work(T)
  <2>1. UNCHANGED <<prog, rob_head, rob_tail, rob_count>>
    BY DEF VectorFrame
  <2>2. \A t \in Tags : IsIllegal(t)' <=> IsIllegal(t)
    BY <1>2, <1>3 DEF IsIllegal
  <2> QED BY <1>3, <1>9, <2>1, <2>2 DEF Work
<1> QED BY <1>11, <1>12

-----------------------------------------------------------------------------
(* The actions of the turn.                                                *)

\* The trim of a fault-only-first load is no longer than the vector.
LEMMA FofTrimIs == ASSUME NEW base, NEW vl \in 0 .. CELLS PROVE FofTrim(base, vl) \in 0 .. vl
<1> DEFINE bad == {k \in 0 .. vl - 1 : Plus(base, k) >= MemWords}
<1>1. CELLS \in Nat /\ bad \in SUBSET Nat /\ \A k \in bad : k <= vl
  BY VecAssumption
<1>2. FofTrim(base, vl) = IF bad = {} THEN vl ELSE Min(bad)
  BY DEF FofTrim
<1> HIDE DEF bad
<1>3. CASE bad # {}
  <2>1. PICK m \in bad : \A n \in bad : m <= n
    BY <1>1, <1>3, LeastNumber
  <2>2. (CHOOSE x \in bad : \A y \in bad : x <= y) \in bad
    BY <2>1
  <2>3. Min(bad) = CHOOSE x \in bad : \A y \in bad : x <= y
    BY DEF Min
  <2>4. PICK k \in bad : k = FofTrim(base, vl)
    BY <1>2, <1>3, <2>2, <2>3
  <2>5. k \in Nat /\ k <= vl
    BY <1>1, <2>4
  <2> QED BY <2>4, <2>5
<1> QED BY <1>1, <1>2, <1>3

\* The length that counts in this turn, and where the unit stands after it.
LEMMA UnitBounds ==
  ASSUME VecControlOK
  PROVE  /\ CELLS \in Nat /\ CELLS >= 1 /\ WordsPerReg \in Nat /\ WordsPerReg >= 1
         /\ WordsPerReg <= CELLS
         /\ vl_eff \in 0 .. CELLS /\ vl_eff <= unit.vl
<1>1. CELLS \in Nat /\ CELLS >= 1 /\ CELLS % 2 = 0
  BY VecAssumption
<1>2. WordsPerReg \in Nat /\ WordsPerReg >= 1 /\ WordsPerReg <= CELLS
  BY <1>1 DEF WordsPerReg
<1>3. unit \in VecRs
  BY UnitIs
<1>4. unit.vl \in 0 .. CELLS
  BY <1>3 DEF VecRs
<1>5. FofTrim(unit.s1.val, unit.vl) \in 0 .. unit.vl
  BY <1>4, FofTrimIs
<1> QED BY <1>1, <1>2, <1>4, <1>5 DEF vl_eff

\* The vector registers and CSRs after a turn.
TurnControl ==
  /\ csr_vl' \in 0 .. CELLS /\ csr_vtype' = csr_vtype /\ csr_vstart' \in 0 .. CELLS - 1
  /\ accesses' \in Nat
  /\ VectorFrame /\ vec_ticked' = TRUE

\* The queue behind the instruction in the unit waits for no result of it,
\* unless it has one.
LEMMA RestContinues ==
  ASSUME VecCore, unit.busy, NEW i \in 1 .. Len(Rest)
  PROVE  /\ InRange(Rest[i]) /\ Rest[i] \in VecRs
         /\ Continues(Rest[i], Rest[i], {})
         /\ rob[unit.rob_tag].dest = X0 => Continues(Rest[i], Rest[i], {unit.rob_tag})
<1>1. /\ Rest \in Seq(VecRs) /\ Len(Pending) = Len(Rest) + 1 /\ Pending[i + 1] = Rest[i]
  BY UnitIs DEF VecCore
<1>2. Rest[i] \in VecRs /\ i + 1 \in 1 .. Len(Pending)
  BY <1>1
<1>3. /\ InRange(Pending[i + 1])
      /\ Awaits(Pending[i + 1].s1, Pending[i + 1].rob_tag)
      /\ Awaits(Pending[i + 1].s2, Pending[i + 1].rob_tag)
  BY <1>2 DEF VecCore, QueueInv, Holds
<1>4. /\ ~Rest[i].s1.ready => rob[Rest[i].s1.tag].dest # X0
      /\ ~Rest[i].s2.ready => rob[Rest[i].s2.tag].dest # X0
  BY <1>1, <1>3 DEF Awaits
<1>5. InRange(Rest[i])
  BY <1>1, <1>3
<1> QED BY <1>2, <1>4, <1>5 DEF Continues, Listened

\* A turn in which the instruction in the unit goes on or ends.
LEMMA TurnKeeps ==
  ASSUME VecCore, unit.busy, TurnControl, NEW T, Work(T), Beside',
         vec_rs' \in VecRs, viq' \in Seq(VecRs), Len(viq') = Len(Rest),
         \A i \in 1 .. Len(Rest) : Continues(Rest[i], viq'[i], T),
         \/ vec_rs'.busy /\ T = {} /\ Continues(unit, vec_rs', T)
         \/ ~vec_rs'.busy /\ T = {unit.rob_tag}
  PROVE  VecCore'
<1>1. QueueInv' /\ NoSpeculativeVector'
  BY TurnHolds
<1>2. VecControlOK'
  <2>1. VecControlOK
    BY DEF VecCore
  <2>2. Len(viq') <= VIQ_SZ
    BY <2>1, UnitIs
  <2> QED BY <2>1, <2>2 DEF VecControlOK, TurnControl, VectorFrame
<1> QED BY <1>1, <1>2 DEF VecCore, Beside

LEMMA GoesOn ==
  ASSUME VecCore, unit.busy, TurnControl, Work({}), Beside', viq' = Rest,
         vec_rs' \in VecRs, vec_rs'.busy, Continues(unit, vec_rs', {})
  PROVE  VecCore'
<1>1. Rest \in Seq(VecRs)
  BY UnitIs DEF VecCore
<1>2. \A i \in 1 .. Len(Rest) : Continues(Rest[i], viq'[i], {})
  BY RestContinues
<1> QED BY <1>1, <1>2, TurnKeeps

LEMMA Ends ==
  ASSUME VecCore, unit.busy, TurnControl, Work({unit.rob_tag}), Beside', viq' = Rest,
         vec_rs' \in VecRs, ~vec_rs'.busy, rob[unit.rob_tag].dest = X0
  PROVE  VecCore'
<1>1. Rest \in Seq(VecRs)
  BY UnitIs DEF VecCore
<1>2. \A i \in 1 .. Len(Rest) : Continues(Rest[i], viq'[i], {unit.rob_tag})
  BY RestContinues
<1> QED BY <1>1, <1>2, TurnKeeps

\* The instruction is the same wherever the unit stands in it.
LEMMA SameInstruction ==
  ASSUME NEW w \in VecRs, w.rob_tag = unit.rob_tag, w.pc = unit.pc,
         w.s1 = unit.s1, w.s2 = unit.s2,
         w.fld <= vins.nf, IsWhole => w.elem < WordsPerReg
  PROVE  Continues(unit, w, {})
  BY DEF Continues, Listened, InRange, vins, IsWhole

LEMMA VecCountKeeps == ASSUME VecCore, VecCount PROVE VecCore'
<1>1. unit.busy /\ VectorFrame /\ viq' = Rest /\ vec_ticked' = TRUE
      /\ UNCHANGED <<rob, rs, mem_port_used, dmem, vcsrs, accesses>>
  BY DEF VecCount, ArithRuns, IsArith, TakenFromQueue, TurnEnds
<1>2. VecControlOK /\ CoreTypeOK
  BY DEF VecCore, PipeCore
<1>3. TurnControl
  BY <1>1, <1>2 DEF TurnControl, VecControlOK, vcsrs
<1>4. Work({}) /\ Beside'
  BY <1>1, <1>2, TurnQuiet DEF CoreTypeOK
<1>5. unit \in VecRs
  BY <1>2, UnitIs
<1>6. Countdown \in 0 .. 7
  <2>1. InRemaining(VecLatency) \in 0 .. 7
    BY VecUnitAssumption DEF VecLatency, InRemaining
  <2>2. unit.remaining \in 0 .. 7
    BY <1>5 DEF VecRs
  <2>3. /\ Countdown > 0
        /\ Countdown = unit.remaining - 1 \/ Countdown = InRemaining(VecLatency) - 1
    BY DEF VecCount, Countdown
  <2> QED BY <2>1, <2>2, <2>3
<1>7. /\ vec_rs' \in VecRs /\ vec_rs'.busy /\ vec_rs'.rob_tag = unit.rob_tag /\ vec_rs'.pc = unit.pc
      /\ vec_rs'.s1 = unit.s1 /\ vec_rs'.s2 = unit.s2
      /\ vec_rs'.fld = unit.fld /\ vec_rs'.elem = unit.elem
  BY <1>1, <1>5, <1>6 DEF VecCount, VecRs
<1>8. Continues(unit, vec_rs', {})
  <2>1. InRange(unit)
    BY <1>1, UnitOwns
  <2> QED BY <1>7, <2>1, SameInstruction DEF InRange, vins, IsWhole
<1> QED BY <1>1, <1>3, <1>4, <1>7, <1>8, GoesOn

\* The result of vcpop.m is a count of elements.
LEMMA VXResultIsWord == ASSUME NEW i, NEW vr, NEW vl \in 0 .. CELLS PROVE VXResult(i, vr, vl) \in Word
<1> DEFINE S == {e \in 0 .. vl - 1 : vec_elem_active(i, e, vr) /\ vmask_get(vr, i.vs2, e)}
<1>1. vl \in Int /\ 0 <= vl /\ vl <= CELLS /\ CELLS \in Nat /\ CELLS < WORD /\ WORD \in Nat
  BY VecAssumption, WordAssumption
<1>2. IsFiniteSet(0 .. vl - 1) /\ Cardinality(0 .. vl - 1) <= vl
  <2>1. 0 \in Int /\ vl - 1 \in Int
    BY <1>1
  <2>2. IsFiniteSet(0 .. vl - 1)
        /\ Cardinality(0 .. vl - 1) = IF 0 > vl - 1 THEN 0 ELSE (vl - 1) - 0 + 1
    BY <2>1, FS_Interval
  <2> QED BY <1>1, <2>2
<1>3. S \subseteq 0 .. vl - 1
  OBVIOUS
<1>4. VXResult(i, vr, vl) = Cardinality(S)
  BY DEF VXResult
<1> HIDE DEF S
<1>5. IsFiniteSet(S) /\ Cardinality(S) <= Cardinality(0 .. vl - 1)
  BY <1>2, <1>3, FS_Subset
<1>6. Cardinality(S) \in Nat /\ Cardinality(0 .. vl - 1) \in Nat
  BY <1>2, <1>5, FS_CardinalityType
<1> QED BY <1>1, <1>2, <1>4, <1>5, <1>6 DEF Word

\* Only vcpop.m has a result for the integer registers.
LEMMA ResultOfVcpop == ASSUME NEW i, i.op = "vcpop" PROVE VCat(i) = "xres"
  BY Zenon DEF VCat, VAluOps

\* The unit is free again.
LEMMA Leaves ==
  ASSUME NEW u \in VecRs
  PROVE  LET w == [u EXCEPT !.busy = FALSE, !.executing = FALSE, !.remaining = 0] IN
         w \in VecRs /\ ~w.busy
<1> DEFINE w == [u EXCEPT !.busy = FALSE, !.executing = FALSE, !.remaining = 0]
<1>1. 0 \in 0 .. 7
  OBVIOUS
<1>2. w \in VecRs
  BY <1>1, Zenon DEF VecRs
<1>3. ~w.busy
  BY DEF VecRs
<1> QED BY <1>2, <1>3

LEMMA VecCompleteKeeps == ASSUME VecCore, VecComplete PROVE VecCore'
<1> DEFINE tag == unit.rob_tag
           x == VXResult(vins, vregs, unit.vl)
           res == [t \in {tag} |-> x]
<1>1. /\ unit.busy /\ VectorFrame /\ vec_ticked' = TRUE /\ csr_vstart' = 0
      /\ vec_rs' = [unit EXCEPT !.busy = FALSE, !.executing = FALSE, !.remaining = 0]
      /\ UNCHANGED <<mem_port_used, dmem, csr_vl, csr_vtype, accesses>>
  BY DEF VecComplete, ArithRuns, IsArith, TurnEnds
<1>2. VecControlOK /\ CoreTypeOK
  BY DEF VecCore, PipeCore
<1>3. TurnControl
  BY <1>1, <1>2, VecAssumption DEF TurnControl, VecControlOK
<1>4. unit \in VecRs /\ Rest \in Seq(VecRs)
  BY <1>2, UnitIs
<1>5. vec_rs' \in VecRs /\ ~vec_rs'.busy
  <2>1. PICK u \in VecRs : u = unit
    BY <1>4
  <2>2. vec_rs' = [u EXCEPT !.busy = FALSE, !.executing = FALSE, !.remaining = 0]
    BY <1>1, <2>1
  <2> QED BY <2>2, Leaves
<1>6. tag \in Tags /\ rob[tag] \in RobEntry /\ Owns(unit)
  BY <1>1, <1>2, UnitOwns DEF CoreTypeOK
<1>7. x \in Word
  BY <1>4, VXResultIsWord DEF VecRs
<1>8. dmem' \in [0 .. MemWords - 1 -> Word] /\ mem_port_used' \in BOOLEAN
  BY <1>1, <1>2 DEF CoreTypeOK
<1>9. CASE VCat(vins) = "xres"
  <2>1. /\ rob' = [rob EXCEPT ![tag] = [@ EXCEPT !.ready = TRUE, !.value = x]]
        /\ rs' = cdb_broadcast(res)
        /\ viq' = [k \in DOMAIN Rest |-> HearBoth(Rest[k], res)]
    BY <1>9 DEF VecComplete
  <2>2. PICK e \in RobEntry : e = [rob[tag] EXCEPT !.ready = TRUE, !.value = x]
    BY <1>6, <1>7 DEF RobEntry
  <2>3. rob' = [rob EXCEPT ![tag] = e]
    BY <1>2, <1>6, <2>1, <2>2 DEF CoreTypeOK
  <2>4. /\ e.valid = rob[tag].valid /\ e.pc = rob[tag].pc /\ e.dest = rob[tag].dest
        /\ e.is_branch = rob[tag].is_branch /\ e.takes_trap = rob[tag].takes_trap
        /\ e.cause = rob[tag].cause /\ e.ready
    BY <1>6, <2>2 DEF RobEntry
  <2>5. ~(e.takes_trap /\ e.cause = CAUSE_ILLEGAL)
    BY <1>6, <2>4 DEF Owns, IsIllegal
  <2>6. PICK T : T = {tag}
    OBVIOUS
  <2>7. \E v \in Word : rs' = cdb_broadcast([t \in {tag} |-> v])
    BY <1>7, <2>1
  <2>8. Work(T) /\ Beside'
    BY <1>1, <1>8, <2>3, <2>4, <2>5, <2>6, <2>7, TurnWrites
  <2>9. res \in [T -> Word]
    BY <1>7, <2>6
  <2> HIDE DEF res, x, tag
  <2>10. /\ viq' \in Seq(VecRs) /\ Len(viq') = Len(Rest)
         /\ \A k \in 1 .. Len(Rest) : viq'[k] = HearBoth(Rest[k], res)
    BY <1>4, <2>1, <2>9, QueueHears
  <2>11. \A k \in 1 .. Len(Rest) : Continues(Rest[k], viq'[k], T)
    <3> SUFFICES ASSUME NEW k \in 1 .. Len(Rest) PROVE Continues(Rest[k], viq'[k], T)
      OBVIOUS
    <3>0. PICK v \in VecRs : v = Rest[k]
      BY <1>4
    <3>1. PICK h : v = Rest[k] /\ h = viq'[k] /\ h = HearBoth(v, res)
      BY <2>10, <3>0
    <3>2. InRange(v)
      BY <1>1, <3>1, RestContinues
    <3>3. /\ h.rob_tag = v.rob_tag /\ h.pc = v.pc /\ h.elem = v.elem /\ h.fld = v.fld
          /\ Listened(v.s1, h.s1, T) /\ Listened(v.s2, h.s2, T)
      BY <2>9, <3>1, HearBothIs
    <3>4. Continues(v, h, T)
      BY <3>2, <3>3 DEF Continues, InRange
    <3> QED BY <3>1, <3>4
  <2> QED BY <1>1, <1>3, <1>5, <2>6, <2>8, <2>10, <2>11, TurnKeeps DEF tag
<1>10. CASE VCat(vins) # "xres"
  <2>1. rob' = [rob EXCEPT ![tag].ready = TRUE] /\ viq' = Rest /\ rs' = rs
    BY <1>10 DEF VecComplete
  <2>2. PICK e \in RobEntry : e = [rob[tag] EXCEPT !.ready = TRUE]
    BY <1>6 DEF RobEntry
  <2>3. rob' = [rob EXCEPT ![tag] = e]
    BY <1>2, <1>6, <2>1, <2>2 DEF CoreTypeOK
  <2>4. /\ e.valid = rob[tag].valid /\ e.pc = rob[tag].pc /\ e.dest = rob[tag].dest
        /\ e.is_branch = rob[tag].is_branch /\ e.takes_trap = rob[tag].takes_trap
        /\ e.cause = rob[tag].cause /\ e.ready
    BY <1>6, <2>2 DEF RobEntry
  <2>5. ~(e.takes_trap /\ e.cause = CAUSE_ILLEGAL)
    BY <1>6, <2>4 DEF Owns, IsIllegal
  <2>6. PICK T : T = {tag}
    OBVIOUS
  <2>7. rob[tag].dest = X0
    BY <1>6, <1>10, ResultOfVcpop DEF Owns, vins
  <2>8. Work(T) /\ Beside'
    BY <1>1, <1>8, <2>1, <2>3, <2>4, <2>5, <2>6, <2>7, TurnWrites
  <2> QED BY <1>1, <1>3, <1>5, <2>1, <2>6, <2>7, <2>8, Ends
<1> QED BY <1>9, <1>10

LEMMA VecWaitKeeps == ASSUME VecCore, VecWait PROVE VecCore'
<1>1. /\ VectorFrame /\ viq' = Rest /\ vec_ticked' = TRUE /\ vec_rs' = unit
      /\ UNCHANGED <<rob, rs, mem_port_used, dmem, vcsrs, accesses>>
  BY DEF VecWait, TakenFromQueue, TurnEnds
<1>2. VecControlOK /\ CoreTypeOK /\ QueueInv /\ NoSpeculativeVector
  BY DEF VecCore, PipeCore
<1>3. TurnControl
  BY <1>1, <1>2 DEF TurnControl, VecControlOK, vcsrs
<1>4. Work({}) /\ Beside'
  BY <1>1, <1>2, TurnQuiet DEF CoreTypeOK
<1>5. unit \in VecRs /\ Rest \in Seq(VecRs) /\ Len(Rest) <= VIQ_SZ
  BY <1>2, UnitIs
<1>6. CASE unit.busy
  <2>1. InRange(unit)
    BY <1>6, UnitOwns
  <2>2. Continues(unit, vec_rs', {})
    BY <1>1, <1>5, <2>1, SameInstruction DEF InRange, vins, IsWhole
  <2> QED BY <1>1, <1>3, <1>4, <1>5, <1>6, <2>2, GoesOn
<1>7. CASE ~unit.busy
  <2>1. Pending = <<>> /\ viq' = <<>> /\ viq' \in Seq(VecRs) /\ vec_rs' \in VecRs /\ ~vec_rs'.busy
    BY <1>1, <1>2, <1>5, <1>7, UnitIs
  <2>2. Pending' = <<>>
    BY <2>1, PendingWillBe
  <2>0. PICK P \in Seq(VecRs), d \in 0 .. 1 : P = <<>> /\ d = 0
    <3>1. <<>> \in Seq(VecRs) /\ 0 \in 0 .. 1
      OBVIOUS
    <3> QED BY <3>1, Zenon
  <2>3. PICK T : P = <<>> /\ d = 0 /\ T = {}
    BY <2>0
  <2>4. Remains(P, P, T, d)
    BY <2>3 DEF Remains
  <2>5. Holds(P)
    BY <1>2, <2>1, <2>3 DEF QueueInv
  <2>6. Holds(P)' /\ NoSpeculativeVector'
    BY <1>2, <1>4, <2>3, <2>4, <2>5, WorkHolds
  <2>7. QueueInv'
    BY <2>2, <2>3, <2>6 DEF QueueInv, Holds
  <2>8. VecControlOK'
    BY <1>1, <1>2, <1>3, <1>5 DEF VecControlOK, TurnControl, VectorFrame
  <2> QED BY <1>4, <2>6, <2>7, <2>8 DEF VecCore, Beside
<1> QED BY <1>6, <1>7

\* A turn of the vector LSU: what the instruction in the unit is, the length
\* that counts and the registers written.
LEMMA VlsuTurn ==
  ASSUME VecCore, VlsuMayExecute, VectorFrame, Trim, vec_ticked' = TRUE,
         csr_vtype' = csr_vtype, csr_vstart' \in {0, csr_vstart}, accesses' \in {accesses, accesses + 1}
  PROVE  /\ unit.busy /\ unit \in VecRs /\ TurnControl
         /\ vl_eff \in 0 .. CELLS /\ vl_eff <= unit.vl
         /\ unit.rob_tag \in Tags /\ rob[unit.rob_tag] \in RobEntry /\ rob[unit.rob_tag].dest = X0
         /\ ~rob[unit.rob_tag].ready /\ ~IsIllegal(unit.rob_tag)
         /\ unit.fld \in 0 .. 1 /\ unit.elem \in 0 .. CELLS
         /\ vins.nf \in 0 .. 1 /\ unit.fld <= vins.nf
         /\ IsWhole => unit.elem < WordsPerReg
         /\ WordsPerReg \in Nat /\ WordsPerReg >= 1 /\ WordsPerReg <= CELLS /\ CELLS \in Nat
<1>1. unit.busy /\ vins.op \in VMemOps
  BY DEF VlsuMayExecute, IsMem
<1>2. VecControlOK /\ CoreTypeOK
  BY DEF VecCore, PipeCore
<1>3. unit \in VecRs
  BY <1>2, UnitIs
<1>4. unit.rob_tag \in Tags /\ Owns(unit) /\ InRange(unit) /\ vins \in VInstr
  BY <1>1, UnitOwns
<1>5. vins.op # "vcpop"
  BY <1>1 DEF VMemOps
<1>6. /\ rob[unit.rob_tag] \in RobEntry /\ rob[unit.rob_tag].dest = X0
      /\ ~rob[unit.rob_tag].ready /\ ~IsIllegal(unit.rob_tag)
  BY <1>2, <1>4, <1>5 DEF Owns, vins, CoreTypeOK
<1>7. /\ CELLS \in Nat /\ CELLS >= 1 /\ WordsPerReg \in Nat /\ WordsPerReg >= 1 /\ WordsPerReg <= CELLS
      /\ vl_eff \in 0 .. CELLS /\ vl_eff <= unit.vl
  BY <1>2, UnitBounds
<1>8. unit.fld \in 0 .. 1 /\ unit.elem \in 0 .. CELLS
  BY <1>3 DEF VecRs
<1>9. vins.nf \in 0 .. 1
  BY <1>4 DEF VInstr
<1>10. unit.fld <= vins.nf /\ (IsWhole => unit.elem < WordsPerReg)
  BY <1>4 DEF InRange, IsWhole, vins
<1>11. TurnControl
  BY <1>2, <1>7 DEF TurnControl, VecControlOK, Trim
<1> QED BY <1>1, <1>3, <1>4, <1>6, <1>7, <1>8, <1>9, <1>10, <1>11

\* A fault leaves the identity of the entry, and makes it no illegal instruction.
LEMMA MarkedIs ==
  ASSUME NEW r \in RobEntry
  PROVE  LET m == Marked(r) IN
         /\ m \in RobEntry /\ m.valid = r.valid /\ m.pc = r.pc /\ m.dest = r.dest
         /\ m.is_branch = r.is_branch /\ m.ready = r.ready
         /\ ~(r.takes_trap /\ r.cause = CAUSE_ILLEGAL) => ~(m.takes_trap /\ m.cause = CAUSE_ILLEGAL)
<1>1. CAUSE_LOAD_FAULT \in Word /\ CAUSE_LOAD_FAULT # CAUSE_ILLEGAL
  BY WordAssumption DEF Word, CAUSE_LOAD_FAULT, CAUSE_ILLEGAL
<1>2. PICK m : m = Marked(r)
  OBVIOUS
<1>3. CASE FofFault
  <2>1. m = [r EXCEPT !.takes_trap = TRUE, !.cause = CAUSE_LOAD_FAULT]
    BY <1>2, <1>3 DEF Marked
  <2>2. /\ m \in RobEntry /\ m.valid = r.valid /\ m.pc = r.pc /\ m.dest = r.dest
        /\ m.is_branch = r.is_branch /\ m.ready = r.ready /\ m.cause = CAUSE_LOAD_FAULT
    BY <1>1, <2>1 DEF RobEntry
  <2> QED BY <1>1, <1>2, <2>2
<1>4. CASE ~FofFault
  <2>1. m = r
    BY <1>2, <1>4 DEF Marked
  <2> QED BY <1>2, <2>1
<1> QED BY <1>3, <1>4

\* The entry of the instruction in the unit is marked, and may complete.
LEMMA VlsuMarks ==
  ASSUME VecCore, VlsuMayExecute, VectorFrame, UNCHANGED rs,
         NEW e, rob' = [rob EXCEPT ![unit.rob_tag] = e],
         NEW T,
         \/ e = [Marked(rob[unit.rob_tag]) EXCEPT !.ready = TRUE] /\ T = {unit.rob_tag}
         \/ e = Marked(rob[unit.rob_tag]) /\ T = {},
         dmem' \in [0 .. MemWords - 1 -> Word], mem_port_used' \in BOOLEAN
  PROVE  Work(T) /\ Beside'
<1>1. unit.busy /\ vins.op \in VMemOps
  BY DEF VlsuMayExecute, IsMem
<1>2. unit.rob_tag \in Tags /\ Owns(unit)
  BY <1>1, UnitOwns
<1>3. rob \in [Tags -> RobEntry]
  BY DEF VecCore, PipeCore, CoreTypeOK
<1>4. PICK r \in RobEntry : r = rob[unit.rob_tag]
  BY <1>2, <1>3
<1>5. r.dest = X0 /\ ~(r.takes_trap /\ r.cause = CAUSE_ILLEGAL) /\ ~r.ready
  BY <1>1, <1>2, <1>4 DEF Owns, IsIllegal, vins, VMemOps
<1>6. PICK m \in RobEntry :
        /\ m = Marked(r) /\ m.valid = r.valid /\ m.pc = r.pc /\ m.dest = r.dest
        /\ m.is_branch = r.is_branch /\ m.ready = r.ready
        /\ ~(m.takes_trap /\ m.cause = CAUSE_ILLEGAL)
  BY <1>5, MarkedIs
<1>7. /\ e \in RobEntry /\ e.valid = r.valid /\ e.pc = r.pc /\ e.dest = r.dest
      /\ e.is_branch = r.is_branch
      /\ ~(e.takes_trap /\ e.cause = CAUSE_ILLEGAL)
      /\ T = IF e.ready THEN {unit.rob_tag} ELSE {}
  <2>1. CASE e = [m EXCEPT !.ready = TRUE] /\ T = {unit.rob_tag}
    BY <1>6, <2>1 DEF RobEntry
  <2>2. CASE e = m /\ T = {}
    BY <1>5, <1>6, <2>2
  <2> QED BY <1>4, <1>6, <2>1, <2>2
<1> QED BY <1>1, <1>4, <1>5, <1>7, TurnWrites

LEMMA VlsuDoneKeeps ==
  ASSUME VecCore, VlsuMayExecute, VlsuDone, VectorFrame, Trim, TakenFromQueue, UNCHANGED <<rs, csr_vtype>>,
         accesses' \in {accesses, accesses + 1},
         dmem' \in [0 .. MemWords - 1 -> Word], mem_port_used' \in BOOLEAN
  PROVE  VecCore'
<1>1. viq' = Rest /\ vec_ticked' = TRUE
  BY DEF TakenFromQueue, TurnEnds
<1>2. csr_vstart' \in {0, csr_vstart}
  BY DEF VlsuDone
<1>3. /\ unit.busy /\ unit \in VecRs /\ TurnControl /\ vl_eff \in 0 .. CELLS
      /\ unit.rob_tag \in Tags /\ rob[unit.rob_tag] \in RobEntry /\ rob[unit.rob_tag].dest = X0
  BY <1>1, <1>2, VlsuTurn
<1>4. PICK e : /\ e = [Marked(rob[unit.rob_tag]) EXCEPT !.ready = TRUE]
               /\ rob' = [rob EXCEPT ![unit.rob_tag] = e]
  BY DEF VlsuDone
<1>5. PICK T : T = {unit.rob_tag}
  OBVIOUS
<1>6. Work(T) /\ Beside'
  BY <1>4, <1>5, VlsuMarks
<1>7. vec_rs' \in VecRs /\ ~vec_rs'.busy
  <2>1. PICK u \in VecRs, n \in 0 .. CELLS : u = unit /\ n = vl_eff
    BY <1>3
  <2>2. vec_rs' = [u EXCEPT !.busy = FALSE, !.vl = n]
    BY <2>1 DEF VlsuDone
  <2> QED BY <2>2 DEF VecRs
<1> QED BY <1>1, <1>3, <1>5, <1>6, <1>7, Ends

LEMMA VlsuGoesOn ==
  ASSUME VecCore, VlsuMayExecute, VectorFrame, Trim, TakenFromQueue, UNCHANGED <<csr_vtype, csr_vstart>>,
         accesses' \in {accesses, accesses + 1}, Work({}), Beside',
         NEW e \in 0 .. CELLS, NEW f \in 0 .. 1, NEW n \in 0 .. CELLS,
         vec_rs' = [unit EXCEPT !.elem = e, !.fld = f, !.vl = n],
         f <= vins.nf, IsWhole => e < WordsPerReg
  PROVE  VecCore'
<1>1. viq' = Rest /\ vec_ticked' = TRUE
  BY DEF TakenFromQueue, TurnEnds
<1>2. unit.busy /\ unit \in VecRs /\ TurnControl
  BY <1>1, VlsuTurn
<1>0. PICK u \in VecRs : u = unit
  BY <1>2
<1>3. PICK w : u = unit /\ w = vec_rs' /\ w = [u EXCEPT !.elem = e, !.fld = f, !.vl = n]
  BY <1>0
<1>4. /\ w \in VecRs /\ w.busy /\ w.rob_tag = u.rob_tag /\ w.pc = u.pc
      /\ w.s1 = u.s1 /\ w.s2 = u.s2 /\ w.fld = f /\ w.elem = e
  BY <1>2, <1>3 DEF VecRs
<1>5. Continues(unit, w, {})
  BY <1>3, <1>4, SameInstruction
<1>6. vec_rs' \in VecRs /\ vec_rs'.busy /\ Continues(unit, vec_rs', {})
  BY <1>3, <1>4, <1>5
<1> QED BY <1>1, <1>2, <1>6, GoesOn

\* Where the unit goes after the element it stands on.
LEMMA NextElemIs ==
  ASSUME VecCore, unit.busy, unit \in VecRs, vl_eff \in 0 .. CELLS,
         unit.fld \in 0 .. 1, unit.elem \in 0 .. CELLS, vins.nf \in 0 .. 1, unit.fld <= vins.nf,
         CELLS \in Nat, WordsPerReg \in Nat, WordsPerReg >= 1, WordsPerReg <= CELLS,
         IsWhole => unit.elem < WordsPerReg, ~IsWhole => unit.elem < vl_eff,
         ~(IsWhole /\ Finishes)
  PROVE  \E e \in 0 .. CELLS, f \in 0 .. 1, n \in 0 .. CELLS :
           /\ NextElem = [unit EXCEPT !.elem = e, !.fld = f, !.vl = n]
           /\ f <= vins.nf /\ (IsWhole => e < WordsPerReg)
<1>1. unit.vl \in 0 .. CELLS
  BY DEF VecRs
<1>2. CASE IsWhole /\ unit.elem + 1 = WordsPerReg /\ unit.fld < vins.nf
  <2>1. PICK e \in 0 .. CELLS, f \in 0 .. 1, n \in 0 .. CELLS : e = 0 /\ f = unit.fld + 1 /\ n = unit.vl
    BY <1>1, <1>2
  <2>2. NextElem = [unit EXCEPT !.elem = e, !.fld = f]
    BY <1>2, <2>1 DEF NextElem
  <2>3. [unit EXCEPT !.elem = e, !.fld = f] = [unit EXCEPT !.elem = e, !.fld = f, !.vl = n]
    BY <2>1 DEF VecRs
  <2>4. f <= vins.nf /\ e < WordsPerReg
    BY <1>2, <2>1
  <2> QED BY <2>2, <2>3, <2>4
<1>3. CASE ~(IsWhole /\ unit.elem + 1 = WordsPerReg /\ unit.fld < vins.nf)
  <2>0. IsWhole => unit.elem + 1 < WordsPerReg
    BY <1>3 DEF Finishes
  <2>1. PICK e \in 0 .. CELLS, f \in 0 .. 1, n \in 0 .. CELLS :
          e = unit.elem + 1 /\ f = unit.fld /\ n = vl_eff
    BY <1>1, <2>0
  <2>2. NextElem = [unit EXCEPT !.elem = e, !.vl = n]
    BY <1>3, <2>1 DEF NextElem
  <2>3. [unit EXCEPT !.elem = e, !.vl = n] = [unit EXCEPT !.elem = e, !.fld = f, !.vl = n]
    BY <2>1 DEF VecRs
  <2> QED BY <2>0, <2>1, <2>2, <2>3
<1> QED BY <1>2, <1>3

LEMMA VlsuEndOfFieldKeeps == ASSUME VecCore, VlsuEndOfField PROVE VecCore'
<1>1. /\ VlsuMayExecute /\ ~IsWhole /\ unit.elem >= vl_eff
      /\ Trim /\ TakenFromQueue /\ VectorFrame /\ vec_ticked' = TRUE
      /\ UNCHANGED <<rs, mem_port_used, dmem, csr_vtype, accesses>>
  BY DEF VlsuEndOfField, TakenFromQueue, TurnEnds
<1>2. CoreTypeOK /\ VecControlOK
  BY DEF VecCore, PipeCore
<1>3. dmem' \in [0 .. MemWords - 1 -> Word] /\ mem_port_used' \in BOOLEAN
  BY <1>1, <1>2 DEF CoreTypeOK
<1>4. accesses' \in {accesses, accesses + 1}
  BY <1>1
<1>5. CASE Finishes
  <2>1. VlsuDone
    BY <1>5 DEF VlsuEndOfField
  <2> QED BY <1>1, <1>3, <1>4, <2>1, VlsuDoneKeeps
<1>6. CASE ~Finishes
  <2>1. /\ vec_rs' = [unit EXCEPT !.fld = unit.fld + 1, !.elem = 0, !.vl = vl_eff]
        /\ rob' = [rob EXCEPT ![unit.rob_tag] = Marked(@)]
        /\ csr_vstart' = csr_vstart
    BY <1>6 DEF VlsuEndOfField
  <2>2. /\ unit.busy /\ unit \in VecRs /\ vl_eff \in 0 .. CELLS
        /\ unit.rob_tag \in Tags /\ rob[unit.rob_tag] \in RobEntry /\ ~rob[unit.rob_tag].ready
        /\ unit.fld \in 0 .. 1 /\ vins.nf \in 0 .. 1 /\ unit.fld <= vins.nf /\ CELLS \in Nat
    BY <1>1, <1>4, <2>1, VlsuTurn
  <2>3. PICK m : m = Marked(rob[unit.rob_tag]) /\ rob' = [rob EXCEPT ![unit.rob_tag] = m]
    BY <2>1
  <2>4. PICK T : T = {}
    OBVIOUS
  <2>5. Work({}) /\ Beside'
    BY <1>1, <1>3, <2>3, <2>4, VlsuMarks
  <2>6. unit.fld + 1 <= vins.nf /\ unit.fld + 1 \in 0 .. 1
    BY <1>1, <1>6, <2>2 DEF Finishes
  <2>7. PICK e \in 0 .. CELLS, f \in 0 .. 1, n \in 0 .. CELLS : e = 0 /\ f = unit.fld + 1 /\ n = vl_eff
    BY <2>2, <2>6
  <2>8. vec_rs' = [unit EXCEPT !.elem = e, !.fld = f, !.vl = n]
    BY <2>1, <2>2, <2>7 DEF VecRs
  <2> QED BY <1>1, <1>4, <2>1, <2>5, <2>6, <2>7, <2>8, VlsuGoesOn
<1> QED BY <1>5, <1>6

\* Nothing completes and the unit goes to the next element.
LEMMA VlsuNext ==
  ASSUME VecCore, VlsuMayExecute, VectorFrame, Trim, TakenFromQueue,
         UNCHANGED <<rob, rs, csr_vtype, csr_vstart>>, accesses' \in {accesses, accesses + 1},
         dmem' \in [0 .. MemWords - 1 -> Word], mem_port_used' \in BOOLEAN,
         ~IsWhole => unit.elem < vl_eff, ~(IsWhole /\ Finishes), vec_rs' = NextElem
  PROVE  VecCore'
<1>1. Work({}) /\ Beside'
  BY TurnQuiet
<1>2. vec_ticked' = TRUE
  BY DEF TakenFromQueue, TurnEnds
<1>3. /\ unit.busy /\ unit \in VecRs /\ vl_eff \in 0 .. CELLS
      /\ unit.fld \in 0 .. 1 /\ unit.elem \in 0 .. CELLS /\ vins.nf \in 0 .. 1 /\ unit.fld <= vins.nf
      /\ IsWhole => unit.elem < WordsPerReg
      /\ WordsPerReg \in Nat /\ WordsPerReg >= 1 /\ WordsPerReg <= CELLS /\ CELLS \in Nat
  BY <1>2, VlsuTurn
<1>4. PICK e \in 0 .. CELLS, f \in 0 .. 1, n \in 0 .. CELLS :
        /\ NextElem = [unit EXCEPT !.elem = e, !.fld = f, !.vl = n]
        /\ f <= vins.nf /\ (IsWhole => e < WordsPerReg)
  BY <1>3, NextElemIs
<1> QED BY <1>1, <1>4, VlsuGoesOn

LEMMA VlsuSkipKeeps == ASSUME VecCore, VlsuSkip PROVE VecCore'
<1>1. /\ VlsuMayExecute /\ ~IsWhole /\ unit.elem < vl_eff /\ vec_rs' = NextElem
      /\ Trim /\ TakenFromQueue /\ VectorFrame
      /\ UNCHANGED <<rob, rs, mem_port_used, dmem, csr_vtype, csr_vstart, accesses>>
  BY DEF VlsuSkip
<1>2. dmem' \in [0 .. MemWords - 1 -> Word] /\ mem_port_used' \in BOOLEAN
  BY <1>1 DEF VecCore, PipeCore, CoreTypeOK
<1> QED BY <1>1, <1>2, VlsuNext

LEMMA VlsuMoveKeeps ==
  ASSUME VecCore, VlsuMove, dmem' \in [0 .. MemWords - 1 -> Word] PROVE VecCore'
<1>1. /\ VlsuMayExecute /\ Moves /\ Trim /\ TakenFromQueue /\ VectorFrame
      /\ accesses' = accesses + 1 /\ mem_port_used' = TRUE
      /\ UNCHANGED <<rs, csr_vtype>>
  BY DEF VlsuMove, axi_grant
<1>2. accesses' \in {accesses, accesses + 1} /\ mem_port_used' \in BOOLEAN
  BY <1>1
<1>3. CASE IsWhole /\ Finishes
  <2>1. VlsuDone
    BY <1>3 DEF VlsuMove
  <2> QED BY <1>1, <1>2, <2>1, VlsuDoneKeeps
<1>4. CASE ~(IsWhole /\ Finishes)
  <2>1. vec_rs' = NextElem /\ UNCHANGED <<rob, csr_vstart>>
    BY <1>4 DEF VlsuMove
  <2>2. ~IsWhole => unit.elem < vl_eff
    BY <1>1 DEF Moves
  <2> QED BY <1>1, <1>2, <1>4, <2>1, <2>2, VlsuNext
<1> QED BY <1>3, <1>4

LEMMA VlsuRefusedKeeps == ASSUME VecCore, VlsuRefused PROVE VecCore'
<1>1. /\ VlsuMayExecute /\ vec_rs' = [unit EXCEPT !.vl = IF IsWhole THEN @ ELSE vl_eff]
      /\ Trim /\ TakenFromQueue /\ VectorFrame
      /\ UNCHANGED <<rob, rs, mem_port_used, dmem, csr_vtype, csr_vstart, accesses>>
  BY DEF VlsuRefused
<1>2. dmem' \in [0 .. MemWords - 1 -> Word] /\ mem_port_used' \in BOOLEAN
  BY <1>1 DEF VecCore, PipeCore, CoreTypeOK
<1>3. vec_ticked' = TRUE /\ accesses' \in {accesses, accesses + 1}
  BY <1>1 DEF TakenFromQueue, TurnEnds
<1>4. /\ unit.busy /\ unit \in VecRs /\ vl_eff \in 0 .. CELLS
      /\ unit.fld \in 0 .. 1 /\ unit.elem \in 0 .. CELLS /\ unit.fld <= vins.nf
      /\ IsWhole => unit.elem < WordsPerReg
  BY <1>1, <1>3, VlsuTurn
<1>5. unit.vl \in 0 .. CELLS
  BY <1>4 DEF VecRs
<1>6. PICK e \in 0 .. CELLS, f \in 0 .. 1, n \in 0 .. CELLS :
        e = unit.elem /\ f = unit.fld /\ n = IF IsWhole THEN unit.vl ELSE vl_eff
  BY <1>4, <1>5
<1>7. vec_rs' = [unit EXCEPT !.elem = e, !.fld = f, !.vl = n]
  BY <1>1, <1>4, <1>6 DEF VecRs
<1>8. Work({}) /\ Beside'
  BY <1>1, <1>2, TurnQuiet
<1> QED BY <1>1, <1>3, <1>4, <1>6, <1>7, <1>8, VlsuGoesOn

LEMMA VecUnitKeeps ==
  ASSUME VecCore, VecUnit, dmem' \in [0 .. MemWords - 1 -> Word] PROVE VecCore'
<1>1. CASE VecCount
  BY <1>1, VecCountKeeps
<1>2. CASE VecComplete
  BY <1>2, VecCompleteKeeps
<1>3. CASE VecWait
  BY <1>3, VecWaitKeeps
<1>4. CASE VlsuEndOfField
  BY <1>4, VlsuEndOfFieldKeeps
<1>5. CASE VlsuSkip
  BY <1>5, VlsuSkipKeeps
<1>6. CASE VlsuMove
  BY <1>6, VlsuMoveKeeps
<1>7. CASE VlsuRefused
  BY <1>7, VlsuRefusedKeeps
<1> QED BY <1>1, <1>2, <1>3, <1>4, <1>5, <1>6, <1>7 DEF VecUnit

-----------------------------------------------------------------------------
(* The scalar blocks.                                                      *)

\* The entries of T, of which nobody waits for a result, complete.
LEMMA QuietHolds ==
  ASSUME VecCore, NEW T, Work(T), UNCHANGED queue, \A t \in T : rob[t].dest = X0 /\ ~IsVector(t)
  PROVE  QueueInv' /\ NoSpeculativeVector'
<1>0. PICK d \in 0 .. 1 : d = 0
  OBVIOUS
<1>1. PICK P \in Seq(VecRs) : P = Pending
  BY PendingIs DEF VecCore
<1>2. Pending' = P
  BY <1>1 DEF queue, Pending
<1>3. CoreTypeOK /\ NoSpeculativeVector /\ Holds(P)
  BY <1>1 DEF VecCore, PipeCore, QueueInv
<1>4. ASSUME NEW i \in 1 .. Len(P) PROVE Continues(P[i + d], P[i], T) /\ P[i].rob_tag \notin T
  <2>1. i + d = i
    BY <1>0
  <2>2. /\ Owns(P[i]) /\ InRange(P[i])
        /\ Awaits(P[i].s1, P[i].rob_tag) /\ Awaits(P[i].s2, P[i].rob_tag)
    BY <1>3 DEF Holds
  <2>3. IsVector(P[i].rob_tag)
    BY <2>2 DEF Owns, IsVector, VecOps
  <2> QED BY <2>1, <2>2, <2>3 DEF Continues, Listened, Awaits
<1>5. Remains(P, P, T, d)
  BY <1>0, <1>4 DEF Remains
<1>6. Holds(P)' /\ NoSpeculativeVector'
  BY <1>3, <1>5, WorkHolds
<1> QED BY <1>2, <1>6 DEF QueueInv, Holds

\* A block of the scalar core that leaves the queue alone, or whose results
\* the queue hears.
LEMMA BlockKeeps ==
  ASSUME VecCore, PipeCore', BranchAccounting', SysDecoded', QueueInv', NoSpeculativeVector',
         prog' = prog, UNCHANGED <<vregs, vcsrs>>,
         viq' \in Seq(VecRs), Len(viq') <= VIQ_SZ, vec_rs' \in VecRs,
         vec_ticked' \in BOOLEAN, accesses' \in Nat
  PROVE  VecCore'
  BY DEF VecCore, VecControlOK, vcsrs

LEMMA SysKept ==
  ASSUME SysDecoded, prog' = prog, rs'["sys"].busy => rs["sys"].busy /\ rs'["sys"].pc = rs["sys"].pc
  PROVE  SysDecoded'
  BY DEF SysDecoded, InsOf

\* The commit that drops the pipeline drops the queue with it.
LEMMA FlushesQueue ==
  ASSUME VecCore, NEW p, Redirect(p), VecFlush, prog' = prog
  PROVE  /\ BranchAccounting' /\ SysDecoded' /\ QueueInv' /\ NoSpeculativeVector'
         /\ viq' \in Seq(VecRs) /\ Len(viq') <= VIQ_SZ /\ vec_rs' \in VecRs
<1>1. CoreTypeOK /\ VecControlOK
  BY DEF VecCore, PipeCore
<1>2. PipelineFlush
  BY DEF Redirect
<1>3. BranchAccounting'
  BY <1>1, FlushCounts
<1>4. "sys" \in Units /\ ~rs'["sys"].busy
  BY <1>1, <1>2, FlushTyped DEF Units
<1>5. SysDecoded'
  BY <1>4 DEF SysDecoded
<1>6. viq' = <<>> /\ viq' \in Seq(VecRs) /\ Len(viq') <= VIQ_SZ
  BY VecUnitAssumption DEF VecFlush
<1>7. vec_rs' \in VecRs /\ ~vec_rs'.busy
  BY <1>1 DEF VecFlush, VecControlOK, VecRs
<1>8. Pending' = <<>>
  BY <1>6, <1>7, PendingWillBe
<1>9. Holds(<<>>)' /\ NoSpeculativeVector'
  BY <1>1, <1>2, FlushHolds
<1> QED BY <1>3, <1>5, <1>6, <1>7, <1>8, <1>9 DEF QueueInv, Holds

LEMMA VecCommitKeeps == ASSUME VecCore, VecCommit PROVE VecCore'
<1>1. /\ CoreTypeOK /\ RobWindow /\ PipeCore /\ BranchAccounting /\ VecControlOK /\ SysDecoded
      /\ QueueInv /\ NoSpeculativeVector
  BY DEF VecCore, PipeCore, PipelineInv
<1>2. CommitStage
  BY DEF VecCommit, CommitStage
<1>3. PipeCore'
  BY <1>1, <1>2, CommitTyped, CommitKeeps DEF PipeCore
<1>4. UNCHANGED <<vregs, vcsrs, vec_ticked>> /\ vec_ticked' \in BOOLEAN /\ accesses' \in Nat
  BY <1>1 DEF VecCommit, VecControlOK
<1>5. CASE (TakeInterrupt \/ CommitMispredict \/ CommitMret \/ CommitTrap) /\ VecFlush
  <2>1. PICK p : Redirect(p) /\ prog' = prog
    BY <1>5 DEF TakeInterrupt, CommitMispredict, CommitMret, CommitTrap
  <2> QED BY <1>3, <1>4, <1>5, <2>1, FlushesQueue, BlockKeeps
<1>6. CASE (CommitBranch \/ CommitHalt \/ CommitStore \/ CommitRegister) /\ UNCHANGED queue
  <2>1. HeadReady /\ Retire /\ prog' = prog /\ rs' = rs
    BY <1>6 DEF CommitBranch, CommitHalt, CommitStore, CommitRegister, CommitPlain, Commit
  <2>2. branch_pending' = IF HeadEntry.is_branch THEN branch_pending - 1 ELSE branch_pending
    <3>1. HeadEntry.is_branch => branch_pending > 0
      BY <1>1, <2>1, BranchIsCounted
    <3> QED BY <1>6, <3>1 DEF CommitBranch, CommitHalt, CommitStore, CommitRegister, CommitPlain
  <2>3. BranchAccounting'
    BY <1>1, <2>1, <2>2, RetireCounts
  <2>4. SysDecoded'
    BY <1>1, <2>1, SysKept
  <2>5. PICK P \in Seq(VecRs) : P = Pending
    BY <1>1, PendingIs
  <2>6. Holds(P)' /\ NoSpeculativeVector'
    BY <1>1, <2>1, <2>5, RetireHolds DEF QueueInv
  <2>7. Pending' = P
    BY <1>6, <2>5 DEF queue, Pending
  <2>8. QueueInv'
    BY <2>6, <2>7 DEF QueueInv, Holds
  <2>9. viq' = viq /\ vec_rs' = vec_rs
    BY <1>6 DEF queue
  <2> QED BY <1>1, <1>3, <1>4, <2>1, <2>3, <2>4, <2>6, <2>8, <2>9, BlockKeeps DEF VecControlOK
<1>7. CASE NoCommit /\ UNCHANGED queue
  <2>1. UNCHANGED <<prog, rob, rob_head, rob_tail, rob_count, rs, branch_pending>>
    BY <1>7 DEF NoCommit, robs
  <2>2. Work({})
    BY <2>1 DEF Work, IsIllegal
  <2>3. QueueInv' /\ NoSpeculativeVector'
    BY <1>7, <2>2, QuietHolds
  <2>4. BranchAccounting'
    BY <1>1, <2>1, KeptCounts
  <2>5. SysDecoded'
    BY <1>1, <2>1, SysKept
  <2>6. viq' = viq /\ vec_rs' = vec_rs
    BY <1>7 DEF queue
  <2> QED BY <1>1, <1>3, <1>4, <2>1, <2>3, <2>4, <2>5, <2>6, BlockKeeps DEF VecControlOK
<1> QED BY <1>5, <1>6, <1>7 DEF VecCommit

\* Entries of scalar instructions complete, and the queue hears their results.
LEMMA ResultsHeard ==
  ASSUME VecCore, NEW T, NEW res \in [T -> Word], VecHear(res), ScalarWork(T), UNCHANGED branch_pending
  PROVE  /\ QueueInv' /\ NoSpeculativeVector' /\ BranchAccounting'
         /\ viq' \in Seq(VecRs) /\ Len(viq') <= VIQ_SZ /\ vec_rs' \in VecRs
<1>1. VecControlOK /\ QueueInv /\ BranchAccounting
  BY DEF VecCore
<1>2. /\ viq' \in Seq(VecRs) /\ Len(viq') <= VIQ_SZ /\ vec_rs' \in VecRs
      /\ Len(Pending') = Len(Pending)
      /\ \A i \in 1 .. Len(Pending') : Continues(Pending[i], Pending'[i], T)
  BY <1>1, PendingHears
<1>3. QueueInv' /\ NoSpeculativeVector'
  BY <1>2, ScalarHolds
<1>4. BranchAccounting'
  BY <1>1, KeptCounts DEF ScalarWork
<1> QED BY <1>2, <1>3, <1>4

LEMMA VecExecuteKeeps == ASSUME VecCore, VecExecute PROVE VecCore'
<1>1. CoreTypeOK /\ PipeCore /\ VecControlOK /\ SysDecoded
  BY DEF VecCore, PipeCore
<1>2. Execute /\ VecHear(Results) /\ UNCHANGED <<vregs, vcsrs, vec_ticked, accesses>>
  BY DEF VecExecute
<1>3. PipeCore'
  BY <1>1, <1>2, ExecuteTyped, ExecuteKeeps DEF PipeCore
<1>4. PICK T : T = DOMAIN Results /\ Results \in [T -> Word]
  BY <1>1, ResultsTyped
<1>5. UNCHANGED <<prog, rob_head, rob_tail, rob_count, branch_pending>>
  BY <1>2 DEF Execute
<1>6. \A t \in T : ~IsVector(t)
  BY <1>4, ScalarTags DEF Results, Done, Units
<1>7. ScalarWork(T)
  <2> SUFFICES ASSUME NEW t \in Tags
               PROVE  /\ rob'[t].pc = rob[t].pc /\ rob'[t].dest = rob[t].dest
                      /\ rob'[t].is_branch = rob[t].is_branch
                      /\ rob'[t].takes_trap = rob[t].takes_trap /\ rob'[t].cause = rob[t].cause
                      /\ rob'[t].ready <=> rob[t].ready \/ t \in T
    BY <1>5, <1>6 DEF ScalarWork
  <2> QED BY <1>1, <1>2, <1>4, ExecuteEntry
<1>8. /\ QueueInv' /\ NoSpeculativeVector' /\ BranchAccounting'
      /\ viq' \in Seq(VecRs) /\ Len(viq') <= VIQ_SZ /\ vec_rs' \in VecRs
  BY <1>2, <1>4, <1>5, <1>7, ResultsHeard
<1>9. SysDecoded'
  <2>1. "sys" \in Units /\ "sys" \notin Done
    BY DEF Units, Done, TimedUnits, AluUnits
  <2>2. rs'["sys"].busy = rs["sys"].busy /\ rs'["sys"].pc = rs["sys"].pc
    BY <1>1, <1>2, <2>1, ExecuteStation
  <2> QED BY <1>1, <1>5, <2>2, SysKept
<1> QED BY <1>1, <1>2, <1>3, <1>5, <1>8, <1>9, BlockKeeps DEF VecControlOK

\* A unit at the head delivers its result to the core and to the queue.
LEMMA DeliversToBoth ==
  ASSUME VecCore, NEW w \in Units, rs[w].busy, NEW v \in Word, Delivers(w, v),
         VecHear([t \in {rs[w].rob_tag} |-> v]), CoreTypeOK',
         UNCHANGED <<branch_pending, vregs, csr_vl, csr_vtype>>, csr_vstart' \in 0 .. CELLS - 1,
         vec_ticked' \in BOOLEAN, accesses' \in Nat
  PROVE  VecCore'
<1>1. CoreTypeOK /\ PipeCore /\ VecControlOK /\ SysDecoded
  BY DEF VecCore, PipeCore
<1>2. PipeCore'
  BY <1>1, DeliverKeeps DEF PipeCore
<1>3. PICK T : T = {rs[w].rob_tag} /\ [t \in {rs[w].rob_tag} |-> v] \in [T -> Word]
  OBVIOUS
<1>4. UNCHANGED <<prog, rob_head, rob_tail, rob_count>>
  BY DEF Delivers
<1>5. \A t \in T : ~IsVector(t)
  BY <1>3, ScalarTags
<1>6. ScalarWork(T)
  <2> SUFFICES ASSUME NEW t \in Tags
               PROVE  /\ rob'[t].pc = rob[t].pc /\ rob'[t].dest = rob[t].dest
                      /\ rob'[t].is_branch = rob[t].is_branch
                      /\ rob'[t].takes_trap = rob[t].takes_trap /\ rob'[t].cause = rob[t].cause
                      /\ rob'[t].ready <=> rob[t].ready \/ t \in T
    BY <1>4, <1>5 DEF ScalarWork
  <2> QED BY <1>1, <1>3, DeliverEntry
<1>7. /\ QueueInv' /\ NoSpeculativeVector' /\ BranchAccounting'
      /\ viq' \in Seq(VecRs) /\ Len(viq') <= VIQ_SZ /\ vec_rs' \in VecRs
  BY <1>3, <1>6, ResultsHeard
<1>8. SysDecoded'
  <2>1. "sys" \in Units
    BY DEF Units
  <2>2. /\ rs'["sys"].busy => rs["sys"].busy
        /\ rs'["sys"].pc = rs["sys"].pc
    BY <1>1, <2>1, DeliverStation
  <2> QED BY <1>1, <1>4, <2>2, SysKept
<1> QED BY <1>1, <1>2, <1>4, <1>7, <1>8 DEF VecCore, VecControlOK

\* A block that leaves the queue alone and completes entries nobody waits for.
LEMMA QuietBlock ==
  ASSUME VecCore, NEW T, Work(T), \A t \in T : rob[t].dest = X0 /\ ~IsVector(t),
         CoreTypeOK', PipelineInv', UNCHANGED <<queue, branch_pending, vregs, vcsrs>>,
         rs'["sys"].busy => rs["sys"].busy /\ rs'["sys"].pc = rs["sys"].pc,
         vec_ticked' \in BOOLEAN, accesses' \in Nat
  PROVE  VecCore'
<1>1. VecControlOK /\ SysDecoded /\ BranchAccounting
  BY DEF VecCore
<1>2. QueueInv' /\ NoSpeculativeVector'
  BY QuietHolds
<1>3. prog' = prog
  BY DEF Work
<1>4. BranchAccounting'
  <2>1. /\ UNCHANGED <<rob_head, rob_tail, rob_count, branch_pending>>
        /\ \A t \in Tags : InFlight(t) => rob'[t].is_branch = rob[t].is_branch
    BY DEF Work
  <2> QED BY <1>1, <2>1, KeptCounts
<1>5. SysDecoded'
  BY <1>1, <1>3, SysKept
<1>6. viq' = viq /\ vec_rs' = vec_rs
  BY DEF queue
<1> QED BY <1>1, <1>2, <1>3, <1>4, <1>5, <1>6, BlockKeeps DEF VecControlOK, PipeCore

LEMMA VecLsuKeeps == ASSUME VecCore, VecLsu PROVE VecCore'
<1>1. CoreTypeOK /\ PipeCore /\ PipelineInv /\ VecControlOK
  BY DEF VecCore, PipeCore
<1>2. LsuStore \/ LsuLoad \/ LsuIdle
  BY DEF VecLsu
<1>3. ~SysExecute
  BY <1>2 DEF LsuStore, LsuLoad, LsuIdle, SysExecute
<1>4. CoreTypeOK' /\ PipelineInv'
  BY <1>1, <1>2, <1>3, HeadUnitsTyped, HeadUnitsKeep
<1>5. UNCHANGED <<vregs, vcsrs, vec_ticked>> /\ vec_ticked' \in BOOLEAN /\ accesses' \in Nat
  BY <1>1 DEF VecLsu, VecControlOK
<1>6. CASE LsuLoad /\ VecHear([t \in {rs["lsu"].rob_tag} |-> rob'[t].value])
  <2>1. PICK v \in Word : rs["lsu"].busy /\ Delivers("lsu", v)
    BY <1>1, <1>3, <1>6, HeadUnitsDeliver
  <2>2. "lsu" \in Units /\ rs["lsu"].rob_tag \in Tags
    BY <1>1, TagsTyped DEF Units
  <2>3. rob'[rs["lsu"].rob_tag].value = v
    BY <1>1, <2>1, <2>2, DeliverEntry
  <2>4. [t \in {rs["lsu"].rob_tag} |-> rob'[t].value] = [t \in {rs["lsu"].rob_tag} |-> v]
    BY <2>3
  <2>5. VecHear([t \in {rs["lsu"].rob_tag} |-> v])
    BY <1>6, <2>4
  <2>6. branch_pending' = branch_pending
    BY <1>6 DEF LsuLoad
  <2> QED BY <1>1, <1>4, <1>5, <2>1, <2>2, <2>5, <2>6, DeliversToBoth DEF VecControlOK, vcsrs
<1>7. CASE LsuStore /\ UNCHANGED queue
  <2>1. UNCHANGED <<prog, rob_head, rob_tail, rob_count, branch_pending>>
    BY <1>7 DEF LsuStore
  <2>2. /\ rs["lsu"].busy /\ InsOf("lsu").op \notin LoadOps
        /\ rs'["sys"] = rs["sys"]
    BY <1>1, <1>7, LsuStoreEffect DEF Units
  <2>3. PICK T : T = {rs["lsu"].rob_tag}
    OBVIOUS
  <2>4. \A t \in T : rob[t].dest = X0 /\ ~IsVector(t)
    BY <1>1, <2>2, <2>3, ScalarTags DEF Units, PipelineInv, WritersOnly, LsuIsLoad
  <2>5. Work(T)
    <3> SUFFICES ASSUME NEW t \in Tags
                 PROVE  /\ rob'[t].pc = rob[t].pc /\ rob'[t].dest = rob[t].dest
                        /\ rob'[t].is_branch = rob[t].is_branch
                        /\ rob'[t].ready <=> rob[t].ready \/ t \in T
                        /\ IsVector(t) => (IsIllegal(t)' <=> IsIllegal(t))
      BY <2>1 DEF Work
    <3>1. /\ rob'[t].pc = rob[t].pc /\ rob'[t].dest = rob[t].dest
          /\ rob'[t].is_branch = rob[t].is_branch
          /\ rob'[t].ready <=> rob[t].ready \/ t \in T
      BY <1>1, <1>7, <2>3, LsuStoreEffect
    <3>2. IsVector(t) => rob'[t] = rob[t]
      BY <1>1, <1>7, <2>3, <2>4, LsuStoreEffect
    <3> QED BY <3>1, <3>2 DEF IsIllegal
  <2> QED BY <1>4, <1>5, <1>7, <2>1, <2>2, <2>4, <2>5, QuietBlock
<1>8. CASE LsuIdle /\ UNCHANGED queue
  <2>1. UNCHANGED <<prog, rob, rob_head, rob_tail, rob_count, rs, branch_pending>>
    BY <1>8 DEF LsuIdle, robs
  <2>2. PICK T : T = {}
    OBVIOUS
  <2>3. Work(T)
    BY <2>1, <2>2 DEF Work, IsIllegal
  <2> QED BY <1>4, <1>5, <1>8, <2>1, <2>2, <2>3, QuietBlock
<1> QED BY <1>6, <1>7, <1>8 DEF VecLsu

\* A scalar CSR instruction in the station is of the scalar core.
LEMMA SysScalar == ASSUME VecCore, InsOf("sys").op \in CsrOps PROVE InsOf("sys") \in Instr
<1>1. prog \in [Word -> Instr \cup VInstr] /\ CoreTypeOK
  BY DEF VecCore, VecControlOK, PipeCore
<1>2. rs["sys"].pc \in Word
  BY <1>1, StationTyped DEF Units
<1>3. CsrOps \cap (VecOps \cup VCsrOps) = {}
  BY DEF CsrOps, VCsrOps, VecOps, VSetOps, VArithOps, VAluOps, VMemOps
<1> QED BY <1>1, <1>2, <1>3 DEF InsOf, VInstr

LEMMA VecSysKeeps == ASSUME VecCore, VecSys PROVE VecCore'
<1>1. CoreTypeOK /\ PipeCore /\ PipelineInv /\ VecControlOK
  BY DEF VecCore, PipeCore
<1>2. SysIdle \/ (SysExecute /\ InsOf("sys").op \in CsrOps)
  BY DEF VecSys
<1>3. SysExecute => InsOf("sys") \in Instr
  BY <1>2, SysScalar DEF SysIdle, SysExecute
<1>4. CoreTypeOK' /\ PipelineInv'
  BY <1>1, <1>2, <1>3, HeadUnitsTyped, HeadUnitsKeep
<1>5. UNCHANGED <<vregs, vcsrs>> /\ vec_ticked' \in BOOLEAN /\ accesses' \in Nat
  BY <1>1 DEF VecSys, VecControlOK
<1>6. CASE SysExecute /\ VecHear([t \in {rs["sys"].rob_tag} |-> rob'[t].value])
  <2>1. PICK v \in Word : rs["sys"].busy /\ Delivers("sys", v)
    BY <1>1, <1>3, <1>6, HeadUnitsDeliver
  <2>2. "sys" \in Units /\ rs["sys"].rob_tag \in Tags
    BY <1>1, TagsTyped DEF Units
  <2>3. rob'[rs["sys"].rob_tag].value = v
    BY <1>1, <2>1, <2>2, DeliverEntry
  <2>4. [t \in {rs["sys"].rob_tag} |-> rob'[t].value] = [t \in {rs["sys"].rob_tag} |-> v]
    BY <2>3
  <2>5. VecHear([t \in {rs["sys"].rob_tag} |-> v])
    BY <1>6, <2>4
  <2>6. branch_pending' = branch_pending
    BY <1>6 DEF SysExecute
  <2> QED BY <1>1, <1>4, <1>5, <2>1, <2>2, <2>5, <2>6, DeliversToBoth DEF VecControlOK, vcsrs
<1>7. CASE SysIdle /\ UNCHANGED queue
  <2>1. UNCHANGED <<prog, rob, rob_head, rob_tail, rob_count, rs, branch_pending>>
    BY <1>7 DEF SysIdle, robs
  <2>2. PICK T : T = {}
    OBVIOUS
  <2>3. Work(T)
    BY <2>1, <2>2 DEF Work, IsIllegal
  <2> QED BY <1>4, <1>5, <1>7, <2>1, <2>2, <2>3, QuietBlock
<1> QED BY <1>6, <1>7 DEF VecSys

LEMMA VecSysExecuteKeeps == ASSUME VecCore, VecSysExecute PROVE VecCore'
<1>1. CoreTypeOK /\ VecControlOK
  BY DEF VecCore, PipeCore
<1>2. CELLS \in Nat /\ CELLS >= 1 /\ CELLS < WORD /\ WORD \in Nat
  BY VecAssumption, WordAssumption
<1>3. PICK old \in Word : old = IF InsOf("sys").op = "csrr_vl" THEN csr_vl ELSE csr_vstart
  BY <1>1, <1>2 DEF VecControlOK, Word
<1>4. "sys" \in Units /\ rs["sys"].busy /\ rs["sys"].rob_tag \in Tags /\ Val("sys", 1) \in Word
  BY <1>1, StationTyped DEF VecSysExecute, SysMayExecute, Units
<1>5. Delivers("sys", old) /\ VecHear([t \in {rs["sys"].rob_tag} |-> old])
  BY <1>3 DEF VecSysExecute, Delivers
<1>6. /\ stage' = "issue" /\ vec_ticked' = FALSE
      /\ UNCHANGED <<prog, fetch_pc, fetch_stalled, fetch_done, regfile, rat, rob_head, rob_tail,
                     rob_count, branch_pending, mem_port_used, dmem, out, csr, mtip, timer_left,
                     ecall_halt, halted, vregs, csr_vl, csr_vtype, accesses>>
      /\ csr_vstart' = IF InsOf("sys").op = "csrr_vl" THEN csr_vstart ELSE Val("sys", 1) % CELLS
  BY DEF VecSysExecute, front, timer
<1>7. csr_vstart' \in 0 .. CELLS - 1
  BY <1>1, <1>2, <1>4, <1>6, WordAssumption DEF VecControlOK, Word
<1>8. rob' \in [Tags -> RobEntry]
  <2>1. rob \in [Tags -> RobEntry]
    BY <1>1 DEF CoreTypeOK
  <2>2. PICK r \in RobEntry : r = rob[rs["sys"].rob_tag]
    BY <1>4, <2>1
  <2>3. [r EXCEPT !.value = old, !.ready = TRUE] \in RobEntry
    BY <1>3 DEF RobEntry
  <2>4. rob' = [rob EXCEPT ![rs["sys"].rob_tag] = [r EXCEPT !.value = old, !.ready = TRUE]]
    BY <1>5, <2>2 DEF Delivers
  <2> QED BY <2>1, <2>3, <2>4
<1>9. rs' \in [Units -> Station]
  <2>1. PICK b \in [Units -> Station] : b = cdb_broadcast([t \in {rs["sys"].rob_tag} |-> old])
    <3>1. [t \in {rs["sys"].rob_tag} |-> old] \in [{rs["sys"].rob_tag} -> Word]
      OBVIOUS
    <3> QED BY <1>1, <3>1, BroadcastTyped DEF CoreTypeOK
  <2>2. rs' = [b EXCEPT !["sys"].busy = FALSE]
    BY <1>5, <2>1 DEF Delivers
  <2> QED BY <2>2 DEF Station
<1>10. UnitsScalar'
  <2>1. \A u \in Units : rs'[u].busy => rs[u].busy /\ rs'[u].pc = rs[u].pc
    BY <1>1, <1>4, <1>5, DeliverStation
  <2> QED BY <1>1, <1>6, <2>1, UnitsKept
<1>11. CoreTypeOK'
  BY <1>1, <1>6, <1>8, <1>9, <1>10 DEF CoreTypeOK, Stages
<1> QED BY <1>1, <1>4, <1>5, <1>6, <1>7, <1>11, DeliversToBoth DEF VecControlOK

\* The issue changes no entry and no operand.
LEMMA VecIssueKeeps ==
  ASSUME VecCore, Issue, UNCHANGED <<vregs, vcsrs, queue, vec_ticked, accesses>> PROVE VecCore'
<1>1. CoreTypeOK /\ PipeCore /\ PipelineInv /\ VecControlOK
  BY DEF VecCore, PipeCore
<1>2. CoreTypeOK' /\ PipelineInv'
  BY <1>1, IssueTyped, IssueKeeps
<1>3. UNCHANGED <<prog, rob, rob_head, rob_tail, rob_count, branch_pending>>
  BY DEF Issue, robs
<1>4. rs'["sys"].busy = rs["sys"].busy /\ rs'["sys"].pc = rs["sys"].pc
  BY <1>1, IssueEffect DEF Units
<1>5. PICK T : T = {}
  OBVIOUS
<1>6. Work(T)
  BY <1>3, <1>5 DEF Work, IsIllegal
<1> QED BY <1>1, <1>2, <1>3, <1>4, <1>5, <1>6, QuietBlock DEF VecControlOK

\* A scalar dispatch: an entry enters, perhaps with the SYS station; or
\* everything in flight stays as it is.
ScalarEnters ==
  /\ MayFetch /\ Fetched \in Instr
  /\ \E e \in RobEntry : \E p :
       /\ e.valid /\ e.pc = fetch_pc /\ Enter(e, p)
       /\ branch_pending' = IF e.is_branch THEN branch_pending + 1 ELSE branch_pending
  /\ \/ rs'["sys"] = rs["sys"]
     \/ rs'["sys"].rob_tag = rob_tail /\ rs'["sys"].pc = fetch_pc /\ Fetched.op \in CsrOps

InFlightStay ==
  /\ UNCHANGED <<rob_head, rob_tail, rob_count, rs, branch_pending>>
  /\ \A t \in Tags : InFlight(t) => rob'[t] = rob[t]

LEMMA ScalarDispatch ==
  ASSUME CoreTypeOK, RobWindow, DispatchStage, MayFetch => Fetched \in Instr
  PROVE  prog' = prog /\ (ScalarEnters \/ InFlightStay)
<1>1. EndOfTick => prog' = prog
  BY DEF EndOfTick
<1>2. (\E ops : Dispatch(ops)) => MayFetch /\ Fetched \in Instr
  BY DEF Dispatch
<1>3. "sys" \in Units /\ "br" \in Units /\ "br" # "sys"
  BY DEF Units, TimedUnits
<1>4. CASE DispatchQuick
  <2>1. MayFetch /\ Fetched \in Instr /\ UNCHANGED <<rs, branch_pending>> /\ prog' = prog
    BY <1>1, <1>2, <1>4 DEF DispatchQuick, Dispatch
  <2>2. Enter(QuickEntry(Fetched), QuickNext(Fetched))
    BY <1>4 DEF DispatchQuick, QuickEntry, QuickNext
  <2>3. PICK e \in RobEntry : e = QuickEntry(Fetched) /\ e.valid /\ e.pc = fetch_pc /\ ~e.is_branch
    BY <2>1, QuickFacts
  <2> QED BY <2>1, <2>2, <2>3 DEF ScalarEnters
<1>5. ASSUME NEW u \in Units, Fetched \in Instr, MayFetch, prog' = prog,
             rs' = [rs EXCEPT ![u] = FilledStation(@, Fetched)], u = "sys" => Fetched.op \in CsrOps,
             Enter(PendingEntry(Fetched), NextPc(fetch_pc)), branch_pending' = branch_pending
      PROVE  ScalarEnters
  <2>1. PICK e \in RobEntry : e = PendingEntry(Fetched) /\ e.valid /\ e.pc = fetch_pc /\ ~e.is_branch
    BY <1>5, PendingFacts
  <2>2. rs'["sys"] = rs["sys"] \/ (rs'["sys"].rob_tag = rob_tail /\ rs'["sys"].pc = fetch_pc /\ Fetched.op \in CsrOps)
    BY <1>3, <1>5, FillEffect
  <2> QED BY <1>5, <2>1, <2>2 DEF ScalarEnters
<1>6. CASE DispatchToUnit
  <2>1. /\ MayFetch /\ Fetched \in Instr /\ branch_pending' = branch_pending /\ prog' = prog
        /\ Fetched.op \in AluOps \cup MdOps \cup FpuOps \cup LoadOps \cup StoreOps \cup CsrOps
        /\ rs' = [rs EXCEPT ![UnitFor(Fetched.op)] = FilledStation(@, Fetched)]
        /\ Enter(PendingEntry(Fetched), NextPc(fetch_pc))
    BY <1>1, <1>2, <1>6 DEF DispatchToUnit, Dispatch
  <2>2. UnitFor(Fetched.op) \in Units
    BY <2>1, UnitForIsUnit DEF Ops, QuickOps, TrapOps, AluOps, MdOps, FpuOps, LoadOps, StoreOps, CsrOps
  <2>3. UnitFor(Fetched.op) = "sys" => Fetched.op \in CsrOps
    BY <2>1 DEF UnitFor, AluOps, MdOps, FpuOps, LoadOps, StoreOps, CsrOps, BranchOps
  <2> QED BY <1>5, <2>1, <2>2, <2>3
<1>7. CASE DispatchJalr
  <2>1. /\ MayFetch /\ Fetched \in Instr /\ branch_pending' = branch_pending /\ prog' = prog
        /\ rs' = [rs EXCEPT !["br"] = FilledStation(@, Fetched)]
        /\ Enter(PendingEntry(Fetched), NextPc(fetch_pc))
    BY <1>1, <1>2, <1>7 DEF DispatchJalr, Dispatch
  <2> QED BY <1>3, <1>5, <2>1
<1>8. CASE DispatchBranch
  <2>1. /\ MayFetch /\ Fetched \in Instr /\ branch_pending' = branch_pending + 1 /\ prog' = prog
        /\ rs' = [rs EXCEPT !["br"] = FilledStation(@, Fetched)]
    BY <1>1, <1>2, <1>8 DEF DispatchBranch, Dispatch
  <2>2. \E pred \in BOOLEAN : \E p :
          Enter([PendingEntry(Fetched) EXCEPT !.is_branch = TRUE, !.pred_taken = pred], p)
    BY <1>8 DEF DispatchBranch
  <2>8. PICK pred \in BOOLEAN : \E p :
          Enter([PendingEntry(Fetched) EXCEPT !.is_branch = TRUE, !.pred_taken = pred], p)
    BY <2>2
  <2>9. PICK p : Enter([PendingEntry(Fetched) EXCEPT !.is_branch = TRUE, !.pred_taken = pred], p)
    BY <2>8
  <2>3. PICK e \in RobEntry : e = PendingEntry(Fetched) /\ e.valid /\ e.pc = fetch_pc
    BY <2>1, PendingFacts
  <2>4. PICK b : b = [e EXCEPT !.is_branch = TRUE, !.pred_taken = pred]
    OBVIOUS
  <2>5. b \in RobEntry /\ b.valid /\ b.pc = fetch_pc /\ b.is_branch
    BY <2>3, <2>4 DEF RobEntry
  <2>7. Enter(b, p)
    BY <2>9, <2>3, <2>4
  <2>6. rs'["sys"] = rs["sys"]
    BY <1>3, <2>1, FillEffect
  <2> QED BY <2>1, <2>5, <2>6, <2>7 DEF ScalarEnters
<1>9. CASE DispatchStall
  <2>1. /\ rob' = [rob EXCEPT ![rob_tail] = FreshEntry] /\ rob_count < ROB_SZ
        /\ UNCHANGED <<prog, rob_head, rob_tail, rob_count, rs, branch_pending>>
    BY <1>1, <1>9 DEF DispatchStall, Dispatch, MayFetch
  <2>2. \A t \in Tags : InFlight(t) => t # rob_tail
    BY <2>1, TailIsFree
  <2>3. \A t \in Tags : InFlight(t) => rob'[t] = rob[t]
    BY <2>1, <2>2 DEF CoreTypeOK
  <2> QED BY <2>1, <2>3 DEF InFlightStay
<1>10. CASE FetchEnd \/ FetchIdle
  BY <1>1, <1>10 DEF FetchEnd, FetchIdle, InFlightStay, robs
<1> QED BY <1>4, <1>6, <1>7, <1>8, <1>9, <1>10 DEF DispatchStage

\* What the fetch may dispatch to the scalar core is of the scalar core.
LEMMA FetchedScalar ==
  ASSUME VecCore, DispatchStage, MayFetch PROVE Fetched \in Instr
<1>1. prog \in [Word -> Instr \cup VInstr] /\ fetch_pc \in Word
  BY DEF VecCore, VecControlOK, PipeCore, CoreTypeOK
<1>2. Fetched.op \in Ops
  BY DEF DispatchStage, DispatchQuick, DispatchToUnit, DispatchJalr, DispatchBranch, DispatchStall,
         FetchEnd, FetchIdle, Dispatch, Ops
<1>3. Ops \cap (VecOps \cup VCsrOps) = {}
  BY DEF Ops, AluOps, MdOps, FpuOps, LoadOps, StoreOps, BranchOps, CsrOps, QuickOps, TrapOps,
         VCsrOps, VecOps, VSetOps, VArithOps, VAluOps, VMemOps
<1> QED BY <1>1, <1>2, <1>3 DEF Fetched, VInstr

\* A scalar instruction enters behind the vector ones.
LEMMA ScalarEnterKeeps ==
  ASSUME VecCore, ScalarEnters, prog' = prog, UNCHANGED queue
  PROVE  QueueInv' /\ NoSpeculativeVector' /\ BranchAccounting' /\ SysDecoded'
<1>1. CoreTypeOK /\ RobWindow /\ BranchAccounting /\ SysDecoded /\ QueueInv /\ NoSpeculativeVector
  BY DEF VecCore, PipeCore, PipelineInv
<1>0. PICK e \in RobEntry : \E p :
        /\ e.valid /\ e.pc = fetch_pc /\ Enter(e, p)
        /\ branch_pending' = IF e.is_branch THEN branch_pending + 1 ELSE branch_pending
  BY DEF ScalarEnters
<1>2. PICK p :
        /\ e.valid /\ e.pc = fetch_pc /\ Enter(e, p)
        /\ branch_pending' = IF e.is_branch THEN branch_pending + 1 ELSE branch_pending
  BY <1>0
<1>3. MayFetch /\ prog[e.pc].op \in Ops
  BY <1>2 DEF ScalarEnters, Fetched, Instr
<1>4. Ops \cap VecOps = {}
  BY DEF Ops, AluOps, MdOps, FpuOps, LoadOps, StoreOps, BranchOps, CsrOps, QuickOps, TrapOps,
         VCsrOps, VecOps, VSetOps, VArithOps, VAluOps, VMemOps
<1>5. prog[e.pc].op \notin VecOps
  BY <1>3, <1>4
<1>6. PICK P \in Seq(VecRs) : P = Pending
  BY PendingIs DEF VecCore
<1>7. Pending' = P
  BY <1>6 DEF queue, Pending
<1>8. Holds(P)' /\ NoSpeculativeVector'
  BY <1>1, <1>2, <1>3, <1>5, <1>6, EnterHolds DEF QueueInv
<1>9. QueueInv'
  BY <1>7, <1>8 DEF QueueInv, Holds
<1>10. BranchAccounting'
  BY <1>1, <1>2, <1>3, EnterCounts
<1>11. SysDecoded'
  BY <1>1 DEF ScalarEnters, SysDecoded, InsOf, Fetched
<1> QED BY <1>8, <1>9, <1>10, <1>11

LEMMA VecScalarDispatchKeeps ==
  ASSUME VecCore, DispatchStage, UNCHANGED <<vregs, vcsrs, queue, vec_ticked, accesses>> PROVE VecCore'
<1>1. CoreTypeOK /\ PipeCore /\ PipelineInv /\ RobWindow /\ VecControlOK
  BY DEF VecCore, PipeCore, PipelineInv
<1>2. MayFetch => Fetched \in Instr
  BY FetchedScalar
<1>3. CoreTypeOK' /\ PipelineInv'
  BY <1>1, <1>2, DispatchTyped, DispatchKeeps
<1>4. prog' = prog /\ (ScalarEnters \/ InFlightStay)
  BY <1>1, <1>2, ScalarDispatch
<1>5. CASE ScalarEnters
  <2>1. QueueInv' /\ NoSpeculativeVector' /\ BranchAccounting' /\ SysDecoded'
    BY <1>4, <1>5, ScalarEnterKeeps
  <2>2. viq' = viq /\ vec_rs' = vec_rs
    BY DEF queue
  <2> QED BY <1>1, <1>3, <1>4, <2>1, <2>2, BlockKeeps DEF VecControlOK, PipeCore
<1>6. CASE InFlightStay
  <2>1. PICK T : T = {}
    OBVIOUS
  <2>2. Work(T)
    BY <1>4, <1>6, <2>1 DEF Work, InFlightStay, IsIllegal, IsVector
  <2>3. rs' = rs /\ branch_pending' = branch_pending
    BY <1>6 DEF InFlightStay
  <2> QED BY <1>1, <1>3, <2>1, <2>2, <2>3, QuietBlock DEF VecControlOK
<1> QED BY <1>4, <1>5, <1>6

-----------------------------------------------------------------------------
(* The dispatch of vector instructions.                                    *)

\* What the fetch may dispatch to the coprocessor is a vector instruction.
LEMMA FetchedVector ==
  ASSUME VecCore, NEW ops, ops \subseteq VecOps \cup VCsrOps, Dispatch(ops)
  PROVE  /\ Fetched \in VInstr /\ Fetched.op \in ops /\ MayFetch /\ fetch_pc \in Word
         /\ NextPc(fetch_pc) \in Word
         /\ Fetched.rd \in Regs /\ Fetched.rs1 \in Regs /\ Fetched.rs2 \in Regs
<1>1. prog \in [Word -> Instr \cup VInstr] /\ fetch_pc \in Word
  BY DEF VecCore, VecControlOK, PipeCore, CoreTypeOK
<1>2. Fetched.op \in ops /\ MayFetch
  BY DEF Dispatch
<1>3. Ops \cap (VecOps \cup VCsrOps) = {}
  BY DEF Ops, AluOps, MdOps, FpuOps, LoadOps, StoreOps, BranchOps, CsrOps, QuickOps, TrapOps,
         VCsrOps, VecOps, VSetOps, VArithOps, VAluOps, VMemOps
<1>4. Fetched \in VInstr
  BY <1>1, <1>2, <1>3 DEF Fetched, Instr
<1>5. Fetched.rd \in Regs /\ Fetched.rs1 \in Regs /\ Fetched.rs2 \in Regs
  BY <1>4 DEF VInstr, Regs
<1>6. NextPc(fetch_pc) \in Word
  BY <1>1, NextPcIsWord
<1> QED BY <1>1, <1>2, <1>4, <1>5, <1>6

\* A renamed operand waits for a writer in flight.
LEMMA OperandWaits ==
  ASSUME PipeCore, NEW r \in Regs, ~read_operand(r).ready
  PROVE  \E t \in Tags : /\ t = read_operand(r).tag
                         /\ InFlight(t) /\ ~rob[t].ready /\ rob[t].dest # X0
<1>1. rat[r] \in RatEntry
  BY DEF PipeCore, CoreTypeOK
<1>2. r # X0 /\ rat[r].has_tag /\ ~rob[rat[r].tag].ready /\ read_operand(r) = Waiting(rat[r].tag)
  BY DEF read_operand, Ready
<1>3. InFlight(rat[r].tag) /\ rob[rat[r].tag].dest = r
  BY <1>2 DEF PipeCore, PipelineInv, RatNamesYoungestWriter
<1> QED BY <1>1, <1>2, <1>3 DEF Waiting, RatEntry

\* With no branch counted there is none in flight.
LEMMA NoBranches ==
  ASSUME VecCore, branch_pending = 0 PROVE \A b \in Tags : InFlight(b) => ~rob[b].is_branch
<1>1. CoreTypeOK /\ BranchAccounting
  BY DEF VecCore, PipeCore
<1>2. IsFiniteSet(Branches) /\ Cardinality(Branches) = 0
  BY <1>1, BranchesFinite, AccountingIs
<1>3. Branches = {}
  BY <1>2, FS_EmptySet
<1> QED BY <1>3 DEF Branches

\* A vector instruction joins the ROB, and perhaps the queue or the station.
VectorEnters(e, p) ==
  /\ MayFetch /\ Fetched \in VInstr
  /\ e.valid /\ e.pc = fetch_pc /\ ~e.is_branch /\ (e.takes_trap => e.dest = X0)
  /\ Enter(e, p) /\ EndOfTick /\ UNCHANGED <<fetch_stalled, branch_pending, vec_rs, vec_ticked, accesses>>
  /\ \/ viq' = viq /\ (Fetched.op \in VecOps => e.ready)
     \/ Len(viq) < VIQ_SZ /\ \E r \in VecRs : viq' = Append(viq, r) /\ Queues(r, e)
  /\ Fetched.op \in VecOps => (e.takes_trap /\ e.cause = CAUSE_ILLEGAL) \/ branch_pending = 0

LEMMA VectorEnterHolds ==
  ASSUME VecCore, NEW e \in RobEntry, NEW p, VectorEnters(e, p)
  PROVE  /\ QueueInv' /\ NoSpeculativeVector' /\ BranchAccounting'
         /\ viq' \in Seq(VecRs) /\ Len(viq') <= VIQ_SZ /\ vec_rs' \in VecRs
<1>1. CoreTypeOK /\ RobWindow /\ BranchAccounting /\ QueueInv /\ NoSpeculativeVector /\ VecControlOK
  BY DEF VecCore, PipeCore, PipelineInv
<1>2. /\ e.valid /\ Enter(e, p) /\ MayFetch /\ prog' = prog /\ ~e.is_branch
      /\ branch_pending' = branch_pending /\ vec_rs' = vec_rs
  BY DEF VectorEnters, EndOfTick
<1>3. prog[e.pc] = Fetched
  BY DEF VectorEnters, Fetched
<1>4. BranchAccounting'
  BY <1>1, <1>2, EnterCounts
<1>5. viq \in Seq(VecRs) /\ Len(viq) <= VIQ_SZ /\ vec_rs \in VecRs /\ VIQ_SZ \in Nat
  BY <1>1, VecUnitAssumption DEF VecControlOK
<1>6. prog[e.pc].op \in VecOps =>
        /\ ~e.is_branch
        /\ \/ e.takes_trap /\ e.cause = CAUSE_ILLEGAL
           \/ \A b \in Tags : InFlight(b) => ~rob[b].is_branch
  BY <1>2, <1>3, NoBranches DEF VectorEnters
<1>7. PICK P \in Seq(VecRs) : P = Pending
  BY <1>1, PendingIs
<1>8. CASE viq' = viq /\ (Fetched.op \in VecOps => e.ready)
  <2>1. Pending' = P
    BY <1>2, <1>7, <1>8 DEF Pending
  <2>2. prog[e.pc].op \in VecOps => e.ready
    BY <1>3, <1>8
  <2>3. Holds(P)' /\ NoSpeculativeVector'
    BY <1>1, <1>2, <1>6, <1>7, <2>2, EnterHolds DEF QueueInv
  <2> QED BY <1>2, <1>4, <1>5, <1>8, <2>1, <2>3 DEF QueueInv, Holds
<1>9. CASE Len(viq) < VIQ_SZ /\ \E r \in VecRs : viq' = Append(viq, r) /\ Queues(r, e)
  <2>1. PICK r \in VecRs : viq' = Append(viq, r) /\ Queues(r, e)
    BY <1>9
  <2>2. viq' \in Seq(VecRs) /\ Len(viq') <= VIQ_SZ
    BY <1>5, <1>9, <2>1
  <2>3. PICK Q \in Seq(VecRs) : Q = Append(P, r)
    <3>1. Append(P, r) \in Seq(VecRs)
      OBVIOUS
    <3> QED BY <3>1
  <2>4. Pending' = Q
    <3>1. Pending' = (IF vec_rs.busy THEN <<vec_rs>> ELSE <<>>) \o Append(viq, r)
      BY <1>2, <2>1 DEF Pending
    <3>2. P = (IF vec_rs.busy THEN <<vec_rs>> ELSE <<>>) \o viq
      BY <1>7 DEF Pending
    <3>3. \A a, b \in Seq(VecRs) : a \o Append(b, r) = Append(a \o b, r)
      OBVIOUS
    <3>4. (IF vec_rs.busy THEN <<vec_rs>> ELSE <<>>) \in Seq(VecRs)
      BY <1>5
    <3> QED BY <1>5, <2>3, <3>1, <3>2, <3>3, <3>4
  <2>5. Holds(Q)' /\ NoSpeculativeVector'
    BY <1>1, <1>2, <1>6, <1>7, <2>1, <2>3, EnterHolds DEF QueueInv
  <2> QED BY <1>2, <1>4, <1>5, <2>2, <2>4, <2>5 DEF QueueInv, Holds
<1> QED BY <1>8, <1>9 DEF VectorEnters

LEMMA VectorEnterKeeps ==
  ASSUME VecCore, NEW e \in RobEntry, NEW p \in Word, VectorEnters(e, p),
         StationsAdmit(e), rs' \in [Units -> Station], UnitsScalar', SysDecoded',
         csr_vl' \in 0 .. CELLS, csr_vtype' \in VType, csr_vstart' \in 0 .. CELLS - 1, vregs' = vregs
  PROVE  VecCore'
<1>1. CoreTypeOK /\ PipeCore /\ VecControlOK
  BY DEF VecCore, PipeCore
<1>2. /\ e.valid /\ Enter(e, p) /\ MayFetch /\ prog' = prog /\ ~e.is_branch /\ (e.takes_trap => e.dest = X0)
      /\ EndOfTick
      /\ UNCHANGED <<fetch_stalled, branch_pending, vec_rs, vec_ticked, accesses>>
  BY DEF VectorEnters, EndOfTick
<1>3. /\ QueueInv' /\ NoSpeculativeVector' /\ BranchAccounting'
      /\ viq' \in Seq(VecRs) /\ Len(viq') <= VIQ_SZ /\ vec_rs' \in VecRs
  BY VectorEnterHolds
<1>4. PipelineInv'
  BY <1>1, <1>2, EnterKeeps
<1>5. /\ rob' \in [Tags -> RobEntry] /\ rat' \in [Regs -> RatEntry]
      /\ rob_head' \in Tags /\ rob_tail' \in Tags /\ rob_count' \in 0 .. ROB_SZ
      /\ fetch_pc' \in Word /\ fetch_done' \in BOOLEAN
  BY <1>1, <1>2, EnterTyped
<1>6. stage' \in Stages /\ halted' \in BOOLEAN /\ fetch_stalled' \in BOOLEAN
  BY <1>1, <1>2 DEF EndOfTick, CoreTypeOK, Stages
<1>7. UNCHANGED <<regfile, branch_pending, mem_port_used, dmem, out, csr, mtip, timer_left, ecall_halt>>
  BY <1>2 DEF EndOfTick, timer
<1>8. CoreTypeOK'
  BY <1>1, <1>5, <1>6, <1>7 DEF CoreTypeOK
<1>9. VecControlOK'
  BY <1>1, <1>2, <1>3 DEF VecControlOK
<1> QED BY <1>3, <1>4, <1>8, <1>9 DEF VecCore, PipeCore

\* A fresh entry marks nothing.
LEMMA FreshIs ==
  ASSUME CoreTypeOK
  PROVE  /\ FreshEntry \in RobEntry /\ FreshEntry.pc = fetch_pc
         /\ ~FreshEntry.is_branch /\ ~FreshEntry.takes_trap
<1>1. rob[rob_tail] \in RobEntry
  BY DEF CoreTypeOK
<1> QED BY <1>1, FreshEntryTyped DEF FreshEntry, RobEntry

\* Stations that stay admit every entry.
LEMMA SameStations ==
  ASSUME VecCore, NEW e, rs' = rs, prog' = prog
  PROVE  StationsAdmit(e) /\ rs' \in [Units -> Station] /\ UnitsScalar' /\ SysDecoded'
<1>1. CoreTypeOK /\ SysDecoded
  BY DEF VecCore, PipeCore
<1>2. StationsAdmit(e)
  BY DEF StationsAdmit, Joins
<1>3. UnitsScalar'
  BY <1>1, UnitsKept
<1>4. SysDecoded'
  BY <1>1, SysKept
<1> QED BY <1>1, <1>2, <1>3, <1>4 DEF CoreTypeOK

\* vset* grants a configuration.
LEMMA VSetTyped ==
  ASSUME NEW i \in VInstr, NEW x1 \in Word, NEW x2 \in Word, NEW vl \in 0 .. CELLS
  PROVE  /\ VSetType(i, x2) \in VType
         /\ VSetLength(i, VSetType(i, x2), x1, vl) \in 0 .. CELLS
<1>1. \A v : DecodeVType(v) \in VType
  <2> SUFFICES ASSUME NEW v PROVE DecodeVType(v) \in VType
    OBVIOUS
  <2>1. CASE v \in {0, 1}
    BY <2>1 DEF DecodeVType, VType, Sews
  <2>2. CASE v \notin {0, 1}
    BY <2>2 DEF DecodeVType, NoConfig, VType, Sews
  <2> QED BY <2>1, <2>2
<1>2. PICK vt \in VType : vt = VSetType(i, x2)
  BY <1>1 DEF VSetType
<1>3. CELLS \in Nat
  BY VecAssumption
<1>4. VLMAX(vt) \in 0 .. CELLS
  <2>1. vt.sew = 1 \/ vt.sew = 2
    BY DEF VType, Sews
  <2>2. CELLS \div 1 \in 0 .. CELLS /\ CELLS \div 2 \in 0 .. CELLS
    BY <1>3
  <2> QED BY <1>3, <2>1, <2>2 DEF VLMAX
<1>5. x1 \in Nat /\ i.vs1 \in Nat
  BY VecAssumption, WordAssumption DEF Word, VInstr, VRegs
<1>6. VSetLength(i, vt, x1, vl) \in 0 .. CELLS
  <2> DEFINE m == VLMAX(vt)
  <2>1. m \in 0 .. CELLS
    BY <1>4
  <2>2. PICK avl \in Nat : avl = IF i.op = "vsetivli" THEN i.vs1 ELSE x1
    BY <1>5
  <2>3. VSetLength(i, vt, x1, vl) \in {0, vl, m, IF avl < m THEN avl ELSE m}
    BY <2>2 DEF VSetLength
  <2> HIDE DEF m
  <2> QED BY <1>3, <2>1, <2>2, <2>3
<1> QED BY <1>2, <1>6

LEMMA VsetKeeps == ASSUME VecCore, DispatchVset PROVE VecCore'
<1>1. CoreTypeOK /\ VecControlOK
  BY DEF VecCore, PipeCore
<1>2. PICK ops : ops = VSetOps
  OBVIOUS
<1>3. ops \subseteq VecOps \cup VCsrOps /\ Dispatch(ops)
  BY <1>2 DEF DispatchVset, VecOps
<1>4. /\ Fetched \in VInstr /\ MayFetch /\ fetch_pc \in Word /\ NextPc(fetch_pc) \in Word
      /\ Fetched.rd \in Regs /\ Fetched.rs1 \in Regs /\ Fetched.rs2 \in Regs
  BY <1>3, FetchedVector
<1>5. branch_pending = 0 /\ EndOfTick /\ prog' = prog
      /\ UNCHANGED <<fetch_stalled, rs, branch_pending, vregs, viq, vec_rs, vec_ticked, accesses>>
  BY DEF DispatchVset, VsetMayDispatch, EndOfTick, queue
<1>6. PICK x1 \in Word, x2 \in Word : x1 = read_operand(Fetched.rs1).val /\ x2 = read_operand(Fetched.rs2).val
  <2>1. read_operand(Fetched.rs1) \in Operand /\ read_operand(Fetched.rs2) \in Operand
    BY <1>1, <1>4, ReadOperandTyped
  <2> QED BY <2>1 DEF Operand
<1>7. csr_vl \in 0 .. CELLS /\ csr_vstart \in 0 .. CELLS - 1
  BY <1>1 DEF VecControlOK
<1>8. PICK vt \in VType, n \in 0 .. CELLS : vt = VSetType(Fetched, x2) /\ n = VSetLength(Fetched, vt, x1, csr_vl)
  BY <1>4, <1>7, VSetTyped
<1>9. PICK f \in RobEntry : f = FreshEntry /\ f.pc = fetch_pc /\ ~f.is_branch /\ ~f.takes_trap
  BY <1>1, FreshIs
<1>10. PICK d \in Regs : d = Fetched.rd
  BY <1>4
<1>11. PICK e : e = [f EXCEPT !.valid = TRUE, !.ready = TRUE, !.is_store = FALSE, !.dest = d, !.value = n]
  OBVIOUS
<1>12. n \in Word /\ CELLS \in Nat /\ 0 \in 0 .. CELLS - 1
  BY VecAssumption, WordAssumption DEF Word
<1>13. e \in RobEntry /\ e.valid /\ e.ready /\ e.pc = fetch_pc /\ ~e.is_branch /\ ~e.takes_trap
  BY <1>9, <1>11, <1>12 DEF RobEntry
<1>14. csr_vtype' = vt /\ csr_vl' = n /\ csr_vstart' = 0 /\ Enter(e, NextPc(fetch_pc))
  BY <1>6, <1>8, <1>9, <1>10, <1>11 DEF DispatchVset
<1>15. VectorEnters(e, NextPc(fetch_pc))
  BY <1>4, <1>5, <1>13, <1>14 DEF VectorEnters
<1>16. StationsAdmit(e) /\ rs' \in [Units -> Station] /\ UnitsScalar' /\ SysDecoded'
  BY <1>5, SameStations
<1> QED BY <1>4, <1>5, <1>12, <1>13, <1>14, <1>15, <1>16, VectorEnterKeeps

\* The queue entry waits for writers in flight.
LEMMA QueuedTyped ==
  ASSUME VecCore, Fetched \in VInstr, Fetched.rs1 \in Regs, Fetched.rs2 \in Regs,
         NEW e \in RobEntry, e.pc = fetch_pc, ~e.ready, ~e.takes_trap,
         Fetched.op \in VArithOps \cup VMemOps, Fetched.op # "vcpop" => e.dest = X0
  PROVE  \E r \in VecRs : r = Queued(Fetched) /\ Queues(r, e)
<1>1. CoreTypeOK /\ VecControlOK /\ PipeCore
  BY DEF VecCore, PipeCore
<1>2. \A v \in Word : Ready(v) \in Operand /\ Ready(v).ready
  BY RobAssumption DEF Ready, Operand, Tags
<1>3. PICK a \in Operand, b \in Operand : a = read_operand(Fetched.rs1) /\ b = read_operand(Fetched.rs2)
  BY <1>1, ReadOperandTyped
<1>4. PICK z \in Operand, m \in Operand : z = Ready(0) /\ m = Ready(Fetched.imm) /\ z.ready /\ m.ready
  BY <1>2, SmallWords DEF VInstr
<1>5. PICK s1 \in {a, m, z} : s1 = IF Fetched.op \in VMemOps \/ Fetched.form = "vx" THEN a
                                   ELSE IF Fetched.form = "vi" THEN m ELSE z
  OBVIOUS
<1>6. PICK s2 \in {b, z} : s2 = IF Fetched.op \in VMemOps /\ Fetched.mop = "strided" THEN b ELSE z
  OBVIOUS
<1>7. PICK r : r = [busy |-> TRUE, executing |-> FALSE, remaining |-> 0, rob_tag |-> rob_tail, pc |-> fetch_pc,
                    vl |-> csr_vl, vstart |-> csr_vstart, sew |-> csr_vtype.sew,
                    s1 |-> s1, s2 |-> s2, elem |-> 0, fld |-> 0]
  OBVIOUS
<1>8. r = Queued(Fetched)
  BY <1>3, <1>4, <1>5, <1>6, <1>7 DEF Queued
<1>9. r \in VecRs
  <2>1. rob_tail \in Tags /\ fetch_pc \in Word /\ s1 \in Operand /\ s2 \in Operand /\ CELLS \in Nat
    BY <1>1, VecAssumption DEF CoreTypeOK
  <2>2. csr_vl \in 0 .. CELLS /\ csr_vstart \in 0 .. CELLS - 1 /\ csr_vtype.sew \in Sews
    BY <1>1 DEF VecControlOK, VType
  <2> QED BY <1>7, <2>1, <2>2 DEF VecRs
<1>10. /\ r.rob_tag = rob_tail /\ r.pc = fetch_pc /\ r.s1 = s1 /\ r.s2 = s2 /\ r.elem = 0 /\ r.fld = 0
  BY <1>7
<1>11. prog[fetch_pc] = Fetched
  BY DEF Fetched
<1>12. InRange(r)
  <2>1. 0 <= Fetched.nf
    BY DEF VInstr
  <2>2. 0 < WordsPerReg
    BY VecAssumption DEF WordsPerReg
  <2> QED BY <1>10, <1>11, <2>1, <2>2 DEF InRange
<1>13. ASSUME NEW o \in {s1, s2}, ~o.ready
       PROVE  InFlight(o.tag) /\ ~rob[o.tag].ready /\ rob[o.tag].dest # X0
  <2>1. o = a \/ o = b
    BY <1>4, <1>13
  <2>2. PICK x \in Regs : o = read_operand(x)
    BY <1>3, <2>1
  <2>3. ~read_operand(x).ready
    BY <1>13, <2>2
  <2> QED BY <1>1, <2>2, <2>3, OperandWaits
<1>14. Queues(r, e)
  BY <1>10, <1>11, <1>12, <1>13 DEF Queues
<1> QED BY <1>8, <1>9, <1>14

LEMMA VectorKeeps == ASSUME VecCore, DispatchVector PROVE VecCore'
<1>1. CoreTypeOK /\ VecControlOK
  BY DEF VecCore, PipeCore
<1>2. PICK ops : ops = VArithOps \cup VMemOps
  OBVIOUS
<1>3. ops \subseteq VecOps \cup VCsrOps /\ Dispatch(ops)
  BY <1>2 DEF DispatchVector, VecOps
<1>4. /\ Fetched \in VInstr /\ Fetched.op \in ops /\ MayFetch /\ fetch_pc \in Word /\ NextPc(fetch_pc) \in Word
      /\ Fetched.rd \in Regs /\ Fetched.rs1 \in Regs /\ Fetched.rs2 \in Regs
  BY <1>3, FetchedVector
<1>5. /\ branch_pending = 0 /\ Len(viq) < VIQ_SZ /\ EndOfTick /\ prog' = prog
      /\ viq' = Append(viq, Queued(Fetched))
      /\ UNCHANGED <<fetch_stalled, rs, branch_pending, vregs, csr_vl, csr_vtype, csr_vstart,
                     vec_rs, vec_ticked, accesses>>
  BY DEF DispatchVector, QueueMayTake, EndOfTick, vcsrs
<1>6. PICK f \in RobEntry : f = FreshEntry /\ f.pc = fetch_pc /\ ~f.is_branch /\ ~f.takes_trap
  BY <1>1, FreshIs
<1>7. PICK d \in Regs : d = IF Fetched.op = "vcpop" THEN Fetched.rd ELSE X0
  BY <1>4, RegAssumption DEF Regs
<1>8. PICK e : e = [f EXCEPT !.valid = TRUE, !.ready = FALSE, !.is_store = FALSE, !.dest = d]
  OBVIOUS
<1>9. e \in RobEntry /\ e.valid /\ ~e.ready /\ e.pc = fetch_pc /\ ~e.is_branch /\ ~e.takes_trap /\ e.dest = d
  BY <1>6, <1>8 DEF RobEntry
<1>10. Enter(e, NextPc(fetch_pc))
  BY <1>6, <1>7, <1>8 DEF DispatchVector
<1>11. Fetched.op \in VArithOps \cup VMemOps
  BY <1>2, <1>4
<1>12. PICK r \in VecRs : r = Queued(Fetched) /\ Queues(r, e)
  BY <1>4, <1>7, <1>9, <1>11, QueuedTyped
<1>13. VectorEnters(e, NextPc(fetch_pc))
  BY <1>4, <1>5, <1>9, <1>10, <1>12 DEF VectorEnters
<1>14. StationsAdmit(e) /\ rs' \in [Units -> Station] /\ UnitsScalar' /\ SysDecoded'
  BY <1>5, SameStations
<1>15. csr_vl' \in 0 .. CELLS /\ csr_vtype' \in VType /\ csr_vstart' \in 0 .. CELLS - 1
  BY <1>1, <1>5 DEF VecControlOK
<1> QED BY <1>4, <1>5, <1>9, <1>13, <1>14, <1>15, VectorEnterKeeps

LEMMA IllegalKeeps == ASSUME VecCore, DispatchVectorIllegal PROVE VecCore'
<1>1. CoreTypeOK /\ VecControlOK
  BY DEF VecCore, PipeCore
<1>2. PICK ops : ops = VArithOps \cup {"vreserved"}
  OBVIOUS
<1>3. ops \subseteq VecOps \cup VCsrOps /\ Dispatch(ops)
  BY <1>2 DEF DispatchVectorIllegal, VecOps
<1>4. Fetched \in VInstr /\ MayFetch /\ fetch_pc \in Word /\ NextPc(fetch_pc) \in Word
  BY <1>3, FetchedVector
<1>5. /\ EndOfTick /\ prog' = prog
      /\ UNCHANGED <<fetch_stalled, rs, branch_pending, vregs, csr_vl, csr_vtype, csr_vstart,
                     viq, vec_rs, vec_ticked, accesses>>
  BY DEF DispatchVectorIllegal, EndOfTick, vcsrs, queue
<1>6. PICK f \in RobEntry : f = FreshEntry /\ f.pc = fetch_pc /\ ~f.is_branch
  BY <1>1, FreshIs
<1>7. CAUSE_ILLEGAL \in Word /\ 0 \in Word /\ X0 \in Regs
  BY SmallWords, RegAssumption DEF Regs
<1>8. PICK e : e = [f EXCEPT !.valid = TRUE, !.ready = TRUE, !.is_store = FALSE,
                             !.takes_trap = TRUE, !.cause = CAUSE_ILLEGAL, !.dest = X0, !.value = 0]
  OBVIOUS
<1>9. /\ e \in RobEntry /\ e.valid /\ e.ready /\ e.pc = fetch_pc /\ ~e.is_branch /\ e.dest = X0
      /\ e.takes_trap /\ e.cause = CAUSE_ILLEGAL
  BY <1>6, <1>7, <1>8 DEF RobEntry
<1>10. Enter(e, NextPc(fetch_pc))
  BY <1>6, <1>8 DEF DispatchVectorIllegal
<1>11. VectorEnters(e, NextPc(fetch_pc))
  BY <1>4, <1>5, <1>9, <1>10 DEF VectorEnters
<1>12. StationsAdmit(e) /\ rs' \in [Units -> Station] /\ UnitsScalar' /\ SysDecoded'
  BY <1>5, SameStations
<1>13. csr_vl' \in 0 .. CELLS /\ csr_vtype' \in VType /\ csr_vstart' \in 0 .. CELLS - 1
  BY <1>1, <1>5 DEF VecControlOK
<1> QED BY <1>4, <1>5, <1>9, <1>11, <1>12, <1>13, VectorEnterKeeps

LEMMA VectorCsrKeeps == ASSUME VecCore, DispatchVectorCsr PROVE VecCore'
<1>1. CoreTypeOK /\ PipeCore /\ VecControlOK
  BY DEF VecCore, PipeCore
<1>2. PICK ops : ops = VCsrOps
  OBVIOUS
<1>3. ops \subseteq VecOps \cup VCsrOps /\ Dispatch(ops)
  BY <1>2 DEF DispatchVectorCsr
<1>4. /\ Fetched \in VInstr /\ Fetched.op \in ops /\ MayFetch /\ fetch_pc \in Word /\ NextPc(fetch_pc) \in Word
      /\ Fetched.rd \in Regs /\ Fetched.rs1 \in Regs
  BY <1>3, FetchedVector
<1>5. Fetched.op \in VCsrOps /\ Fetched.op \notin VecOps
  BY <1>2, <1>4 DEF VCsrOps, VecOps, VSetOps, VArithOps, VAluOps, VMemOps
<1>6. /\ ~rs["sys"].busy /\ EndOfTick /\ prog' = prog
      /\ UNCHANGED <<fetch_stalled, branch_pending, vregs, csr_vl, csr_vtype, csr_vstart,
                     viq, vec_rs, vec_ticked, accesses>>
  BY DEF DispatchVectorCsr, EndOfTick, vcsrs, queue
<1>7. PICK a \in Operand, z \in Operand : a = read_operand(Fetched.rs1) /\ z = Ready(0) /\ z.ready
  <2>1. Ready(0) \in Operand /\ Ready(0).ready
    BY SmallWords, RobAssumption DEF Ready, Operand, Tags
  <2>2. read_operand(Fetched.rs1) \in Operand
    BY <1>1, <1>4, ReadOperandTyped
  <2> QED BY <2>1, <2>2
<1>8. PICK s \in Station : s = rs["sys"]
  BY <1>1 DEF CoreTypeOK, Units
<1>26. PICK ops3 \in [1 .. 3 -> Operand] : ops3 = [k \in 1 .. 3 |-> IF k = 1 THEN a ELSE z]
  <2>1. [k \in 1 .. 3 |-> IF k = 1 THEN a ELSE z] \in [1 .. 3 -> Operand]
    OBVIOUS
  <2> QED BY <2>1
<1>27. ops3[1] = a /\ ops3[2] = z /\ ops3[3] = z
  BY <1>26
<1>9. PICK n : n = [s EXCEPT !.busy = TRUE, !.executing = FALSE, !.rob_tag = rob_tail, !.pc = fetch_pc,
                             !.src = ops3]
  OBVIOUS
<1>10. /\ n \in Station /\ n.busy /\ n.rob_tag = rob_tail /\ n.pc = fetch_pc
       /\ n.src[1] = a /\ n.src[2] = z /\ n.src[3] = z
  <2>1. rob_tail \in Tags
    BY <1>1 DEF CoreTypeOK
  <2> QED BY <1>4, <1>9, <1>27, <2>1 DEF Station
<1>11. rs' = [rs EXCEPT !["sys"] = n]
  BY <1>7, <1>8, <1>9, <1>26 DEF DispatchVectorCsr
<1>12. "sys" \in Units /\ rs \in [Units -> Station]
  BY <1>1 DEF CoreTypeOK, Units
<1>13. rs' \in [Units -> Station] /\ rs'["sys"] = n /\ \A v \in Units \ {"sys"} : rs'[v] = rs[v]
  BY <1>10, <1>11, <1>12
<1>14. UnitsScalar'
  BY <1>1, <1>6, <1>13 DEF CoreTypeOK, UnitsScalar, InsOf
<1>15. SysDecoded'
  BY <1>5, <1>6, <1>10, <1>13 DEF SysDecoded, InsOf, Fetched
<1>16. PICK f \in RobEntry : f = FreshEntry /\ f.pc = fetch_pc /\ ~f.is_branch /\ ~f.takes_trap
  BY <1>1, FreshIs
<1>17. PICK d \in Regs : d = Fetched.rd
  BY <1>4
<1>18. PICK e : e = [f EXCEPT !.valid = TRUE, !.ready = FALSE, !.is_store = FALSE, !.dest = d]
  OBVIOUS
<1>19. e \in RobEntry /\ e.valid /\ ~e.ready /\ e.pc = fetch_pc /\ ~e.is_branch /\ ~e.takes_trap
  BY <1>16, <1>18 DEF RobEntry
<1>20. Enter(e, NextPc(fetch_pc))
  BY <1>16, <1>17, <1>18 DEF DispatchVectorCsr
<1>21. VectorEnters(e, NextPc(fetch_pc))
  BY <1>4, <1>5, <1>6, <1>19, <1>20 DEF VectorEnters
<1>22. Joins(e, "sys")
  <2>1. ASSUME NEW k \in 1 .. 3, ~n.src[k].ready
        PROVE  \E t \in Tags : t = n.src[k].tag /\ InFlight(t) /\ ~rob[t].ready /\ rob[t].dest # X0
    <3>1. k = 1 /\ ~read_operand(Fetched.rs1).ready /\ n.src[k] = read_operand(Fetched.rs1)
      BY <1>7, <1>10, <2>1
    <3> QED BY <1>1, <1>4, <3>1, OperandWaits
  <2> QED BY <1>6, <1>10, <1>13, <1>19, <2>1 DEF Joins
<1>23. \A v \in Units \ {"sys"} : ~Joins(e, v)
  BY <1>13 DEF Joins
<1>24. StationsAdmit(e)
  BY <1>6, <1>13, <1>22, <1>23 DEF StationsAdmit
<1>25. csr_vl' \in 0 .. CELLS /\ csr_vtype' \in VType /\ csr_vstart' \in 0 .. CELLS - 1
  BY <1>1, <1>6 DEF VecControlOK
<1> QED BY <1>4, <1>6, <1>13, <1>14, <1>15, <1>19, <1>21, <1>24, <1>25, VectorEnterKeeps

\* A dispatch that waits clears the fields of the next entry only.
LEMMA VectorStallKeeps == ASSUME VecCore, DispatchVectorStall PROVE VecCore'
<1>1. CoreTypeOK /\ PipeCore /\ PipelineInv /\ RobWindow /\ VecControlOK
  BY DEF VecCore, PipeCore, PipelineInv
<1>2. /\ rob' = [rob EXCEPT ![rob_tail] = FreshEntry] /\ rob_count < ROB_SZ /\ EndOfTick
      /\ UNCHANGED <<prog, front, rat, rob_head, rob_tail, rob_count, rs, branch_pending,
                     vregs, vcsrs, queue, vec_ticked, accesses>>
  BY DEF DispatchVectorStall, Dispatch, MayFetch, EndOfTick
<1>3. PICK f \in RobEntry : f = FreshEntry
  BY <1>1, FreshIs
<1>4. rob' \in [Tags -> RobEntry] /\ \A t \in Tags : t # rob_tail => rob'[t] = rob[t]
  BY <1>1, <1>2, <1>3 DEF CoreTypeOK
<1>5. \A t \in Tags : InFlight(t) => rob'[t] = rob[t]
  BY <1>1, <1>2, <1>4, TailIsFree
<1>6. CoreTypeOK'
  <2>1. UnitsScalar'
    BY <1>1, <1>2, UnitsKept
  <2>2. stage' \in Stages /\ halted' \in BOOLEAN
    BY <1>1, <1>2 DEF EndOfTick, CoreTypeOK, Stages
  <2>3. UNCHANGED <<regfile, mem_port_used, dmem, out, csr, mtip, timer_left, ecall_halt>>
    BY <1>2 DEF EndOfTick, timer
  <2> QED BY <1>1, <1>2, <1>4, <2>1, <2>2, <2>3 DEF CoreTypeOK, front
<1>7. PICK T : T = {}
  OBVIOUS
<1>8. Work(T)
  BY <1>2, <1>5, <1>7 DEF Work, IsIllegal, IsVector
<1>9. PipelineInv'
  <2>1. \A t \in Tags : rob'[t].valid = rob[t].valid
    <3>1. FreshEntry.valid = rob[rob_tail].valid
      BY <1>1 DEF FreshEntry, CoreTypeOK, RobEntry
    <3>2. rob_tail \in Tags
      BY <1>1 DEF CoreTypeOK
    <3> QED BY <1>1, <1>2, <1>4, <3>1, <3>2 DEF CoreTypeOK
  <2>2. Completes({}, {})
    BY <1>2, <1>5, <2>1 DEF Completes
  <2> QED BY <1>1, <2>2, CompleteKeeps
<1> QED BY <1>1, <1>2, <1>6, <1>7, <1>8, <1>9, QuietBlock DEF VecControlOK

LEMMA VecDispatchKeeps == ASSUME VecCore, VecDispatch PROVE VecCore'
  BY VsetKeeps, VectorKeeps, IllegalKeeps, VectorCsrKeeps, VectorStallKeeps DEF VecDispatch

-----------------------------------------------------------------------------
(* The invariant, and what follows from it.                                *)

\* A step that touches neither the pipeline nor the queue.
LEMMA VecIdleKeeps ==
  ASSUME VecCore, UNCHANGED <<prog, rob, rob_head, rob_tail, rob_count, rs, branch_pending, rat>>,
         CoreTypeOK', UNCHANGED <<vregs, vcsrs, queue, vec_ticked, accesses>>
  PROVE  VecCore'
<1>1. PipeCore /\ VecControlOK
  BY DEF VecCore
<1>2. PipelineInv'
  BY <1>1, QuietKeeps DEF robs
<1>3. PICK T : T = {}
  OBVIOUS
<1>4. Work(T)
  BY <1>3 DEF Work, IsIllegal
<1> QED BY <1>1, <1>2, <1>3, <1>4, QuietBlock DEF VecControlOK

LEMMA VecStart == VInit => VecCore
<1> SUFFICES ASSUME VInit PROVE VecCore
  OBVIOUS
<1>1. CoreTypeOK /\ Reset /\ prog \in [Word -> Instr \cup VInstr]
  BY StartTyped, VProgAssumption DEF VInit
<1>2. rob_head = 0 /\ rob_tail = 0 /\ rob_count = 0
  BY <1>1 DEF Reset
<1>3. \A t \in Tags : ~InFlight(t)
  BY <1>1, <1>2, Counters DEF InFlight, Age
<1>4. PipelineInv
  <2>1. \A t \in Tags : ~rob[t].valid
    BY <1>1 DEF Reset, EmptyEntry
  <2>2. \A u \in Units : ~rs[u].busy
    BY <1>1 DEF Reset, IdleStation
  <2>3. \A r \in Regs : ~rat[r].has_tag
    BY <1>1 DEF Reset
  <2>4. RobWindow
    BY <1>2, <1>3, <2>1, RobAssumption DEF RobWindow
  <2>5. "lsu" \in Units
    BY DEF Units
  <2> QED BY <1>3, <2>2, <2>3, <2>4, <2>5
          DEF PipelineInv, StationsOwn, NoLostWakeup, RatNamesYoungestWriter, WritersOnly
<1>5. BranchAccounting
  <2>1. Branches = {}
    BY <1>3 DEF Branches
  <2>2. branch_pending = 0
    BY <1>1 DEF Reset
  <2> QED BY <1>1, <2>1, <2>2, BranchesFinite, AccountingIs, FS_EmptySet
<1>6. SysDecoded
  BY <1>1 DEF Reset, IdleStation, SysDecoded, Units
<1>7. VecControlOK
  <2>1. CELLS \in Nat /\ 0 \in 0 .. CELLS /\ 0 \in 0 .. CELLS - 1 /\ VIQ_SZ \in Nat
    BY VecAssumption, VecUnitAssumption
  <2>2. 0 \in Tags /\ 0 \in Word /\ Ready(0) \in Operand
    BY SmallWords, RobAssumption DEF Tags, Ready, Operand
  <2>3. IdleVec \in VecRs
    BY <2>1, <2>2 DEF IdleVec, VecRs, Sews
  <2>4. NoConfig \in VType
    BY DEF NoConfig, VType, Sews
  <2>5. viq = <<>> /\ vec_rs = IdleVec /\ vec_ticked = FALSE /\ accesses = 0
        /\ csr_vl = 0 /\ csr_vtype = NoConfig /\ csr_vstart = 0
    BY DEF VInit
  <2>6. viq \in Seq(VecRs) /\ Len(viq) = 0
    BY <2>5
  <2>9. VIQ_SZ \in Nat
    BY VecUnitAssumption
  <2>10. Len(viq) <= VIQ_SZ
    BY <2>6, <2>9
  <2>7. Len(viq) <= VIQ_SZ /\ vec_ticked \in BOOLEAN /\ accesses \in Nat
    BY <2>5, <2>10
  <2>8. vec_rs \in VecRs /\ csr_vl \in 0 .. CELLS /\ csr_vtype \in VType /\ csr_vstart \in 0 .. CELLS - 1
    BY <2>1, <2>3, <2>4, <2>5
  <2> QED BY <1>1, <2>6, <2>7, <2>8 DEF VecControlOK
<1>8. Pending = <<>>
  <2>1. ~vec_rs.busy /\ viq = <<>>
    BY DEF VInit, IdleVec
  <2> QED BY <1>7, <2>1, PendingIs
<1>9. QueueInv /\ NoSpeculativeVector
  <2>1. Len(Pending) = 0
    BY <1>8
  <2> QED BY <1>3, <2>1 DEF QueueInv, Holds, NoSpeculativeVector, IsVector
<1> QED BY <1>1, <1>4, <1>5, <1>6, <1>7, <1>9 DEF VecCore, PipeCore

LEMMA VecStep == VecCore /\ VecDataOK' /\ [VNext]_vvars => VecCore'
<1> SUFFICES ASSUME VecCore, VecDataOK', [VNext]_vvars PROVE VecCore'
  OBVIOUS
<1>1. CASE VecCommit \/ VecExecute \/ VecLsu \/ VecSys \/ VecSysExecute
  BY <1>1, VecCommitKeeps, VecExecuteKeeps, VecLsuKeeps, VecSysKeeps, VecSysExecuteKeeps
<1>2. CASE VecUnit
  BY <1>2, VecUnitKeeps DEF VecDataOK
<1>3. CASE ScalarOnly
  BY <1>3, VecIssueKeeps, VecScalarDispatchKeeps DEF ScalarOnly
<1>4. CASE VecDispatch
  BY <1>4, VecDispatchKeeps
<1>5. CASE VTimerFires
  <2>1. TimerFires /\ UNCHANGED <<vregs, vcsrs, queue, vec_ticked, accesses>>
    BY <1>5 DEF VTimerFires
  <2>2. CoreTypeOK
    BY DEF VecCore, PipeCore
  <2>3. UNCHANGED <<prog, rob, rob_head, rob_tail, rob_count, rs, branch_pending, rat>>
    BY <2>1 DEF TimerFires, robs
  <2>4. UnitsScalar'
    BY <2>2, <2>3, UnitsKept
  <2>5. CoreTypeOK'
    BY <2>1, <2>2, <2>4, TimerAssumption DEF TimerFires, CoreTypeOK, front, robs
  <2> QED BY <2>1, <2>3, <2>5, VecIdleKeeps
<1>6. CASE UNCHANGED vvars
  <2>1. UNCHANGED vars /\ UNCHANGED <<vregs, vcsrs, queue, vec_ticked, accesses>>
    BY <1>6 DEF vvars
  <2>2. CoreTypeOK
    BY DEF VecCore, PipeCore
  <2>3. UNCHANGED <<prog, rob, rob_head, rob_tail, rob_count, rs, branch_pending, rat>>
    BY <2>1 DEF vars, robs
  <2>4. UnitsScalar'
    BY <2>2, <2>3, UnitsKept
  <2>5. CoreTypeOK'
    BY <2>1, <2>2, <2>4 DEF vars, CoreTypeOK, front, robs, timer
  <2> QED BY <2>1, <2>3, <2>5, VecIdleKeeps
<1> QED BY <1>1, <1>2, <1>3, <1>4, <1>5, <1>6 DEF VNext, VTick, VStopped

\* The invariant, for as long as elements are words.
LEMMA VecCorrect == VSpec /\ []VecDataOK => []VecCore
  BY VecStart, VecStep, PTL DEF VSpec

\* The unit and the queue hold exactly the incomplete vector instructions in
\* flight, in program order: no flush, reuse of a tag or full queue makes
\* them lose or keep one too many.
THEOREM QueueCorrect == VSpec /\ []VecDataOK => []QueueInOrder
<1>1. VecCore => QueueInOrder
  <2> SUFFICES ASSUME VecCore PROVE QueueInOrder
    OBVIOUS
  <2>1. PICK P \in Seq(VecRs) : P = Pending
    BY PendingIs DEF VecCore
  <2>2. Holds(P) /\ DOMAIN P = 1 .. Len(P)
    BY <2>1 DEF VecCore, QueueInv
  <2>3. \A i \in DOMAIN P : InFlight(P[i].rob_tag) /\ ~rob[P[i].rob_tag].ready
                            /\ rob[P[i].rob_tag].pc = P[i].pc
    BY <2>2 DEF Holds, Owns
  <2> QED BY <2>1, <2>2, <2>3 DEF QueueInOrder, Holds
<1> QED BY <1>1, VecCorrect, PTL

\* Nothing that a flush could not undo is speculative: a vector instruction
\* in flight is older than every conditional branch in flight.
THEOREM NoVectorIsSpeculative == VSpec /\ []VecDataOK => []NoSpeculativeVector
<1>1. VecCore => NoSpeculativeVector
  BY DEF VecCore
<1> QED BY <1>1, VecCorrect, PTL

\* An operand the coprocessor waits for will be broadcast: its producer is in
\* flight, older and not complete.
THEOREM NoVectorLosesWakeup == VSpec /\ []VecDataOK => []VecNoLostWakeup
<1>1. VecCore => VecNoLostWakeup
  <2> SUFFICES ASSUME VecCore PROVE VecNoLostWakeup
    OBVIOUS
  <2>1. PICK P \in Seq(VecRs) : P = Pending
    BY PendingIs DEF VecCore
  <2>2. Holds(P) /\ DOMAIN P = 1 .. Len(P)
    BY <2>1 DEF VecCore, QueueInv
  <2>3. \A i \in DOMAIN P : Awaits(P[i].s1, P[i].rob_tag) /\ Awaits(P[i].s2, P[i].rob_tag)
    BY <2>2 DEF Holds
  <2> QED BY <2>1, <2>3 DEF VecNoLostWakeup, Awaits
<1> QED BY <1>1, VecCorrect, PTL

-----------------------------------------------------------------------------
\* The program is never written.
LEMMA ProgramStays == [VNext]_vvars => prog' = prog
<1>1. VecCommit => prog' = prog
  BY DEF VecCommit, TakeInterrupt, CommitMispredict, CommitMret, CommitTrap, CommitBranch, CommitHalt,
         CommitStore, CommitRegister, CommitPlain, NoCommit
<1>2. VecExecute \/ VecLsu => prog' = prog
  BY DEF VecExecute, Execute, VecLsu, LsuLoad, LsuStore, LsuIdle
<1>3. VecUnit => prog' = prog
  BY DEF VecUnit, VecCount, VecComplete, VecWait, VlsuEndOfField, VlsuSkip, VlsuMove, VlsuRefused, VectorFrame
<1>4. VecSys \/ VecSysExecute => prog' = prog
  BY DEF VecSys, SysIdle, SysExecute, VecSysExecute
<1>5. ScalarOnly => prog' = prog
  BY DEF ScalarOnly, Issue, DispatchStage, DispatchQuick, DispatchToUnit, DispatchJalr, DispatchBranch,
         DispatchStall, FetchEnd, FetchIdle, EndOfTick
<1>6. VecDispatch => prog' = prog
  BY DEF VecDispatch, DispatchVset, DispatchVector, DispatchVectorIllegal, DispatchVectorCsr,
         DispatchVectorStall, EndOfTick
<1>7. VTimerFires \/ UNCHANGED vvars => prog' = prog
  BY DEF VTimerFires, TimerFires, vvars, vars
<1> QED BY <1>1, <1>2, <1>3, <1>4, <1>5, <1>6, <1>7 DEF VNext, VTick, VStopped

-----------------------------------------------------------------------------
(* The clock.  While an instruction is being computed, the ticks it has    *)
(* had and those `remaining` still counts make up its latency, provided    *)
(* that the latency fits the three bits in which it is counted.            *)

FitsCountdown == {VALU_LAT, VMUL_LAT, VSLDU_LAT} \subseteq 1 .. 7

ClockInv ==
  IF Computing
  THEN /\ prog[vec_rs.pc].op \in VArithOps
       /\ ran \in Nat /\ vec_rs.remaining >= 1 /\ ran + vec_rs.remaining = VecLatency
  ELSE ran = 0

LEMMA LatencyIs == FitsCountdown => VecLatency \in 1 .. 7 /\ InRemaining(VecLatency) = VecLatency
<1> SUFFICES ASSUME FitsCountdown
             PROVE  VecLatency \in 1 .. 7 /\ InRemaining(VecLatency) = VecLatency
  OBVIOUS
<1>1. VecLatency \in 1 .. 7
  BY DEF FitsCountdown, VecLatency
<1> QED BY <1>1 DEF InRemaining

\* What the unit counts down from, in a turn that computes.
LEMMA CountdownIs ==
  ASSUME VecCore, FitsCountdown, ClockInv, ArithRuns
  PROVE  ran \in Nat /\ Countdown \in Nat /\ ran + Countdown + 1 = VecLatency
<1>1. unit \in VecRs /\ unit.busy
  BY UnitIs DEF VecCore, ArithRuns, IsArith
<1>2. CASE unit.executing
  <2>1. ~Pops
    <3> SUFFICES ASSUME Pops PROVE FALSE
      OBVIOUS
    <3>1. Head(viq) \in VecRs
      BY DEF VecCore, VecControlOK, Pops
    <3> QED BY <1>2, <3>1 DEF unit, VecRs
  <2>2. unit = vec_rs /\ Computing
    BY <1>1, <1>2, <2>1 DEF unit, Computing
  <2>3. unit.remaining \in 0 .. 7
    BY <1>1 DEF VecRs
  <2> QED BY <1>2, <2>2, <2>3 DEF ClockInv, Countdown
<1>3. CASE ~unit.executing
  <2>1. ~Computing
    BY <1>3 DEF unit, Pops, Computing
  <2>2. VecLatency \in 1 .. 7 /\ Countdown = VecLatency - 1
    BY <1>3, LatencyIs DEF Countdown
  <2> QED BY <2>1, <2>2 DEF ClockInv
<1> QED BY <1>2, <1>3

\* A turn that computes nothing, or in which the result comes, leaves the unit
\* with nothing half computed.
LEMMA TurnClock ==
  ASSUME VecCore, ClockInv, VecUnit, ~VecCount, Measure
  PROVE  ~Computing' /\ ran' = 0
<1>1. unit \in VecRs
  BY UnitIs DEF VecCore
<1>2. ~Computing' => ran' = 0
  BY DEF Measure
<1>3. CASE VecComplete
  <2>1. vec_rs' = [unit EXCEPT !.busy = FALSE, !.executing = FALSE, !.remaining = 0]
    BY <1>3 DEF VecComplete
  <2> QED BY <1>1, <1>2, <2>1 DEF Computing, VecRs
<1>4. ASSUME VecWait \/ VlsuEndOfField \/ VlsuSkip \/ VlsuMove \/ VlsuRefused PROVE ~Computing'
  <2>1. ~ArithRuns
    <3>1. VArithOps \cap VMemOps = {}
      BY DEF VArithOps, VAluOps, VMemOps
    <3>2. VecWait \/ IsMem
      BY <1>4 DEF VlsuEndOfField, VlsuSkip, VlsuMove, VlsuRefused, VlsuMayExecute
    <3> QED BY <3>1, <3>2 DEF VecWait, ArithRuns, IsArith, IsMem
  <2>2. ~(unit.busy /\ unit.executing)
    <3>1. CASE Pops
      <4>1. Head(viq) \in VecRs
        BY <3>1 DEF VecCore, VecControlOK, Pops
      <4> QED BY <3>1, <4>1 DEF unit, VecRs
    <3>2. CASE ~Pops
      <4>1. unit = vec_rs
        BY <3>2 DEF unit
      <4> QED BY <2>1, <4>1 DEF ClockInv, Computing, ArithRuns, IsArith, vins
    <3> QED BY <3>1, <3>2
  <2>3. vec_rs'.busy => vec_rs'.busy = unit.busy /\ vec_rs'.executing = unit.executing
    BY <1>1, <1>4 DEF VecWait, VlsuEndOfField, VlsuDone, VlsuSkip, NextElem, VlsuMove, VlsuRefused, VecRs
  <2> QED BY <2>2, <2>3 DEF Computing
<1> QED BY <1>2, <1>3, <1>4 DEF VecUnit

\* In the other steps the unit goes on where it was, or is flushed.
LEMMA OtherClock ==
  ASSUME VecCore, ClockInv, [VNext]_vvars, ~VecUnit, ran' = IF ~Computing' THEN 0 ELSE ran
  PROVE  ClockInv'
<1>1. vec_rs \in VecRs
  BY DEF VecCore, VecControlOK
<1>2. \A results : LET v == UnitHears(results)
                   IN /\ v.busy = vec_rs.busy /\ v.executing = vec_rs.executing
                      /\ v.remaining = vec_rs.remaining /\ v.pc = vec_rs.pc
  BY <1>1 DEF UnitHears, HearBoth, VecRs
<1> DEFINE Same == /\ vec_rs'.busy = vec_rs.busy /\ vec_rs'.executing = vec_rs.executing
                   /\ vec_rs'.remaining = vec_rs.remaining /\ vec_rs'.pc = vec_rs.pc
<1>3. Same \/ ~vec_rs'.busy
  <2>1. CASE VecCommit
    BY <1>1, <2>1 DEF VecCommit, VecFlush, queue, VecRs
  <2>2. CASE VecExecute
    BY <1>2, <2>2 DEF VecExecute, VecHear
  <2>3. CASE VecLsu
    BY <1>2, <2>3 DEF VecLsu, VecHear, queue
  <2>4. CASE VecSys
    BY <1>2, <2>4 DEF VecSys, VecHear, queue
  <2>5. CASE VecSysExecute
    BY <1>2, <2>5 DEF VecSysExecute, VecHear
  <2>6. CASE ScalarOnly \/ VTimerFires \/ UNCHANGED vvars
    BY <2>6 DEF ScalarOnly, VTimerFires, queue, vvars
  <2>7. CASE VecDispatch
    BY <2>7 DEF VecDispatch, DispatchVset, DispatchVector, DispatchVectorIllegal, DispatchVectorCsr,
                DispatchVectorStall, queue
  <2> QED BY <2>1, <2>2, <2>3, <2>4, <2>5, <2>6, <2>7 DEF VNext, VTick, VStopped
<1>4. CASE ~Computing'
  BY <1>4 DEF ClockInv
<1>5. CASE Computing'
  <2>1. Same /\ Computing /\ ran' = ran
    BY <1>3, <1>5 DEF Computing
  <2>2. prog' = prog
    BY ProgramStays
  <2>3. unit = vec_rs /\ unit' = vec_rs'
    BY <1>5, <2>1 DEF unit, Pops, Computing
  <2>4. VecLatency' = VecLatency
    BY <2>1, <2>2, <2>3 DEF VecLatency, vins
  <2> QED BY <1>5, <2>1, <2>2, <2>4 DEF ClockInv
<1> QED BY <1>4, <1>5

LEMMA ClockStep ==
  VecCore /\ FitsCountdown /\ ClockInv /\ [VNext /\ Measure]_tvars => ClockInv'
<1> SUFFICES ASSUME VecCore, FitsCountdown, ClockInv, [VNext /\ Measure]_tvars PROVE ClockInv'
  OBVIOUS
<1>1. CASE UNCHANGED tvars
  <2>1. [VNext]_vvars /\ ran' = ran /\ vec_rs' = vec_rs
    BY <1>1 DEF tvars, vvars, queue
  <2>2. ran' = IF ~Computing' THEN 0 ELSE ran
    BY <2>1 DEF ClockInv, Computing
  <2>3. ~VecUnit
    BY <1>1 DEF tvars, vvars, VecUnit, VecCount, VecComplete, VecWait, VlsuEndOfField, VlsuSkip, VlsuMove,
                VlsuRefused, VectorTurn, TakenFromQueue, TurnEnds
  <2> QED BY <2>1, <2>2, <2>3, OtherClock
<1>2. CASE VNext /\ Measure /\ VecCount
  <2>1. unit \in VecRs /\ unit.busy /\ vins.op \in VArithOps
    BY <1>2, UnitIs DEF VecCore, VecCount, ArithRuns, IsArith
  <2>2. PICK c : c = Countdown
    OBVIOUS
  <2>3. ran \in Nat /\ c \in Nat /\ c > 0 /\ ran + c + 1 = VecLatency
    BY <1>2, <2>2, CountdownIs DEF VecCount
  <2>4. /\ vec_rs'.busy /\ vec_rs'.executing /\ vec_rs'.remaining = c /\ vec_rs'.pc = unit.pc
        /\ prog' = prog /\ ~vec_ticked /\ vec_ticked'
    BY <1>2, <2>1, <2>2 DEF VecCount, VecRs, VectorFrame, VectorTurn, TakenFromQueue, TurnEnds
  <2>5. Computing' /\ ran' = ran + 1
    BY <1>2, <2>4 DEF Computing, Measure
  <2>6. VecLatency' = VecLatency /\ prog'[vec_rs'.pc].op \in VArithOps
    <3>1. unit' = vec_rs'
      BY <2>4 DEF unit, Pops
    <3> QED BY <2>1, <2>4, <3>1 DEF VecLatency, vins
  <2>7. PICK n : n = ran
    OBVIOUS
  <2>8. ran' \in Nat /\ vec_rs'.remaining >= 1 /\ ran' + vec_rs'.remaining = VecLatency
    BY <2>3, <2>4, <2>5, <2>7
  <2> QED BY <2>5, <2>6, <2>8 DEF ClockInv
<1>3. CASE VNext /\ Measure /\ VecUnit /\ ~VecCount
  BY <1>3, TurnClock DEF ClockInv
<1>4. CASE VNext /\ Measure /\ ~VecUnit
  <2>1. ~(vec_ticked' /\ ~vec_ticked)
    BY <1>4 DEF VNext, VTick, VecCommit, VecExecute, VecLsu, VecSys, VecSysExecute, ScalarOnly, VecDispatch,
                DispatchVset, DispatchVector, DispatchVectorIllegal, DispatchVectorCsr, DispatchVectorStall,
                VTimerFires, VStopped, vvars
  <2>2. ran' = IF ~Computing' THEN 0 ELSE ran
    BY <1>4, <2>1 DEF Measure
  <2> QED BY <1>4, <2>2, OtherClock
<1>5. VecCount => VecUnit
  BY DEF VecUnit
<1> QED BY <1>1, <1>2, <1>3, <1>4, <1>5

\* Whatever the latencies are, as long as they fit the countdown: every result
\* comes in the tick its latency says, counted from the start of its own
\* instruction, through flushes and whatever the unit did before.
THEOREM ResultsTakeTheirLatency == TSpec /\ []VecDataOK /\ FitsCountdown => TakesItsLatency
<1> DEFINE A == VecComplete => ran + 1 = VecLatency
<1>1. TInit => ClockInv
  BY DEF TInit, VInit, IdleVec, ClockInv, Computing
<1>2. [VNext /\ Measure]_tvars => [VNext]_vvars
  BY DEF tvars
<1>3. TSpec => VSpec
  BY <1>2, PTL DEF TSpec, TInit, VSpec
<1>4. TSpec /\ []VecDataOK => []VecCore
  BY <1>3, VecCorrect, PTL
<1>5. VecCore /\ FitsCountdown /\ ClockInv => A
  <2> SUFFICES ASSUME VecCore, FitsCountdown, ClockInv, VecComplete PROVE ran + 1 = VecLatency
    OBVIOUS
  <2>1. PICK c : c = Countdown
    OBVIOUS
  <2>2. ran \in Nat /\ c \in Nat /\ c <= 0 /\ ran + c + 1 = VecLatency
    BY <2>1, CountdownIs DEF VecComplete
  <2> QED BY <2>2
<1> HIDE DEF A
<1>6. ASSUME FitsCountdown PROVE TSpec /\ []VecDataOK => []ClockInv
  BY <1>1, <1>4, <1>6, ClockStep, PTL DEF TSpec
<1>7. ASSUME FitsCountdown PROVE TSpec /\ []VecDataOK => [][A]_tvars
  <2>1. VecCore /\ ClockInv => A
    BY <1>5, <1>7
  <2>2. VecCore /\ ClockInv => [A]_tvars
    BY <2>1
  <2> QED BY <1>4, <1>6, <1>7, <2>2, PTL
<1> QED BY <1>7 DEF TakesItsLatency, A

-----------------------------------------------------------------------------
(* The port.  Once the port is granted nobody else asks for it until the   *)
(* next tick begins with a commit.                                         *)

PortInv == accesses \in {0, 1} /\ (stage # "commit" /\ accesses = 1 => mem_port_used)

LEMMA PortStep == PortInv /\ [VNext]_vvars => PortInv'
<1> SUFFICES ASSUME PortInv, [VNext]_vvars PROVE PortInv'
  OBVIOUS
<1>1. CASE VecCommit
  <2>1. accesses' = IF CommitPlain /\ HeadEntry.is_store /\ HeadEntry.addr # UART_TX_ADDR THEN 1 ELSE 0
    BY <1>1 DEF VecCommit
  <2>2. CASE CommitPlain /\ HeadEntry.is_store /\ HeadEntry.addr # UART_TX_ADDR
    <3>1. CommitStore
      BY <1>1, <2>2 DEF VecCommit, CommitPlain, Commit, TakeInterrupt, CommitMispredict, CommitMret,
                        CommitTrap, CommitBranch, CommitHalt, CommitRegister, NoCommit
    <3>2. mem_port_used'
      BY <2>2, <3>1 DEF CommitStore
    <3> QED BY <2>1, <3>2 DEF PortInv
  <2>3. CASE ~(CommitPlain /\ HeadEntry.is_store /\ HeadEntry.addr # UART_TX_ADDR)
    BY <2>1, <2>3 DEF PortInv
  <2> QED BY <2>2, <2>3
<1>2. CASE VecExecute
  BY <1>2 DEF VecExecute, Execute, PortInv
<1>3. CASE VecLsu
  BY <1>3 DEF VecLsu, LsuLoad, LsuStore, LsuIdle, PortInv
<1>4. CASE VecUnit
  <2>1. stage = "sys" /\ stage' = stage
    BY <1>4 DEF VecUnit, VecCount, VecComplete, VecWait, VlsuEndOfField, VlsuSkip, VlsuMove, VlsuRefused,
                VectorTurn, VectorFrame
  <2>2. \/ UNCHANGED <<accesses, mem_port_used>>
        \/ ~mem_port_used /\ mem_port_used' = TRUE /\ accesses' = accesses + 1
    BY <1>4 DEF VecUnit, VecCount, VecComplete, VecWait, VlsuEndOfField, VlsuSkip, VlsuMove, VlsuRefused,
                axi_grant
  <2> QED BY <2>1, <2>2 DEF PortInv
<1>5. CASE VecSys \/ VecSysExecute
  BY <1>5 DEF VecSys, SysIdle, SysExecute, VecSysExecute, PortInv
<1>6. CASE ScalarOnly
  BY <1>6 DEF ScalarOnly, Issue, DispatchStage, DispatchQuick, DispatchToUnit, DispatchJalr,
              DispatchBranch, DispatchStall, FetchEnd, FetchIdle, EndOfTick, PortInv
<1>7. CASE VecDispatch
  BY <1>7 DEF VecDispatch, DispatchVset, DispatchVector, DispatchVectorIllegal, DispatchVectorCsr,
              DispatchVectorStall, EndOfTick, PortInv
<1>8. CASE VTimerFires \/ UNCHANGED vvars
  BY <1>8 DEF VTimerFires, TimerFires, vvars, vars, PortInv
<1> QED BY <1>1, <1>2, <1>3, <1>4, <1>5, <1>6, <1>7, <1>8 DEF VNext, VTick, VStopped

\* Memory is accessed at most once per tick, by the committing store, the
\* scalar load or the vector unit, whatever the elements hold.
THEOREM PortIsShared == VSpec => []OneAccessPerTick
<1>1. VInit => PortInv
  BY DEF VInit, Reset, PortInv
<1>2. PortInv => OneAccessPerTick
  BY DEF PortInv, OneAccessPerTick
<1> QED BY <1>1, <1>2, PortStep, PTL DEF VSpec

-----------------------------------------------------------------------------
(* Type correctness, of the history too.                                   *)

UndoOK ==
  undo \in [config : [Tags -> VConfig], vregs : [Tags -> VRegFile], mem : [0 .. MemWords - 1 -> Word]]

LEMMA UndoStart == VInit /\ VecDataOK => UndoOK
<1> SUFFICES ASSUME VInit, VecDataOK PROVE UndoOK
  OBVIOUS
<1>1. Config \in VConfig
  BY VecAssumption DEF VInit, Config, VConfig, NoConfig, VType, Sews
<1>2. vregs \in VRegFile /\ dmem \in [0 .. MemWords - 1 -> Word]
  BY DEF VecDataOK
<1>3. undo = [config |-> [t \in Tags |-> Config], vregs |-> [t \in Tags |-> vregs], mem |-> dmem]
  BY DEF VInit
<1> QED BY <1>1, <1>2, <1>3 DEF UndoOK

LEMMA UndoRemembers == ASSUME VecCore, UndoOK, Remember PROVE UndoOK'
<1>1. rob_tail \in Tags /\ VecControlOK
  BY DEF VecCore, PipeCore, CoreTypeOK
<1>2. Config \in VConfig
  BY <1>1 DEF VecControlOK, Config, VConfig
<1>3. ConfigBefore \in VConfig
  BY <1>2, VecAssumption DEF ConfigBefore, VConfig
<1> QED BY <1>1, <1>3 DEF Remember, UndoOK

LEMMA UndoStep == VecCore /\ VecDataOK /\ VecDataOK' /\ UndoOK /\ [VNext]_vvars => UndoOK'
<1> SUFFICES ASSUME VecCore, VecDataOK, VecDataOK', UndoOK, [VNext]_vvars PROVE UndoOK'
  OBVIOUS
<1>1. CASE VecCommit
  BY <1>1 DEF VecCommit, VecDataOK, UndoOK
<1>2. CASE VecUnit
  <2>1. TurnEnds
    BY <1>2 DEF VecUnit, VecCount, VecComplete, VecWait, VlsuEndOfField, VlsuSkip, VlsuMove, VlsuRefused,
                TakenFromQueue
  <2>2. unit.rob_tag \in Tags
    BY UnitIs DEF VecCore, VecRs
  <2> QED BY <2>1, <2>2 DEF TurnEnds, VecDataOK, UndoOK
<1>3. CASE VecExecute \/ VecLsu \/ VecSys \/ VecSysExecute \/ ScalarOnly \/ VTimerFires \/ UNCHANGED vvars
  BY <1>3 DEF VecExecute, VecLsu, VecSys, VecSysExecute, ScalarOnly, VTimerFires, vvars, UndoOK
<1>4. CASE VecDispatch
  BY <1>4, UndoRemembers DEF VecDispatch, DispatchVset, DispatchVector, DispatchVectorIllegal,
                             DispatchVectorCsr, DispatchVectorStall, UndoOK
<1> QED BY <1>1, <1>2, <1>3, <1>4 DEF VNext, VTick, VStopped

\* Registers, queue, unit and vector CSRs keep values of their widths: the
\* queue never holds more than VIQ_SZ instructions, vl stays within a
\* register and vstart within its elements.
THEOREM VectorTyped == VSpec /\ []VecDataOK => []VecTypeOK
<1>1. VSpec /\ []VecDataOK => []UndoOK
  BY VecCorrect, UndoStart, UndoStep, PTL DEF VSpec
<1>2. VecCore /\ UndoOK /\ VecDataOK => VecTypeOK
  BY DEF VecCore, PipeCore, UndoOK, VecTypeOK
<1> QED BY <1>1, <1>2, VecCorrect, PTL

=============================================================================
