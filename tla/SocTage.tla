------------------------------ MODULE SocTage ------------------------------
(***************************************************************************)
(* The branch predictor of RISCV-SoC, composed with the scalar core.       *)
(*                                                                         *)
(* TAGE: a bimodal base and tagged tables, each indexed with a longer      *)
(* history of outcomes than the one before; of the tables whose tag        *)
(* matches, the one with the longest history predicts.  The core asks when *)
(* it dispatches a conditional branch and shifts the prediction into the   *)
(* history at once; each branch keeps the history it was predicted with.   *)
(* The tables are trained when the branch commits, in program order, and a *)
(* misprediction puts the history back.  The flush of a trap or of an      *)
(* interrupt does not.                                                     *)
(*                                                                         *)
(* SocCore predicts anything; here DispatchBranch takes the prediction of  *)
(* the tables.  A program counter counts instructions of four bytes.       *)
(***************************************************************************)
EXTENDS SocCore, FiniteSetsExt

CONSTANTS
  TPrograms,           \* instruction memories
  ShortPatterns,       \* those whose branches repeat a pattern of half the longest history
  TAGE_BASE_BITS,      \* log2 of the bimodal counters, 9 in the code
  TAGE_TBL_BITS,       \* log2 of the entries of a tagged table, 7 in the code
  TAGE_TAG_BITS,       \* width of a tag, 8 in the code
  TAGE_HIST,           \* history of each table, shortest first: <<4, 8, 16>> in the code
  TAGE_GHR_BITS        \* width of the global history, 16 in the code

ASSUME TageAssumption ==
  /\ {TAGE_BASE_BITS, TAGE_TBL_BITS, TAGE_TAG_BITS, TAGE_GHR_BITS} \subseteq Nat \ {0}
  /\ TAGE_HIST \in Seq(1 .. TAGE_GHR_BITS)
ASSUME TProgAssumption == TPrograms \subseteq [Word -> Instr]

VARIABLES
  tage_base,  \* bimodal counters, 2 and 3 predict taken
  tage_t,     \* the tagged tables
  tage_ghr,   \* the global history, latest outcome in the lowest bit
  ghr_snap,   \* the history each ROB entry was predicted with
  outcomes    \* history: what the retired branches did, and what a trap left behind

tage  == <<tage_base, tage_t, tage_ghr, ghr_snap>>
tvars == <<vars, tage, outcomes>>

Tables    == DOMAIN TAGE_HIST
GHR       == 0 .. 2 ^ TAGE_GHR_BITS - 1
TageEntry == [tag : 0 .. 2 ^ TAGE_TAG_BITS - 1, ctr : -4 .. 3, u : 0 .. 3]

TInit ==
  /\ Reset /\ prog \in TPrograms
  /\ tage_base = [i \in 0 .. 2 ^ TAGE_BASE_BITS - 1 |-> 1]
  /\ tage_t = [t \in Tables |-> [i \in 0 .. 2 ^ TAGE_TBL_BITS - 1 |-> [tag |-> 0, ctr |-> 0, u |-> 0]]]
  /\ tage_ghr = 0
  /\ ghr_snap = [t \in Tags |-> 0]
  /\ outcomes = 0

-----------------------------------------------------------------------------
(* Where a branch looks.                                                   *)

Shifted(h, taken) == (2 * h + (IF taken THEN 1 ELSE 0)) % 2 ^ TAGE_GHR_BITS

\* The exclusive or of some words, in w bits.
Xored[words \in Seq(Nat), w \in Nat] ==
  MapThenSumSet(LAMBDA j : 2 ^ j * (Cardinality({k \in DOMAIN words : Bit(words[k], 2 ^ j)}) % 2),
                0 .. w - 1)

\* The lowest len bits of h, cut in pieces of width w and xored together.
tage_fold[h \in GHR, len \in Nat, w \in Nat] ==
  Xored[[k \in 1 .. (len + w - 1) \div w |-> (h % 2 ^ len) \div 2 ^ (w * (k - 1))], w]

\* pc >> k, of the byte address.
PcShift(p, k) == (4 * p) \div 2 ^ k

base_index(p) == PcShift(p, 1) % 2 ^ TAGE_BASE_BITS

tage_index(p, h, t) ==
  Xored[<<PcShift(p, 1), tage_fold[h, TAGE_HIST[t], TAGE_TBL_BITS], PcShift(p, 2 + t)>>,
        TAGE_TBL_BITS]

tage_tag(p, h, t) ==
  Xored[<<PcShift(p, 1), 2 * tage_fold[h, TAGE_HIST[t], TAGE_TAG_BITS], PcShift(p, 7)>>,
        TAGE_TAG_BITS]

EntryOf(p, h, t) == tage_t[t][tage_index(p, h, t)]

\* The table with the longest history whose tag matches, 0 for the bimodal.
provider(p, h) == Max({0} \cup {t \in Tables : EntryOf(p, h, t).tag = tage_tag(p, h, t)})

tage_predict(p) ==
  LET t == provider(p, tage_ghr)
  IN IF t = 0 THEN tage_base[base_index(p)] >= 2 ELSE EntryOf(p, tage_ghr, t).ctr >= 0

-----------------------------------------------------------------------------
(* What a committed branch teaches.                                        *)

\* Fault: counters without saturation.
Toward_wraps(n, up, lo, hi) == IF up THEN n + 1 ELSE n - 1

\* A saturating counter.
Toward(n, up, lo, hi) == IF up THEN Min({n + 1, hi}) ELSE Max({n - 1, lo})

Trained(e, taken, mispred) ==
  [e EXCEPT !.ctr = Toward(@, taken, -4, 3), !.u = Toward(@, ~mispred, 0, 3)]

\* Fault: nothing is ever allocated.
Victims_none(p, h) == {}

\* The tables longer than the provider whose entry protects nothing.
Victims(p, h) ==
  {t \in Tables : t > provider(p, h) /\ EntryOf(p, h, t).u = 0
                                     /\ EntryOf(p, h, t).tag # tage_tag(p, h, t)}

\* Fault: the entry keeps its old tag.
Allocated_keeps_tag(p, h, t, taken) == [EntryOf(p, h, t) EXCEPT !.ctr = IF taken THEN 0 ELSE -1]

\* A new entry is weak in the direction the branch took.
Allocated(p, h, t, taken) ==
  [EntryOf(p, h, t) EXCEPT !.tag = tage_tag(p, h, t), !.ctr = IF taken THEN 0 ELSE -1]

\* The base always learns, the provider if there is one; a misprediction also
\* takes the first victim, betting that the branch needs more context.
tage_update(p, h, taken, mispred) ==
  /\ tage_base' = [tage_base EXCEPT ![base_index(p)] = Toward(@, taken, 0, 3)]
  /\ LET won   == provider(p, h)
         grows == mispred /\ Victims(p, h) # {}
     IN tage_t' = [t \in Tables |->
          IF t = won
          THEN [tage_t[t] EXCEPT ![tage_index(p, h, t)] = Trained(@, taken, mispred)]
          ELSE IF grows /\ t = Min(Victims(p, h))
          THEN [tage_t[t] EXCEPT ![tage_index(p, h, t)] = Allocated(p, h, t, taken)]
          ELSE tage_t[t]]

-----------------------------------------------------------------------------
(* The blocks of the tick, with what the predictor hears of them.          *)

\* What the branch at the head really did.
TakenReal == HeadEntry.pred_taken # HeadEntry.br_mispred

\* Fault: the history is not repaired.
RepairedHistory_keeps == tage_ghr

\* What the branches after the mispredicted one left in the history never happened.
RepairedHistory == Shifted(ghr_snap[rob_head], TakenReal)

TrainOnBranch ==
  /\ CommitBranch \/ CommitMispredict
  /\ tage_update(HeadEntry.pc, ghr_snap[rob_head], TakenReal, HeadEntry.br_mispred)
  /\ tage_ghr' = IF HeadEntry.br_mispred THEN RepairedHistory ELSE tage_ghr
  /\ outcomes' = Shifted(outcomes, TakenReal)
  /\ UNCHANGED ghr_snap

PredictBranch ==
  /\ DispatchBranch /\ rob'[rob_tail].pred_taken = tage_predict(fetch_pc)
  /\ ghr_snap' = [ghr_snap EXCEPT ![rob_tail] = tage_ghr]
  /\ tage_ghr' = Shifted(tage_ghr, tage_predict(fetch_pc))
  /\ UNCHANGED <<tage_base, tage_t, outcomes>>

\* A trap or an interrupt drops branches in flight and leaves their
\* predictions in the history.
FlushWithoutRepair ==
  /\ TakeInterrupt \/ CommitMret \/ CommitTrap
  /\ outcomes' = tage_ghr
  /\ UNCHANGED tage

Unconcerned ==
  /\ \/ CommitHalt \/ CommitStore \/ CommitRegister \/ NoCommit
     \/ Execute
     \/ LsuStore \/ LsuLoad \/ LsuIdle
     \/ SysExecute \/ SysIdle
     \/ Issue
     \/ DispatchQuick \/ DispatchToUnit \/ DispatchJalr \/ DispatchStall \/ FetchEnd \/ FetchIdle
  /\ UNCHANGED <<tage, outcomes>>

TTick == ~halted /\ (TrainOnBranch \/ PredictBranch \/ FlushWithoutRepair \/ Unconcerned)

TTimer == ~halted /\ TimerFires /\ UNCHANGED <<tage, outcomes>>

TStopped == halted /\ UNCHANGED tvars

TNext == TTick \/ TTimer \/ TStopped

TSpec == TInit /\ [][TNext]_tvars /\ WF_tvars(TTick)

-----------------------------------------------------------------------------
(* Properties.                                                             *)

\* The counters and tags stay within the widths the code gives them.
TageTypeOK ==
  /\ tage_base \in [0 .. 2 ^ TAGE_BASE_BITS - 1 -> 0 .. 3]
  /\ tage_t \in [Tables -> [0 .. 2 ^ TAGE_TBL_BITS - 1 -> TageEntry]]
  /\ tage_ghr \in GHR /\ outcomes \in GHR
  /\ ghr_snap \in [Tags -> GHR]

\* The history after the n oldest entries in flight: what the retired
\* branches did, then what those in flight are predicted to do.
HistoryAfter[n \in 0 .. ROB_SZ] ==
  IF n = 0 THEN outcomes
  ELSE LET e == rob[(rob_head + n - 1) % ROB_SZ]
       IN IF e.is_branch THEN Shifted(HistoryAfter[n - 1], e.pred_taken) ELSE HistoryAfter[n - 1]

\* Speculation never corrupts the history: every branch in flight was
\* predicted with, and will train, the outcomes of the branches before it in
\* program order as far as they are known and their predictions otherwise,
\* and so will the next one.  Through any nesting of mispredictions, whose
\* wrong paths shift their own predictions in, no bit of them remains.
HistoryFollowsPath ==
  /\ \A t \in Tags : InFlight(t) /\ rob[t].is_branch => ghr_snap[t] = HistoryAfter[Age(t)]
  /\ tage_ghr = HistoryAfter[rob_count]

\* The predictor learns: a program whose branches repeat a short pattern is,
\* from some point on, never mispredicted again.  Cold entries, which match
\* the tag zero, do not mislead it for ever, aliasing does not undo what it
\* has learned, and neither do branches that are predicted before the one
\* before them has trained the tables.
Learns == prog \in ShortPatterns => <>[][~CommitMispredict]_tvars

\* Whatever the program repeats, the tables settle: from some point on a
\* misprediction finds no longer table with a free entry.  Entries are
\* protected once useful and never aged, so a branch that finds all of its
\* entries taken goes on being mispredicted, but no two branches steal each
\* other's entry for ever.
Settles ==
  <>[][CommitMispredict => Victims(HeadEntry.pc, ghr_snap[rob_head]) = {}]_tvars
=============================================================================
