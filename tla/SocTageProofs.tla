--------------------------- MODULE SocTageProofs ---------------------------
(***************************************************************************)
(* The speculative history of the branch predictor, proved for every size  *)
(* of the tables and of the core, every program and every interrupt.       *)
(*                                                                         *)
(* Nothing here depends on how an index, a tag or a counter is computed:   *)
(* the composed system takes only steps of the core (PredictorRefinesCore),*)
(* so it inherits what is proved of the core under any prediction, and the *)
(* history is a fold over the entries in flight, in the order of their age.*)
(***************************************************************************)
EXTENDS SocTage, SocCoreValues

-----------------------------------------------------------------------------
(* The composition is a core whose predictions happen to come from TAGE.   *)

\* A step of the predictor and the core together is a step of the core.
LEMMA CoreSteps == [TNext]_tvars => [Next]_vars
<1>1. TrainOnBranch => CommitStage
  BY DEF TrainOnBranch, CommitStage
<1>2. PredictBranch => DispatchStage
  BY DEF PredictBranch, DispatchStage
<1>3. FlushWithoutRepair => CommitStage
  BY DEF FlushWithoutRepair, CommitStage
<1>4. Unconcerned => \/ CommitStage \/ Execute \/ LsuStore \/ LsuLoad \/ LsuIdle
                     \/ SysExecute \/ SysIdle \/ Issue \/ DispatchStage
  BY DEF Unconcerned, CommitStage, DispatchStage
<1>5. TTick => Tick
  BY <1>1, <1>2, <1>3, <1>4 DEF TTick, Tick
<1>6. TTimer \/ TStopped \/ UNCHANGED tvars => [Next]_vars
  BY DEF TTimer, TStopped, tvars, Next, Stopped
<1> QED BY <1>5, <1>6 DEF TNext, Next

\* With TAGE or with any other predictor the core does what it may do under a
\* free prediction: what is proved of SocCore holds of the composition.
THEOREM PredictorRefinesCore ==
  TPrograms \subseteq Programs /\ TSpec => Init /\ [][Next]_vars
<1>1. TPrograms \subseteq Programs /\ TInit => Init
  BY DEF TInit, Init
<1> QED BY <1>1, CoreSteps, PTL DEF TSpec

-----------------------------------------------------------------------------
(* The history as a function of the entries in flight.                     *)

\* What an entry adds to a history.
Recalls(h, e) == IF e.is_branch THEN Shifted(h, e.pred_taken) ELSE h

\* The tag of the n-th oldest entry.
TagAt(n) == (rob_head + n - 1) % ROB_SZ

\* The history before the oldest entry, and across each entry.
HistoryFacts ==
  /\ HistoryAfter[0] = outcomes
  /\ \A t \in Tags : HistoryAfter[Age(t) + 1] = Recalls(HistoryAfter[Age(t)], rob[t])

\* Every age is that of one tag.
LEMMA TagAtAge ==
  ASSUME CoreTypeOK, NEW n \in 1 .. ROB_SZ PROVE TagAt(n) \in Tags /\ Age(TagAt(n)) = n - 1
<1>1. /\ rob_head \in 0 .. ROB_SZ - 1 /\ ROB_SZ \in Nat /\ ROB_SZ >= 2
      /\ Tags = 0 .. ROB_SZ - 1
  BY Counters, RobAssumption DEF Tags, CoreTypeOK
<1> DEFINE s == rob_head + n - 1
<1>2. s \in Nat /\ s < 2 * ROB_SZ
  BY <1>1
<1>3. CASE s < ROB_SZ
  <2>1. s % ROB_SZ = s
    BY <1>1, <1>2, <1>3
  <2> QED BY <1>1, <1>3, <2>1 DEF TagAt, Age
<1>4. CASE s >= ROB_SZ
  <2>1. s % ROB_SZ = s - ROB_SZ
    BY <1>1, <1>2, <1>4
  <2> QED BY <1>1, <1>4, <2>1 DEF TagAt, Age
<1> QED BY <1>1, <1>2, <1>3, <1>4

\* A history of n entries.
IsHistory(f, n) ==
  /\ f[0] = outcomes
  /\ \A k \in 1 .. n : f[k] = Recalls(f[k - 1], rob[TagAt(k)])

\* The recursion is well defined.
LEMMA HistoryExists == ASSUME CoreTypeOK PROVE \A n \in 0 .. ROB_SZ : \E f : IsHistory(f, n)
<1> DEFINE Bad == {n \in 0 .. ROB_SZ : ~ \E f : IsHistory(f, n)}
<1> SUFFICES ASSUME Bad # {} PROVE FALSE
  OBVIOUS
<1>1. ROB_SZ \in Nat
  BY Counters
<1>2. PICK m \in Bad : \A n \in Bad : m <= n
  <2>1. Bad \in SUBSET Nat
    BY <1>1
  <2> HIDE DEF Bad
  <2> QED BY <2>1, LeastNumber
<1>3. m # 0
  <2>1. IsHistory([k \in {0} |-> outcomes], 0)
    BY DEF IsHistory
  <2> QED BY <1>2, <2>1
<1>4. PICK f : IsHistory(f, m - 1)
  <2>1. m - 1 \in 0 .. ROB_SZ /\ m - 1 \notin Bad
    BY <1>1, <1>2, <1>3
  <2> QED BY <2>1
<1> DEFINE g == [k \in 0 .. m |-> IF k = m THEN Recalls(f[m - 1], rob[TagAt(m)]) ELSE f[k]]
<1>5. IsHistory(g, m)
  <2>1. g[0] = outcomes
    BY <1>1, <1>2, <1>3, <1>4 DEF IsHistory
  <2>2. ASSUME NEW k \in 1 .. m PROVE g[k] = Recalls(g[k - 1], rob[TagAt(k)])
    <3>1. g[k - 1] = f[k - 1]
      BY <1>1, <1>2, <1>3
    <3>2. CASE k = m
      BY <1>1, <1>2, <1>3, <3>1, <3>2
    <3>3. CASE k # m
      <4>1. k \in 1 .. m - 1 /\ g[k] = f[k]
        BY <1>1, <1>2, <1>3, <3>3
      <4> QED BY <1>4, <3>1, <4>1 DEF IsHistory
    <3> QED BY <3>2, <3>3
  <2> HIDE DEF g
  <2> QED BY <2>1, <2>2 DEF IsHistory
<1> HIDE DEF g
<1> QED BY <1>2, <1>5

LEMMA HistoryDefined == CoreTypeOK => HistoryFacts
<1> SUFFICES ASSUME CoreTypeOK PROVE HistoryFacts
  OBVIOUS
<1>1. ROB_SZ \in Nat
  BY Counters
<1> DEFINE Body(f) == [n \in 0 .. ROB_SZ |->
             IF n = 0 THEN outcomes
             ELSE LET e == rob[(rob_head + n - 1) % ROB_SZ]
                  IN IF e.is_branch THEN Shifted(f[n - 1], e.pred_taken) ELSE f[n - 1]]
<1>2. \E f : f = Body(f)
  <2>1. PICK f : IsHistory(f, ROB_SZ)
    BY <1>1, HistoryExists
  <2> DEFINE g == [n \in 0 .. ROB_SZ |-> f[n]]
  <2>2. \A n \in 1 .. ROB_SZ : n - 1 \in 0 .. ROB_SZ /\ g[n - 1] = f[n - 1]
    BY <1>1
  <2>3. \A n \in 0 .. ROB_SZ : g[n] = Body(g)[n]
    <3> TAKE n \in 0 .. ROB_SZ
    <3>1. CASE n = 0
      BY <2>1, <3>1 DEF IsHistory
    <3>2. CASE n # 0
      <4>1. n \in 1 .. ROB_SZ
        BY <1>1, <3>2
      <4> QED BY <2>1, <2>2, <3>2, <4>1 DEF IsHistory, Recalls, TagAt
    <3> QED BY <3>1, <3>2
  <2> QED BY <2>3
<1>3. HistoryAfter = Body(HistoryAfter)
  BY <1>2 DEF HistoryAfter
<1>4. HistoryAfter[0] = outcomes
  BY <1>1, <1>3
<1>5. ASSUME NEW t \in Tags
      PROVE  HistoryAfter[Age(t) + 1] = Recalls(HistoryAfter[Age(t)], rob[t])
  <2>1. PICK n \in 1 .. ROB_SZ : n = Age(t) + 1
    BY <1>1, AgeBounds
  <2>2. TagAt(n) = t
    BY <1>1, <2>1, TagAtAge, AgeInjective, AgeBounds
  <2>3. HistoryAfter[n] = Recalls(HistoryAfter[n - 1], rob[TagAt(n)])
    BY <1>1, <1>3, <2>1 DEF Recalls, TagAt
  <2> QED BY <1>1, <2>1, <2>2, <2>3, AgeBounds
<1> QED BY <1>4, <1>5 DEF HistoryFacts

\* When the d oldest entries leave and the m behind them stay, so do the
\* histories across those.
LEMMA HistoryMoves ==
  ASSUME CoreTypeOK, CoreTypeOK', NEW d \in {0, 1}, NEW m \in Nat, m + d <= ROB_SZ,
         outcomes' = HistoryAfter[d],
         \A t \in Tags : Age(t) \in d .. m + d - 1 =>
           /\ Age(t)' = Age(t) - d
           /\ rob'[t].is_branch = rob[t].is_branch /\ rob'[t].pred_taken = rob[t].pred_taken
  PROVE  \A n \in 0 .. m : HistoryAfter'[n] = HistoryAfter[n + d]
<1> DEFINE Bad == {n \in 0 .. m : HistoryAfter'[n] # HistoryAfter[n + d]}
<1> SUFFICES ASSUME Bad # {} PROVE FALSE
  OBVIOUS
<1>1. HistoryFacts /\ HistoryFacts'
  BY HistoryDefined, PTL
<1>2. PICK k \in Bad : \A n \in Bad : k <= n
  <2>1. Bad \in SUBSET Nat
    OBVIOUS
  <2> HIDE DEF Bad
  <2> QED BY <2>1, LeastNumber
<1>3. k # 0
  BY <1>1, <1>2 DEF HistoryFacts
<1>4. k \in 1 .. m /\ HistoryAfter'[k - 1] = HistoryAfter[k - 1 + d]
  <2>1. k \in 1 .. m /\ k - 1 \in 0 .. m /\ k - 1 \notin Bad
    BY <1>2, <1>3
  <2> QED BY <2>1
<1>5. PICK t \in Tags : Age(t) = k + d - 1
  <2>1. k + d \in 1 .. ROB_SZ
    BY <1>4, Counters
  <2> QED BY <2>1, TagAtAge
<1>6. /\ Age(t)' = k - 1
      /\ rob'[t].is_branch = rob[t].is_branch /\ rob'[t].pred_taken = rob[t].pred_taken
  BY <1>4, <1>5
<1>7. HistoryAfter'[k] = Recalls(HistoryAfter'[k - 1], rob'[t])
  BY <1>1, <1>4, <1>6 DEF HistoryFacts
<1>8. HistoryAfter[k + d] = Recalls(HistoryAfter[k + d - 1], rob[t])
  BY <1>1, <1>4, <1>5 DEF HistoryFacts
<1>9. HistoryAfter'[k] = HistoryAfter[k + d]
  BY <1>4, <1>6, <1>7, <1>8 DEF Recalls
<1> QED BY <1>2, <1>9

-----------------------------------------------------------------------------
(* The four ways to change the pipeline, and the history.                  *)

TageCore == PathCore /\ DOMAIN ghr_snap = Tags /\ HistoryFollowsPath

\* The head and the histories around it.
LEMMA HeadHistory ==
  ASSUME PathCore, HeadReady
  PROVE  /\ InFlight(rob_head) /\ Age(rob_head) = 0 /\ rob_count > 0
         /\ HistoryAfter[0] = outcomes /\ HistoryAfter[1] = Recalls(outcomes, HeadEntry)
         /\ HeadEntry.is_branch \in BOOLEAN /\ HeadEntry.pred_taken \in BOOLEAN
         /\ HeadEntry.br_mispred \in BOOLEAN
<1>1. CoreTypeOK /\ rob_count > 0 /\ rob_head \in Tags /\ HeadEntry = rob[rob_head] /\ HeadEntry \in RobEntry
  BY Counters DEF PathCore, CoreInv, HeadReady, HeadEntry
<1>2. InFlight(rob_head) /\ Age(rob_head) = 0
  BY <1>1, HeadInFlight, AgeBounds
<1>3. HistoryAfter[0] = outcomes /\ HistoryAfter[1] = Recalls(outcomes, HeadEntry)
  BY <1>1, <1>2, HistoryDefined DEF HistoryFacts
<1> QED BY <1>1, <1>2, <1>3 DEF RobEntry

\* Nothing in flight is left, and the history is that of no prediction.
LEMMA FlushHistory ==
  ASSUME PathCore, PathCore', PipelineFlush, tage_ghr' = outcomes' PROVE HistoryFollowsPath'
<1>1. CoreTypeOK /\ CoreTypeOK'
  BY DEF PathCore, CoreInv
<1>2. rob_count' = 0 /\ \A t \in Tags : ~InFlight(t)'
  BY <1>1, FlushWindow DEF PipelineFlush
<1>3. HistoryAfter'[0] = outcomes'
  <2>1. HistoryFacts'
    BY <1>1, HistoryDefined, PTL
  <2> QED BY <2>1 DEF HistoryFacts
<1> QED BY <1>2, <1>3 DEF HistoryFollowsPath

\* The head retires: what it was predicted to do is what it did.
LEMMA RetireHistory ==
  ASSUME TageCore, PathCore', HeadReady, Retire, UNCHANGED <<tage_ghr, ghr_snap>>,
         outcomes' = Recalls(outcomes, HeadEntry)
  PROVE  HistoryFollowsPath'
<1>1. CoreTypeOK /\ CoreTypeOK' /\ RobWindow /\ HistoryFollowsPath /\ PathCore
  BY DEF TageCore, PathCore, CoreInv, PipelineInv
<1>2. /\ \A t \in Tags : InFlight(t)' <=> InFlight(t) /\ t # rob_head
      /\ \A t \in Tags : InFlight(t) /\ t # rob_head => Age(t)' = Age(t) - 1
      /\ \A t \in Tags : t # rob_head => rob'[t] = rob[t]
      /\ rob_count' = rob_count - 1 /\ rob_count \in 1 .. ROB_SZ
  BY <1>1, RetireWindow, Counters DEF Retire, HeadReady
<1>3. \A t \in Tags : /\ Age(t) \in 0 .. ROB_SZ - 1
                      /\ t # rob_head <=> Age(t) >= 1
                      /\ InFlight(t) <=> Age(t) < rob_count
  BY <1>1, AgeBounds, Counters DEF InFlight
<1>4. \A n \in 0 .. rob_count - 1 : HistoryAfter'[n] = HistoryAfter[n + 1]
  <2>1. \A t \in Tags : Age(t) \in 1 .. rob_count - 1 + 1 - 1 =>
          /\ Age(t)' = Age(t) - 1
          /\ rob'[t].is_branch = rob[t].is_branch /\ rob'[t].pred_taken = rob[t].pred_taken
    BY <1>2, <1>3
  <2>2. rob_count - 1 \in Nat /\ rob_count - 1 + 1 <= ROB_SZ
    BY <1>1, <1>2, Counters
  <2>3. outcomes' = HistoryAfter[1]
    BY <1>1, HeadHistory
  <2> QED BY <1>1, <2>1, <2>2, <2>3, HistoryMoves
<1>5. ASSUME NEW t \in Tags, InFlight(t)', rob'[t].is_branch
      PROVE  ghr_snap'[t] = HistoryAfter'[Age(t)']
  <2>1. /\ InFlight(t) /\ rob[t].is_branch /\ Age(t)' = Age(t) - 1
        /\ Age(t) - 1 \in 0 .. rob_count - 1
    BY <1>2, <1>3, <1>5
  <2>2. HistoryAfter'[Age(t) - 1] = HistoryAfter[Age(t) - 1 + 1]
    BY <1>4, <2>1
  <2>3. Age(t) - 1 + 1 = Age(t)
    BY <1>3
  <2> QED BY <1>1, <2>1, <2>2, <2>3 DEF HistoryFollowsPath
<1>6. tage_ghr' = HistoryAfter'[rob_count']
  <2>1. HistoryAfter'[rob_count - 1] = HistoryAfter[rob_count - 1 + 1] /\ rob_count - 1 + 1 = rob_count
    BY <1>2, <1>4
  <2> QED BY <1>1, <1>2, <2>1 DEF HistoryFollowsPath
<1> QED BY <1>5, <1>6 DEF HistoryFollowsPath

\* The entries in flight stay on their path.
LEMMA KeepHistory ==
  ASSUME TageCore, PathCore', KeepsEntries, UNCHANGED <<tage_ghr, ghr_snap, outcomes>>
  PROVE  HistoryFollowsPath'
<1>1. CoreTypeOK /\ CoreTypeOK' /\ HistoryFollowsPath
  BY DEF TageCore, PathCore, CoreInv
<1>2. /\ \A t \in Tags : Age(t)' = Age(t) /\ (InFlight(t)' <=> InFlight(t))
      /\ rob_count' = rob_count /\ rob_count \in 0 .. ROB_SZ
  BY <1>1, Counters DEF KeepsEntries, Age, InFlight
<1>3. \A n \in 0 .. rob_count : HistoryAfter'[n] = HistoryAfter[n + 0]
  <2>1. \A t \in Tags : Age(t) \in 0 .. rob_count + 0 - 1 =>
          /\ Age(t)' = Age(t) - 0
          /\ rob'[t].is_branch = rob[t].is_branch /\ rob'[t].pred_taken = rob[t].pred_taken
    BY <1>1, <1>2, AgeBounds DEF KeepsEntries, InFlight
  <2>2. rob_count \in Nat /\ rob_count + 0 <= ROB_SZ
    BY <1>1, <1>2, Counters
  <2>3. outcomes' = HistoryAfter[0]
    BY <1>1, HistoryDefined DEF HistoryFacts
  <2> QED BY <1>1, <2>1, <2>2, <2>3, HistoryMoves
<1>4. \A n \in 0 .. rob_count : HistoryAfter'[n] = HistoryAfter[n]
  BY <1>1, <1>3, Counters
<1>5. ASSUME NEW t \in Tags, InFlight(t)', rob'[t].is_branch
      PROVE  ghr_snap'[t] = HistoryAfter'[Age(t)']
  <2>1. InFlight(t) /\ rob[t].is_branch /\ Age(t) \in 0 .. rob_count
    BY <1>1, <1>2, <1>5, AgeBounds, Counters DEF KeepsEntries, InFlight
  <2> QED BY <1>1, <1>2, <1>4, <2>1 DEF HistoryFollowsPath
<1>6. tage_ghr' = HistoryAfter'[rob_count']
  BY <1>1, <1>2, <1>4, Counters DEF HistoryFollowsPath
<1> QED BY <1>5, <1>6 DEF HistoryFollowsPath

\* An entry enters with the history it was predicted with, and adds to it.
LEMMA EnterHistory ==
  ASSUME TageCore, PathCore', MayFetch, NEW e \in RobEntry, NEW p, e.valid, Enter(e, p),
         tage_ghr' = Recalls(tage_ghr, e), UNCHANGED outcomes,
         ghr_snap' = IF e.is_branch THEN [ghr_snap EXCEPT ![rob_tail] = tage_ghr] ELSE ghr_snap
  PROVE  HistoryFollowsPath'
<1>1. CoreTypeOK /\ CoreTypeOK' /\ RobWindow /\ HistoryFollowsPath /\ rob_tail \in Tags /\ DOMAIN ghr_snap = Tags
  BY Counters DEF TageCore, PathCore, CoreInv, PipelineInv
<1>2. /\ \A t \in Tags : InFlight(t)' <=> InFlight(t) \/ t = rob_tail
      /\ \A t \in Tags : Age(t)' = Age(t)
      /\ \A t \in Tags : t # rob_tail => rob'[t] = rob[t]
      /\ rob'[rob_tail] = e
  BY <1>1, EnterWindow
<1>3. /\ ~InFlight(rob_tail) /\ Age(rob_tail) = rob_count
      /\ rob_count' = rob_count + 1 /\ rob_count \in 0 .. ROB_SZ - 1
  BY <1>1, TailIsFree, Counters DEF Enter, MayFetch
<1>4. \A n \in 0 .. rob_count : HistoryAfter'[n] = HistoryAfter[n + 0]
  <2>1. \A t \in Tags : Age(t) \in 0 .. rob_count + 0 - 1 =>
          /\ Age(t)' = Age(t) - 0
          /\ rob'[t].is_branch = rob[t].is_branch /\ rob'[t].pred_taken = rob[t].pred_taken
    BY <1>1, <1>2, <1>3, AgeBounds
  <2>2. rob_count \in Nat /\ rob_count + 0 <= ROB_SZ
    BY <1>1, <1>3, Counters
  <2>3. outcomes' = HistoryAfter[0]
    BY <1>1, HistoryDefined DEF HistoryFacts
  <2> QED BY <1>1, <2>1, <2>2, <2>3, HistoryMoves
<1>5. \A n \in 0 .. rob_count : HistoryAfter'[n] = HistoryAfter[n]
  BY <1>1, <1>3, <1>4, Counters
<1>6. HistoryAfter'[rob_count] = tage_ghr
  BY <1>1, <1>3, <1>5, Counters DEF HistoryFollowsPath
<1>7. tage_ghr' = HistoryAfter'[rob_count']
  <2>1. HistoryFacts'
    BY <1>1, HistoryDefined, PTL
  <2>2. PICK t \in Tags : t = rob_tail
    BY <1>1
  <2>3. Age(t)' = rob_count
    BY <1>2, <1>3, <2>2
  <2>4. HistoryAfter'[Age(t)' + 1] = Recalls(HistoryAfter'[Age(t)'], rob'[t])
    BY <2>1 DEF HistoryFacts
  <2> QED BY <1>2, <1>3, <1>6, <2>2, <2>3, <2>4
<1>8. ASSUME NEW t \in Tags, InFlight(t)', rob'[t].is_branch
      PROVE  ghr_snap'[t] = HistoryAfter'[Age(t)']
  <2>1. CASE t = rob_tail
    BY <1>1, <1>2, <1>3, <1>6, <1>8, <2>1
  <2>2. CASE t # rob_tail
    <3>1. InFlight(t) /\ rob[t].is_branch /\ Age(t) \in 0 .. rob_count /\ ghr_snap'[t] = ghr_snap[t]
      BY <1>1, <1>2, <1>3, <1>8, <2>2, AgeBounds DEF InFlight
    <3> QED BY <1>1, <1>2, <1>5, <3>1 DEF HistoryFollowsPath
  <2> QED BY <2>1, <2>2
<1> QED BY <1>7, <1>8 DEF HistoryFollowsPath

-----------------------------------------------------------------------------
(* Each step is one of the four.                                           *)

\* A branch commits: its real outcome joins those of the past, and replaces
\* everything predicted after it if it was mispredicted.
LEMMA TrainSeen == ASSUME TageCore, PathCore', TrainOnBranch PROVE HistoryFollowsPath'
<1>1. /\ PathCore /\ HistoryFollowsPath /\ HeadReady /\ HeadEntry.is_branch
      /\ HeadEntry = rob[rob_head] /\ rob_head \in Tags
  BY Counters DEF TageCore, PathCore, CoreInv, TrainOnBranch, CommitBranch, CommitMispredict, Commit,
                  HeadEntry
<1>2. /\ InFlight(rob_head) /\ Age(rob_head) = 0 /\ HistoryAfter[0] = outcomes
      /\ HeadEntry.pred_taken \in BOOLEAN /\ HeadEntry.br_mispred \in BOOLEAN
  BY <1>1, HeadHistory
<1>3. outcomes' = Shifted(outcomes, TakenReal) /\ UNCHANGED ghr_snap
  BY DEF TrainOnBranch
<1>4. CASE CommitBranch
  <2>1. Retire /\ ~HeadEntry.br_mispred
    BY <1>4 DEF CommitBranch
  <2>2. UNCHANGED tage_ghr
    BY <2>1 DEF TrainOnBranch
  <2>3. outcomes' = Recalls(outcomes, HeadEntry)
    BY <1>1, <1>2, <1>3, <2>1 DEF Recalls, TakenReal
  <2> QED BY <1>1, <1>3, <2>1, <2>2, <2>3, RetireHistory
<1>5. CASE CommitMispredict
  <2>1. PipelineFlush /\ HeadEntry.br_mispred
    BY <1>5 DEF CommitMispredict, Redirect
  <2>2. ghr_snap[rob_head] = outcomes
    BY <1>1, <1>2 DEF HistoryFollowsPath
  <2>3. tage_ghr' = outcomes'
    BY <1>3, <2>1, <2>2 DEF TrainOnBranch, RepairedHistory
  <2> QED BY <1>1, <2>1, <2>3, FlushHistory
<1> QED BY <1>4, <1>5 DEF TrainOnBranch

\* A branch is predicted: the prediction joins the history.
LEMMA PredictSeen ==
  ASSUME TageCore, PathCore', PredictBranch PROVE HistoryFollowsPath'
<1>1. /\ CoreTypeOK /\ prog \in [Word -> Instr] /\ RobWindow /\ MayFetch /\ DispatchBranch
      /\ ghr_snap' = [ghr_snap EXCEPT ![rob_tail] = tage_ghr]
      /\ tage_ghr' = Shifted(tage_ghr, tage_predict(fetch_pc)) /\ UNCHANGED outcomes
      /\ rob'[rob_tail].pred_taken = tage_predict(fetch_pc)
  BY DEF TageCore, PathCore, CoreInv, PipelineInv, PredictBranch, DispatchBranch, Dispatch
<1> DEFINE e == PendingEntry(Fetched)
<1>2. PICK pred \in BOOLEAN :
        Enter([e EXCEPT !.is_branch = TRUE, !.pred_taken = pred],
              IF pred THEN Fetched.imm ELSE NextPc(fetch_pc))
  BY <1>1 DEF DispatchBranch
<1> DEFINE b == [e EXCEPT !.is_branch = TRUE, !.pred_taken = pred]
           p == IF pred THEN Fetched.imm ELSE NextPc(fetch_pc)
<1>3. e \in RobEntry /\ e.valid
  BY <1>1, PendingFacts, ScalarCode
<1> HIDE DEF e
<1>4. b \in RobEntry /\ b.valid /\ b.is_branch
  BY <1>3 DEF RobEntry
<1>5. Enter(b, p)
  BY <1>2
<1> HIDE DEF b, p
<1>6. b.pred_taken = tage_predict(fetch_pc)
  <2>1. rob'[rob_tail] = b
    BY <1>1, <1>4, <1>5, EnterWindow
  <2> QED BY <1>1, <2>1
<1>7. tage_ghr' = Recalls(tage_ghr, b)
  BY <1>1, <1>4, <1>6 DEF Recalls
<1> QED BY <1>1, <1>4, <1>5, <1>7, EnterHistory

\* A flush without repair drops branches whose predictions stay in the history.
LEMMA DropSeen ==
  ASSUME TageCore, PathCore', FlushWithoutRepair PROVE HistoryFollowsPath'
<1>1. PipelineFlush /\ tage_ghr' = outcomes' /\ PathCore
  BY DEF FlushWithoutRepair, TakeInterrupt, CommitMret, CommitTrap, Redirect, TageCore, tage
<1> QED BY <1>1, FlushHistory

\* No other block of the tick has to do with branches.
LEMMA UnconcernedSeen ==
  ASSUME TageCore, PathCore', Unconcerned PROVE HistoryFollowsPath'
<1>0. /\ PathCore /\ CoreTypeOK /\ prog \in [Word -> Instr] /\ RobWindow /\ UNCHANGED <<tage_ghr, ghr_snap, outcomes>>
      /\ "lsu" \in Units /\ "sys" \in Units
  BY DEF TageCore, PathCore, CoreInv, PipelineInv, Unconcerned, tage, Units
<1>1. CASE CommitHalt \/ CommitStore \/ CommitRegister
  <2>1. HeadReady /\ Retire /\ ~HeadEntry.is_branch
    BY <1>1 DEF CommitHalt, CommitStore, CommitRegister, CommitPlain, Commit
  <2>2. outcomes' = Recalls(outcomes, HeadEntry)
    BY <1>0, <2>1 DEF Recalls
  <2> QED BY <1>0, <2>1, <2>2, RetireHistory
<1>2. CASE Execute \/ LsuStore \/ LsuLoad \/ SysExecute
  <2>1. UNCHANGED <<prog, rob_head, rob_tail, rob_count>>
    BY <1>2 DEF Execute, LsuStore, LsuLoad, SysExecute
  <2>2. \A t \in Tags : /\ rob'[t].pc = rob[t].pc
                        /\ rob'[t].is_branch = rob[t].is_branch
                        /\ rob'[t].pred_taken = rob[t].pred_taken
    <3>1. CASE Execute
      BY <1>0, <3>1, ExecuteEntry
    <3>2. CASE LsuStore
      BY <1>0, <3>2, LsuStoreEffect
    <3>3. CASE LsuLoad
      BY <1>0, <3>3, HeadUnitsDeliver, ScalarCode, DeliverEntry
    <3>4. CASE SysExecute
      BY <1>0, <3>4, HeadUnitsDeliver, ScalarCode, DeliverEntry
    <3> QED BY <1>2, <3>1, <3>2, <3>3, <3>4
  <2> QED BY <1>0, <2>1, <2>2, KeepHistory DEF KeepsEntries
<1>3. CASE NoCommit \/ LsuIdle \/ SysIdle \/ Issue \/ FetchEnd \/ FetchIdle
  <2>1. UNCHANGED <<prog, robs>>
    BY <1>3 DEF NoCommit, LsuIdle, SysIdle, Issue, FetchEnd, FetchIdle, EndOfTick
  <2> QED BY <1>0, <2>1, KeepHistory DEF KeepsEntries, robs
<1>4. CASE DispatchQuick
  <2> DEFINE q == QuickEntry(Fetched)
             p == QuickNext(Fetched)
  <2>1. Enter(q, p) /\ MayFetch
    BY <1>4 DEF DispatchQuick, Dispatch, QuickEntry, QuickNext
  <2>2. q \in RobEntry /\ q.valid /\ ~q.is_branch
    BY <1>0, QuickFacts, ScalarCode
  <2> HIDE DEF q, p
  <2>3. tage_ghr' = Recalls(tage_ghr, q)
    BY <1>0, <2>2 DEF Recalls
  <2> QED BY <1>0, <2>1, <2>2, <2>3, EnterHistory
<1>5. CASE DispatchToUnit \/ DispatchJalr
  <2> DEFINE e == PendingEntry(Fetched)
  <2>1. Enter(e, NextPc(fetch_pc)) /\ MayFetch
    BY <1>5 DEF DispatchToUnit, DispatchJalr, Dispatch
  <2>2. e \in RobEntry /\ e.valid /\ ~e.is_branch
    BY <1>0, PendingFacts, ScalarCode
  <2> HIDE DEF e
  <2>3. tage_ghr' = Recalls(tage_ghr, e)
    BY <1>0, <2>2 DEF Recalls
  <2> QED BY <1>0, <2>1, <2>2, <2>3, EnterHistory
<1>6. CASE DispatchStall
  <2>1. /\ UNCHANGED <<prog, rob_head, rob_tail, rob_count>>
        /\ rob' = [rob EXCEPT ![rob_tail] = FreshEntry] /\ rob_count < ROB_SZ
    BY <1>6 DEF DispatchStall, Dispatch, MayFetch, EndOfTick
  <2>2. ~InFlight(rob_tail)
    BY <1>0, <2>1, TailIsFree
  <2>3. KeepsEntries
    BY <1>0, <2>1, <2>2 DEF KeepsEntries, CoreTypeOK
  <2> QED BY <1>0, <2>3, KeepHistory
<1> QED BY <1>1, <1>2, <1>3, <1>4, <1>5, <1>6 DEF Unconcerned

-----------------------------------------------------------------------------
(* The invariant, and what follows from it.                                *)

\* The programs of the predictor's runs are programs as the core takes them.
LEMMA TageInit == TInit => TageCore
<1> SUFFICES ASSUME TInit PROVE TageCore
  OBVIOUS
<1>1. PathCore
  BY TProgAssumption, PathStart DEF TInit, Start
<1>2. rob_count = 0 /\ tage_ghr = 0 /\ outcomes = 0 /\ DOMAIN ghr_snap = Tags /\ CoreTypeOK
  BY <1>1 DEF TInit, Reset, PathCore, CoreInv
<1>3. \A t \in Tags : ~InFlight(t)
  BY <1>2, AgeBounds DEF InFlight
<1>4. HistoryAfter[0] = outcomes
  BY <1>2, HistoryDefined DEF HistoryFacts
<1>5. HistoryFollowsPath
  BY <1>2, <1>3, <1>4 DEF HistoryFollowsPath
<1> QED BY <1>1, <1>2, <1>5 DEF TageCore

LEMMA TageStep == TageCore /\ [TNext]_tvars => TageCore'
<1> SUFFICES ASSUME TageCore, [TNext]_tvars PROVE TageCore'
  OBVIOUS
<1>1. PathCore'
  BY CoreSteps, PathStep DEF TageCore
<1>2. (DOMAIN ghr_snap = Tags)'
  BY DEF TageCore, TNext, TTick, TTimer, TStopped, TrainOnBranch, PredictBranch, FlushWithoutRepair,
         Unconcerned, tvars, tage
<1>3. CASE TTick
  <2>1. HistoryFollowsPath'
    BY <1>1, <1>3, TrainSeen, PredictSeen, DropSeen, UnconcernedSeen DEF TTick
  <2> QED BY <1>1, <1>2, <2>1 DEF TageCore
<1>4. CASE TTimer \/ TStopped \/ UNCHANGED tvars
  <2>1. KeepsEntries /\ UNCHANGED <<tage_ghr, ghr_snap, outcomes>>
    BY <1>4 DEF TTimer, TimerFires, TStopped, tvars, vars, tage, robs, KeepsEntries
  <2>2. HistoryFollowsPath'
    BY <1>1, <2>1, KeepHistory
  <2> QED BY <1>1, <1>2, <2>2 DEF TageCore
<1> QED BY <1>3, <1>4 DEF TNext

\* Every branch in flight was predicted with, and will train, the outcomes
\* before it in program order followed by the predictions of the branches
\* between, for any nesting of mispredictions: the repair of tage.h leaves no
\* bit of a wrong path in the history.
THEOREM HistoryFollowsPathCorrect == TSpec => []HistoryFollowsPath
<1>1. TageCore => HistoryFollowsPath
  BY DEF TageCore
<1> QED BY <1>1, TageInit, TageStep, PTL DEF TSpec

\* The speculation of the core, with TAGE in it.
THEOREM PathWithTage ==
  TSpec => [](BranchAccounting /\ StalledOnlyByJalr /\ OnPredictedPath)
<1>1. TageCore => BranchAccounting /\ StalledOnlyByJalr /\ OnPredictedPath
  BY DEF TageCore, PathCore, PathInv
<1> QED BY <1>1, TageInit, TageStep, PTL DEF TSpec
=============================================================================
