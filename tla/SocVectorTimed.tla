--------------------------- MODULE SocVectorTimed ---------------------------
(***************************************************************************)
(* How long the coprocessor computes.  SocVector, with a clock that runs   *)
(* while an instruction is being computed, whatever its countdown says:    *)
(* the countdown has three bits, the latencies have none in particular,    *)
(* and a flush may stop one instruction halfway and another may follow.    *)
(***************************************************************************)
EXTENDS SocVector

VARIABLE ran    \* history: the ticks for which the present instruction has been computing

tvars == <<vvars, ran>>

Computing == vec_rs.busy /\ vec_rs.executing

\* The turn of the coprocessor is one tick; a result and a flush stop the clock.
Measure ==
  ran' = IF ~Computing' THEN 0
         ELSE IF vec_ticked' /\ ~vec_ticked THEN ran + 1 ELSE ran

TInit == VInit /\ ran = 0

TSpec == TInit /\ [][VNext /\ Measure]_tvars /\ WF_vvars(VTick)

\* Every result comes in the tick that the latency of its unit says, counted
\* from the one in which the instruction started: neither at once, as when the
\* countdown had two bits and a latency of four was zero, nor after what a
\* dropped instruction has left in it.
TakesItsLatency == [][VecComplete => ran + 1 = VecLatency]_tvars
=============================================================================
