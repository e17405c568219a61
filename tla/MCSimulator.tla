---------------------------- MODULE MCSimulator ----------------------------
(***************************************************************************)
(* Simulator for TLC.  The machine is the free one: its state is the       *)
(* sequence of ticks that produced it, so two states are equal only if the *)
(* same ticks led to them, and any wrong, lost or repeated tick shows.     *)
(***************************************************************************)
EXTENDS Simulator, SequencesExt

(* At most MaxSteps ticks: state indices stop there, so FreeApply never    *)
(* meets a machine that is full.                                           *)
FreeMachine     == BoundedSeq(Tick, MaxSteps)
FreeReset       == <<>>
FreeApply(t, m) == IF Len(m) < MaxSteps THEN Append(m, t) ELSE m
=============================================================================
