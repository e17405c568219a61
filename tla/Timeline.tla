------------------------------ MODULE Timeline ------------------------------
(***************************************************************************)
(* What a user of the time-travelling simulator is promised: a linear      *)
(* history of machine states and a cursor in it.  Going forward at the     *)
(* cursor erases what came after it; going back and forth only moves the   *)
(* cursor, and at every position the machine is exactly as it was when     *)
(* that position was first reached.                                        *)
(*                                                                         *)
(* The module is the abstract specification that Simulator implements: it  *)
(* knows nothing of snapshots, of recorded ticks, or of replaying.         *)
(***************************************************************************)
EXTENDS Naturals, Sequences

CONSTANTS
  Machine,      \* the states the simulated machine can be in
  ResetState,   \* the state the Simulatable's constructor leaves it in
  PlainTick,    \* Simulatable::tick
  CustomTick,   \* the closures handed to step_with
  Apply(_, _)   \* Apply(t, m): the machine state after tick t in state m

VARIABLES
  trace,    \* trace[i + 1] is the machine state after i steps
  cursor,   \* the number of steps the current state is away from the start
  view      \* the machine state the user inspects

tvars == <<trace, cursor, view>>

Tick == CustomTick \cup {PlainTick}

Init ==
  /\ trace = <<ResetState>>
  /\ cursor = 0
  /\ view = ResetState

(* A new step: the future of the cursor is replaced by its outcome. *)
Advance(t) ==
  /\ trace' = Append(SubSeq(trace, 1, cursor + 1), Apply(t, trace[cursor + 1]))
  /\ cursor' = cursor + 1
  /\ view' = Apply(t, trace[cursor + 1])

(* Undo, redo and jumps: any recorded position, and its recorded state. *)
Travel ==
  /\ UNCHANGED trace
  /\ \E n \in 0 .. Len(trace) - 1 :
       /\ cursor' = n
       /\ view' = trace[n + 1]

(* Forget every state after the current one. *)
ForgetFuture ==
  /\ trace' = SubSeq(trace, 1, cursor + 1)
  /\ UNCHANGED cursor
  /\ UNCHANGED view

Next ==
  \/ \E t \in Tick : Advance(t)
  \/ Travel
  \/ ForgetFuture

Spec == Init /\ [][Next]_tvars
=============================================================================
