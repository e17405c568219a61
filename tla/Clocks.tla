------------------------------- MODULE Clocks -------------------------------
(***************************************************************************)
(* What the board's clocks promise: a time and two counts, each of one     *)
(* wide number.  The counts go up by one with what they count, or software *)
(* replaces one of their halves, and what an instruction writes into a     *)
(* count is not counted up by that instruction.  The time goes up by one   *)
(* in every step but those whose instruction stores into it, of which only *)
(* the width of what they leave is promised.                               *)
(***************************************************************************)
EXTENDS Integers

CONSTANT Base   \* the number of values of a half

VARIABLES
  time,     \* mtime
  count,    \* the counts of cycles and of retired instructions
  fresh,    \* the counts that the next thing they count passes over
  stopped,  \* the counts that software has stopped
  off       \* nothing runs any more

Counters == {"cycle", "instret"}
Half     == 0 .. Base - 1
Wide     == 0 .. Base * Base - 1

Plus1(n) == (n + 1) % (Base * Base)

(* n with one of its halves replaced *)
WithHalf(n, half, v) == IF half = "hi" THEN v * Base + (n % Base) ELSE (n \div Base) * Base + v

Written(c, half, v) == [count EXCEPT ![c] = WithHalf(@, half, v)]

(* The counts that an instruction which moves those of `moved` leaves behind *)
Moved(n, moved, still) ==
  [c \in Counters |-> IF c \in moved \ still THEN Plus1(n[c]) ELSE n[c]]

(* What an instruction may move: the cycles, and what it retires.  An      *)
(* interrupt is taken without an instruction.                              *)
Moves == {{}, {"cycle"}, {"cycle", "instret"}}

Init ==
  /\ time = 0
  /\ count = [c \in Counters |-> 0]
  /\ fresh = {}
  /\ stopped = {}
  /\ off = FALSE

Run(moved) ==
  /\ count' = Moved(count, moved, fresh \cup stopped)
  /\ fresh' = fresh \ moved
  /\ UNCHANGED stopped

RunWrite(c, half, v) ==
  /\ count' = Moved(Written(c, half, v), Counters, fresh \cup stopped \cup {c})
  /\ fresh' = {}
  /\ UNCHANGED stopped

RunStop(S) ==
  /\ stopped' = S
  /\ count' = Moved(count, Counters, fresh \cup S)
  /\ fresh' = {}

(* An instruction that stores into the time *)
RunStore == Run(Counters) /\ time' \in Wide

Step ==
  /\ ~off
  /\ \/ /\ \/ \E moved \in Moves : Run(moved)
           \/ \E c \in Counters, half \in {"hi", "lo"}, v \in Half : RunWrite(c, half, v)
           \/ \E S \in SUBSET Counters : RunStop(S)
        /\ time' = Plus1(time)
     \/ RunStore
  /\ off' \in BOOLEAN

(* What is written from outside may be passed over as well, but need not:  *)
(* only instructions are promised not to count up what they write.         *)
Poke ==
  /\ \/ \E c \in Counters, half \in {"hi", "lo"}, v \in Half :
          /\ count' = Written(c, half, v)
          /\ fresh' \in {fresh, fresh \cup {c}}
          /\ UNCHANGED <<time, stopped, off>>
     \/ stopped' \in SUBSET Counters /\ UNCHANGED <<time, count, fresh, off>>
     \/ time' \in Wide /\ UNCHANGED <<count, fresh, stopped, off>>
     \/ off' = TRUE /\ UNCHANGED <<time, count, fresh, stopped>>

Reset ==
  /\ count' = [c \in Counters |-> 0]
  /\ fresh' = {}
  /\ stopped' = {}
  /\ UNCHANGED <<time, off>>

vars == <<time, count, fresh, stopped, off>>

Next == Step \/ Poke \/ Reset

Spec == Init /\ [][Next]_vars
=============================================================================
