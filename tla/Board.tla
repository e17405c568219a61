-------------------------------- MODULE Board --------------------------------
(***************************************************************************)
(* The clocks of the board: the counters of the core (core/counters.rs,    *)
(* core/counter_control.rs), the CLINT's timer (core/clint.rs) with its    *)
(* line, and the step of the board that moves them all (board/mod.rs,      *)
(* core/mod.rs).                                                           *)
(*                                                                         *)
(* The program is free: a step executes any instruction, or takes an       *)
(* interrupt instead (which one is the subject of Hart).  The debugger     *)
(* writes registers and memory between steps.  Left out: everything an     *)
(* instruction does to other parts, reads, which change nothing here, and  *)
(* the counter enables, which only guard reads.                            *)
(***************************************************************************)
EXTENDS Integers

CONSTANT Base   \* the number of values of a 32-bit word

ASSUME BaseAssumption == Base \in Nat \ {0, 1}

VARIABLE board
(***************************************************************************)
(* counters      mcycle and mcycleh, minstret and minstreth, each with its *)
(*               skip_next_*_increment                                     *)
(* inhibit       the counters that mcountinhibit stops                     *)
(* mtime, mtimecmp, line    the CLINT and mip.MTIP                         *)
(* off           PowerDown                                                 *)
(* ahead         history: has mtimecmp ever been ahead of mtime?           *)
(***************************************************************************)

Counters == {"cycle", "instret"}
Timers   == {"mtime", "mtimecmp"}
Halves   == {"lo", "hi"}
Word     == 0 .. Base - 1
Wide     == 0 .. Base * Base - 1

Counter == [lo : Word, hi : Word, skip : BOOLEAN]

Boards ==
  [counters : [Counters -> Counter], inhibit : SUBSET Counters,
   mtime : Wide, mtimecmp : Wide, line : BOOLEAN, off : BOOLEAN, ahead : BOOLEAN]

-----------------------------------------------------------------------------
(* The counters *)

(* Mutant of Bump: the half is never wrapped. *)
BumpOver(w) == w + 1

Bump(w) == (w + 1) % Base

Incremented(r) ==
  [r EXCEPT !.lo = Bump(@), !.hi = IF Bump(r.lo) = 0 THEN Bump(@) ELSE @]

(* increment_cycle_counter, increment_instret_counter *)
Count(b, c) ==
  [b EXCEPT !.counters[c] =
     IF @.skip THEN [@ EXCEPT !.skip = FALSE]
     ELSE IF c \in b.inhibit THEN @ ELSE Incremented(@)]

(* write_mcycle, write_mcycleh, write_minstret, write_minstreth *)
WriteCounter(b, c, half, v) ==
  [b EXCEPT !.counters[c] = [[@ EXCEPT ![half] = v] EXCEPT !.skip = TRUE]]

WriteInhibit(b, S) == [b EXCEPT !.inhibit = S]

-----------------------------------------------------------------------------
(* The CLINT *)

(* Mutant of NeedsInterrupt: no interrupt while the two are equal. *)
NeedsInterruptLater(b) == b.mtimecmp < b.mtime

NeedsInterrupt(b) == b.mtimecmp <= b.mtime

(* Mutant of Update: the line is only ever raised. *)
UpdateRaise(b, timer, w) ==
  LET new == [b EXCEPT ![timer] = w]
  IN [new EXCEPT !.line = @ \/ (~NeedsInterrupt(b) /\ NeedsInterrupt(new)),
                 !.ahead = @ \/ ~NeedsInterrupt(new)]

(* update: the callback raises and lowers the line on a change only *)
Update(b, timer, w) ==
  LET new == [b EXCEPT ![timer] = w]
  IN [new EXCEPT !.line = IF NeedsInterrupt(b) = NeedsInterrupt(new) THEN @
                          ELSE NeedsInterrupt(new),
                 !.ahead = @ \/ ~NeedsInterrupt(new)]

(* write_u64 *)
WriteWhole(b, timer, w) == Update(b, timer, w)

(* write_u32: the set_*_higher and set_*_lower join the new half and the   *)
(* old one with a bitwise "and", whose operands have no bit in common.     *)
WriteHalf(b, timer) == Update(b, timer, 0)

ClintStep(b) == Update(b, "mtime", (b.mtime + 1) % (Base * Base))

-----------------------------------------------------------------------------
(* Instructions *)

(* "plain" stands for those that touch nothing here, also for those whose  *)
(* execution raises an exception; "ecall" for ECALL, EBREAK and what       *)
(* cannot be fetched or decoded.                                           *)
Instructions ==
  [kind : {"plain", "ecall", "power_down"}]
    \cup [kind : {"counter"}, counter : Counters, half : Halves, value : Word]
    \cup [kind : {"inhibit"}, set : SUBSET Counters]
    \cup [kind : {"store"}, timer : Timers]

Execute(b, i) ==
  CASE i.kind = "counter" -> WriteCounter(b, i.counter, i.half, i.value)
    [] i.kind = "inhibit" -> WriteInhibit(b, i.set)
    [] i.kind = "store" -> WriteHalf(b, i.timer)
    [] i.kind = "power_down" -> [b EXCEPT !.off = TRUE]
    [] OTHER -> b

(* Mutant of StepWith: the instruction is counted before it is executed. *)
StepWithEarly(b, i) ==
  LET cycled == Count(b, "cycle")
  IN Execute(IF i.kind = "ecall" THEN cycled ELSE Count(cycled, "instret"), i)

(* step_with *)
StepWith(b, i) ==
  LET cycled == Count(Execute(b, i), "cycle")
  IN IF i.kind = "ecall" THEN cycled ELSE Count(cycled, "instret")

-----------------------------------------------------------------------------
(* Actions *)

Init ==
  board = [counters |-> [c \in Counters |-> [lo |-> 0, hi |-> 0, skip |-> FALSE]],
           inhibit |-> {}, mtime |-> 0, mtimecmp |-> 0,
           line |-> FALSE, off |-> FALSE, ahead |-> FALSE]

(* Board::step, when the core executes an instruction, and when it takes   *)
(* an interrupt before                                                     *)
Step(i) ==
  /\ ~board.off
  /\ board' = ClintStep(StepWith(board, i))

StepInterrupted ==
  /\ ~board.off
  /\ board' = ClintStep(board)

(* The debugger's write of a CSR, and of 4 or 8 bytes of memory *)
DebugWriteCounter(c, half, v) == board' = WriteCounter(board, c, half, v)
DebugWriteInhibit(S)          == board' = WriteInhibit(board, S)
DebugWriteTimerHalf(timer)    == board' = WriteHalf(board, timer)
DebugWriteTimer(timer, w)     == board' = WriteWhole(board, timer, w)
DebugPowerDown                == board' = [board EXCEPT !.off = TRUE]

(* Board::reset: the counters and their control, not the CLINT *)
Reset ==
  board' = [board EXCEPT
    !.counters = [c \in Counters |-> [lo |-> 0, hi |-> 0, skip |-> FALSE]],
    !.inhibit = {}]

Run == StepInterrupted \/ \E i \in Instructions : Step(i)

Next ==
  \/ Run
  \/ \E c \in Counters, half \in Halves, v \in Word : DebugWriteCounter(c, half, v)
  \/ \E S \in SUBSET Counters : DebugWriteInhibit(S)
  \/ \E timer \in Timers : DebugWriteTimerHalf(timer)
  \/ \E timer \in Timers, w \in Wide : DebugWriteTimer(timer, w)
  \/ DebugPowerDown
  \/ Reset

vars == <<board>>

Spec == Init /\ [][Next]_vars

(* The simulation thread keeps running the board. *)
FairSpec == Spec /\ WF_vars(Run)

-----------------------------------------------------------------------------
(* Properties *)

(* The registers hold what their types allow. *)
TypeOK == board \in Boards

(* The timer's line, which is driven by edges, says whether mtimecmp has   *)
(* been reached, whoever wrote either register and in whichever order with *)
(* the steps that move mtime; but not before mtimecmp was ahead for the    *)
(* first time: at power-up both are 0, and the line is low (update).       *)
TimerLine == board.line <=> board.ahead /\ NeedsInterrupt(board)

Wideness(r) == r.hi * Base + r.lo

(* The halves, the carry between them and the flags that suppress an       *)
(* increment are wide counts that software may set while they run          *)
(* (counters.rs), next to a time that every step moves (Clint::step).  Two *)
(* things the code does are allowed, not asked for: that a store to a half *)
(* of mtime leaves 0 (clint.rs:37-51), and that a count which the debugger *)
(* writes is passed over by the next instruction too (counters.rs:96 and   *)
(* 123 speak of guest code in the same step only).                         *)
Promised == INSTANCE Clocks WITH
  time    <- board.mtime,
  count   <- [c \in Counters |-> Wideness(board.counters[c])],
  fresh   <- {c \in Counters : board.counters[c].skip},
  stopped <- board.inhibit,
  off     <- board.off

ImplementsClocks == Promised!Spec

(* Software leaves the timer alone: its registers move by steps only. *)
TimerLeftAlone ==
  /\ board'.mtimecmp = board.mtimecmp
  /\ \/ board'.mtime = (board.mtime + 1) % (Base * Base)
     \/ board'.mtime = board.mtime /\ ~Run

(* If software leaves the timer alone from some moment on, an mtimecmp     *)
(* that lies ahead is reached, and the line goes up, unless the board is   *)
(* powered down first (Board::step, Clint::step, update).                  *)
TimerFires ==
  <>[][TimerLeftAlone]_vars => (~NeedsInterrupt(board) ~> board.line \/ board.off)
=============================================================================
