----------------------------- MODULE SimTarget -----------------------------
(***************************************************************************)
(* The simulation thread of the command line program                       *)
(* (red-planet-cli/src/target.rs), and the channels around it.             *)
(*                                                                         *)
(* Clients put commands in a queue; the thread runs the simulator, polls   *)
(* the queue between batches of steps, answers requests, reports stops in  *)
(* an event queue, and publishes what the user interface shows.  Bytes     *)
(* typed by the user reach the simulated UART, and its output reaches a    *)
(* buffer that is part of the simulated state, by custom ticks.            *)
(*                                                                         *)
(* The simulator is the linear history of module Timeline, which module    *)
(* Simulator implements.  A custom tick is [op, arg]; the machine is what  *)
(* the thread looks at or changes itself:                                  *)
(*   pc            the program counter, as breakpoints see it              *)
(*   rx, tx        the FIFOs of the UART                                   *)
(*   buf, len      the output buffer and its length, if they exist yet     *)
(*   heard, drained  history: every byte given to, and taken from the UART *)
(***************************************************************************)
EXTENDS Naturals, Integers, Sequences

SX == INSTANCE SequencesExt

CONSTANTS
  Pc, BootPc,       \* program counters
  Byte, Zero,       \* bytes, and the byte an empty buffer is filled with
  Exec(_),          \* Simulatable::tick: the program, on pc, rx and tx
  PoweredDown(_),   \* Board::is_powered_down
  RxSize,           \* size of the UART's receive FIFO (16)
  BufSize,          \* size of the output buffer (1024)
  Batch,            \* steps between two looks at the command queue (1024)
  MaxTyped          \* bound on the bytes typed

ASSUME SimTargetAssumption ==
  /\ BootPc \in Pc
  /\ Zero \in Byte
  /\ RxSize \in Nat /\ BufSize \in Nat
  /\ Batch \in Nat \ {0}
  /\ MaxTyped \in Nat

NoLen == -1         \* allocator.get(output_buffer_len) is Err
NoMode == "none"    \* execution_type: None

VARIABLES
  trace, cursor,    \* the history, see Timeline
  cmds,             \* command_channel: sequence of [op, arg]
  events,           \* event_channel
  uart,             \* uart_channel
  typed,            \* history variable: every byte ever typed
  breaks,           \* break_reasons.breakpoints
  mode,             \* execution_type
  range,            \* the addresses of a RangeStep
  pc,               \* where in `run` the thread is
  left,             \* steps left in the batch
  shared,           \* shared_state, as the user interface reads it
  replies           \* answers on their way to a client that waits for them

channels == <<cmds, events, uart, typed, replies>>
control  == <<breaks, mode, range, pc, left, shared>>
vars     == <<trace, cursor, channels, control>>

View     == trace[cursor + 1]
Detached == cursor + 1 < Len(trace)

-----------------------------------------------------------------------------
(* Custom ticks *)

Boot == [pc |-> BootPc, rx |-> <<>>, tx |-> <<>>,
         buf |-> <<>>, len |-> NoLen, heard |-> <<>>, drained |-> <<>>]

(* SimTarget::new: "adding output buffer" *)
AddBuffer(m) == [m EXCEPT !.len = 0]

(* "com with uart".  The array write fails when it does not fit, which is  *)
(* ignored; the length grows anyway.  Without a buffer the output is gone. *)
PushAndRead(m, input) ==
  [m EXCEPT !.rx = @ \o input, !.tx = <<>>,
            !.heard = @ \o input, !.drained = @ \o m.tx,
            !.len = IF @ = NoLen THEN @ ELSE @ + Len(m.tx),
            !.buf = IF m.len # NoLen /\ m.len + Len(m.tx) <= BufSize
                      THEN @ \o m.tx ELSE @]

Ticks == [op : {"plain", "inspect", "new"}, arg : {<<>>}]
         \cup [op : {"uart"}, arg : SX!BoundedSeq(Byte, MaxTyped)]
         \cup [op : {"write"}, arg : Pc]

ApplyTick(t, m) ==
  CASE t.op = "plain"   -> Exec(m)
    [] t.op = "new"     -> AddBuffer(m)
    [] t.op = "uart"    -> PushAndRead(m, t.arg)
    [] t.op = "write"   -> [m EXCEPT !.pc = t.arg]
    [] t.op = "inspect" -> m

Plain == [op |-> "plain", arg |-> <<>>]

(* The simulator's methods, as its abstract specification has them. *)
TL == INSTANCE Timeline WITH
        view <- View, Machine <- {}, ResetState <- Boot, PlainTick <- Plain,
        CustomTick <- Ticks \ {Plain}, Apply <- ApplyTick

GoTo(n)    == cursor' = n /\ TL!Travel
StepWith(t) == TL!Advance(t)

-----------------------------------------------------------------------------
Init ==
  /\ trace = <<Boot, AddBuffer(Boot)>>
  /\ cursor = 1
  /\ cmds = <<>> /\ events = <<>> /\ uart = <<>> /\ typed = <<>>
  /\ replies = <<>>
  /\ breaks = {}
  /\ mode = NoMode /\ range = {} /\ pc = "top" /\ left = 0
  /\ shared = [mode |-> NoMode, cursor |-> 0, total |-> 0, out |-> <<>>]

(* read_uart_output: an array read that does not fit leaves the vector as  *)
(* it is, resized.                                                         *)
Resize(s, n) == [i \in 1 .. n |-> IF i <= Len(s) THEN s[i] ELSE Zero]
ReadUartOutput(old) ==
  CASE View.len = NoLen    -> <<>>
    [] View.len \in 0 .. BufSize -> View.buf
    [] View.len > BufSize  -> Resize(old, View.len)

(* The top of the loop in run. *)
WriteToSharedState ==
  /\ pc = "top"
  /\ shared' = [mode |-> mode, cursor |-> cursor, total |-> Len(trace) - 1,
                out |-> ReadUartOutput(shared.out)]
  /\ pc' = IF mode = NoMode THEN "await" ELSE "advance"
  /\ left' = IF mode \in {"Continue", "RangeStep"} THEN Batch ELSE 1
  /\ UNCHANGED <<trace, cursor, channels, breaks, mode, range>>

-----------------------------------------------------------------------------
(* advance_sim *)

(* Mutants of Stop: the thread goes on in the mode it was in; no event. *)
StopSilently(e) ==
  /\ mode' = NoMode
  /\ pc' = "top"
  /\ UNCHANGED <<events, left>>

StopLate(e) ==
  /\ events' = Append(events, e)
  /\ pc' = "top"
  /\ UNCHANGED <<mode, left>>

Stop(e) ==
  /\ mode' = NoMode
  /\ events' = Append(events, e)
  /\ pc' = "top"
  /\ UNCHANGED left

Keep == UNCHANGED <<uart, typed, cmds, replies, breaks, range, shared>>

(* Mutant of AfterStep: breakpoints are looked at once per batch. *)
AfterBatch(m) ==
  IF m.pc \in breaks /\ left = 1 THEN Stop("Break")
  ELSE IF PoweredDown(m) THEN Stop("PoweredDown")
  ELSE IF mode \in {"Step", "StepBack"} \/ (mode = "RangeStep" /\ m.pc \notin range)
    THEN Stop("DoneStep")
  ELSE /\ left' = left - 1
       /\ pc' = IF left = 1 THEN "poll" ELSE "advance"
       /\ UNCHANGED <<mode, events>>

(* What step, step_back and the loops around them do once the machine is m *)
AfterStep(m) ==
  IF m.pc \in breaks THEN Stop("Break")
  ELSE IF PoweredDown(m) THEN Stop("PoweredDown")
  ELSE IF mode \in {"Step", "StepBack"} \/ (mode = "RangeStep" /\ m.pc \notin range)
    THEN Stop("DoneStep")
  ELSE /\ left' = left - 1
       /\ pc' = IF left = 1 THEN "poll" ELSE "advance"
       /\ UNCHANGED <<mode, events>>

Forward == pc = "advance" /\ mode \in {"Step", "Continue", "RangeStep"}

(* step, when redo_step can go forward. *)
Redo ==
  /\ Forward
  /\ Detached
  /\ GoTo(cursor + 1)
  /\ AfterStep(trace[cursor + 2])
  /\ Keep

(* Mutant of ComWithUart: step does not try to redo first. *)
ComAnyway ==
  /\ Forward
  /\ LET n     == IF Len(uart) <= RxSize - Len(View.rx)
                    THEN Len(uart) ELSE RxSize - Len(View.rx)
         input == SubSeq(uart, 1, n)
     IN  /\ uart' = SubSeq(uart, n + 1, Len(uart))
         /\ IF input # <<>> \/ View.tx # <<>>
              THEN StepWith([op |-> "uart", arg |-> input])
              ELSE UNCHANGED <<trace, cursor>>
  /\ pc' = "tick"
  /\ UNCHANGED <<typed, cmds, replies, events, breaks, mode, range, left, shared>>

(* Mutant of ComWithUart: bytes are read, but stay in the channel. *)
ComPeek ==
  /\ Forward
  /\ ~Detached
  /\ LET n     == IF Len(uart) <= RxSize - Len(View.rx)
                    THEN Len(uart) ELSE RxSize - Len(View.rx)
         input == SubSeq(uart, 1, n)
     IN  IF input # <<>> \/ View.tx # <<>>
           THEN StepWith([op |-> "uart", arg |-> input])
           ELSE UNCHANGED <<trace, cursor>>
  /\ pc' = "tick"
  /\ UNCHANGED <<uart, typed, cmds, replies, events, breaks, mode, range, left, shared>>

(* step, first half: com_with_uart. *)
ComWithUart ==
  /\ Forward
  /\ ~Detached
  /\ LET n     == IF Len(uart) <= RxSize - Len(View.rx)
                    THEN Len(uart) ELSE RxSize - Len(View.rx)
         input == SubSeq(uart, 1, n)
     IN  /\ uart' = SubSeq(uart, n + 1, Len(uart))
         /\ IF input # <<>> \/ View.tx # <<>>
              THEN StepWith([op |-> "uart", arg |-> input])
              ELSE UNCHANGED <<trace, cursor>>
  /\ pc' = "tick"
  /\ UNCHANGED <<typed, cmds, replies, events, breaks, mode, range, left, shared>>

(* step, second half: simulator.step(). *)
Tick ==
  /\ pc = "tick"
  /\ StepWith(Plain)
  /\ AfterStep(ApplyTick(Plain, View))
  /\ Keep

StepBack ==
  /\ pc = "advance" /\ mode = "StepBack"
  /\ IF cursor = 0
       THEN Stop("ReachedStart") /\ UNCHANGED <<trace, cursor>>
       ELSE GoTo(cursor - 1) /\ AfterStep(trace[cursor])
  /\ Keep

AtBreak(i) == trace[i + 1].pc \in breaks

(* undo_steps_until: to the last earlier state that has a breakpoint, or   *)
(* in which pred first noticed a command in the queue, which can be any    *)
(* state (pred is called in another order than time's, see Simulator).     *)
StopsOf(noticed) == {i \in 0 .. cursor - 1 : AtBreak(i)} \cup noticed

LastStop(stops) == CHOOSE i \in stops : \A j \in stops : j <= i

ReverseContinue(noticed) ==
  /\ pc = "advance" /\ mode = "ReverseContinue"
  /\ noticed # {} <=> (cmds # <<>> /\ cursor > 0)
  /\ IF StopsOf(noticed) = {}
       THEN GoTo(0) /\ Stop("ReachedStart")
       ELSE LET i == LastStop(StopsOf(noticed))
            IN  /\ GoTo(i)
                /\ IF AtBreak(i)
                     THEN Stop("Break")
                     ELSE pc' = "poll" /\ UNCHANGED <<mode, events, left>>
  /\ Keep

-----------------------------------------------------------------------------
(* execute_command *)

Resumes == {"Continue", "ReverseContinue", "Step", "StepBack", "RangeStep"}
Reads   == {"Read", "ReadCsr"}       \* ReadRegister(s), ReadAddrs; of a CSR
Writes  == {"Write", "WriteAll"}     \* WriteRegister, WriteAddrs; Registers
Asks    == Reads \cup {"Write"}      \* the commands with a return channel

Reply(c) ==
  replies' = IF c.op \in Asks THEN Append(replies, c.op) ELSE replies

Execute(c) ==
  /\ pc' = IF c.op = "Exit" THEN "exited" ELSE "top"
  /\ mode' = IF c.op = "Pause" THEN NoMode
             ELSE IF c.op \in Resumes THEN c.op ELSE mode
  /\ range' = IF c.op = "RangeStep" THEN c.arg ELSE range
  /\ events' = IF c.op = "Pause" THEN Append(events, "Pause") ELSE events
  /\ breaks' = CASE c.op = "AddBreakpoint"    -> breaks \cup {c.arg}
                 [] c.op = "RemoveBreakpoint" -> breaks \ {c.arg}
                 [] OTHER -> breaks
  /\ Reply(c)
  /\ CASE c.op = "ReadCsr"      -> StepWith([op |-> "inspect", arg |-> <<>>])
       [] c.op \in Writes       -> StepWith([op |-> "write", arg |-> c.arg])
       [] c.op = "DeleteFuture" -> TL!ForgetFuture
       [] c.op = "GoTo"         -> IF c.arg < Len(trace) THEN GoTo(c.arg)
                                   ELSE UNCHANGED <<trace, cursor>>
       [] OTHER                 -> UNCHANGED <<trace, cursor>>
  /\ cmds' = Tail(cmds)
  /\ UNCHANGED <<uart, typed, left, shared>>

(* Waiting for a command, or polling between batches. *)
Receive ==
  /\ pc \in {"await", "poll"}
  /\ cmds # <<>>
  /\ Execute(Head(cmds))

NothingToDo ==
  /\ pc = "poll"
  /\ cmds = <<>>
  /\ pc' = "top"
  /\ UNCHANGED <<trace, cursor, channels, breaks, mode, range, left, shared>>

Thread ==
  \/ WriteToSharedState
  \/ Redo \/ ComWithUart \/ Tick
  \/ StepBack
  \/ \E i \in 0 .. cursor : ReverseContinue({i} \ {cursor})
  \/ Receive
  \/ NothingToDo

-----------------------------------------------------------------------------
(* The other side of the channels. *)

Send(c) ==
  /\ pc # "exited"
  /\ cmds' = Append(cmds, c)
  /\ UNCHANGED <<trace, cursor, events, uart, typed, replies, control>>

Type(b) ==
  /\ Len(typed) < MaxTyped
  /\ pc # "exited"
  /\ uart' = Append(uart, b)
  /\ typed' = Append(typed, b)
  /\ UNCHANGED <<trace, cursor, cmds, events, replies, control>>
=============================================================================
