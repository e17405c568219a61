---------------------------- MODULE MCGdbSession ----------------------------
(***************************************************************************)
(* GdbSession for TLC.  The program greets, echoes one byte if there is    *)
(* one, and powers down: program counters 0 to 3.                          *)
(***************************************************************************)
EXTENDS GdbSession

McPc == 0 .. 3
McByte == {"hi", "typed", "zero"}

McExec(m) ==
  CASE m.pc = 0 -> [m EXCEPT !.pc = 1, !.tx = Append(@, "hi")]
    [] m.pc = 1 -> [m EXCEPT !.pc = 2, !.tx = m.tx \o m.rx, !.rx = <<>>]
    [] m.pc \in {2, 3} -> [m EXCEPT !.pc = 3]
McPoweredDown(m) == m.pc = 3

Bytes2 == SX!BoundedSeq(McByte, 2)
ASSUME ProgramIsSound ==
  ProgramSoundOn([pc : McPc, rx : Bytes2, tx : Bytes2, buf : {<<>>, <<"hi">>}, len : {NoLen, 1},
                  heard : {<<>>, <<"typed">>}, drained : {<<>>, <<"hi">>}])

Cmd(o) == [op |-> o, arg |-> <<>>]
Runs  == {Cmd("Step"), Cmd("Continue"), Cmd("ReverseContinue")}
Moves == Runs \cup {Cmd("StepBack"), [op |-> "RangeStep", arg |-> {0, 1}]}
Break == {[op |-> "AddBreakpoint", arg |-> 2]}
Unbreak == {[op |-> "RemoveBreakpoint", arg |-> 2]}
Edit  == {[op |-> "Write", arg |-> 0], [op |-> "WriteAll", arg |-> 1]}
Jump  == {[op |-> "GoTo", arg |-> 0], [op |-> "GoTo", arg |-> 2], Cmd("DeleteFuture")}
Ask1  == {Cmd("Read"), Cmd("ReadCsr")}
Prompt == {Cmd("Pause"), Cmd("Exit")}

None == {}
GdbAll == Moves \cup Break \cup Unbreak \cup Edit \cup Ask1
GdbPlain == Runs \cup {Cmd("Read")}
UserAll == {Cmd("Continue")} \cup Jump \cup Prompt
=============================================================================
