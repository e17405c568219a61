----------------------------- MODULE GdbSession -----------------------------
(***************************************************************************)
(* A debugging session: the simulation thread of SimTarget, the GDB server *)
(* (red-planet-cli/src/gdb.rs and gdb/), and the user interface (tui.rs).  *)
(*                                                                         *)
(* The server thinks the target is halted (idle) or running.  While idle   *)
(* it serves GDB's requests, and blocks on the return channel of those     *)
(* that have one; a resume makes it running, until an event arrives.  The  *)
(* user interface sends commands to the same queue whenever it likes, but  *)
(* sees no events.  What GDB and the user ask for is free.                 *)
(***************************************************************************)
EXTENDS SimTarget

CONSTANTS
  GdbCommands,   \* the commands GDB's requests can turn into
  UserCommands,  \* the commands of the prompt
  Interrupts,    \* may GDB's user press Ctrl-C?
  MaxCommands    \* bound on the commands sent

(* A command with its argument, as the senders build it. *)
CommandOK(c) ==
  /\ c.op \in {"AddBreakpoint", "RemoveBreakpoint"} \cup Writes => c.arg \in Pc
  /\ c.op = "RangeStep" => c.arg \subseteq Pc
  /\ c.op = "GoTo" => c.arg \in Nat

(* GDB asks for a pause by Ctrl-C only (gdb.rs:137).                       *)
ASSUME GdbSessionAssumption ==
  /\ Interrupts \in BOOLEAN
  /\ MaxCommands \in Nat
  /\ \A c \in GdbCommands \cup UserCommands : CommandOK(c)
  /\ \A c \in GdbCommands : c.op # "Pause"

VARIABLES
  gdb,    \* the server: "idle", "running", "asking", "failed"
  sent,   \* history variable: the number of commands sent so far
  marks   \* history variable: "disturbed" if Ctrl-C or a command of the prompt
          \* asked for a run or a stop, "erased" if anybody asked for
          \* something that erases the future

gvars == <<vars, gdb, sent, marks>>

(* The commands that change the machine or its history.                    *)
Edits == Writes \cup {"DeleteFuture"}

(* Those that erase the future of the current state: they end in step_with *)
(* or clear_forward_history, and so does, on its way to its answer, the    *)
(* reading of a CSR (target.rs:312-319).                                   *)
Erases == Edits \cup {"ReadCsr"}
Mark(mark, ops, c) == IF c.op \in ops THEN {mark} ELSE {}

SendOne(c) ==
  /\ sent < MaxCommands
  /\ sent' = sent + 1
  /\ Send(c)

GdbInit == Init /\ gdb = "idle" /\ sent = 0 /\ marks = {}

(* resume, step, resume_range_step, reverse_step, reverse_cont *)
Resume(c) ==
  /\ gdb = "idle"
  /\ c.op \in Resumes
  /\ SendOne(c)
  /\ gdb' = "running"
  /\ UNCHANGED marks

(* read_registers, read_register, read_addrs, write_register, write_addrs  *)
Ask(c) ==
  /\ gdb = "idle"
  /\ c.op \in Asks
  /\ SendOne(c)
  /\ gdb' = "asking"
  /\ marks' = marks \cup Mark("erased", Erases, c)

Answer ==
  /\ gdb = "asking"
  /\ replies # <<>>
  /\ replies' = Tail(replies)
  /\ gdb' = "idle"
  /\ UNCHANGED <<trace, cursor, cmds, events, uart, typed, control, sent, marks>>

(* add and remove breakpoints, write_registers: nothing to wait for. *)
Tell(c) ==
  /\ gdb = "idle"
  /\ c.op \notin Resumes \cup Asks
  /\ SendOne(c)
  /\ marks' = marks \cup Mark("erased", Erases, c)
  /\ UNCHANGED gdb

(* CtrlCInterrupt: the server stays running until an event arrives. *)
CtrlC ==
  /\ Interrupts
  /\ gdb = "running"
  /\ SendOne([op |-> "Pause", arg |-> <<>>])
  /\ marks' = marks \cup {"disturbed"}
  /\ UNCHANGED gdb

(* Running, with an event: report_stop. *)
ReportStop ==
  /\ gdb = "running"
  /\ events # <<>>
  /\ events' = Tail(events)
  /\ gdb' = "idle"
  /\ UNCHANGED <<trace, cursor, cmds, uart, typed, replies, control, sent, marks>>

(* The thread has ended: its ends of the channels are closed. *)
TargetGone ==
  /\ pc = "exited"
  /\ \/ gdb = "asking" /\ replies = <<>>
     \/ gdb = "running" /\ events = <<>>
  /\ gdb' = "failed"
  /\ UNCHANGED <<vars, sent, marks>>

User ==
  /\ \/ \E c \in UserCommands :
          /\ SendOne(c)
          /\ marks' = marks \cup Mark("erased", Erases, c)
                       \cup Mark("disturbed", Resumes \cup {"Pause"}, c)
     \/ \E b \in Byte \ {Zero} : Type(b) /\ UNCHANGED <<sent, marks>>
  /\ UNCHANGED gdb

GdbServer == Answer \/ ReportStop \/ TargetGone

GdbNext ==
  \/ Thread /\ UNCHANGED <<gdb, sent, marks>>
  \/ \E c \in GdbCommands : Resume(c) \/ Ask(c) \/ Tell(c)
  \/ CtrlC
  \/ GdbServer
  \/ User

GdbSpec == GdbInit /\ [][GdbNext]_gvars

(* The simulation thread never stops by itself, and the server is woken by *)
(* what it waits for.  GDB and the user need not do anything.              *)
FairGdbSpec ==
  /\ GdbSpec
  /\ WF_gvars(Thread /\ UNCHANGED <<gdb, sent, marks>>)
  /\ WF_gvars(GdbServer)

-----------------------------------------------------------------------------
Commands == GdbCommands \cup UserCommands \cup {[op |-> "Pause", arg |-> <<>>]}

Machines == [pc : Pc, rx : Seq(Byte), tx : Seq(Byte), buf : Seq(Byte),
             len : Nat \cup {NoLen}, heard : Seq(Byte), drained : Seq(Byte)]

(* What the proofs ask of the program, in the machines of S: it does not   *)
(* know of the user interface's output buffer and of what went through the *)
(* UART, and never fills the UART's receive FIFO itself.                   *)
ProgramSoundOn(S) ==
  \A m \in S :
    /\ Exec(m) \in Machines
    /\ Exec(m).buf = m.buf /\ Exec(m).len = m.len
    /\ Exec(m).heard = m.heard /\ Exec(m).drained = m.drained
    /\ Len(Exec(m).rx) <= Len(m.rx)

TypeOK ==
  /\ trace \in Seq(Machines)
  /\ cursor \in 0 .. Len(trace) - 1
  /\ cmds \in Seq(Commands)
  /\ events \in Seq({"DoneStep", "PoweredDown", "Break", "ReachedStart", "Pause"})
  /\ uart \in Seq(Byte) /\ typed \in Seq(Byte)
  /\ replies \in Seq(Asks)
  /\ breaks \subseteq Pc /\ range \subseteq Pc
  /\ mode \in Resumes \cup {NoMode}
  /\ pc \in {"top", "await", "advance", "tick", "poll", "exited"}
  /\ left \in 0 .. Batch
  /\ shared \in [mode : Resumes \cup {NoMode}, cursor : Nat, total : Nat, out : Seq(Byte)]
  /\ gdb \in {"idle", "running", "asking", "failed"}
  /\ sent \in 0 .. MaxCommands
  /\ marks \subseteq {"disturbed", "erased"}

(* GDB and the target agree about who is running: while GDB takes the      *)
(* target for halted it is, and no stop is left over to be taken for the   *)
(* outcome of GDB's next request (gdb.rs:143: "block waiting for the       *)
(* target to return a stop reason").                                       *)
HaltedTogether ==
  gdb = "idle" =>
    /\ mode = NoMode
    /\ events = <<>>
    /\ \A i \in 1 .. Len(cmds) : cmds[i].op \notin Resumes

(* ... as they do while nothing but GDB's requests starts or stops runs.   *)
AloneHaltedTogether == "disturbed" \in marks \/ HaltedTogether

(* The state is well typed, and as long as GDB is alone the server and the *)
(* target agree on who is halted (gdb.rs:136-143, target.rs:371-380).      *)
SessionOK == TypeOK /\ AloneHaltedTogether

(* Every request that has an answer gets it, whatever the target is doing  *)
(* (recv blocks the server: base_ops.rs:24, registers.rs:20).              *)
RequestsAnswered == (gdb = "asking") ~> (gdb # "asking")

(* Every resume of a program that powers down ends in a stop for GDB.      *)
ResumesReported == (gdb = "running") ~> (gdb # "running")

(* The server always gets back to GDB (gdb.rs:136-150, base_ops.rs:24).    *)
ServerReturns == RequestsAnswered /\ ResumesReported

(* A run stops at breakpoints: it never jumps over one, and never goes on  *)
(* from one it has come to (target.rs:204-299).                            *)
BreaksStopRuns ==
  [][(pc \in {"advance", "tick"} /\ pc' # "tick") =>
       /\ \A i \in 0 .. Len(trace) - 1 :
            (i \in cursor + 1 .. cursor' - 1 \/ i \in cursor' + 1 .. cursor - 1) => ~AtBreak(i)
       /\ (cursor' # cursor /\ mode' # NoMode) => View'.pc \notin breaks]_gvars

Executes(ops) ==
  pc \in {"await", "poll"} /\ cmds # <<>> /\ cmds' = Tail(cmds) /\ Head(cmds).op \in ops

(* Running and travelling never erase history: what anybody does leaves    *)
(* the past and the current state in it, and only edits erase what comes   *)
(* after them (target.rs:205, README.md:59-67); these, and a question that *)
(* should not.  Reading a CSR changes nothing in the machine, but it is    *)
(* recorded as a step, and so erases the future of a state of the past     *)
(* (target.rs:312-319), where README.md:63 has delete-future for that.     *)
TravelKeepsFuture ==
  [][ /\ SX!IsPrefix(SubSeq(trace, 1, cursor + 1), trace')
      /\ Executes(Edits) \/ Executes({"ReadCsr"}) \/ SX!IsPrefix(trace, trace')
      /\ Executes({"ReadCsr"}) => View' = View ]_gvars

(* The user interface shows the output of the UART up to the current state *)
(* of history (README.md:41: "In the middle the output of the UART         *)
(* device"), also after travelling.                                        *)
ConsoleShowsOutput == pc = "await" => shared.out = View.drained

(* ... as long as there is a buffer and it is not full.                    *)
ConsoleExact == View.len \in 0 .. BufSize => ConsoleShowsOutput

(* s is t without some of its elements. *)
IsSubsequence(s, t) ==
  \E f \in [1 .. Len(s) -> 1 .. Len(t)] :
    /\ \A i, j \in 1 .. Len(s) : i < j => f[i] < f[j]
    /\ \A i \in 1 .. Len(s) : s[i] = t[f[i]]

(* Typed bytes reach the program in order, each at most once in a history, *)
(* and none is lost as long as nobody erases history, by an edit or by     *)
(* reading a CSR (target.rs:163-176, 312-319).                             *)
InputInOrder ==
  LET got == trace[Len(trace)].heard \o uart
  IN  IF "erased" \in marks THEN IsSubsequence(got, typed) ELSE got = typed

(* Neither direction of the console loses, doubles or reorders bytes,      *)
(* whatever the travels through history, while there is an output buffer   *)
(* and it is not full (target.rs:157-202).                                 *)
StreamsExact == ConsoleExact /\ InputInOrder
=============================================================================
