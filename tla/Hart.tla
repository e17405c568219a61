-------------------------------- MODULE Hart --------------------------------
(***************************************************************************)
(* Traps, interrupts and privilege of the core's one hart                  *)
(* (red-planet-core/src/core/mod.rs, trap.rs, interrupts.rs, execute.rs).  *)
(*                                                                         *)
(* The guest program is free: a step executes any instruction.  Devices    *)
(* raise and lower their lines between steps, and during a step when the   *)
(* instruction accesses them; the debugger writes registers between steps. *)
(* Data is left out: x registers, memory, the cause and value registers,   *)
(* the counters, and where in a vectored handler table a trap goes.        *)
(***************************************************************************)
EXTENDS Registers

CONSTANTS
  MaxPc,      \* the addresses are 0 .. MaxPc
  MVector,    \* where a trap into machine mode goes
  SVector,    \* where a trap into supervisor mode goes
  Lines,      \* the interrupt lines that devices drive
  Sources,    \* the bits that the program's CSR instructions name, by CSR
  MaxWrites   \* bound on the register writes of program and debugger, and resets

Pc == 0 .. MaxPc

ASSUME HartAssumption ==
  /\ MaxPc \in Nat
  /\ MVector \in Pc
  /\ SVector \in Pc
  /\ Lines \subseteq Interrupt
  /\ Sources \in [Csrs -> SUBSET SUBSET Bits]
  /\ MaxWrites \in Nat

VARIABLES
  hart,
  mover,  \* history variable: did the hart move last, or something outside it?
  writes  \* the number of register writes and resets so far
(***************************************************************************)
(* priv, pc            privilege_mode and the program counter              *)
(* status              mstatus                                             *)
(* mip, seip_*, mie, mideleg    struct Interrupts                          *)
(* medeleg, mepc, sepc          struct Trap                                *)
(* mframe, sframe      history: what the last trap into each level         *)
(*                     interrupted, live until a return from that level or *)
(*                     until software changes what the trap saved          *)
(***************************************************************************)

Handlers == {Supervisor, Machine}

Frames == [live : BOOLEAN, priv : Levels, ie : BOOLEAN, pc : Pc,
           kind : {"interrupt", "exception"}]

Dead == [live |-> FALSE, priv |-> User, ie |-> FALSE, pc |-> 0, kind |-> "exception"]

Harts ==
  [priv : Levels, pc : Pc, status : SUBSET StatusBits,
   mip : SUBSET Interrupt, mie : SUBSET Interrupt,
   seip_external : BOOLEAN, seip_internal : BOOLEAN,
   mideleg : SUBSET SInterrupt, medeleg : SUBSET Exception,
   mepc : Pc, sepc : Pc, mframe : Frames, sframe : Frames]

-----------------------------------------------------------------------------
(* Traps *)

Kind(cause) == IF cause \in Interrupt THEN "interrupt" ELSE "exception"

(* should_delegate, and the choice made in trap *)
Target(h, cause) ==
  IF h.priv # Machine /\ cause \in h.mideleg \cup h.medeleg THEN Supervisor ELSE Machine

Frame(h, ie, cause) ==
  [live |-> TRUE, priv |-> h.priv, ie |-> ie \in h.status, pc |-> h.pc, kind |-> Kind(cause)]

TrapToS(h, cause) ==
  [h EXCEPT !.sepc = h.pc,
            !.pc = SVector,
            !.status = SetBit(SetBit(@, "SPIE", "SIE" \in @) \ {"SIE"},
                              "SPP", h.priv = Supervisor),
            !.priv = Supervisor,
            !.sframe = Frame(h, "SIE", cause)]

(* Mutant of TrapToM: MIE is cleared before it is saved in MPIE. *)
TrapToMClearFirst(h, cause) ==
  [h EXCEPT !.mepc = h.pc,
            !.pc = MVector,
            !.status = SetMpp(@ \ {"MIE", "MPIE"}, h.priv),
            !.priv = Machine,
            !.mframe = Frame(h, "MIE", cause)]

TrapToM(h, cause) ==
  [h EXCEPT !.mepc = h.pc,
            !.pc = MVector,
            !.status = SetMpp(SetBit(@, "MPIE", "MIE" \in @) \ {"MIE"}, h.priv),
            !.priv = Machine,
            !.mframe = Frame(h, "MIE", cause)]

Trap(h, cause) ==
  IF Target(h, cause) = Supervisor THEN TrapToS(h, cause) ELSE TrapToM(h, cause)

-----------------------------------------------------------------------------
(* Interrupts *)

MReady(h) == (h.mip \cap h.mie) \ h.mideleg
SReady(h) == h.mip \cap h.mie \cap h.mideleg \cap SInterrupt

(* Mutant of Ready: delegated interrupts are taken whatever SIE says. *)
ReadyWithoutSie(h) ==
  IF h.priv = Machine /\ "MIE" \notin h.status THEN {}
  ELSE IF MReady(h) # {} THEN MReady(h) ELSE SReady(h)

(* highest_priority_ready_interrupt: those it looks at *)
Ready(h) ==
  IF h.priv = Machine /\ "MIE" \notin h.status THEN {}
  ELSE IF MReady(h) # {} THEN MReady(h)
  ELSE IF h.priv = Supervisor /\ "SIE" \notin h.status THEN {}
  ELSE SReady(h)

(* The arrays of highest_priority_m_ready and highest_priority_s_ready. *)
Priority == [MEI |-> 1, MSI |-> 2, MTI |-> 3, SEI |-> 4, SSI |-> 5, STI |-> 6]

Highest(ready) == CHOOSE i \in ready : \A j \in ready : Priority[i] <= Priority[j]

(* check_for_interrupts *)
CheckForInterrupts(h) == IF Ready(h) = {} THEN h ELSE Trap(h, Highest(Ready(h)))

-----------------------------------------------------------------------------
(* Instructions *)

Ops == {"csrrw", "csrrs", "csrrc"}

CsrInstructions ==
  UNION {[kind : {"csr"}, op : Ops, csr : {c}, src : Sources[c]] : c \in Csrs}

Instructions ==
  [kind : {"plain"}, to : Pc] \cup [kind : {"fault", "ecall", "mret", "sret", "wfi", "sfence"}]
    \cup [kind : {"device"}, line : Lines, up : BOOLEAN]
    \cup [kind : {"epc"}, level : Handlers, to : Pc] \cup CsrInstructions

IncrementPc(h) == [h EXCEPT !.pc = (@ + 1) % (MaxPc + 1)]

Done(h) == [hart |-> h, exception |-> NoException]
Raise(h, e) == [hart |-> h, exception |-> e]

(* Software that changes xPP, xPIE or xEPC gives up returning to where the *)
(* trap came from.                                                         *)
Forget(old, new) ==
  LET same(b) == b \in new.status <=> b \in old.status
  IN [new EXCEPT
       !.mframe = IF new.mepc = old.mepc /\ same("MPP0") /\ same("MPP1") /\ same("MPIE")
                  THEN @ ELSE Dead,
       !.sframe = IF new.sepc = old.sepc /\ same("SPP") /\ same("SPIE")
                  THEN @ ELSE Dead]

(* csr_op: the value and the mask that write_csr gets *)
Value(op, src) == IF op = "csrrw" THEN src ELSE IF op = "csrrs" THEN Bits ELSE {}
Mask(op, src) == IF op = "csrrw" THEN Bits ELSE src

CsrOp(h, i) ==
  IF MayAccess(h.priv, i.csr)
  THEN Done(IncrementPc(Forget(h, WriteCsr(h, i.csr, Value(i.op, i.src), Mask(i.op, i.src)))))
  ELSE Raise(h, "Illegal")

(* write_mepc, write_sepc *)
SetEpc(h, level, to) ==
  Forget(h, IF level = Machine THEN [h EXCEPT !.mepc = to] ELSE [h EXCEPT !.sepc = to])

(* Mutant of Mret: MPRV outlives the return. *)
MretKeepsMprv(h) ==
  IF h.priv < Machine THEN Raise(h, "Illegal")
  ELSE Done([h EXCEPT
         !.status = SetMpp(SetBit(@, "MIE", "MPIE" \in @) \cup {"MPIE"}, User),
         !.priv = Mpp(h.status),
         !.pc = h.mepc,
         !.mframe = Dead])

Mret(h) ==
  IF h.priv < Machine THEN Raise(h, "Illegal")
  ELSE Done([h EXCEPT
         !.status = SetMpp(SetBit(@, "MIE", "MPIE" \in @) \cup {"MPIE"}, User)
                      \ (IF Mpp(@) # Machine THEN {"MPRV"} ELSE {}),
         !.priv = Mpp(h.status),
         !.pc = h.mepc,
         !.mframe = Dead])

Sret(h) ==
  IF h.priv < Supervisor \/ "TSR" \in h.status THEN Raise(h, "Illegal")
  ELSE Done([h EXCEPT
         !.status = (SetBit(@, "SIE", "SPIE" \in @) \cup {"SPIE"}) \ {"SPP", "MPRV"},
         !.priv = Spp(h.status),
         !.pc = h.sepc,
         !.sframe = Dead])

Ecall(priv) ==
  IF priv = User THEN "EcallU" ELSE IF priv = Supervisor THEN "EcallS" ELSE "EcallM"

(* execute_instruction *)
Execute(h, i) ==
  CASE i.kind = "plain" -> Done([h EXCEPT !.pc = i.to])
    [] i.kind = "fault" -> Raise(h, "Fault")
    [] i.kind = "ecall" -> Raise(h, Ecall(h.priv))
    [] i.kind = "mret" -> Mret(h)
    [] i.kind = "sret" -> Sret(h)
    [] i.kind = "wfi" -> IF h.priv < Machine /\ "TW" \in h.status
                         THEN Raise(h, "Illegal") ELSE Done(IncrementPc(h))
    [] i.kind = "sfence" -> IF "TVM" \in h.status
                            THEN Raise(h, "Illegal") ELSE Done(IncrementPc(h))
    [] i.kind = "device" -> Done(IncrementPc(Signal(h, i.line, i.up)))
    [] i.kind = "csr" -> CsrOp(h, i)
    [] i.kind = "epc" -> IF h.priv < i.level
                         THEN Raise(h, "Illegal") ELSE Done(IncrementPc(SetEpc(h, i.level, i.to)))

(* step_with *)
Retire(h, i) ==
  LET r == Execute(h, i)
  IN IF r.exception = NoException THEN r.hart ELSE Trap(r.hart, r.exception)

-----------------------------------------------------------------------------
(* Actions *)

Init ==
  /\ hart = [priv |-> Machine, pc |-> 0, status |-> {}, mip |-> {}, mie |-> {},
             seip_external |-> FALSE, seip_internal |-> FALSE, mideleg |-> {},
             medeleg |-> {}, mepc |-> 0, sepc |-> 0, mframe |-> Dead, sframe |-> Dead]
  /\ mover = "outside"
  /\ writes = 0

Count == writes < MaxWrites /\ writes' = writes + 1

(* Mutant of Step: interrupts are checked for before the instruction only. *)
StepCheckOnce(i) ==
  /\ IF i.kind \in {"csr", "epc"} THEN Count ELSE UNCHANGED writes
  /\ mover' = "hart"
  /\ hart' = IF Ready(hart) # {} THEN CheckForInterrupts(hart) ELSE Retire(hart, i)

(* Core::step *)
Step(i) ==
  /\ IF i.kind \in {"csr", "epc"} THEN Count ELSE UNCHANGED writes
  /\ mover' = "hart"
  /\ hart' = IF Ready(hart) # {} THEN CheckForInterrupts(hart)
             ELSE CheckForInterrupts(Retire(hart, i))

Outside(h) == mover' = "outside" /\ hart' = h

(* An IrqCallback of a device, between two steps of the core. *)
Irq(line, up) == Outside(Signal(hart, line, up)) /\ UNCHANGED writes

(* GDB's write_register, at the privilege the hart is in. *)
DebugWriteCsr(csr, src) ==
  /\ MayAccess(hart.priv, csr)
  /\ Count
  /\ Outside(Forget(hart, WriteCsr(hart, csr, src, Bits)))

DebugWriteEpc(level, to) ==
  /\ hart.priv >= level
  /\ Count
  /\ Outside(SetEpc(hart, level, to))

DebugWritePc(to) == Count /\ Outside([hart EXCEPT !.pc = to])

(* Core::reset: of the trap registers only mcause, and no interrupt register *)
Reset ==
  /\ Outside([hart EXCEPT !.pc = 0, !.status = @ \ {"MIE", "MPRV"}, !.priv = Machine])
  /\ Count

Next ==
  \/ \E i \in Instructions : Step(i)
  \/ \E line \in Lines, up \in BOOLEAN : Irq(line, up)
  \/ \E csr \in Csrs : \E src \in Sources[csr] : DebugWriteCsr(csr, src)
  \/ \E level \in Handlers, to \in Pc : DebugWriteEpc(level, to)
  \/ \E to \in Pc : DebugWritePc(to)
  \/ Reset

vars == <<hart, mover, writes>>

Spec == Init /\ [][Next]_vars

-----------------------------------------------------------------------------
(* Properties *)

(* mip.SEIP is the OR of the line and of the bit that software wrote, in   *)
(* whatever order set_s_external and write_mip came.                       *)
SeipIsOr == "SEI" \in hart.mip <=> hart.seip_external \/ hart.seip_internal

(* The registers hold what their types allow.  In particular MPP is never  *)
(* the reserved level, on which Status::mpp would panic, nothing but a     *)
(* supervisor interrupt is ever delegated, and the two sources of SEIP do  *)
(* not mask each other.                                                    *)
TypeOK ==
  /\ mover \in {"hart", "outside"}
  /\ writes \in 0 .. MaxWrites
  /\ hart \in Harts
  /\ Mpp(hart.status) \in Levels
  /\ SeipIsOr

(* Loads and stores of a user or supervisor program run at its own level:  *)
(* every way out of machine mode clears MPRV, and only machine mode can    *)
(* set it (effective_privilege_mode, mret, sret, SSTATUS_MASK).            *)
DataAccessAtOwnLevel ==
  hart.priv # Machine => EffectivePrivilege(hart.priv, hart.status) = hart.priv

(* A trap into level l may interrupt what f describes. *)
Allowed(l, f) ==
  f.live => /\ f.priv <= l
            /\ f.kind = "interrupt" => f.priv < l \/ f.ie

(* What a trap into a level interrupted was never at a higher level, and   *)
(* an interrupt was taken only from a lower level or with the level's      *)
(* interrupts enabled (trap, highest_priority_ready_interrupt).            *)
TrapsAreAllowed == Allowed(Machine, hart.mframe) /\ Allowed(Supervisor, hart.sframe)

(* A return from a level brings back what the last trap into the level     *)
(* interrupted, its privilege, its pc and the level's interrupt enable,    *)
(* whatever happened since at other levels: nested traps, their returns,   *)
(* writes of other fields, a reset (trap, mret, sret).                     *)
ReturnRestores ==
  /\ LET f == hart.mframe
         h == Mret([hart EXCEPT !.priv = Machine]).hart
     IN f.live => h.priv = f.priv /\ h.pc = f.pc /\ ("MIE" \in h.status <=> f.ie)
  /\ LET f == hart.sframe
         h == Sret([hart EXCEPT !.priv = Supervisor, !.status = @ \ {"TSR"}]).hart
     IN f.live => h.priv = f.priv /\ h.pc = f.pc /\ ("SIE" \in h.status <=> f.ie)

(* What write_csr says of its mask ("only the bits of value for which the  *)
(* corresponding bit in mask is 1 will be written"), of the one-bit fields *)
(* of mstatus: a bit that the mask names takes its value, 0 as well as 1.  *)
MaskedBitsWritten ==
  hart.priv = Machine => \A op \in Ops : \A src \in Sources["mstatus"] :
    LET mask == Mask(op, src) \cap (StatusBits \ MppBits)
    IN WriteStatus(hart.status, Value(op, src), Mask(op, src)) \cap mask
         = Value(op, src) \cap mask

(* A step never ends with an interrupt that could be taken: the check that *)
(* ends it takes one, and the trap masks all others (step, trap).          *)
QuietAfterStep == mover = "hart" => Ready(hart) = {}

(* From h to g nothing changed that belongs to machine mode, unless a trap *)
(* into it changed what traps change.                                      *)
Guarded(h, g) ==
  /\ g.mideleg = h.mideleg
  /\ g.medeleg = h.medeleg
  /\ g.mie \ h.mideleg = h.mie \ h.mideleg
  /\ g.seip_internal = h.seip_internal
  /\ \A b \in {"TVM", "TW", "TSR"} : b \in g.status <=> b \in h.status
  /\ IF g.priv = Machine THEN g.pc = MVector /\ "MIE" \notin g.status
     ELSE /\ g.mepc = h.mepc
          /\ \A b \in {"MIE", "MPIE"} \cup MppBits : b \in g.status <=> b \in h.status

(* Code below machine mode cannot change what belongs to machine mode: the *)
(* delegation, the enables of what is not delegated, the bits of mstatus   *)
(* that sstatus hides, mepc.  It gets to machine mode only at MVector with *)
(* interrupts off, and only the trap that takes it there changes MIE,      *)
(* MPIE, MPP and mepc (check_csr_access, write_sie, write_sstatus, trap).  *)
(* It says nothing of mip, which devices change in the same steps.         *)
MachineStateGuarded ==
  [][hart.priv # Machine /\ mover' = "hart" => Guarded(hart, hart')]_vars
=============================================================================
