----------------------------- MODULE Registers -----------------------------
(***************************************************************************)
(* The control and status registers of the core that decide traps and      *)
(* interrupts: mstatus (core/status.rs), mip, mie and mideleg              *)
(* (core/interrupts.rs), medeleg (core/trap.rs), and the checks of         *)
(* core/mod.rs in front of them.                                           *)
(*                                                                         *)
(* A register is the set of its bits that are 1, and a bit is its name.    *)
(***************************************************************************)
EXTENDS Integers

(* PrivilegeLevel, by its two-bit encoding; 2 is reserved. *)
User == 0
Supervisor == 1
Machine == 3
Levels == {User, Supervisor, Machine}

(* The bits of mstatus that matter here.  UBE, MBE, SBE, VS, FS, SUM and   *)
(* MXR only steer data accesses.                                           *)
SStatusBits == {"SIE", "SPIE", "SPP"}
MppBits == {"MPP0", "MPP1"}
StatusBits ==
  SStatusBits \cup MppBits \cup {"MIE", "MPIE", "MPRV", "TVM", "TW", "TSR"}

(* Interrupt.  The first three are of the machine level. *)
MInterrupt == {"MEI", "MSI", "MTI"}
SInterrupt == {"SEI", "SSI", "STI"}
Interrupt == MInterrupt \cup SInterrupt

(* ExceptionCode, all of which DELEGATABLE_EXCEPTIONS_MASK lets through.   *)
(* "Fault" stands for the misaligned, access and page faults and for       *)
(* breakpoints: raised by an instruction that changes nothing else.        *)
Exception == {"Fault", "Illegal", "EcallU", "EcallS", "EcallM"}
NoException == "none"

Bits == StatusBits \cup Interrupt \cup Exception

Csrs == {"mstatus", "sstatus", "mie", "sie", "mip", "sip", "mideleg", "medeleg"}

-----------------------------------------------------------------------------
(* mstatus *)

(* set_x(value), for a field of one bit *)
SetBit(st, bit, value) == IF value THEN st \cup {bit} ELSE st \ {bit}

Spp(st) == IF "SPP" \in st THEN Supervisor ELSE User

Mpp(st) == (IF "MPP0" \in st THEN 1 ELSE 0) + (IF "MPP1" \in st THEN 2 ELSE 0)

MppField(level) ==
  (IF level = User THEN {} ELSE {"MPP0"}) \cup (IF level = Machine THEN {"MPP1"} ELSE {})

SetMpp(st, level) == (st \ MppBits) \cup MppField(level)

(* effective_privilege_mode: where loads and stores run *)
EffectivePrivilege(priv, st) == IF "MPRV" \in st THEN Mpp(st) ELSE priv

(* write_mstatus.  A field is stored if `value` has a bit of it, whatever  *)
(* the mask says; the mask decides what is stored.                         *)
WriteStatus(st, value, mask) ==
  LET touched == value \cap StatusBits
      updated == (st \ mask) \cup (value \cap mask)
      flags == touched \ MppBits
      mpp == IF touched \cap MppBits # {} /\ updated \cap MppBits # {"MPP1"}
             THEN updated \cap MppBits
             ELSE st \cap MppBits   \* WARL: the reserved level is ignored
  IN ((st \ MppBits) \ flags) \cup (updated \cap flags) \cup mpp

(* write_sstatus, with SSTATUS_MASK *)
WriteSstatus(st, value, mask) == WriteStatus(st, value, mask \cap SStatusBits)

-----------------------------------------------------------------------------
(* Interrupt registers *)

(* Mutant of Signal: a line that falls clears SEIP whatever software set. *)
SignalAlone(h, line, up) ==
  CASE line \in {"MEI", "MTI"} -> [h EXCEPT !.mip = SetBit(@, line, up)]
    [] line \in {"MSI", "SSI"} -> [h EXCEPT !.mip = IF up THEN @ \cup {line} ELSE @]
    [] line = "SEI" -> [h EXCEPT !.seip_external = up, !.mip = SetBit(@, "SEI", up)]
    [] OTHER -> h

(* set_m_external, set_m_timer, set_m_soft, set_s_soft and set_s_external, *)
(* by way of a device's callback: a software interrupt cannot be lowered,  *)
(* and STI has no line.                                                    *)
Signal(h, line, up) ==
  CASE line \in {"MEI", "MTI"} -> [h EXCEPT !.mip = SetBit(@, line, up)]
    [] line \in {"MSI", "SSI"} -> [h EXCEPT !.mip = IF up THEN @ \cup {line} ELSE @]
    [] line = "SEI" ->
         [h EXCEPT !.seip_external = up,
                   !.mip = SetBit(@, "SEI", up \/ h.seip_internal)]
    [] OTHER -> h

(* write_mip: MEIP, MTIP and MSIP ignore it *)
WriteMip(h, value, mask) ==
  LET internal == IF "SEI" \in mask THEN "SEI" \in value ELSE h.seip_internal
      soft == mask \cap {"SSI", "STI"}
      mip == (h.mip \ soft) \cup (value \cap soft)
  IN [h EXCEPT !.seip_internal = internal,
               !.mip = IF "SEI" \in mask
                       THEN SetBit(mip, "SEI", h.seip_external \/ internal)
                       ELSE mip]

(* write_sip: only SSIP, delegated or not *)
WriteSip(h, value, mask) ==
  LET soft == mask \cap {"SSI"}
  IN [h EXCEPT !.mip = (@ \ soft) \cup (value \cap soft)]

(* r & !mask | value & mask *)
Merge(r, value, mask) == (r \ mask) \cup (value \cap mask)

WriteMie(h, value, mask) ==
  [h EXCEPT !.mie = Merge(@, value, mask \cap Interrupt)]

(* Mutant of WriteSie: every supervisor interrupt may be enabled. *)
WriteSieAll(h, value, mask) ==
  [h EXCEPT !.mie = Merge(@, value, mask \cap SInterrupt)]

WriteSie(h, value, mask) ==
  [h EXCEPT !.mie = Merge(@, value, mask \cap h.mideleg)]

WriteMideleg(h, value, mask) ==
  [h EXCEPT !.mideleg = Merge(@, value, mask \cap SInterrupt)]

WriteMedeleg(h, value, mask) ==
  [h EXCEPT !.medeleg = (@ \ mask) \cup (value \cap mask \cap Exception)]

-----------------------------------------------------------------------------
(* Access *)

RequiredLevel(csr) == IF csr \in {"sstatus", "sie", "sip"} THEN Supervisor ELSE Machine

(* check_csr_access *)
MayAccess(priv, csr) == priv >= RequiredLevel(csr)

(* write_csr, past the check *)
WriteCsr(h, csr, value, mask) ==
  CASE csr = "mstatus" -> [h EXCEPT !.status = WriteStatus(@, value, mask)]
    [] csr = "sstatus" -> [h EXCEPT !.status = WriteSstatus(@, value, mask)]
    [] csr = "mie" -> WriteMie(h, value, mask)
    [] csr = "sie" -> WriteSie(h, value, mask)
    [] csr = "mip" -> WriteMip(h, value, mask)
    [] csr = "sip" -> WriteSip(h, value, mask)
    [] csr = "mideleg" -> WriteMideleg(h, value, mask)
    [] csr = "medeleg" -> WriteMedeleg(h, value, mask)
    [] OTHER -> h
=============================================================================
