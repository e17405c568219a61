---------------------------- MODULE Hart_proofs ----------------------------
(***************************************************************************)
(* Proofs about Hart, for every address space, every vector, all lines and *)
(* every program.                                                          *)
(*                                                                         *)
(* Good is the inductive invariant, of a hart h.  It adds to the checked   *)
(* invariants that what the last live trap into a level saved is still in  *)
(* the registers: that is what makes returns restore it.  A step is a      *)
(* composition of operators on the hart, so each operator has lemmas that  *)
(* say what it leaves in the fields, and that it takes Good to Good.       *)
(***************************************************************************)
EXTENDS Hart, TLAPS

(* The privilege levels are their encodings. *)
LEMMA LevelFacts ==
  /\ User = 0 /\ Supervisor = 1 /\ Machine = 3
  /\ Levels = {0, 1, 3}
  BY DEF User, Supervisor, Machine, Levels

(* What the last live trap into each level saved is in its registers. *)
Kept(h) ==
  /\ h.mframe.live => /\ h.mframe.priv = Mpp(h.status)
                      /\ h.mframe.pc = h.mepc
                      /\ h.mframe.ie <=> "MPIE" \in h.status
  /\ h.sframe.live => /\ h.sframe.priv = Spp(h.status)
                      /\ h.sframe.pc = h.sepc
                      /\ h.sframe.ie <=> "SPIE" \in h.status

Good(h) ==
  /\ h \in Harts
  /\ Mpp(h.status) \in Levels
  /\ "SEI" \in h.mip <=> h.seip_external \/ h.seip_internal
  /\ h.priv # Machine => "MPRV" \notin h.status
  /\ Allowed(Machine, h.mframe)
  /\ Allowed(Supervisor, h.sframe)
  /\ Kept(h)

-----------------------------------------------------------------------------
(* Traps *)

MTrapStatus(h) == SetMpp(SetBit(h.status, "MPIE", "MIE" \in h.status) \ {"MIE"}, h.priv)
STrapStatus(h) ==
  SetBit(SetBit(h.status, "SPIE", "SIE" \in h.status) \ {"SIE"}, "SPP", h.priv = Supervisor)

(* A trap into machine mode, field by field. *)
LEMMA TrapToMFields ==
  ASSUME NEW h \in Harts, NEW cause
  PROVE  LET t == TrapToM(h, cause) IN
         /\ t \in Harts
         /\ t.priv = Machine /\ t.pc = MVector
         /\ t.mepc = h.pc /\ t.sepc = h.sepc
         /\ t.mip = h.mip /\ t.mie = h.mie /\ t.mideleg = h.mideleg /\ t.medeleg = h.medeleg
         /\ t.seip_external = h.seip_external /\ t.seip_internal = h.seip_internal
         /\ t.mframe = Frame(h, "MIE", cause) /\ t.sframe = h.sframe
         /\ t.status = MTrapStatus(h)
<1> DEFINE f == Frame(h, "MIE", cause)
           st == MTrapStatus(h)
<1>1. f \in Frames
  BY DEF Frame, Frames, Kind, Harts
<1>2. st \in SUBSET StatusBits
  BY LevelFacts DEF MTrapStatus, Harts, SetMpp, MppField, Mpp, MppBits, SetBit, StatusBits, SStatusBits
<1>3. Machine \in Levels /\ h.pc \in Pc
  BY LevelFacts DEF Harts
<1>4. TrapToM(h, cause) =
        [h EXCEPT !.mepc = h.pc, !.pc = MVector, !.status = st, !.priv = Machine, !.mframe = f]
  BY DEF TrapToM, MTrapStatus
<1> HIDE DEF f, st
<1>5. QED
  BY HartAssumption, <1>1, <1>2, <1>3, <1>4 DEF Harts, st, f

(* A trap into supervisor mode, field by field. *)
LEMMA TrapToSFields ==
  ASSUME NEW h \in Harts, NEW cause
  PROVE  LET t == TrapToS(h, cause) IN
         /\ t \in Harts
         /\ t.priv = Supervisor /\ t.pc = SVector
         /\ t.sepc = h.pc /\ t.mepc = h.mepc
         /\ t.mip = h.mip /\ t.mie = h.mie /\ t.mideleg = h.mideleg /\ t.medeleg = h.medeleg
         /\ t.seip_external = h.seip_external /\ t.seip_internal = h.seip_internal
         /\ t.sframe = Frame(h, "SIE", cause) /\ t.mframe = h.mframe
         /\ t.status = STrapStatus(h)
<1> DEFINE f == Frame(h, "SIE", cause)
           st == STrapStatus(h)
<1>1. f \in Frames
  BY DEF Frame, Frames, Kind, Harts
<1>2. st \in SUBSET StatusBits
  BY DEF STrapStatus, Harts, SetBit, StatusBits, SStatusBits
<1>3. Supervisor \in Levels /\ h.pc \in Pc
  BY LevelFacts DEF Harts
<1>4. TrapToS(h, cause) =
        [h EXCEPT !.sepc = h.pc, !.pc = SVector, !.status = st, !.priv = Supervisor, !.sframe = f]
  BY DEF TrapToS, STrapStatus
<1> HIDE DEF f, st
<1>5. QED
  BY HartAssumption, <1>1, <1>2, <1>3, <1>4 DEF Harts, st, f

(* What the traps do to the bits of mstatus. *)
LEMMA TrapBits ==
  ASSUME NEW h \in Harts
  PROVE  /\ Mpp(MTrapStatus(h)) = h.priv
         /\ "MIE" \notin MTrapStatus(h)
         /\ "MPIE" \in MTrapStatus(h) <=> "MIE" \in h.status
         /\ Spp(MTrapStatus(h)) = Spp(h.status)
         /\ \A b \in {"SIE", "SPIE", "MPRV", "TVM", "TW", "TSR"} :
              b \in MTrapStatus(h) <=> b \in h.status
         /\ h.priv # Machine => Spp(STrapStatus(h)) = h.priv
         /\ "SIE" \notin STrapStatus(h)
         /\ "SPIE" \in STrapStatus(h) <=> "SIE" \in h.status
         /\ Mpp(STrapStatus(h)) = Mpp(h.status)
         /\ \A b \in {"MIE", "MPIE", "MPP0", "MPP1", "MPRV", "TVM", "TW", "TSR"} :
              b \in STrapStatus(h) <=> b \in h.status
<1> USE LevelFacts
<1>1. h.priv \in {0, 1, 3}
  BY DEF Harts
<1>2. Mpp(MTrapStatus(h)) = h.priv
  BY <1>1 DEF MTrapStatus, SetMpp, MppField, Mpp, MppBits, SetBit
<1>3. Spp(MTrapStatus(h)) = Spp(h.status)
  BY DEF MTrapStatus, SetMpp, MppField, Spp, MppBits, SetBit
<1>4. /\ "MIE" \notin MTrapStatus(h)
      /\ "MPIE" \in MTrapStatus(h) <=> "MIE" \in h.status
      /\ \A b \in {"SIE", "SPIE", "MPRV", "TVM", "TW", "TSR"} :
           b \in MTrapStatus(h) <=> b \in h.status
  BY DEF MTrapStatus, SetMpp, MppField, MppBits, SetBit
<1>5. /\ h.priv # Machine => Spp(STrapStatus(h)) = h.priv
      /\ Mpp(STrapStatus(h)) = Mpp(h.status)
  BY <1>1 DEF STrapStatus, Spp, Mpp, SetBit
<1>6. /\ "SIE" \notin STrapStatus(h)
      /\ "SPIE" \in STrapStatus(h) <=> "SIE" \in h.status
      /\ \A b \in {"MIE", "MPIE", "MPP0", "MPP1", "MPRV", "TVM", "TW", "TSR"} :
           b \in STrapStatus(h) <=> b \in h.status
  BY DEF STrapStatus, SetBit
<1>7. QED
  BY <1>2, <1>3, <1>4, <1>5, <1>6

(* A frame records what the trap interrupted. *)
LEMMA FrameFields ==
  ASSUME NEW h, NEW ie, NEW cause
  PROVE  LET f == Frame(h, ie, cause) IN
         /\ f.priv = h.priv /\ f.pc = h.pc
         /\ f.ie <=> ie \in h.status
         /\ f.kind = "interrupt" => cause \in Interrupt
<1>1. Frame(h, ie, cause).priv = h.priv /\ Frame(h, ie, cause).pc = h.pc
  BY Zenon DEF Frame
<1>2. Frame(h, ie, cause).ie = (ie \in h.status)
  BY Zenon DEF Frame
<1>3. Frame(h, ie, cause).kind = Kind(cause)
  BY Zenon DEF Frame
<1>4. QED
  BY <1>1, <1>2, <1>3 DEF Kind

(* An interrupt is taken at a higher level, or with the level's enable.    *)
LEMMA ReadyFacts ==
  ASSUME NEW h \in Harts, NEW i \in Ready(h)
  PROVE  /\ i \in Interrupt
         /\ Target(h, i) = Machine => h.priv # Machine \/ "MIE" \in h.status
         /\ Target(h, i) = Supervisor =>
              h.priv # Machine /\ (h.priv # Supervisor \/ "SIE" \in h.status)
<1>1. i \in Interrupt
  BY DEF Ready, MReady, SReady, Interrupt, SInterrupt, Harts
<1>2. Target(h, i) = Machine => h.priv # Machine \/ "MIE" \in h.status
  BY DEF Ready
<1>3. ASSUME Target(h, i) = Supervisor
      PROVE  h.priv # Machine /\ (h.priv # Supervisor \/ "SIE" \in h.status)
  <2>1. h.priv # Machine /\ i \in h.mideleg \cup h.medeleg
    BY <1>3, LevelFacts DEF Target
  <2>2. i \in h.mideleg
    BY <1>1, <2>1 DEF Harts, Exception, Interrupt, MInterrupt, SInterrupt
  <2>3. QED
    BY <2>1, <2>2 DEF Ready, MReady
<1>4. QED
  BY <1>1, <1>2, <1>3

(* A trap keeps the invariant: what it saves is what its frame records. *)
LEMMA TrapGood ==
  ASSUME NEW h, Good(h), NEW cause, cause \in Interrupt => cause \in Ready(h)
  PROVE  Good(Trap(h, cause))
<1> DEFINE t == Trap(h, cause)
<1>0. h \in Harts
  BY DEF Good
<1>1. CASE Target(h, cause) = Supervisor
  <2>1. t = TrapToS(h, cause)
    BY <1>1 DEF Trap
  <2>2. h.priv # Machine /\ (cause \in Interrupt => h.priv # Supervisor \/ "SIE" \in h.status)
    BY <1>0, <1>1, ReadyFacts, LevelFacts DEF Target
  <2>3. t \in Harts /\ Mpp(t.status) \in Levels
    BY <1>0, <2>1, TrapToSFields, TrapBits DEF Good
  <2>4. "SEI" \in t.mip <=> t.seip_external \/ t.seip_internal
    BY <1>0, <2>1, TrapToSFields DEF Good
  <2>5. "MPRV" \notin t.status
    BY <1>0, <2>1, <2>2, TrapToSFields, TrapBits DEF Good
  <2>6. Allowed(Machine, t.mframe)
    BY <1>0, <2>1, TrapToSFields DEF Good
  <2>7. Allowed(Supervisor, t.sframe)
    <3>1. t.sframe = Frame(h, "SIE", cause)
      BY <1>0, <2>1, TrapToSFields
    <3>2. h.priv \in {0, 1}
      BY <1>0, <2>2, LevelFacts DEF Harts
    <3>3. QED
      BY <2>2, <3>1, <3>2, LevelFacts, FrameFields DEF Allowed
  <2>8. Kept(t)
    <3>1. t.mframe = h.mframe /\ t.sframe = Frame(h, "SIE", cause)
          /\ t.status = STrapStatus(h) /\ t.mepc = h.mepc /\ t.sepc = h.pc
      BY <1>0, <2>1, TrapToSFields
    <3>2. Kept(h)
      BY DEF Good
    <3>3. QED
      BY <1>0, <2>2, <3>1, <3>2, TrapBits, FrameFields DEF Kept
  <2>9. QED
    BY <2>3, <2>4, <2>5, <2>6, <2>7, <2>8 DEF Good
<1>2. CASE Target(h, cause) # Supervisor
  <2>1. t = TrapToM(h, cause) /\ Target(h, cause) = Machine
    BY <1>2 DEF Trap, Target
  <2>2. cause \in Interrupt => h.priv # Machine \/ "MIE" \in h.status
    BY <1>0, <2>1, ReadyFacts
  <2>3. t \in Harts /\ Mpp(t.status) \in Levels
    BY <1>0, <2>1, TrapToMFields, TrapBits DEF Harts
  <2>4. "SEI" \in t.mip <=> t.seip_external \/ t.seip_internal
    BY <1>0, <2>1, TrapToMFields DEF Good
  <2>5. t.priv = Machine
    BY <1>0, <2>1, TrapToMFields
  <2>6. Allowed(Supervisor, t.sframe)
    BY <1>0, <2>1, TrapToMFields DEF Good
  <2>7. Allowed(Machine, t.mframe)
    <3>1. t.mframe = Frame(h, "MIE", cause)
      BY <1>0, <2>1, TrapToMFields
    <3>2. h.priv \in {0, 1, 3}
      BY <1>0, LevelFacts DEF Harts
    <3>3. QED
      BY <2>2, <3>1, <3>2, LevelFacts, FrameFields DEF Allowed
  <2>8. Kept(t)
    <3>1. t.sframe = h.sframe /\ t.mframe = Frame(h, "MIE", cause)
          /\ t.status = MTrapStatus(h) /\ t.sepc = h.sepc /\ t.mepc = h.pc
      BY <1>0, <2>1, TrapToMFields
    <3>2. Kept(h)
      BY DEF Good
    <3>3. QED
      BY <1>0, <3>1, <3>2, TrapBits, FrameFields DEF Kept
  <2>9. QED
    BY <2>3, <2>4, <2>5, <2>6, <2>7, <2>8 DEF Good
<1>3. QED
  BY <1>1, <1>2

-----------------------------------------------------------------------------
(* Checking for interrupts *)

(* Only interrupts are ready. *)
LEMMA ReadyInterrupts ==
  ASSUME NEW h \in Harts
  PROVE  Ready(h) \subseteq Interrupt
  BY DEF Ready, MReady, SReady, Interrupt, SInterrupt, Harts

(* One of the ready interrupts has the highest priority. *)
LEMMA HighestReady ==
  ASSUME NEW ready \in SUBSET Interrupt, ready # {}
  PROVE  Highest(ready) \in ready
<1>1. /\ Priority["MEI"] = 1 /\ Priority["MSI"] = 2 /\ Priority["MTI"] = 3
      /\ Priority["SEI"] = 4 /\ Priority["SSI"] = 5 /\ Priority["STI"] = 6
  BY DEF Priority
<1>2. \A i \in ready : i \in {"MEI", "MSI", "MTI", "SEI", "SSI", "STI"}
  BY DEF Interrupt, MInterrupt, SInterrupt
<1>3. \E i \in ready : \A j \in ready : Priority[i] <= Priority[j]
  <2>1. CASE "MEI" \in ready
    BY <1>1, <1>2, <2>1
  <2>2. CASE "MEI" \notin ready /\ "MSI" \in ready
    BY <1>1, <1>2, <2>2
  <2>3. CASE ready \cap {"MEI", "MSI"} = {} /\ "MTI" \in ready
    BY <1>1, <1>2, <2>3
  <2>4. CASE ready \cap {"MEI", "MSI", "MTI"} = {} /\ "SEI" \in ready
    BY <1>1, <1>2, <2>4
  <2>5. CASE ready \cap {"MEI", "MSI", "MTI", "SEI"} = {}
    BY <1>1, <1>2, <2>5
  <2>6. QED
    BY <2>1, <2>2, <2>3, <2>4, <2>5
<1>4. QED
  BY <1>3 DEF Highest

(* After an interrupt has been taken, no other can be. *)
LEMMA QuietAfterTrap ==
  ASSUME NEW h \in Harts, NEW i \in Ready(h)
  PROVE  Ready(Trap(h, i)) = {}
<1> DEFINE t == Trap(h, i)
<1>1. CASE Target(h, i) = Supervisor
  <2>1. t.priv = Supervisor /\ "SIE" \notin t.status
        /\ t.mip = h.mip /\ t.mie = h.mie /\ t.mideleg = h.mideleg
    BY <1>1, TrapToSFields, TrapBits DEF Trap
  <2>2. MReady(h) = {}
    <3>1. i \in h.mideleg
      BY <1>1, ReadyFacts, LevelFacts
         DEF Target, Harts, Exception, Interrupt, MInterrupt, SInterrupt
    <3>2. i \notin MReady(h)
      BY <3>1 DEF MReady
    <3>3. QED
      BY <3>2 DEF Ready
  <2>3. QED
    BY <2>1, <2>2, LevelFacts DEF Ready, MReady
<1>2. CASE Target(h, i) # Supervisor
  <2>1. t.priv = Machine /\ "MIE" \notin t.status
    BY <1>2, TrapToMFields, TrapBits DEF Trap
  <2>2. QED
    BY <2>1 DEF Ready
<1>3. QED
  BY <1>1, <1>2

(* The check for interrupts keeps the invariant and leaves none ready. *)
LEMMA CheckGood ==
  ASSUME NEW h, Good(h)
  PROVE  /\ Good(CheckForInterrupts(h))
         /\ Ready(CheckForInterrupts(h)) = {}
<1>1. h \in Harts
  BY DEF Good
<1>2. CASE Ready(h) = {}
  BY <1>2 DEF CheckForInterrupts
<1>3. CASE Ready(h) # {}
  <2>1. Highest(Ready(h)) \in Ready(h)
    BY <1>1, <1>3, ReadyInterrupts, HighestReady
  <2>2. CheckForInterrupts(h) = Trap(h, Highest(Ready(h)))
    BY <1>3 DEF CheckForInterrupts
  <2>3. QED
    BY <1>1, <2>1, <2>2, TrapGood, QuietAfterTrap
<1>4. QED
  BY <1>2, <1>3

-----------------------------------------------------------------------------
(* Writing registers *)

(* A write that leaves privilege and history alone. *)
LEMMA ForgetGood ==
  ASSUME NEW old, Good(old), NEW new \in Harts,
         Mpp(new.status) \in Levels,
         "SEI" \in new.mip <=> new.seip_external \/ new.seip_internal,
         new.priv # Machine => "MPRV" \notin new.status,
         new.mframe = old.mframe, new.sframe = old.sframe
  PROVE  Good(Forget(old, new))
<1> DEFINE mf == Forget(old, new).mframe
           sf == Forget(old, new).sframe
           f == Forget(old, new)
<1>0. Dead \in Frames /\ ~Dead.live
  BY HartAssumption, LevelFacts DEF Dead, Frames, Pc
<1>1. /\ f \in Harts
      /\ f.priv = new.priv /\ f.status = new.status /\ f.mepc = new.mepc /\ f.sepc = new.sepc
      /\ f.mip = new.mip /\ f.seip_external = new.seip_external
      /\ f.seip_internal = new.seip_internal
  BY <1>0 DEF Forget, Harts
<1>2. /\ f.mframe = new.mframe \/ f.mframe = Dead
      /\ f.mframe # Dead => /\ new.mepc = old.mepc
                            /\ \A b \in {"MPP0", "MPP1", "MPIE"} :
                                 b \in new.status <=> b \in old.status
  BY <1>0 DEF Forget, Harts
<1>3. /\ f.sframe = new.sframe \/ f.sframe = Dead
      /\ f.sframe # Dead => /\ new.sepc = old.sepc
                            /\ \A b \in {"SPP", "SPIE"} : b \in new.status <=> b \in old.status
  BY <1>0 DEF Forget, Harts
<1>4. Allowed(Machine, f.mframe) /\ Allowed(Supervisor, f.sframe)
  BY <1>0, <1>2, <1>3 DEF Good, Allowed
<1>5. Kept(f)
  BY <1>0, <1>1, <1>2, <1>3 DEF Good, Kept, Mpp, Spp
<1>6. QED
  BY <1>1, <1>4, <1>5 DEF Good

(* write_mstatus stores legal fields, and nothing that the mask leaves out. *)
LEMMA WriteStatusFacts ==
  ASSUME NEW st \in SUBSET StatusBits, Mpp(st) \in Levels, NEW value, NEW mask
  PROVE  LET w == WriteStatus(st, value, mask) IN
         /\ w \in SUBSET StatusBits
         /\ Mpp(w) \in Levels
         /\ \A b \in StatusBits : b \notin mask => (b \in w <=> b \in st)
<1> DEFINE w == WriteStatus(st, value, mask)
           touched == value \cap StatusBits
           updated == (st \ mask) \cup (value \cap mask)
           taken == touched \cap MppBits # {} /\ updated \cap MppBits # {"MPP1"}
           mpp == IF taken THEN updated \cap MppBits ELSE st \cap MppBits
           flags == touched \ MppBits
<1>1. w = ((st \ MppBits) \ flags) \cup (updated \cap flags) \cup mpp
  BY DEF WriteStatus
<1>2. mpp \subseteq MppBits /\ MppBits \subseteq StatusBits /\ flags \subseteq StatusBits
  BY DEF StatusBits
<1>3. w \in SUBSET StatusBits
  BY <1>1, <1>2
<1>4. w \cap MppBits = mpp
  BY <1>1, <1>2
<1>5. \A b \in StatusBits : b \notin mask => (b \in w <=> b \in st)
  BY <1>1
<1>6. Mpp(w) \in Levels
  <2>1. "MPP0" \in w <=> "MPP0" \in mpp
    BY <1>4 DEF MppBits
  <2>2. "MPP1" \in w <=> "MPP1" \in mpp
    BY <1>4 DEF MppBits
  <2>3. CASE taken
    <3>1. mpp = updated \cap MppBits /\ mpp # {"MPP1"}
      BY <2>3
    <3>2. ~("MPP1" \in mpp /\ "MPP0" \notin mpp)
      BY <3>1 DEF MppBits
    <3>3. QED
      BY <2>1, <2>2, <3>2, LevelFacts DEF Mpp
  <2>4. CASE ~taken
    <3>1. mpp = st \cap MppBits
      BY <2>4
    <3>2. ("MPP0" \in w <=> "MPP0" \in st) /\ ("MPP1" \in w <=> "MPP1" \in st)
      BY <2>1, <2>2, <3>1 DEF MppBits
    <3>3. QED
      BY <3>2 DEF Mpp
  <2>5. QED
    BY <2>3, <2>4
<1>7. QED
  BY <1>3, <1>5, <1>6

(* What one write leaves in the fields, whichever register it is. *)
LEMMA WriteCsrFields ==
  ASSUME NEW h, Good(h), NEW csr \in Csrs, MayAccess(h.priv, csr), NEW value, NEW mask
  PROVE  LET w == WriteCsr(h, csr, value, mask) IN
         /\ w \in Harts
         /\ w.priv = h.priv /\ w.pc = h.pc /\ w.mepc = h.mepc /\ w.sepc = h.sepc
         /\ w.mframe = h.mframe /\ w.sframe = h.sframe
         /\ w.status = IF csr = "mstatus" THEN WriteStatus(h.status, value, mask)
                       ELSE IF csr = "sstatus" THEN WriteSstatus(h.status, value, mask)
                       ELSE h.status
         /\ "SEI" \in w.mip <=> w.seip_external \/ w.seip_internal
         /\ csr # "mip" => w.seip_internal = h.seip_internal
         /\ csr # "mideleg" => w.mideleg = h.mideleg
         /\ csr # "medeleg" => w.medeleg = h.medeleg
         /\ csr \notin {"mie", "sie"} => w.mie = h.mie
         /\ csr = "sie" => w.mie \ h.mideleg = h.mie \ h.mideleg
<1> DEFINE w == WriteCsr(h, csr, value, mask)
<1>0. h \in Harts /\ Mpp(h.status) \in Levels
      /\ ("SEI" \in h.mip <=> h.seip_external \/ h.seip_internal)
  BY DEF Good
<1>1. CASE csr \in {"mstatus", "sstatus"}
  <2> DEFINE st == IF csr = "mstatus" THEN WriteStatus(h.status, value, mask)
                   ELSE WriteSstatus(h.status, value, mask)
  <2>1. st \in SUBSET StatusBits
    BY <1>0, WriteStatusFacts DEF Harts, WriteSstatus
  <2>2. w = [h EXCEPT !.status = st]
    BY <1>1 DEF WriteCsr
  <2> HIDE DEF st
  <2>3. w \in Harts /\ w.status = st /\ w = [h EXCEPT !.status = st]
    BY <1>0, <2>1, <2>2 DEF Harts
  <2>4. QED
    BY <1>0, <1>1, <2>1, <2>2 DEF Harts, st
<1>2. CASE csr \in {"mie", "sie"}
  <2> DEFINE mie == IF csr = "mie" THEN Merge(h.mie, value, mask \cap Interrupt)
                    ELSE Merge(h.mie, value, mask \cap h.mideleg)
  <2>1. mie \in SUBSET Interrupt /\ (csr = "sie" => mie \ h.mideleg = h.mie \ h.mideleg)
    BY <1>0 DEF Harts, Merge, Interrupt
  <2>2. w = [h EXCEPT !.mie = mie]
    BY <1>2 DEF WriteCsr, WriteMie, WriteSie
  <2> HIDE DEF mie
  <2>3. QED
    BY <1>0, <1>2, <2>1, <2>2 DEF Harts
<1>3. CASE csr = "mideleg"
  <2> DEFINE d == Merge(h.mideleg, value, mask \cap SInterrupt)
  <2>1. d \in SUBSET SInterrupt
    BY <1>0 DEF Harts, Merge
  <2>2. w = [h EXCEPT !.mideleg = d]
    BY <1>3 DEF WriteCsr, WriteMideleg
  <2> HIDE DEF d
  <2>3. QED
    BY <1>0, <1>3, <2>1, <2>2 DEF Harts
<1>4. CASE csr = "medeleg"
  <2> DEFINE d == (h.medeleg \ mask) \cup (value \cap mask \cap Exception)
  <2>1. d \in SUBSET Exception
    BY <1>0 DEF Harts
  <2>2. w = [h EXCEPT !.medeleg = d]
    BY <1>4 DEF WriteCsr, WriteMedeleg
  <2> HIDE DEF d
  <2>3. QED
    BY <1>0, <1>4, <2>1, <2>2 DEF Harts
<1>5. CASE csr = "sip"
  <2> DEFINE mip == (h.mip \ (mask \cap {"SSI"})) \cup (value \cap (mask \cap {"SSI"}))
  <2>1. mip \in SUBSET Interrupt /\ ("SEI" \in mip <=> "SEI" \in h.mip)
    BY <1>0 DEF Harts, Interrupt, SInterrupt
  <2>2. w = [h EXCEPT !.mip = mip]
    BY <1>5 DEF WriteCsr, WriteSip
  <2> HIDE DEF mip
  <2>3. QED
    BY <1>0, <1>5, <2>1, <2>2 DEF Harts
<1>6. CASE csr = "mip"
  <2> DEFINE soft == mask \cap {"SSI", "STI"}
             base == (h.mip \ soft) \cup (value \cap soft)
  <2>0. base \in SUBSET Interrupt /\ ("SEI" \in base <=> "SEI" \in h.mip)
    BY <1>0 DEF Harts, Interrupt, SInterrupt
  <2>1. CASE "SEI" \in mask
    <3> DEFINE int == "SEI" \in value
               mip == SetBit(base, "SEI", h.seip_external \/ int)
    <3>1. mip \in SUBSET Interrupt /\ ("SEI" \in mip <=> h.seip_external \/ int)
      BY <2>0 DEF SetBit, Interrupt, SInterrupt
    <3>2. w = [h EXCEPT !.seip_internal = int, !.mip = mip]
      BY <1>6, <2>1 DEF WriteCsr, WriteMip
    <3>3. int \in BOOLEAN
      OBVIOUS
    <3> HIDE DEF int, mip
    <3>4. QED
      BY <1>0, <1>6, <3>1, <3>2, <3>3 DEF Harts
  <2>2. CASE "SEI" \notin mask
    <3>1. w = [h EXCEPT !.seip_internal = h.seip_internal, !.mip = base]
      BY <1>6, <2>2 DEF WriteCsr, WriteMip
    <3> HIDE DEF base
    <3>2. h.seip_internal \in BOOLEAN /\ h.mip \in SUBSET Interrupt
      BY <1>0 DEF Harts
    <3>3. QED
      BY <1>0, <1>6, <2>0, <3>1, <3>2 DEF Harts
  <2>3. QED
    BY <2>1, <2>2
<1>7. QED
  BY <1>1, <1>2, <1>3, <1>4, <1>5, <1>6 DEF Csrs

(* A register write that the privilege check lets through. *)
LEMMA WriteGood ==
  ASSUME NEW h, Good(h), NEW csr \in Csrs, MayAccess(h.priv, csr), NEW value, NEW mask
  PROVE  Good(Forget(h, WriteCsr(h, csr, value, mask)))
<1> DEFINE w == WriteCsr(h, csr, value, mask)
<1>0. h \in Harts /\ Mpp(h.status) \in Levels /\ h.status \in SUBSET StatusBits
      /\ (h.priv # Machine => "MPRV" \notin h.status)
  BY DEF Good, Harts
<1>1. Mpp(w.status) \in Levels
  <2>1. Mpp(WriteStatus(h.status, value, mask)) \in Levels
    BY <1>0, WriteStatusFacts
  <2>2. Mpp(WriteSstatus(h.status, value, mask)) \in Levels
    BY <1>0, WriteStatusFacts DEF WriteSstatus
  <2>3. w.status \in {h.status, WriteStatus(h.status, value, mask),
                      WriteSstatus(h.status, value, mask)}
    BY WriteCsrFields
  <2>4. QED
    BY <1>0, <2>1, <2>2, <2>3
<1>2. w.priv # Machine => "MPRV" \notin w.status
  <2> SUFFICES ASSUME h.priv # Machine PROVE "MPRV" \notin w.status
    BY WriteCsrFields
  <2>1. csr # "mstatus"
    BY <1>0, LevelFacts DEF MayAccess, RequiredLevel, Harts
  <2>2. "MPRV" \notin WriteSstatus(h.status, value, mask)
    <3>1. "MPRV" \in StatusBits /\ "MPRV" \notin mask \cap SStatusBits
      BY DEF StatusBits, SStatusBits
    <3>2. QED
      BY <1>0, <3>1, WriteStatusFacts DEF WriteSstatus
  <2>3. QED
    BY <1>0, <2>1, <2>2, WriteCsrFields
<1>3. QED
  BY <1>1, <1>2, WriteCsrFields, ForgetGood

(* A write of mepc or sepc. *)
LEMMA SetEpcGood ==
  ASSUME NEW h, Good(h), NEW l \in Handlers, NEW to \in Pc
  PROVE  Good(SetEpc(h, l, to))
<1>1. CASE l = Machine
  <2> DEFINE w == [h EXCEPT !.mepc = to]
  <2>1. /\ w \in Harts /\ w.status = h.status /\ w.mip = h.mip /\ w.priv = h.priv
        /\ w.seip_external = h.seip_external /\ w.seip_internal = h.seip_internal
        /\ w.mframe = h.mframe /\ w.sframe = h.sframe
    BY DEF Good, Harts
  <2>2. SetEpc(h, l, to) = Forget(h, w)
    BY <1>1 DEF SetEpc
  <2> HIDE DEF w
  <2>3. QED
    BY <2>1, <2>2, ForgetGood DEF Good
<1>2. CASE l # Machine
  <2> DEFINE w == [h EXCEPT !.sepc = to]
  <2>1. /\ w \in Harts /\ w.status = h.status /\ w.mip = h.mip /\ w.priv = h.priv
        /\ w.seip_external = h.seip_external /\ w.seip_internal = h.seip_internal
        /\ w.mframe = h.mframe /\ w.sframe = h.sframe
    BY DEF Good, Harts
  <2>2. SetEpc(h, l, to) = Forget(h, w)
    BY <1>2 DEF SetEpc
  <2> HIDE DEF w
  <2>3. QED
    BY <2>1, <2>2, ForgetGood DEF Good
<1>3. QED
  BY <1>1, <1>2

(* A jump. *)
LEMMA PcGood ==
  ASSUME NEW h, Good(h), NEW to \in Pc
  PROVE  Good([h EXCEPT !.pc = to])
<1> DEFINE w == [h EXCEPT !.pc = to]
<1>1. /\ w \in Harts /\ w.status = h.status /\ w.mip = h.mip /\ w.priv = h.priv
      /\ w.seip_external = h.seip_external /\ w.seip_internal = h.seip_internal
      /\ w.mframe = h.mframe /\ w.sframe = h.sframe /\ w.mepc = h.mepc /\ w.sepc = h.sepc
  BY DEF Good, Harts
<1> HIDE DEF w
<1>2. Good(w)
  BY <1>1 DEF Good, Kept
<1>3. QED
  BY <1>2 DEF w

(* The step to the next instruction. *)
LEMMA IncrementGood ==
  ASSUME NEW h, Good(h)
  PROVE  Good(IncrementPc(h))
<1>1. h.pc \in Pc
  BY DEF Good, Harts
<1>2. (h.pc + 1) % (MaxPc + 1) \in Pc
  BY <1>1, HartAssumption DEF Pc
<1>3. QED
  BY <1>2, PcGood DEF IncrementPc

(* A device's line moves nothing but mip. *)
LEMMA SignalFields ==
  ASSUME NEW h \in Harts, NEW line \in Interrupt, NEW up \in BOOLEAN
  PROVE  LET w == Signal(h, line, up) IN
         /\ w \in Harts
         /\ w.priv = h.priv /\ w.pc = h.pc /\ w.mepc = h.mepc /\ w.sepc = h.sepc
         /\ w.mframe = h.mframe /\ w.sframe = h.sframe /\ w.status = h.status
         /\ w.mie = h.mie /\ w.mideleg = h.mideleg /\ w.medeleg = h.medeleg
         /\ w.seip_internal = h.seip_internal
         /\ ("SEI" \in h.mip <=> h.seip_external \/ h.seip_internal)
              => ("SEI" \in w.mip <=> w.seip_external \/ w.seip_internal)
<1> DEFINE w == Signal(h, line, up)
<1>1. CASE line \in {"MEI", "MTI", "MSI", "SSI"}
  <2> DEFINE mip == IF line \in {"MEI", "MTI"} THEN SetBit(h.mip, line, up)
                    ELSE IF up THEN h.mip \cup {line} ELSE h.mip
  <2>1. mip \in SUBSET Interrupt /\ ("SEI" \in mip <=> "SEI" \in h.mip)
    BY <1>1 DEF SetBit, Harts
  <2>2. w = [h EXCEPT !.mip = mip]
    BY <1>1 DEF Signal
  <2> HIDE DEF mip
  <2>3. QED
    BY <2>1, <2>2 DEF Harts
<1>2. CASE line = "SEI"
  <2> DEFINE mip == SetBit(h.mip, "SEI", up \/ h.seip_internal)
  <2>1. mip \in SUBSET Interrupt /\ ("SEI" \in mip <=> up \/ h.seip_internal)
    BY <1>2 DEF SetBit, Harts
  <2>2. w = [h EXCEPT !.seip_external = up, !.mip = mip]
    BY <1>2 DEF Signal
  <2> HIDE DEF mip
  <2>3. QED
    BY <2>1, <2>2 DEF Harts
<1>3. CASE line = "STI"
  BY <1>3 DEF Signal
<1>4. QED
  BY <1>1, <1>2, <1>3 DEF Interrupt, MInterrupt, SInterrupt

(* A device drives its line. *)
LEMMA SignalGood ==
  ASSUME NEW h, Good(h), NEW line \in Interrupt, NEW up \in BOOLEAN
  PROVE  Good(Signal(h, line, up))
  BY SignalFields DEF Good, Kept

-----------------------------------------------------------------------------
(* Instructions *)

(* mret, where it does not raise an exception. *)
LEMMA MretGood ==
  ASSUME NEW h, Good(h), h.priv >= Machine
  PROVE  Good(Mret(h).hart) /\ Mret(h).exception = NoException
<1> DEFINE st == SetMpp(SetBit(h.status, "MIE", "MPIE" \in h.status) \cup {"MPIE"}, User)
                   \ (IF Mpp(h.status) # Machine THEN {"MPRV"} ELSE {})
           p == Mpp(h.status)
           w == [h EXCEPT !.status = st, !.priv = p, !.pc = h.mepc, !.mframe = Dead]
<1>0. Dead \in Frames /\ ~Dead.live
  BY HartAssumption, LevelFacts DEF Dead, Frames, Pc
<1>1. p \in Levels /\ h.mepc \in Pc /\ h \in Harts
  BY DEF Good, Harts
<1>2. /\ st \in SUBSET StatusBits
      /\ Mpp(st) \in Levels
      /\ p # Machine => "MPRV" \notin st
      /\ Spp(st) = Spp(h.status)
      /\ "SPIE" \in st <=> "SPIE" \in h.status
  BY <1>1, LevelFacts DEF Harts, SetMpp, MppField, Mpp, Spp, MppBits, SetBit, StatusBits, SStatusBits
<1>3. ~(h.priv < Machine)
  BY <1>1, LevelFacts DEF Harts
<1>4. Mret(h) = Done(w)
  BY <1>3 DEF Mret
<1>5. Mret(h).hart = w /\ Mret(h).exception = NoException
  BY <1>4 DEF Done
<1> HIDE DEF st, p
<1>6. /\ w \in Harts /\ w.status = st /\ w.mip = h.mip /\ w.priv = p
      /\ w.seip_external = h.seip_external /\ w.seip_internal = h.seip_internal
      /\ w.mframe = Dead /\ w.sframe = h.sframe /\ w.sepc = h.sepc
  BY <1>0, <1>1, <1>2 DEF Harts
<1> HIDE DEF w
<1>7. Good(w)
  BY <1>0, <1>2, <1>6 DEF Good, Kept, Allowed
<1>8. QED
  BY <1>5, <1>7

(* sret, where it does not raise an exception. *)
LEMMA SretGood ==
  ASSUME NEW h, Good(h), h.priv >= Supervisor, "TSR" \notin h.status
  PROVE  Good(Sret(h).hart) /\ Sret(h).exception = NoException
<1> DEFINE st == (SetBit(h.status, "SIE", "SPIE" \in h.status) \cup {"SPIE"}) \ {"SPP", "MPRV"}
           p == Spp(h.status)
           w == [h EXCEPT !.status = st, !.priv = p, !.pc = h.sepc, !.sframe = Dead]
<1>0. Dead \in Frames /\ ~Dead.live
  BY HartAssumption, LevelFacts DEF Dead, Frames, Pc
<1>1. p \in Levels /\ h.sepc \in Pc /\ h \in Harts
  BY LevelFacts DEF Good, Harts, Spp
<1>2. /\ st \in SUBSET StatusBits
      /\ Mpp(st) = Mpp(h.status)
      /\ "MPRV" \notin st
      /\ "MPIE" \in st <=> "MPIE" \in h.status
  BY <1>1 DEF Harts, Mpp, SetBit, StatusBits, SStatusBits
<1>3. ~(h.priv < Supervisor)
  BY <1>1, LevelFacts DEF Harts
<1>4. Sret(h) = Done(w)
  BY <1>3 DEF Sret
<1>5. Sret(h).hart = w /\ Sret(h).exception = NoException
  BY <1>4 DEF Done
<1> HIDE DEF st, p
<1>6. /\ w \in Harts /\ w.status = st /\ w.mip = h.mip /\ w.priv = p
      /\ w.seip_external = h.seip_external /\ w.seip_internal = h.seip_internal
      /\ w.mframe = h.mframe /\ w.sframe = Dead /\ w.mepc = h.mepc
  BY <1>0, <1>1, <1>2 DEF Harts
<1> HIDE DEF w
<1>7. Good(w)
  BY <1>0, <1>2, <1>6 DEF Good, Kept, Allowed
<1>8. QED
  BY <1>5, <1>7

(* The fields of what an instruction returns. *)
LEMMA Results ==
  ASSUME NEW h, NEW e
  PROVE  /\ Done(h).hart = h /\ Done(h).exception = NoException
         /\ Raise(h, e).hart = h /\ Raise(h, e).exception = e
  BY DEF Done, Raise

(* An instruction either succeeds, or raises an exception and does nothing. *)
LEMMA ExecuteGood ==
  ASSUME NEW h, Good(h), NEW i \in Instructions
  PROVE  /\ Good(Execute(h, i).hart)
         /\ \/ Execute(h, i).exception = NoException
            \/ Execute(h, i).exception \in Exception /\ Execute(h, i).hart = h
<1> DEFINE r == Execute(h, i)
<1>0. h \in Harts /\ "Illegal" \in Exception /\ "Fault" \in Exception
  BY DEF Good, Exception
<1>1. CASE i \in [kind : {"plain"}, to : Pc]
  <2>1. i.to \in Pc /\ r = Done([h EXCEPT !.pc = i.to])
    BY <1>1 DEF Execute
  <2>2. QED
    BY <2>1, PcGood, Results
<1>2. CASE i \in [kind : {"fault", "ecall", "mret", "sret", "wfi", "sfence"}]
  <2>1. CASE i.kind = "fault"
    BY <1>0, <2>1, Results DEF Execute
  <2>2. CASE i.kind = "ecall"
    <3>1. r = Raise(h, Ecall(h.priv)) /\ Ecall(h.priv) \in Exception
      BY <2>2 DEF Execute, Ecall, Exception
    <3>2. QED
      BY <3>1, Results
  <2>3. CASE i.kind = "mret"
    <3>1. r = Mret(h)
      BY <2>3 DEF Execute
    <3>2. CASE h.priv < Machine
      BY <1>0, <3>1, <3>2, Results DEF Mret
    <3>3. CASE ~(h.priv < Machine)
      BY <1>0, <3>1, <3>3, MretGood, LevelFacts DEF Harts
    <3>4. QED
      BY <3>2, <3>3
  <2>4. CASE i.kind = "sret"
    <3>1. r = Sret(h)
      BY <2>4 DEF Execute
    <3>2. CASE h.priv < Supervisor \/ "TSR" \in h.status
      BY <1>0, <3>1, <3>2, Results DEF Sret
    <3>3. CASE ~(h.priv < Supervisor \/ "TSR" \in h.status)
      BY <1>0, <3>1, <3>3, SretGood, LevelFacts DEF Harts
    <3>4. QED
      BY <3>2, <3>3
  <2>5. CASE i.kind \in {"wfi", "sfence"}
    <3>1. r = Raise(h, "Illegal") \/ r = Done(IncrementPc(h))
      BY <2>5 DEF Execute
    <3>2. QED
      BY <1>0, <3>1, IncrementGood, Results
  <2>6. i.kind \in {"fault", "ecall", "mret", "sret", "wfi", "sfence"}
    BY <1>2
  <2>7. QED
    BY <2>1, <2>2, <2>3, <2>4, <2>5, <2>6
<1>3. CASE i \in [kind : {"device"}, line : Lines, up : BOOLEAN]
  <2>1. i.line \in Interrupt /\ i.up \in BOOLEAN
    BY <1>3, HartAssumption
  <2>2. r = Done(IncrementPc(Signal(h, i.line, i.up)))
    BY <1>3 DEF Execute
  <2>3. QED
    BY <2>1, <2>2, SignalGood, IncrementGood, Results
<1>4. CASE i \in CsrInstructions
  <2>1. i.kind = "csr" /\ i.csr \in Csrs
    BY <1>4 DEF CsrInstructions
  <2>2. r = CsrOp(h, i)
    BY <2>1 DEF Execute
  <2>3. CASE MayAccess(h.priv, i.csr)
    <3>1. r = Done(IncrementPc(Forget(h,
                WriteCsr(h, i.csr, Value(i.op, i.src), Mask(i.op, i.src)))))
      BY <2>2, <2>3 DEF CsrOp
    <3>2. QED
      BY <2>1, <2>3, <3>1, WriteGood, IncrementGood, Results
  <2>4. CASE ~MayAccess(h.priv, i.csr)
    BY <1>0, <2>2, <2>4, Results DEF CsrOp
  <2>5. QED
    BY <2>3, <2>4
<1>5. CASE i \in [kind : {"epc"}, level : Handlers, to : Pc]
  <2>1. i.level \in Handlers /\ i.to \in Pc
    BY <1>5
  <2>2. r = Raise(h, "Illegal") \/ r = Done(IncrementPc(SetEpc(h, i.level, i.to)))
    BY <1>5 DEF Execute
  <2>3. QED
    BY <1>0, <2>1, <2>2, SetEpcGood, IncrementGood, Results
<1>6. \/ i \in [kind : {"plain"}, to : Pc]
      \/ i \in [kind : {"fault", "ecall", "mret", "sret", "wfi", "sfence"}]
      \/ i \in [kind : {"device"}, line : Lines, up : BOOLEAN]
      \/ i \in CsrInstructions
      \/ i \in [kind : {"epc"}, level : Handlers, to : Pc]
  BY DEF Instructions
<1>7. QED
  BY Zenon, <1>1, <1>2, <1>3, <1>4, <1>5, <1>6

-----------------------------------------------------------------------------
(* Steps *)

(* An instruction and the trap it may end in. *)
LEMMA RetireGood ==
  ASSUME NEW h, Good(h), NEW i \in Instructions
  PROVE  Good(Retire(h, i))
<1> DEFINE r == Execute(h, i)
<1>1. CASE r.exception = NoException
  BY <1>1, ExecuteGood DEF Retire
<1>2. CASE r.exception # NoException
  <2>1. r.exception \in Exception /\ r.hart = h
    BY <1>2, ExecuteGood
  <2>2. r.exception \notin Interrupt
    BY <2>1 DEF Exception, Interrupt, MInterrupt, SInterrupt
  <2>3. Good(Trap(r.hart, r.exception))
    BY <2>1, <2>2, TrapGood
  <2>4. QED
    BY <1>2, <2>3 DEF Retire
<1>3. QED
  BY <1>1, <1>2

(* Reset leaves xPP, xPIE and xEPC, so it leaves what they record. *)
LEMMA ResetGood ==
  ASSUME NEW h, Good(h)
  PROVE  Good([h EXCEPT !.pc = 0, !.status = @ \ {"MIE", "MPRV"}, !.priv = Machine])
<1> DEFINE st == h.status \ {"MIE", "MPRV"}
           w == [h EXCEPT !.pc = 0, !.status = st, !.priv = Machine]
<1>1. /\ st \in SUBSET StatusBits
      /\ Mpp(st) = Mpp(h.status) /\ Spp(st) = Spp(h.status)
      /\ "MPIE" \in st <=> "MPIE" \in h.status
      /\ "SPIE" \in st <=> "SPIE" \in h.status
  BY DEF Good, Harts, Mpp, Spp
<1> HIDE DEF st
<1>2. /\ w \in Harts /\ w.status = st /\ w.mip = h.mip /\ w.priv = Machine
      /\ w.seip_external = h.seip_external /\ w.seip_internal = h.seip_internal
      /\ w.mframe = h.mframe /\ w.sframe = h.sframe /\ w.mepc = h.mepc /\ w.sepc = h.sepc
  <2>1. h \in Harts /\ Machine \in Levels /\ 0 \in Pc
    BY HartAssumption, LevelFacts DEF Good, Pc
  <2>2. QED
    BY <1>1, <2>1 DEF Harts
<1> HIDE DEF w
<1>3. Good(w)
  BY <1>1, <1>2 DEF Good, Kept
<1>4. QED
  BY <1>3 DEF w, st

IInv ==
  /\ mover \in {"hart", "outside"}
  /\ writes \in 0 .. MaxWrites
  /\ Good(hart)
  /\ QuietAfterStep

(* The hart after power-up. *)
LEMMA InitGood == Init => IInv
<1> SUFFICES ASSUME Init PROVE IInv
  OBVIOUS
<1>0. Dead \in Frames /\ ~Dead.live /\ 0 \in Pc
  BY HartAssumption, LevelFacts DEF Dead, Frames, Pc
<1>1. /\ hart \in Harts /\ hart.status = {} /\ hart.mip = {} /\ hart.priv = Machine
      /\ hart.seip_external = FALSE /\ hart.seip_internal = FALSE
      /\ hart.mframe = Dead /\ hart.sframe = Dead
  BY <1>0, LevelFacts DEF Init, Harts
<1>2. Good(hart)
  BY <1>0, <1>1, LevelFacts DEF Good, Allowed, Kept, Mpp
<1>3. QED
  BY <1>2, HartAssumption DEF Init, IInv, QuietAfterStep

(* Every step of the hart, of the devices and of the debugger. *)
LEMMA NextGood == IInv /\ [Next]_vars => IInv'
<1> SUFFICES ASSUME IInv, [Next]_vars PROVE IInv'
  OBVIOUS
<1>0. Good(hart) /\ writes \in 0 .. MaxWrites
  BY DEF IInv
<1>1. ASSUME NEW i \in Instructions, Step(i) PROVE IInv'
  <2>1. hart' = CheckForInterrupts(hart) \/ hart' = CheckForInterrupts(Retire(hart, i))
    BY <1>1 DEF Step
  <2>2. Good(hart') /\ Ready(hart') = {}
    BY <1>0, <2>1, CheckGood, RetireGood
  <2>3. writes' \in 0 .. MaxWrites /\ mover' = "hart"
    BY <1>0, <1>1, HartAssumption DEF Step, Count
  <2>4. QED
    BY <2>2, <2>3 DEF IInv, QuietAfterStep, Good
<1>2. ASSUME Good(hart'), mover' = "outside", writes' \in 0 .. MaxWrites PROVE IInv'
  BY <1>2 DEF IInv, QuietAfterStep, Good
<1>3. ASSUME NEW line \in Lines, NEW up \in BOOLEAN, Irq(line, up) PROVE IInv'
  BY <1>0, <1>2, <1>3, HartAssumption, SignalGood DEF Irq, Outside
<1>4. ASSUME NEW csr \in Csrs, NEW src \in Sources[csr], DebugWriteCsr(csr, src) PROVE IInv'
  BY <1>0, <1>2, <1>4, HartAssumption, WriteGood DEF DebugWriteCsr, Outside, Count
<1>5. ASSUME NEW to \in Pc, DebugWritePc(to) PROVE IInv'
  BY <1>0, <1>2, <1>5, HartAssumption, PcGood DEF DebugWritePc, Outside, Count
<1>6. ASSUME NEW l \in Handlers, NEW to \in Pc, DebugWriteEpc(l, to) PROVE IInv'
  BY <1>0, <1>2, <1>6, HartAssumption, SetEpcGood DEF DebugWriteEpc, Outside, Count
<1>7. CASE Reset
  <2>1. Good(hart')
    BY <1>0, <1>7, ResetGood DEF Reset, Outside
  <2>2. mover' = "outside" /\ writes' \in 0 .. MaxWrites
    BY <1>0, <1>7, HartAssumption DEF Reset, Outside, Count
  <2>3. QED
    BY <1>2, <2>1, <2>2
<1>8. CASE UNCHANGED vars
  BY <1>8 DEF vars, IInv, QuietAfterStep, Good
<1>9. QED
  BY <1>1, <1>3, <1>4, <1>5, <1>6, <1>7, <1>8 DEF Next

-----------------------------------------------------------------------------
(* The invariants *)

(* The inductive invariant holds in every reachable state. *)
LEMMA Invariant == Spec => []IInv
<1>1. Init => IInv
  BY InitGood
<1>2. IInv /\ [Next]_vars => IInv'
  BY NextGood
<1>3. QED
  BY <1>1, <1>2, PTL DEF Spec

(* The registers keep their types, MPP is never the reserved level, and    *)
(* only supervisor interrupts are delegated: core/status.rs, interrupts.rs. *)
THEOREM TypeCorrect == Spec => []TypeOK
<1>1. IInv => TypeOK
  BY DEF IInv, Good, TypeOK, SeipIsOr
<1>2. QED
  BY <1>1, Invariant, PTL

(* The two sources of SEIP do not mask each other. *)
THEOREM SeipCorrect == Spec => []SeipIsOr
<1>1. IInv => SeipIsOr
  BY DEF IInv, Good, SeipIsOr
<1>2. QED
  BY <1>1, Invariant, PTL

(* No program below machine mode has its loads and stores run at another   *)
(* level: effective_privilege_mode, mret, sret, write_sstatus.             *)
THEOREM DataAccessCorrect == Spec => []DataAccessAtOwnLevel
<1>1. IInv => DataAccessAtOwnLevel
  BY DEF IInv, Good, DataAccessAtOwnLevel, EffectivePrivilege
<1>2. QED
  BY <1>1, Invariant, PTL

(* Traps never lower the privilege, and interrupts respect the enables:    *)
(* trap and highest_priority_ready_interrupt.                              *)
THEOREM TrapsCorrect == Spec => []TrapsAreAllowed
<1>1. IInv => TrapsAreAllowed
  BY DEF IInv, Good, TrapsAreAllowed
<1>2. QED
  BY <1>1, Invariant, PTL

(* A step leaves no interrupt that could be taken: step and trap. *)
THEOREM QuietCorrect == Spec => []QuietAfterStep
<1>1. IInv => QuietAfterStep
  BY DEF IInv
<1>2. QED
  BY <1>1, Invariant, PTL

(* A return restores what the last trap into its level interrupted, as     *)
(* long as software left what the trap saved alone: trap, mret and sret.   *)
THEOREM ReturnsCorrect == Spec => []ReturnRestores
<1>1. ASSUME IInv PROVE ReturnRestores
  <2>1. hart \in Harts /\ Kept(hart)
    BY <1>1 DEF IInv, Good
  <2>2. LET h == Mret([hart EXCEPT !.priv = Machine]).hart
        IN /\ h.priv = Mpp(hart.status) /\ h.pc = hart.mepc
           /\ "MIE" \in h.status <=> "MPIE" \in hart.status
    <3> DEFINE g == [hart EXCEPT !.priv = Machine]
               st == SetMpp(SetBit(hart.status, "MIE", "MPIE" \in hart.status) \cup {"MPIE"}, User)
                       \ (IF Mpp(hart.status) # Machine THEN {"MPRV"} ELSE {})
               p == Mpp(hart.status)
    <3>1. ~(g.priv < Machine) /\ g.status = hart.status /\ g.mepc = hart.mepc
      BY <2>1, LevelFacts DEF Harts
    <3>2. Mret(g).hart = [g EXCEPT !.status = st, !.priv = p, !.pc = hart.mepc, !.mframe = Dead]
      BY <3>1, Results DEF Mret
    <3>3. "MIE" \in st <=> "MPIE" \in hart.status
      BY DEF SetMpp, MppField, MppBits, SetBit
    <3> HIDE DEF st, p
    <3>4. /\ Mret(g).hart.priv = p /\ Mret(g).hart.pc = hart.mepc /\ Mret(g).hart.status = st
      BY <2>1, <3>2 DEF Harts
    <3>5. QED
      BY <3>3, <3>4 DEF p
  <2>3. LET h == Sret([hart EXCEPT !.priv = Supervisor, !.status = @ \ {"TSR"}]).hart
        IN /\ h.priv = Spp(hart.status) /\ h.pc = hart.sepc
           /\ "SIE" \in h.status <=> "SPIE" \in hart.status
    <3> DEFINE g0 == hart.status \ {"TSR"}
               g == [hart EXCEPT !.priv = Supervisor, !.status = g0]
               st == (SetBit(g0, "SIE", "SPIE" \in g0) \cup {"SPIE"}) \ {"SPP", "MPRV"}
               p == Spp(g0)
    <3>1. ~(g.priv < Supervisor) /\ "TSR" \notin g.status /\ g.status = g0
          /\ g.sepc = hart.sepc
      BY <2>1, LevelFacts DEF Harts
    <3>2. Sret(g).hart = [g EXCEPT !.status = st, !.priv = p, !.pc = hart.sepc, !.sframe = Dead]
      BY <3>1, Results DEF Sret
    <3>3. ("SIE" \in st <=> "SPIE" \in hart.status) /\ p = Spp(hart.status)
      BY DEF SetBit, Spp
    <3> HIDE DEF st, p, g0
    <3>4. /\ Sret(g).hart.priv = p /\ Sret(g).hart.pc = hart.sepc /\ Sret(g).hart.status = st
      BY <2>1, <3>2 DEF Harts
    <3>5. QED
      BY <3>3, <3>4 DEF g0
  <2>4. QED
    BY <2>1, <2>2, <2>3 DEF Kept, ReturnRestores
<1>2. QED
  BY <1>1, Invariant, PTL

-----------------------------------------------------------------------------
(* What belongs to machine mode *)

(* A trap changes what belongs to machine mode only if it goes there. *)
LEMMA TrapGuarded ==
  ASSUME NEW h \in Harts, h.priv # Machine, NEW cause
  PROVE  Guarded(h, Trap(h, cause))
<1>1. CASE Target(h, cause) = Supervisor
  BY <1>1, TrapToSFields, TrapBits, LevelFacts DEF Trap, Guarded, MppBits
<1>2. CASE Target(h, cause) # Supervisor
  BY <1>2, TrapToMFields, TrapBits DEF Trap, Guarded
<1>3. QED
  BY <1>1, <1>2

(* Guarded, for a step that stays below machine mode. *)
LEMMA GuardedSame ==
  ASSUME NEW h, NEW g, h.priv # Machine, g.priv # Machine,
         g.mideleg = h.mideleg, g.medeleg = h.medeleg,
         g.mie \ h.mideleg = h.mie \ h.mideleg,
         g.seip_internal = h.seip_internal, g.mepc = h.mepc,
         \A b \in {"TVM", "TW", "TSR", "MIE", "MPIE"} \cup MppBits :
           b \in g.status <=> b \in h.status
  PROVE  Guarded(h, g)
  BY DEF Guarded

(* The step to the next instruction leaves the registers. *)
LEMMA IncrementFields ==
  ASSUME NEW h \in Harts
  PROVE  LET g == IncrementPc(h) IN
         /\ g.priv = h.priv /\ g.status = h.status /\ g.mepc = h.mepc
         /\ g.mie = h.mie /\ g.mideleg = h.mideleg /\ g.medeleg = h.medeleg
         /\ g.seip_internal = h.seip_internal
  BY DEF IncrementPc, Harts

(* The history variables do not touch the registers. *)
LEMMA ForgetFields ==
  ASSUME NEW h, NEW w \in Harts
  PROVE  LET g == Forget(h, w) IN
         /\ g \in Harts
         /\ g.priv = w.priv /\ g.status = w.status /\ g.mepc = w.mepc
         /\ g.mie = w.mie /\ g.mideleg = w.mideleg /\ g.medeleg = w.medeleg
         /\ g.seip_internal = w.seip_internal
<1>1. Dead \in Frames
  BY HartAssumption, LevelFacts DEF Dead, Frames, Pc
<1>2. QED
  BY <1>1 DEF Forget, Harts

(* Below machine mode only sstatus, sie and sip can be written. *)
LEMMA WriteGuarded ==
  ASSUME NEW h, Good(h), h.priv # Machine,
         NEW csr \in Csrs, MayAccess(h.priv, csr), NEW value, NEW mask
  PROVE  LET g == IncrementPc(Forget(h, WriteCsr(h, csr, value, mask))) IN
         g.priv # Machine /\ Guarded(h, g)
<1> DEFINE w == WriteCsr(h, csr, value, mask)
           g == IncrementPc(Forget(h, w))
<1>0. h \in Harts /\ h.status \in SUBSET StatusBits /\ Mpp(h.status) \in Levels
  BY DEF Good, Harts
<1>1. csr \in {"sstatus", "sie", "sip"}
  BY <1>0, LevelFacts DEF MayAccess, RequiredLevel, Harts
<1>2. /\ g.priv = w.priv /\ g.status = w.status /\ g.mepc = w.mepc
      /\ g.mie = w.mie /\ g.mideleg = w.mideleg /\ g.medeleg = w.medeleg
      /\ g.seip_internal = w.seip_internal
  BY WriteCsrFields, ForgetFields, IncrementFields
<1>3. \A b \in {"TVM", "TW", "TSR", "MIE", "MPIE"} \cup MppBits :
        b \in w.status <=> b \in h.status
  <2>1. {"TVM", "TW", "TSR", "MIE", "MPIE"} \cup MppBits \subseteq StatusBits \ SStatusBits
    BY DEF StatusBits, SStatusBits, MppBits
  <2>2. \A b \in StatusBits \ SStatusBits :
          b \in WriteSstatus(h.status, value, mask) <=> b \in h.status
    BY <1>0, WriteStatusFacts DEF WriteSstatus
  <2>3. w.status \in {h.status, WriteSstatus(h.status, value, mask)}
    BY <1>1, WriteCsrFields
  <2>4. QED
    BY <2>1, <2>2, <2>3
<1>4. /\ w.priv = h.priv /\ w.mepc = h.mepc /\ w.mideleg = h.mideleg
      /\ w.medeleg = h.medeleg /\ w.seip_internal = h.seip_internal
      /\ w.mie \ h.mideleg = h.mie \ h.mideleg
  BY <1>1, WriteCsrFields
<1>5. QED
  BY <1>2, <1>3, <1>4, GuardedSame

(* sret cannot reach machine mode. *)
LEMMA SretGuarded ==
  ASSUME NEW h, Good(h), h.priv # Machine, h.priv >= Supervisor, "TSR" \notin h.status
  PROVE  Sret(h).hart.priv # Machine /\ Guarded(h, Sret(h).hart)
<1> DEFINE st == (SetBit(h.status, "SIE", "SPIE" \in h.status) \cup {"SPIE"}) \ {"SPP", "MPRV"}
           p == Spp(h.status)
           w == [h EXCEPT !.status = st, !.priv = p, !.pc = h.sepc, !.sframe = Dead]
<1>0. h \in Harts /\ ~(h.priv < Supervisor)
  BY LevelFacts DEF Good, Harts
<1>1. p # Machine
  BY LevelFacts DEF Spp
<1>2. \A b \in {"TVM", "TW", "TSR", "MIE", "MPIE"} \cup MppBits : b \in st <=> b \in h.status
  BY DEF SetBit, MppBits
<1>3. Sret(h).hart = w
  BY <1>0, Results DEF Sret
<1> HIDE DEF st, p
<1>4. /\ w.status = st /\ w.priv = p /\ w.mie = h.mie /\ w.mideleg = h.mideleg
      /\ w.medeleg = h.medeleg /\ w.seip_internal = h.seip_internal /\ w.mepc = h.mepc
  BY <1>0 DEF Harts
<1> HIDE DEF w
<1>5. QED
  BY <1>1, <1>2, <1>3, <1>4, GuardedSame

(* Below machine mode only sepc can be written. *)
LEMMA SetEpcGuarded ==
  ASSUME NEW h, Good(h), h.priv # Machine, NEW l \in Handlers, ~(h.priv < l), NEW to \in Pc
  PROVE  LET g == IncrementPc(SetEpc(h, l, to)) IN g.priv # Machine /\ Guarded(h, g)
<1> DEFINE w == [h EXCEPT !.sepc = to]
           g == IncrementPc(SetEpc(h, l, to))
<1>0. h \in Harts /\ w \in Harts
  BY DEF Good, Harts
<1>1. l # Machine
  BY <1>0, LevelFacts DEF Harts
<1>2. g = IncrementPc(Forget(h, w))
  BY <1>1 DEF SetEpc
<1>3. /\ w.priv = h.priv /\ w.status = h.status /\ w.mepc = h.mepc
      /\ w.mie = h.mie /\ w.mideleg = h.mideleg /\ w.medeleg = h.medeleg
      /\ w.seip_internal = h.seip_internal
  BY <1>0 DEF Harts
<1> HIDE DEF w
<1>4. /\ g.priv = h.priv /\ g.status = h.status /\ g.mepc = h.mepc
      /\ g.mie = h.mie /\ g.mideleg = h.mideleg /\ g.medeleg = h.medeleg
      /\ g.seip_internal = h.seip_internal
  BY <1>0, <1>2, <1>3, ForgetFields, IncrementFields
<1> HIDE DEF g
<1>5. g.priv # Machine /\ Guarded(h, g)
  BY <1>4, GuardedSame
<1>6. QED
  BY <1>5 DEF g

(* Below machine mode an instruction stays below it; only a trap leaves. *)
LEMMA ExecuteGuarded ==
  ASSUME NEW h, Good(h), h.priv # Machine, NEW i \in Instructions
  PROVE  LET g == Execute(h, i).hart IN g.priv # Machine /\ Guarded(h, g)
<1> DEFINE r == Execute(h, i)
<1>0. h \in Harts /\ h.priv < Machine
  BY LevelFacts DEF Good, Harts
<1>1. Guarded(h, h)
  BY <1>0, GuardedSame
<1>2. CASE r.hart = h
  BY <1>1, <1>2
<1>3. ASSUME NEW g, r.hart = g, g.priv = h.priv, g.status = h.status, g.mepc = h.mepc,
             g.mie = h.mie, g.mideleg = h.mideleg, g.medeleg = h.medeleg,
             g.seip_internal = h.seip_internal
      PROVE  r.hart.priv # Machine /\ Guarded(h, r.hart)
  BY <1>3, GuardedSame
<1>4. CASE i \in [kind : {"plain"}, to : Pc]
  <2>1. i.to \in Pc /\ r.hart = [h EXCEPT !.pc = i.to]
    BY <1>4, Results DEF Execute
  <2>2. QED
    BY <1>0, <1>3, <2>1 DEF Harts
<1>5. CASE i \in [kind : {"fault", "ecall", "mret", "sret", "wfi", "sfence"}]
  <2>1. CASE i.kind \in {"fault", "ecall"}
    BY <1>2, <2>1, Results DEF Execute
  <2>2. CASE i.kind = "mret"
    BY <1>0, <1>2, <2>2, Results DEF Execute, Mret
  <2>3. CASE i.kind = "sret"
    <3>1. r = Sret(h)
      BY <2>3 DEF Execute
    <3>2. CASE h.priv < Supervisor \/ "TSR" \in h.status
      BY <1>2, <3>1, <3>2, Results DEF Sret
    <3>3. CASE ~(h.priv < Supervisor \/ "TSR" \in h.status)
      BY <1>0, <3>1, <3>3, SretGuarded, LevelFacts DEF Harts
    <3>4. QED
      BY <3>2, <3>3
  <2>4. CASE i.kind \in {"wfi", "sfence"}
    <3>1. r.hart = h \/ r.hart = IncrementPc(h)
      BY <2>4, Results DEF Execute
    <3>2. QED
      BY <1>0, <1>2, <1>3, <3>1, IncrementFields
  <2>5. i.kind \in {"fault", "ecall", "mret", "sret", "wfi", "sfence"}
    BY <1>5
  <2>6. QED
    BY <2>1, <2>2, <2>3, <2>4, <2>5
<1>6. CASE i \in [kind : {"device"}, line : Lines, up : BOOLEAN]
  <2>1. i.line \in Interrupt /\ i.up \in BOOLEAN
    BY <1>6, HartAssumption
  <2>2. r.hart = IncrementPc(Signal(h, i.line, i.up))
    BY <1>6, Results DEF Execute
  <2>3. QED
    BY <1>0, <1>3, <2>1, <2>2, SignalFields, IncrementFields
<1>7. CASE i \in CsrInstructions
  <2>1. i.kind = "csr" /\ i.csr \in Csrs
    BY <1>7 DEF CsrInstructions
  <2>2. r = CsrOp(h, i)
    BY <2>1 DEF Execute
  <2>3. CASE MayAccess(h.priv, i.csr)
    <3>1. r.hart = IncrementPc(Forget(h,
                     WriteCsr(h, i.csr, Value(i.op, i.src), Mask(i.op, i.src))))
      BY <2>2, <2>3, Results DEF CsrOp
    <3>2. QED
      BY <2>1, <2>3, <3>1, WriteGuarded
  <2>4. CASE ~MayAccess(h.priv, i.csr)
    BY <1>2, <2>2, <2>4, Results DEF CsrOp
  <2>5. QED
    BY <2>3, <2>4
<1>8. CASE i \in [kind : {"epc"}, level : Handlers, to : Pc]
  <2>1. i.level \in Handlers /\ i.to \in Pc
    BY <1>8
  <2>2. CASE h.priv < i.level
    BY <1>2, <1>8, <2>2, Results DEF Execute
  <2>3. CASE ~(h.priv < i.level)
    <3>1. r.hart = IncrementPc(SetEpc(h, i.level, i.to))
      BY <1>8, <2>3, Results DEF Execute
    <3>2. QED
      BY <2>1, <2>3, <3>1, SetEpcGuarded
  <2>4. QED
    BY <2>2, <2>3
<1>9. \/ i \in [kind : {"plain"}, to : Pc]
      \/ i \in [kind : {"fault", "ecall", "mret", "sret", "wfi", "sfence"}]
      \/ i \in [kind : {"device"}, line : Lines, up : BOOLEAN]
      \/ i \in CsrInstructions
      \/ i \in [kind : {"epc"}, level : Handlers, to : Pc]
  BY DEF Instructions
<1>10. QED
  BY Zenon, <1>4, <1>5, <1>6, <1>7, <1>8, <1>9

(* Guarded composes, through a hart below machine mode. *)
LEMMA GuardedTransitive ==
  ASSUME NEW h, NEW g, NEW k, g.priv # Machine, Guarded(h, g), Guarded(g, k)
  PROVE  Guarded(h, k)
  BY DEF Guarded

(* An instruction below machine mode, and the trap it may end in. *)
LEMMA RetireGuarded ==
  ASSUME NEW h, Good(h), h.priv # Machine, NEW i \in Instructions
  PROVE  Guarded(h, Retire(h, i))
<1> DEFINE r == Execute(h, i)
<1>1. r.hart.priv # Machine /\ Guarded(h, r.hart)
  BY ExecuteGuarded
<1>2. r.hart \in Harts
  <2>1. Good(r.hart) \/ r.hart = h
    BY ExecuteGood
  <2>2. QED
    BY <2>1 DEF Good
<1>3. Guarded(r.hart, Trap(r.hart, r.exception))
  BY <1>1, <1>2, TrapGuarded
<1> HIDE DEF r
<1>4. Guarded(h, Trap(r.hart, r.exception))
  BY <1>1, <1>3, GuardedTransitive
<1>5. QED
  BY <1>1, <1>4 DEF Retire, r

(* In machine mode with MIE off nothing is ready, so a trap into machine   *)
(* mode is not followed by a second one in the same step.                  *)
LEMMA CheckGuarded ==
  ASSUME NEW h, NEW g \in Harts, Guarded(h, g)
  PROVE  Guarded(h, CheckForInterrupts(g))
<1>1. CASE g.priv = Machine
  BY <1>1 DEF Guarded, CheckForInterrupts, Ready
<1>2. CASE g.priv # Machine
  <2>1. Guarded(g, Trap(g, Highest(Ready(g))))
    BY <1>2, TrapGuarded
  <2>2. Guarded(h, Trap(g, Highest(Ready(g))))
    BY <1>2, <2>1, GuardedTransitive
  <2>3. QED
    BY <2>2 DEF CheckForInterrupts
<1>3. QED
  BY <1>1, <1>2

(* Code below machine mode cannot change what belongs to machine mode, and *)
(* enters it only at its vector: check_csr_access, the masks of the        *)
(* supervisor's views in interrupts.rs and status.rs, and trap.            *)
THEOREM MachineStateCorrect == Spec => MachineStateGuarded
<1> DEFINE A == hart.priv # Machine /\ mover' = "hart" => Guarded(hart, hart')
<1>1. ASSUME IInv, Next, hart.priv # Machine, mover' = "hart" PROVE Guarded(hart, hart')
  <2>0. Good(hart) /\ hart \in Harts
    BY <1>1 DEF IInv, Good
  <2>1. PICK i \in Instructions : Step(i)
    BY <1>1 DEF Next, Irq, DebugWriteCsr, DebugWriteEpc, DebugWritePc, Reset, Outside
  <2>2. CASE Ready(hart) # {}
    <3>1. Guarded(hart, hart)
      BY <1>1, GuardedSame
    <3>2. QED
      BY <2>0, <2>1, <2>2, <3>1, CheckGuarded DEF Step
  <2>3. CASE Ready(hart) = {}
    <3>1. Retire(hart, i) \in Harts
      BY <2>0, RetireGood DEF Good
    <3>2. Guarded(hart, Retire(hart, i))
      BY <1>1, <2>0, RetireGuarded
    <3>3. QED
      BY <2>1, <2>3, <3>1, <3>2, CheckGuarded DEF Step
  <2>4. QED
    BY <2>2, <2>3
<1>2. IInv /\ [Next]_vars => [A]_vars
  BY <1>1
<1>3. QED
  BY <1>2, Invariant, PTL DEF Spec, MachineStateGuarded
=============================================================================
