------------------------------- MODULE Executor -------------------------------
(***************************************************************************)
(* What the instructions do (red-planet-core/src/core/execute.rs) to the   *)
(* registers, memory and CSRs of a hart in machine mode, and the exception *)
(* that follows when one fails.                                            *)
(*                                                                         *)
(* The program is free: whatever can be fetched is any instruction.  The   *)
(* address space has a page that translation refuses ("paged"); which      *)
(* pages those are is the subject of Mmu, and what a trap and a return do   *)
(* besides moving pc that of Hart.                                         *)
(***************************************************************************)
EXTENDS Words

CONSTANTS
  Region,     \* what is at an address: "rom", "ram", "paged" or "vacant"
  Image,      \* memory as loaded
  Vector,     \* mtvec's base address
  Registers,  \* the x registers
  Operands,   \* the register operands of instructions
  Imms        \* the immediates of instructions

Operand == [rd : Registers, rs1 : Registers, rs2 : Registers]

ASSUME ExecutorAssumption ==
  /\ Region \in [Word -> {"rom", "ram", "paged", "vacant"}]
  /\ Image \in [Word -> Byte]
  /\ Vector \in Word /\ Vector % 4 = 0
  /\ Registers \subseteq Nat /\ {0, 1} \subseteq Registers
  /\ Operands \subseteq Operand
  /\ Imms \subseteq -(Size \div 2) .. (Size \div 2) - 1

VARIABLE h
(***************************************************************************)
(* x, pc      the registers                                                *)
(* mem        memory                                                       *)
(* big        mstatush.MBE: machine mode accesses memory big-endian        *)
(***************************************************************************)

Harts ==
  [x : [Registers -> Word], pc : Word, mem : [Word -> Byte], big : BOOLEAN]

-----------------------------------------------------------------------------
(* Registers and memory *)

(* set_x *)
SetX(s, d, v) == IF d = 0 THEN s ELSE [s EXCEPT !.x[d] = v]

(* The outcomes of an instruction.  One that fails leaves what it did to *)
(* the hart before.                                                      *)
Ok(s)         == [to |-> s, fault |-> "none"]
Fail(s, kind) == [to |-> s, fault |-> kind]

(* increment_pc, and the return of Ok *)
Done(s) == Ok([s EXCEPT !.pc = Wrap(@ + 4)])

WordAligned(a) == a % 4 = 0

(* access_virtual: the first byte decides about translation, then the bus  *)
(* has to accept the whole access.                                         *)
Refused(a, n, type) ==
  IF Region[a] = "paged" THEN "page"
  ELSE IF (\A c \in a .. a + n - 1 : c \in Word /\ Region[c] = Region[a])
          /\ (Region[a] = "ram" \/ (Region[a] = "rom" /\ type = "read"))
       THEN "none" ELSE "access"

(* The weight of the byte at c in a value of n bytes at a (to_le_bytes, to_be_bytes) *)
Weight(s, a, n, c) == Span(IF s.big THEN a + n - 1 - c ELSE c - a)

Get(s, a, n) == Total([i \in 0 .. n - 1 |-> s.mem[a + i] * Weight(s, a, n, a + i)], n)

(* Mutant of Put: the bytes are stored in one order whatever MBE says. *)
PutLittle(s, a, n, v) ==
  [s EXCEPT !.mem = [c \in Word |->
     IF c \in a .. a + n - 1 THEN (v \div Span(c - a)) % ByteSize ELSE @[c]]]

Put(s, a, n, v) ==
  [s EXCEPT !.mem = [c \in Word |->
     IF c \in a .. a + n - 1 THEN (v \div Weight(s, a, n, c)) % ByteSize ELSE @[c]]]

-----------------------------------------------------------------------------
(* Instructions *)

ImmOps ==
  [addi |-> "add", slti |-> "slt", sltiu |-> "sltu", andi |-> "and", ori |-> "or", xori |-> "xor"]

ShiftOps == [slli |-> "sll", srli |-> "srl", srai |-> "sra"]

(* The sizes of loads, and whether they extend the sign *)
LoadOps ==
  [lb |-> <<1, TRUE>>, lbu |-> <<1, FALSE>>, lh |-> <<2, TRUE>>, lhu |-> <<2, FALSE>>,
   lw |-> <<4, FALSE>>]

StoreOps == [sb |-> 1, sh |-> 2, sw |-> 4]

(* CsrOp, and the CSRs: mstatush, "fixed", which can be read only, and     *)
(* "missing", which does not exist.                                        *)
CsrRegOps == [csrrw |-> "write", csrrs |-> "set", csrrc |-> "clear"]
CsrImmOps == [csrrwi |-> "write", csrrsi |-> "set", csrrci |-> "clear"]
Csrs      == {"mstatush", "fixed", "missing"}

Instructions ==
  [op : RegOps \cup AmoOps \cup {"lr", "sc"}, at : Operands]
    \cup [op : DOMAIN ImmOps \cup DOMAIN LoadOps \cup DOMAIN StoreOps \cup BranchOps \cup {"jalr"},
          at : Operands, imm : Imms]
    \cup [op : DOMAIN ShiftOps, at : Operands, imm : Imms \cap (0 .. Xlen - 1)]
    \cup [op : {"lui", "auipc", "jal"}, at : Operands, imm : Imms]
    \cup [op : DOMAIN CsrRegOps, at : Operands, csr : Csrs]
    \cup [op : DOMAIN CsrImmOps, at : Operands, csr : Csrs, imm : Imms \cap Word]
    \cup [op : {"fence", "ecall", "ebreak", "illegal"}]

(* reg_reg_op, reg_imm_op and reg_shamt_op *)
RegReg(s, op, at)      == Done(SetX(s, at.rd, Alu(op, s.x[at.rs1], s.x[at.rs2])))
RegImm(s, op, at, imm) == Done(SetX(s, at.rd, Alu(op, s.x[at.rs1], Wrap(imm))))

(* & !0xFFF: the lower three eighths of a word *)
Upper(imm) == LET low == Pow2[(3 * Xlen) \div 8] IN imm - (imm % low)

Lui(s, at, imm)   == Done(SetX(s, at.rd, Wrap(Upper(imm))))
Auipc(s, at, imm) == Done(SetX(s, at.rd, Wrap(s.pc + Upper(imm))))

(* Mutant of Jump: the link is written before the target is checked. *)
JumpLinksFirst(s, d, target) ==
  LET linked == SetX(s, d, Wrap(s.pc + 4))
  IN IF WordAligned(target) THEN Ok([linked EXCEPT !.pc = target])
     ELSE Fail(linked, "target_misaligned")

(* jump_op *)
Jump(s, d, target) ==
  IF WordAligned(target) THEN Ok(SetX([s EXCEPT !.pc = target], d, Wrap(s.pc + 4)))
  ELSE Fail(s, "target_misaligned")

Jal(s, at, imm)  == Jump(s, at.rd, Wrap(s.pc + imm))
Jalr(s, at, imm) ==
  LET target == Wrap(s.x[at.rs1] + imm) IN Jump(s, at.rd, target - (target % 2))

(* Mutant of Branch: a target that is not aligned is jumped to. *)
BranchAnywhere(s, op, at, imm) ==
  IF Taken(op, s.x[at.rs1], s.x[at.rs2]) THEN Ok([s EXCEPT !.pc = Wrap(@ + imm)]) ELSE Done(s)

(* cond_branch *)
Branch(s, op, at, imm) ==
  LET target == Wrap(s.pc + imm)
  IN IF ~Taken(op, s.x[at.rs1], s.x[at.rs2]) THEN Done(s)
     ELSE IF WordAligned(target) THEN Ok([s EXCEPT !.pc = target])
     ELSE Fail(s, "target_misaligned")

(* load_op *)
LoadFrom(s, d, a, n, signed) ==
  LET refused == Refused(a, n, "read")
      v == Get(s, a, n)
  IN IF refused # "none" THEN Fail(s, refused)
     ELSE Done(SetX(s, d, IF signed THEN Extend(v, n) ELSE v))

Load(s, op, at, imm) ==
  LoadFrom(s, at.rd, Wrap(s.x[at.rs1] + imm), LoadOps[op][1], LoadOps[op][2])

(* store_op *)
StoreTo(s, a, n, v) ==
  LET refused == Refused(a, n, "write")
  IN IF refused # "none" THEN Fail(s, refused) ELSE Done(Put(s, a, n, v))

Store(s, op, at, imm) == StoreTo(s, Wrap(s.x[at.rs1] + imm), StoreOps[op], s.x[at.rs2])

(* lr, and sc, which always succeeds and sets its destination before it stores *)
LoadReserved(s, at) ==
  IF WordAligned(s.x[at.rs1]) THEN LoadFrom(s, at.rd, s.x[at.rs1], 4, FALSE)
  ELSE Fail(s, "misaligned")

StoreConditional(s, at) ==
  IF WordAligned(s.x[at.rs1])
  THEN StoreTo(SetX(s, at.rd, 0), s.x[at.rs1], 4, s.x[at.rs2])
  ELSE Fail(s, "misaligned")

(* amo_op *)
Amo(s, op, at) ==
  LET a   == s.x[at.rs1]
      old == Get(s, a, 4)
      stored == StoreTo(s, a, 4, AmoAlu(op, old, s.x[at.rs2]))
  IN IF ~WordAligned(a) THEN Fail(s, "misaligned")
     ELSE IF Refused(a, 4, "read") # "none" THEN Fail(s, Refused(a, 4, "read"))
     ELSE IF stored.fault # "none" THEN stored
     ELSE Ok(SetX(stored.to, at.rd, old))

(* MBE is the lowest bit here. *)
CsrValue(s, csr) == IF csr = "mstatush" THEN Flag(s.big) ELSE 0

(* write_mstatush: bits of the new value, and of the mask *)
WriteStatus(s, new, mask) == [s EXCEPT !.big = IF 0 \in mask THEN 0 \in new ELSE @]

(* csr_op: `source` is the set of the values to write, which is empty for  *)
(* an instruction that only reads.                                         *)
CsrAccess(s, op, d, csr, source) ==
  LET read == op # "write" \/ d # 0
      kept == IF read THEN SetX(s, d, CsrValue(s, csr)) ELSE s
  IN IF read /\ csr = "missing" THEN Fail(s, "illegal")
     ELSE IF source = {} THEN Done(kept)
     ELSE IF csr \in {"fixed", "missing"} THEN Fail(kept, "illegal")
     ELSE LET given == Bits[CHOOSE v \in source : TRUE]
              all == 0 .. Xlen - 1
          IN Done(CASE op = "write" -> WriteStatus(kept, given, all)
                    [] op = "set"   -> WriteStatus(kept, all, given)
                    [] op = "clear" -> WriteStatus(kept, {}, given))

(* csr_reg_op and csr_imm_op *)
CsrReg(s, op, at, csr) ==
  CsrAccess(s, op, at.rd, csr, IF op = "write" \/ at.rs1 # 0 THEN {s.x[at.rs1]} ELSE {})

CsrImm(s, op, at, csr, imm) ==
  CsrAccess(s, op, at.rd, csr, IF op = "write" \/ imm # 0 THEN {imm} ELSE {})

Execute(s, i) ==
  CASE i.op \in RegOps           -> RegReg(s, i.op, i.at)
    [] i.op \in DOMAIN ImmOps    -> RegImm(s, ImmOps[i.op], i.at, i.imm)
    [] i.op \in DOMAIN ShiftOps  -> RegImm(s, ShiftOps[i.op], i.at, i.imm)
    [] i.op = "lui"              -> Lui(s, i.at, i.imm)
    [] i.op = "auipc"            -> Auipc(s, i.at, i.imm)
    [] i.op = "jal"              -> Jal(s, i.at, i.imm)
    [] i.op = "jalr"             -> Jalr(s, i.at, i.imm)
    [] i.op \in BranchOps        -> Branch(s, i.op, i.at, i.imm)
    [] i.op \in DOMAIN LoadOps   -> Load(s, i.op, i.at, i.imm)
    [] i.op \in DOMAIN StoreOps  -> Store(s, i.op, i.at, i.imm)
    [] i.op = "lr"               -> LoadReserved(s, i.at)
    [] i.op = "sc"               -> StoreConditional(s, i.at)
    [] i.op \in AmoOps           -> Amo(s, i.op, i.at)
    [] i.op \in DOMAIN CsrRegOps -> CsrReg(s, CsrRegOps[i.op], i.at, i.csr)
    [] i.op \in DOMAIN CsrImmOps -> CsrImm(s, CsrImmOps[i.op], i.at, i.csr, i.imm)
    [] i.op = "fence"            -> Done(s)
    [] i.op \in {"ecall", "ebreak", "illegal"} -> Fail(s, i.op)

-----------------------------------------------------------------------------
(* Actions *)

Init == h = [x |-> [r \in Registers |-> 0], pc |-> Vector, mem |-> Image, big |-> FALSE]

(* trap *)
Trap(s) == [s EXCEPT !.pc = Vector]

Fetchable == Refused(h.pc, 4, "read") = "none"

(* step_with *)
Step(i) ==
  LET r == Execute(h, i)
  IN Fetchable /\ h' = IF r.fault = "none" THEN r.to ELSE Trap(r.to)

FetchFault == ~Fetchable /\ h' = Trap(h)

Next == FetchFault \/ \E i \in Instructions : Step(i)

Spec == Init /\ [][Next]_h

-----------------------------------------------------------------------------
(* Properties *)

(* x0 stays 0, and no instruction gets pc off the word alignment that      *)
(* fetching needs (set_x; jump_op and cond_branch).                        *)
TypeOK == h \in Harts /\ h.x[0] = 0 /\ WordAligned(h.pc)

Bit(a, k) == (a \div Pow2[k]) % 2

(* Adding half the range turns the order of signed numbers into that of words. *)
Biased(a) == Wrap(a + Size \div 2)

(* m without the multiples of n that precede it: what a division leaves *)
Remains(rest, m, n) == Abs(rest) < Abs(n) /\ (rest = 0 \/ (rest < 0 <=> m < 0))

Overflows(a, b) == a = Size \div 2 /\ b = Size - 1

(* r is what the manual's words make of a and b: the operation is          *)
(* characterised by an equation or by its bits.                            *)
Right(op, a, b, r) ==
  LET k == b % Xlen
      sa == Signed(a)  sb == Signed(b)  sr == Signed(r)
      bitwise(f(_, _)) == \A j \in 0 .. Xlen - 1 : Bit(r, j) = f(Bit(a, j), Bit(b, j))
      bits(f(_)) == \A j \in 0 .. Xlen - 1 : Bit(r, j) = f(j)
  IN CASE op = "add"    -> (a + b - r) % Size = 0
       [] op = "sub"    -> (a - b - r) % Size = 0
       [] op = "slt"    -> r = Flag(Biased(a) < Biased(b))
       [] op = "sltu"   -> r = Flag(\E d \in 1 .. Size - 1 : a + d = b)
       [] op = "and"    -> bitwise(LAMBDA p, q : p * q)
       [] op = "or"     -> bitwise(LAMBDA p, q : p + q - p * q)
       [] op = "xor"    -> bitwise(LAMBDA p, q : (p + q) % 2)
       [] op = "sll"    -> bits(LAMBDA j : IF j < k THEN 0 ELSE Bit(a, j - k))
       [] op = "srl"    -> bits(LAMBDA j : IF j + k < Xlen THEN Bit(a, j + k) ELSE 0)
       [] op = "sra"    -> bits(LAMBDA j : Bit(a, IF j + k < Xlen THEN j + k ELSE Xlen - 1))
       [] op = "mul"    -> (a * b - r) % Size = 0
       [] op = "mulh"   -> sa * sb - sr * Size \in Word
       [] op = "mulhsu" -> sa * b - sr * Size \in Word
       [] op = "mulhu"  -> a * b - r * Size \in Word
       [] op = "div"    -> IF b = 0 THEN r = Size - 1
                           ELSE IF Overflows(a, b) THEN r = a ELSE Remains(sa - sb * sr, sa, sb)
       [] op = "divu"   -> IF b = 0 THEN r = Size - 1 ELSE Remains(a - b * r, a, b)
       [] op = "rem"    -> IF b = 0 THEN r = a
                           ELSE Remains(sr, sa, sb) /\ (\E q \in -Size .. Size : sa = sb * q + sr)
       [] op = "remu"   -> IF b = 0 THEN r = a
                           ELSE Remains(r, a, b) /\ (\E q \in Word : a = b * q + r)

(* r lies an upper immediate from base: it differs by a multiple of the    *)
(* unit that lui and auipc count in, which is imm without the rest.        *)
UpperRight(r, base, imm) ==
  LET unit == Pow2[(3 * Xlen) \div 8]
      d == Wrap(r - base)
  IN d % unit = 0 /\ Wrap(imm - d) < unit

(* What an operation, an immediate operation or a shift does: rd gets the  *)
(* right value and pc the next word; nothing else changes.                 *)
ResultsRight(at) ==
  LET a == h.x[at.rs1]  b == h.x[at.rs2]
      run(op, imm) == Execute(h, [op |-> op, at |-> at, imm |-> imm])
      writes(r) == r.to = [SetX(h, at.rd, r.to.x[at.rd]) EXCEPT !.pc = Wrap(@ + 4)]
      right(r, op, with) == writes(r) /\ (at.rd # 0 => Right(op, a, with, r.to.x[at.rd]))
      upper(r, base, imm) == writes(r) /\ (at.rd # 0 => UpperRight(r.to.x[at.rd], base, imm))
  IN /\ \A op \in RegOps : right(Execute(h, [op |-> op, at |-> at]), op, b)
     /\ \A imm \in Imms :
          /\ \A op \in DOMAIN ImmOps : right(run(op, imm), ImmOps[op], Wrap(imm))
          /\ imm \in 0 .. Xlen - 1 => \A op \in DOMAIN ShiftOps : right(run(op, imm), ShiftOps[op], imm)
          /\ upper(run("lui", imm), 0, imm) /\ upper(run("auipc", imm), h.pc, imm)

(* What a jump or a branch to an address does: r leaves s, with pc at the  *)
(* word that the address wraps to, or nothing but an exception.            *)
Leads(r, s, to) ==
  IF to % 4 = 0 THEN r = Ok([s EXCEPT !.pc = r.to.pc]) /\ (r.to.pc - to) % Size = 0
  ELSE r = Fail(h, "target_misaligned")

(* Jumps link the next word and branches go by what slt and sltu say.      *)
TransfersRight(at, imm) ==
  LET a == h.x[at.rs1]  b == h.x[at.rs2]
      run(op) == Execute(h, [op |-> op, at |-> at, imm |-> imm])
      linked == SetX(h, at.rd, Wrap(h.pc + 4))
      less(op) == Execute(h, [op |-> op, at |-> [at EXCEPT !.rd = 1]]).to.x[1] = 1
      branches(op, taken) ==
        IF taken THEN Leads(run(op), h, h.pc + imm) ELSE run(op) = Done(h)
  IN /\ Leads(run("jal"), linked, h.pc + imm)
     /\ \E to \in {a + imm, (a + imm) - 1} : to % 2 = 0 /\ Leads(run("jalr"), linked, to)
     /\ branches("beq", a = b) /\ branches("bne", a # b)
     /\ branches("blt", less("slt")) /\ branches("bge", ~less("slt"))
     /\ branches("bltu", less("sltu")) /\ branches("bgeu", ~less("sltu"))

(* The instructions that compute and those that transfer control do what   *)
(* the manual says of them, for all the edges of their operands: wrapping, *)
(* division by zero and its overflow, the three mixtures of signs of the   *)
(* upper product, amounts of shifts beyond a word, offsets that go back or *)
(* past the ends of the address space, targets that are not aligned, and a *)
(* jump whose link goes to its base (reg_reg_op, reg_imm_op and their      *)
(* closures, lui, auipc; jump_op, cond_branch).                            *)
ArithmeticRight ==
  \A at \in Operands : ResultsRight(at) /\ \A imm \in Imms : TransfersRight(at, imm)

(* The value that a load of n bytes makes of a register that was stored *)
Narrowed(v, n, signed, r) ==
  LET range == Span(n)
  IN IF signed THEN Signed(r) \in -(range \div 2) .. (range \div 2) - 1 /\ (Signed(r) - v) % range = 0
     ELSE r = v % range

(* Loads give back what stores of the same size stored, cut to it and      *)
(* extended as the load says, whatever the endianness, and a store changes *)
(* no byte around it (load_op, store_op, access_fns!); the atomic          *)
(* instructions return the old word and leave behind what the manual says, *)
(* also when rd is one of their sources (amo_op).  lr and sc are not in    *)
(* it.                                                                     *)
MemoryRight ==
  \A at \in Operands :
    LET b == h.x[at.rs2]
        Kept(s, a, n) == \A c \in Word \ (a .. a + n - 1) : s.mem[c] = h.mem[c]
    IN /\ \A op \in DOMAIN StoreOps, imm \in Imms :
            LET a == Wrap(h.x[at.rs1] + imm)
                n == StoreOps[op]
                s == Execute(h, [op |-> op, at |-> at, imm |-> imm])
            IN s.fault = "none" =>
                 /\ Kept(s.to, a, n)
                 /\ s.to.mem[IF h.big THEN a + n - 1 ELSE a] = b % ByteSize
                 /\ \A load \in {l \in DOMAIN LoadOps : LoadOps[l][1] = n} :
                      LET l == Execute(s.to, [op |-> load, at |-> at, imm |-> imm])
                      IN /\ l.fault = "none"
                         /\ at.rd # 0 => Narrowed(b, n, LoadOps[load][2], l.to.x[at.rd])
       /\ \A op \in AmoOps :
            LET a   == h.x[at.rs1]
                s   == Execute(h, [op |-> op, at |-> at])
                old == Get(h, a, 4)
                new == Get(s.to, a, 4)
            IN s.fault = "none" =>
                 /\ WordAligned(a) /\ Kept(s.to, a, 4)
                 /\ at.rd # 0 => s.to.x[at.rd] = old
                 /\ CASE op = "amoswap" -> new = b
                      [] op = "amoadd" -> Right("add", old, b, new)
                      [] op = "amoand" -> Right("and", old, b, new)
                      [] op = "amoor"  -> Right("or", old, b, new)
                      [] op = "amoxor" -> Right("xor", old, b, new)
                      [] op = "amomax" -> new \in {old, b} /\ Biased(new) >= Biased(old) /\ Biased(new) >= Biased(b)
                      [] op = "amomin" -> new \in {old, b} /\ Biased(new) <= Biased(old) /\ Biased(new) <= Biased(b)
                      [] op = "amomaxu" -> new \in {old, b} /\ new >= old /\ new >= b
                      [] op = "amominu" -> new \in {old, b} /\ new <= old /\ new <= b

(* An exception leaves the registers, memory and pc as they were before    *)
(* the instruction, so that the handler can run it again; but the sc whose *)
(* store faults and the write of a read-only CSR have set rd by then       *)
(* (jump_op, load_op, store_op, amo_op, csr_op).                           *)
Precise ==
  \A i \in Instructions :
    LET r == Execute(h, i)
    IN r.fault # "none" =>
         \/ r.to = h
         \/ (i.op = "sc" \/ i.op \in DOMAIN CsrRegOps \cup DOMAIN CsrImmOps)
            /\ r.to = SetX(h, i.at.rd, 0)
=============================================================================
