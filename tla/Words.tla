-------------------------------- MODULE Words --------------------------------
(***************************************************************************)
(* Machine words, and what the arithmetic instructions compute with them   *)
(* (red-planet-core/src/core/execute.rs).  A word has four bytes; the      *)
(* program's have eight bits each.                                         *)
(***************************************************************************)
EXTENDS Integers

CONSTANT ByteBits   \* the number of bits of a byte

ASSUME ByteBitsAssumption == ByteBits \in Nat \ {0}

Pow2[n \in Nat] == IF n = 0 THEN 1 ELSE 2 * Pow2[n - 1]

(* The number of values of n bytes *)
Span(n) == Pow2[n * ByteBits]

Xlen     == 4 * ByteBits
Size     == Span(4)
ByteSize == Span(1)
Word     == 0 .. Size - 1
Byte     == 0 .. ByteSize - 1

(* as u32, and as i32 *)
Wrap(n)   == n % Size
Signed(a) == IF a < Size \div 2 THEN a ELSE a - Size

(* A value of n bytes, as the signed number of that length *)
Extend(v, n) == IF v < Span(n) \div 2 THEN v ELSE Wrap(v - Span(n))

(* f[0] + ... + f[n - 1] *)
Total(f, n) ==
  LET sum[k \in 0 .. n] == IF k = 0 THEN 0 ELSE sum[k - 1] + f[k - 1] IN sum[n]

Bits == [a \in Word |-> {k \in 0 .. Xlen - 1 : (a \div Pow2[k]) % 2 = 1}]

OfBits ==
  [S \in SUBSET (0 .. Xlen - 1) |->
     Total([k \in 0 .. Xlen - 1 |-> IF k \in S THEN Pow2[k] ELSE 0], Xlen)]

Flag(p) == IF p THEN 1 ELSE 0

Abs(n) == IF n < 0 THEN -n ELSE n

(* Division that truncates towards zero, of signed numbers *)
Quotient(m, n) ==
  IF (m < 0) = (n < 0) THEN Abs(m) \div Abs(n) ELSE -(Abs(m) \div Abs(n))

RegOps ==
  {"add", "sub", "slt", "sltu", "and", "or", "xor", "sll", "srl", "sra",
   "mul", "mulh", "mulhsu", "mulhu", "div", "divu", "rem", "remu"}

(* Mutant of Amount: the amount of a shift is taken from all its bits. *)
AmountWhole(b) == b

(* & 0x1F *)
Amount(b) == b % Xlen

(* The closures of the register-register instructions, which those with an *)
(* immediate share.                                                        *)
Alu(op, a, b) ==
  CASE op = "add"    -> Wrap(a + b)
    [] op = "sub"    -> Wrap(a - b)
    [] op = "slt"    -> Flag(Signed(a) < Signed(b))
    [] op = "sltu"   -> Flag(a < b)
    [] op = "and"    -> OfBits[Bits[a] \cap Bits[b]]
    [] op = "or"     -> OfBits[Bits[a] \cup Bits[b]]
    [] op = "xor"    -> OfBits[(Bits[a] \ Bits[b]) \cup (Bits[b] \ Bits[a])]
    [] op = "sll"    -> Wrap(a * Pow2[Amount(b)])
    [] op = "srl"    -> a \div Pow2[Amount(b)]
    [] op = "sra"    -> Wrap(Signed(a) \div Pow2[Amount(b)])
    [] op = "mul"    -> Wrap(a * b)
    [] op = "mulh"   -> Wrap((Signed(a) * Signed(b)) \div Size)
    [] op = "mulhsu" -> Wrap((Signed(a) * b) \div Size)
    [] op = "mulhu"  -> (a * b) \div Size
    [] op = "div"    -> IF b = 0 THEN Size - 1 ELSE Wrap(Quotient(Signed(a), Signed(b)))
    [] op = "divu"   -> IF b = 0 THEN Size - 1 ELSE a \div b
    [] op = "rem"    -> IF b = 0 THEN a
                        ELSE Wrap(Signed(a) - Signed(b) * Quotient(Signed(a), Signed(b)))
    [] op = "remu"   -> IF b = 0 THEN a ELSE a % b

AmoOps ==
  {"amoswap", "amoadd", "amoand", "amoor", "amoxor", "amomax", "amomin", "amomaxu", "amominu"}

Larger(m, n)  == IF m < n THEN n ELSE m
Smaller(m, n) == IF m < n THEN m ELSE n

(* The closures of the atomic instructions: memory's value and the register's *)
AmoAlu(op, m, r) ==
  CASE op = "amoswap" -> r
    [] op = "amoadd"  -> Alu("add", m, r)
    [] op = "amoand"  -> Alu("and", m, r)
    [] op = "amoor"   -> Alu("or", m, r)
    [] op = "amoxor"  -> Alu("xor", m, r)
    [] op = "amomax"  -> Wrap(Larger(Signed(m), Signed(r)))
    [] op = "amomin"  -> Wrap(Smaller(Signed(m), Signed(r)))
    [] op = "amomaxu" -> Larger(m, r)
    [] op = "amominu" -> Smaller(m, r)

BranchOps == {"beq", "bne", "blt", "bltu", "bge", "bgeu"}

(* The predicates of the conditional branches *)
Taken(op, a, b) ==
  CASE op = "beq"  -> a = b
    [] op = "bne"  -> a # b
    [] op = "blt"  -> Signed(a) < Signed(b)
    [] op = "bltu" -> a < b
    [] op = "bge"  -> Signed(a) >= Signed(b)
    [] op = "bgeu" -> a >= b
=============================================================================
