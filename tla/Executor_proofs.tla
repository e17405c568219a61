-------------------------- MODULE Executor_proofs --------------------------
(***************************************************************************)
(* Proofs about Executor, for every width of words, every address space,   *)
(* register file and set of operands and immediates:                       *)
(*   - exceptions are precise: an instruction that fails is one that       *)
(*     checked before it wrote, but for the two the property names;        *)
(*   - the registers stay words, x0 stays 0 and pc stays aligned;          *)
(*   - the arithmetic instructions compute what the manual says;           *)
(*   - loads, stores and atomic operations move the right bytes.           *)
(* The lemmas begin with recursion over the natural numbers, powers of two *)
(* and the bits and digits of numbers; the induction they need is that     *)
(* over a set of numbers, from the well-foundedness of <.                  *)
(***************************************************************************)
EXTENDS Executor, WellFoundedInduction, TLAPS

-----------------------------------------------------------------------------
(* Exceptions *)

(* The outcome r of an instruction on hart s: if it failed, it left s.     *)
Restores(s, r) == r.fault # "none" => r.to = s

(* ... or has set rd to 0.                                                 *)
RestoresBut(s, d, r) == r.fault # "none" => r.to = s \/ r.to = SetX(s, d, 0)

LEMMA DoneRestores ==
  ASSUME NEW s, NEW t
  PROVE  Restores(s, Done(t)) /\ Restores(s, Ok(t)) /\ Done(t).fault = "none"
  BY DEF Restores, Done, Ok

LEMMA FailRestores ==
  ASSUME NEW s, NEW kind
  PROVE  Restores(s, Fail(s, kind)) /\ Fail(s, kind).to = s
  BY DEF Restores, Fail

(* Jumps check the target before they link. *)
LEMMA JumpRestores ==
  ASSUME NEW s, NEW d, NEW target
  PROVE  Restores(s, Jump(s, d, target))
  BY DoneRestores, FailRestores DEF Jump

(* A branch that is not taken cannot fail, and one that is checks first. *)
LEMMA BranchRestores ==
  ASSUME NEW s, NEW op, NEW at, NEW imm
  PROVE  Restores(s, Branch(s, op, at, imm))
<1>1. \/ Branch(s, op, at, imm) = Done(s)
      \/ \E t : Branch(s, op, at, imm) = Ok(t)
      \/ Branch(s, op, at, imm) = Fail(s, "target_misaligned")
  BY DEF Branch
<1>2. QED
  BY <1>1, DoneRestores, FailRestores

(* Loads and stores are refused before they do anything. *)
LEMMA AccessRestores ==
  ASSUME NEW s, NEW a, NEW n
  PROVE  /\ \A d, signed : Restores(s, LoadFrom(s, d, a, n, signed))
         /\ \A v : Restores(s, StoreTo(s, a, n, v))
<1>1. ASSUME NEW d, NEW signed
      PROVE  Restores(s, LoadFrom(s, d, a, n, signed))
  <2>1. \/ LoadFrom(s, d, a, n, signed) = Fail(s, Refused(a, n, "read"))
        \/ \E t : LoadFrom(s, d, a, n, signed) = Done(t)
    BY DEF LoadFrom
  <2>2. QED
    BY <2>1, DoneRestores, FailRestores
<1>2. ASSUME NEW v
      PROVE  Restores(s, StoreTo(s, a, n, v))
  <2>1. \/ StoreTo(s, a, n, v) = Fail(s, Refused(a, n, "write"))
        \/ \E t : StoreTo(s, a, n, v) = Done(t)
    BY DEF StoreTo
  <2>2. QED
    BY <2>1, DoneRestores, FailRestores
<1>3. QED
  BY <1>1, <1>2

(* An atomic operation writes rd last. *)
LEMMA AmoRestores ==
  ASSUME NEW s, NEW op, NEW at
  PROVE  Restores(s, Amo(s, op, at))
<1> DEFINE a == s.x[at.rs1]
           stored == StoreTo(s, a, 4, AmoAlu(op, Get(s, a, 4), s.x[at.rs2]))
<1>1. \/ Amo(s, op, at) = stored
      \/ \E kind : Amo(s, op, at) = Fail(s, kind)
      \/ \E t : Amo(s, op, at) = Ok(t)
  BY DEF Amo
<1>2. Restores(s, stored)
  BY AccessRestores
<1>3. QED
  BY <1>1, <1>2, DoneRestores, FailRestores

(* sc has set rd when its store is refused, but not when it is misaligned. *)
LEMMA ConditionalRestores ==
  ASSUME NEW s, NEW at
  PROVE  RestoresBut(s, at.rd, StoreConditional(s, at))
<1> DEFINE t == SetX(s, at.rd, 0)
           stored == StoreTo(t, s.x[at.rs1], 4, s.x[at.rs2])
<1>1. StoreConditional(s, at) = stored \/ StoreConditional(s, at) = Fail(s, "misaligned")
  BY DEF StoreConditional
<1>2. Restores(t, stored)
  BY AccessRestores
<1>3. QED
  BY <1>1, <1>2, FailRestores DEF Restores, RestoresBut

(* A CSR that cannot be written reads as 0 here, and is read first. *)
LEMMA CsrRestores ==
  ASSUME NEW s, NEW op, NEW d, NEW csr, NEW source
  PROVE  RestoresBut(s, d, CsrAccess(s, op, d, csr, source))
<1> DEFINE read == op # "write" \/ d # 0
           kept == IF read THEN SetX(s, d, CsrValue(s, csr)) ELSE s
<1>1. \/ CsrAccess(s, op, d, csr, source) = Fail(s, "illegal")
      \/ \E t : CsrAccess(s, op, d, csr, source) = Done(t)
      \/ /\ csr \in {"fixed", "missing"}
         /\ CsrAccess(s, op, d, csr, source) = Fail(kept, "illegal")
  BY DEF CsrAccess
<1>2. ASSUME csr \in {"fixed", "missing"}
      PROVE  kept \in {s, SetX(s, d, 0)}
  BY <1>2 DEF CsrValue
<1>3. CASE CsrAccess(s, op, d, csr, source) = Fail(s, "illegal")
  BY <1>3, FailRestores DEF Restores, RestoresBut
<1>4. CASE \E t : CsrAccess(s, op, d, csr, source) = Done(t)
  BY <1>4, DoneRestores DEF Restores, RestoresBut
<1>5. CASE /\ csr \in {"fixed", "missing"}
           /\ CsrAccess(s, op, d, csr, source) = Fail(kept, "illegal")
  BY <1>2, <1>5, FailRestores DEF RestoresBut
<1>6. QED
  BY <1>1, <1>3, <1>4, <1>5

(* The instructions whose rd may be set when they fail. *)
SetEarly == {"sc"} \cup DOMAIN CsrRegOps \cup DOMAIN CsrImmOps

(* Every instruction is one of these kinds. *)
LEMMA InstructionKinds ==
  ASSUME NEW i \in Instructions
  PROVE  \/ i.op \in RegOps \cup DOMAIN ImmOps \cup DOMAIN ShiftOps \cup {"lui", "auipc", "fence"}
         \/ i.op \in {"jal", "jalr"} \cup BranchOps
         \/ i.op \in DOMAIN LoadOps \cup DOMAIN StoreOps \cup {"lr"} \cup AmoOps
         \/ i.op \in SetEarly
         \/ i.op \in {"ecall", "ebreak", "illegal"}
  BY DEF Instructions, SetEarly

(* The handler of each kind of instruction *)
LEMMA Dispatch ==
  ASSUME NEW s, NEW i
  PROVE  /\ i.op \in RegOps => Execute(s, i) = RegReg(s, i.op, i.at)
         /\ i.op \in DOMAIN ImmOps => Execute(s, i) = RegImm(s, ImmOps[i.op], i.at, i.imm)
         /\ i.op \in DOMAIN ShiftOps => Execute(s, i) = RegImm(s, ShiftOps[i.op], i.at, i.imm)
         /\ i.op = "lui" => Execute(s, i) = Lui(s, i.at, i.imm)
         /\ i.op = "auipc" => Execute(s, i) = Auipc(s, i.at, i.imm)
         /\ i.op = "jal" => Execute(s, i) = Jal(s, i.at, i.imm)
         /\ i.op = "jalr" => Execute(s, i) = Jalr(s, i.at, i.imm)
         /\ i.op \in BranchOps => Execute(s, i) = Branch(s, i.op, i.at, i.imm)
         /\ i.op \in DOMAIN LoadOps => Execute(s, i) = Load(s, i.op, i.at, i.imm)
         /\ i.op \in DOMAIN StoreOps => Execute(s, i) = Store(s, i.op, i.at, i.imm)
         /\ i.op = "lr" => Execute(s, i) = LoadReserved(s, i.at)
         /\ i.op = "sc" => Execute(s, i) = StoreConditional(s, i.at)
         /\ i.op \in AmoOps => Execute(s, i) = Amo(s, i.op, i.at)
         /\ i.op \in DOMAIN CsrRegOps => Execute(s, i) = CsrReg(s, CsrRegOps[i.op], i.at, i.csr)
         /\ i.op \in DOMAIN CsrImmOps => Execute(s, i) = CsrImm(s, CsrImmOps[i.op], i.at, i.csr, i.imm)
         /\ i.op = "fence" => Execute(s, i) = Done(s)
         /\ i.op \in {"ecall", "ebreak", "illegal"} => Execute(s, i) = Fail(s, i.op)
<1> USE DEF RegOps, ImmOps, ShiftOps, BranchOps, LoadOps, StoreOps, AmoOps, CsrRegOps, CsrImmOps
<1>1. i.op \in RegOps => Execute(s, i) = RegReg(s, i.op, i.at)
  BY DEF Execute
<1>2. i.op \in DOMAIN ImmOps => Execute(s, i) = RegImm(s, ImmOps[i.op], i.at, i.imm)
  BY DEF Execute
<1>3. i.op \in DOMAIN ShiftOps => Execute(s, i) = RegImm(s, ShiftOps[i.op], i.at, i.imm)
  BY DEF Execute
<1>4. i.op = "lui" => Execute(s, i) = Lui(s, i.at, i.imm)
  BY DEF Execute
<1>5. i.op = "auipc" => Execute(s, i) = Auipc(s, i.at, i.imm)
  BY DEF Execute
<1>6. i.op = "jal" => Execute(s, i) = Jal(s, i.at, i.imm)
  BY DEF Execute
<1>7. i.op = "jalr" => Execute(s, i) = Jalr(s, i.at, i.imm)
  BY DEF Execute
<1>8. i.op \in BranchOps => Execute(s, i) = Branch(s, i.op, i.at, i.imm)
  BY DEF Execute
<1>9. i.op \in DOMAIN LoadOps => Execute(s, i) = Load(s, i.op, i.at, i.imm)
  BY DEF Execute
<1>10. i.op \in DOMAIN StoreOps => Execute(s, i) = Store(s, i.op, i.at, i.imm)
  BY DEF Execute
<1>11. i.op = "lr" => Execute(s, i) = LoadReserved(s, i.at)
  BY DEF Execute
<1>12. i.op = "sc" => Execute(s, i) = StoreConditional(s, i.at)
  BY DEF Execute
<1>13. i.op \in AmoOps => Execute(s, i) = Amo(s, i.op, i.at)
  BY DEF Execute
<1>14. i.op \in DOMAIN CsrRegOps => Execute(s, i) = CsrReg(s, CsrRegOps[i.op], i.at, i.csr)
  BY DEF Execute
<1>15. i.op \in DOMAIN CsrImmOps => Execute(s, i) = CsrImm(s, CsrImmOps[i.op], i.at, i.csr, i.imm)
  BY DEF Execute
<1>16. i.op = "fence" => Execute(s, i) = Done(s)
  BY DEF Execute
<1>17. i.op \in {"ecall", "ebreak", "illegal"} => Execute(s, i) = Fail(s, i.op)
  BY DEF Execute
<1>18. QED
  BY <1>1, <1>2, <1>3, <1>4, <1>5, <1>6, <1>7, <1>8, <1>9, <1>10, <1>11, <1>12, <1>13, <1>14, <1>15, <1>16,
     <1>17

(* An instruction that fails leaves the hart as it was, or with rd 0. *)
LEMMA ExecuteRestores ==
  ASSUME NEW s, NEW i \in Instructions
  PROVE  LET r == Execute(s, i) IN
         \/ Restores(s, r)
         \/ i.op \in SetEarly /\ RestoresBut(s, i.at.rd, r)
<1> DEFINE r == Execute(s, i)
<1>1. /\ \A op : /\ Restores(s, RegReg(s, op, i.at)) /\ Restores(s, RegImm(s, op, i.at, i.imm))
                 /\ Restores(s, Branch(s, op, i.at, i.imm)) /\ Restores(s, Load(s, op, i.at, i.imm))
                 /\ Restores(s, Store(s, op, i.at, i.imm)) /\ Restores(s, Amo(s, op, i.at))
      /\ Restores(s, Lui(s, i.at, i.imm)) /\ Restores(s, Auipc(s, i.at, i.imm))
      /\ Restores(s, Jal(s, i.at, i.imm)) /\ Restores(s, Jalr(s, i.at, i.imm))
      /\ Restores(s, LoadReserved(s, i.at)) /\ Restores(s, Done(s))
      /\ \A kind : Restores(s, Fail(s, kind))
  <2>1. \A op : /\ Restores(s, RegReg(s, op, i.at)) /\ Restores(s, RegImm(s, op, i.at, i.imm))
    BY DoneRestores DEF RegReg, RegImm
  <2>2. Restores(s, Lui(s, i.at, i.imm)) /\ Restores(s, Auipc(s, i.at, i.imm)) /\ Restores(s, Done(s))
    BY DoneRestores DEF Lui, Auipc
  <2>3. Restores(s, Jal(s, i.at, i.imm)) /\ Restores(s, Jalr(s, i.at, i.imm))
    BY JumpRestores DEF Jal, Jalr
  <2>4. \A op : Restores(s, Load(s, op, i.at, i.imm)) /\ Restores(s, Store(s, op, i.at, i.imm))
    BY AccessRestores DEF Load, Store
  <2>5. Restores(s, LoadReserved(s, i.at))
    BY AccessRestores, FailRestores DEF LoadReserved
  <2>6. QED
    BY <2>1, <2>2, <2>3, <2>4, <2>5, BranchRestores, AmoRestores, FailRestores
<1>2. /\ RestoresBut(s, i.at.rd, StoreConditional(s, i.at))
      /\ \A op : /\ RestoresBut(s, i.at.rd, CsrReg(s, op, i.at, i.csr))
                 /\ RestoresBut(s, i.at.rd, CsrImm(s, op, i.at, i.csr, i.imm))
  BY ConditionalRestores, CsrRestores DEF CsrReg, CsrImm
<1>3. CASE i.op \in RegOps
  BY <1>1, <1>3, Dispatch
<1>4. CASE i.op \in DOMAIN ImmOps \cup DOMAIN ShiftOps
  BY <1>1, <1>4, Dispatch
<1>5. CASE i.op \in {"lui", "auipc", "fence", "jal", "jalr"} \cup BranchOps
  BY <1>1, <1>5, Dispatch
<1>6. CASE i.op \in DOMAIN LoadOps \cup DOMAIN StoreOps \cup {"lr"} \cup AmoOps
  BY <1>1, <1>6, Dispatch
<1>7. CASE i.op \in SetEarly
  BY <1>2, <1>7, Dispatch DEF SetEarly
<1>8. CASE i.op \in {"ecall", "ebreak", "illegal"}
  BY <1>1, <1>8, Dispatch
<1>9. QED
  BY <1>3, <1>4, <1>5, <1>6, <1>7, <1>8, InstructionKinds

(* No instruction that raises an exception has changed registers, memory   *)
(* or pc, so that the handler can run it again; but the sc whose store     *)
(* faults and the write of a read-only CSR have set rd by then (jump_op,   *)
(* load_op, store_op, amo_op, csr_op).  It holds in every state, for every *)
(* width of words, address space and set of operands.                      *)
THEOREM ExceptionsArePrecise == Spec => []Precise
<1>1. ASSUME NEW s, NEW i \in Instructions
      PROVE  LET r == Execute(s, i) IN
             r.fault # "none" =>
               \/ r.to = s
               \/ /\ i.op = "sc" \/ i.op \in DOMAIN CsrRegOps \cup DOMAIN CsrImmOps
                  /\ r.to = SetX(s, i.at.rd, 0)
  BY ExecuteRestores DEF Restores, RestoresBut, SetEarly
<1>2. Precise
  BY <1>1 DEF Precise
<1>3. QED
  BY <1>2, PTL

-----------------------------------------------------------------------------
(* Recursion and powers of two *)

(* Induction over the natural numbers, for a set of them. *)
LEMMA Induction ==
  ASSUME NEW S, 0 \in S, \A n \in Nat : n \in S => n + 1 \in S
  PROVE  Nat \subseteq S
<1> DEFINE T == Nat \ S
<1>1. SUFFICES ASSUME T # {}
               PROVE  FALSE
  OBVIOUS
<1>2. T \in SUBSET Nat
  OBVIOUS
<1>3. PICK t \in T : \A u \in T : ~ (<<u, t>> \in OpToRel(<, Nat))
  BY <1>1, <1>2, NatLessThanWellFounded, WFMin
<1>4. t \in Nat /\ t \notin S /\ t # 0
  OBVIOUS
<1>5. t - 1 \in Nat /\ t - 1 \notin S
  <2>1. t - 1 \in Nat /\ (t - 1) + 1 = t
    BY <1>4
  <2>2. QED
    BY <1>4, <2>1
<1>6. <<t - 1, t>> \in Nat \X Nat /\ <<t - 1, t>>[1] < <<t - 1, t>>[2]
  BY <1>4, <1>5
<1>7. <<t - 1, t>> \in OpToRel(<, Nat)
  BY <1>6 DEF OpToRel
<1>8. QED
  BY <1>3, <1>5, <1>7

(* A value for each number, made from the one before it. *)
Iterates(f, base, F) == f[0] = base /\ \A n \in Nat : f[n + 1] = F[n][f[n]]

(* What a recursive function is built from exists, for any step F. *)
LEMMA Recursion ==
  ASSUME NEW S, NEW base \in S, NEW F \in [Nat -> [S -> S]]
  PROVE  \E f \in [Nat -> S] : Iterates(f, base, F)
<1> DEFINE Good(n, g) == /\ g \in [0 .. n -> S] /\ g[0] = base
                         /\ \A k \in 0 .. n - 1 : g[k + 1] = F[k][g[k]]
           Some == {n \in Nat : \E g : Good(n, g)}
           Only == {k \in Nat : \A m, n \in Nat : \A g, e :
                      k <= m /\ k <= n /\ Good(m, g) /\ Good(n, e) => g[k] = e[k]}
           f == [n \in Nat |-> (CHOOSE g : Good(n, g))[n]]
<1> HIDE DEF Good
<1>1. Nat \subseteq Some
  <2>1. 0 \in Some
    <3>1. Good(0, [k \in {0} |-> base])
      BY DEF Good
    <3>2. QED
      BY <3>1
  <2>2. ASSUME NEW n \in Nat, n \in Some
        PROVE  n + 1 \in Some
    <3>1. PICK g : Good(n, g)
      BY <2>2
    <3> USE DEF Good
    <3> DEFINE e == [k \in 0 .. n + 1 |-> IF k = n + 1 THEN F[n][g[n]] ELSE g[k]]
    <3>2. F[n][g[n]] \in S
      BY <3>1
    <3>3. e \in [0 .. n + 1 -> S]
      BY <3>1, <3>2
    <3>4. \A k \in 0 .. n : e[k + 1] = F[k][e[k]]
      <4>1. SUFFICES ASSUME NEW k \in 0 .. n
                     PROVE  e[k + 1] = F[k][e[k]]
        OBVIOUS
      <4>2. e[k] = g[k]
        OBVIOUS
      <4>3. CASE k = n
        BY <4>2, <4>3
      <4>4. CASE k # n
        BY <3>1, <4>2, <4>4
      <4>5. QED
        BY <4>3, <4>4
    <3>5. e[0] = base
      BY <3>1
    <3>6. Good(n + 1, e)
      <4> HIDE DEF e
      <4>1. (n + 1) - 1 = n
        OBVIOUS
      <4>2. QED
        BY <3>3, <3>4, <3>5, <4>1
    <3> HIDE DEF Good, e
    <3>7. QED
      BY <3>6
  <2> HIDE DEF Some
  <2>3. QED
    BY <2>1, <2>2, Induction
<1>2. Nat \subseteq Only
  <2>1. 0 \in Only
    BY DEF Good
  <2>2. ASSUME NEW k \in Nat, k \in Only
        PROVE  k + 1 \in Only
    <3>1. SUFFICES ASSUME NEW m \in Nat, NEW n \in Nat, NEW g, NEW e,
                          k + 1 <= m, k + 1 <= n, Good(m, g), Good(n, e)
                   PROVE  g[k + 1] = e[k + 1]
      <4>1. k + 1 \in Nat
        OBVIOUS
      <4>2. QED
        BY <4>1, Zenon
    <3>2. k \in 0 .. m - 1 /\ k \in 0 .. n - 1 /\ k <= m /\ k <= n
      BY <3>1
    <3>3. g[k] = e[k]
      BY <2>2, <3>1, <3>2, Zenon
    <3>4. g[k + 1] = F[k][g[k]] /\ e[k + 1] = F[k][e[k]]
      BY <3>1, <3>2 DEF Good
    <3>5. QED
      BY <3>3, <3>4
  <2> HIDE DEF Only
  <2>3. QED
    BY <2>1, <2>2, Induction
<1>3. \A n \in Nat : Good(n, CHOOSE g : Good(n, g))
  BY <1>1
<1>4. f \in [Nat -> S]
  BY <1>3 DEF Good
<1>5. f[0] = base
  BY <1>3 DEF Good
<1>6. ASSUME NEW n \in Nat
      PROVE  f[n + 1] = F[n][f[n]]
  <2> DEFINE g == CHOOSE g : Good(n, g)
             e == CHOOSE e : Good(n + 1, e)
  <2>0. n + 1 \in Nat /\ n <= n + 1 /\ n <= n
    OBVIOUS
  <2>1. Good(n, g) /\ Good(n + 1, e)
    BY <1>3, <2>0
  <2>2. f[n] = g[n] /\ f[n + 1] = e[n + 1]
    BY <2>0
  <2> HIDE DEF g, e
  <2>3. e[n + 1] = F[n][e[n]]
    BY <2>1 DEF Good
  <2>4. g[n] = e[n]
    <3>1. n \in Only
      BY <1>2
    <3>2. QED
      BY <2>0, <2>1, <3>1
  <2>5. QED
    BY <2>2, <2>3, <2>4
<1> HIDE DEF f
<1>7. QED
  BY <1>4, <1>5, <1>6 DEF Iterates

(* Pow2 is the function its definition describes. *)
LEMMA Pow2Facts ==
  /\ Pow2[0] = 1
  /\ \A n \in Nat : Pow2[n] \in Nat \ {0} /\ Pow2[n + 1] = 2 * Pow2[n]
<1> DEFINE P == Nat \ {0}
           Grow == [n \in Nat |-> [v \in P |-> 2 * v]]
<1>1. PICK f \in [Nat -> P] : Iterates(f, 1, Grow)
  <2>1. Grow \in [Nat -> [P -> P]] /\ 1 \in P
    OBVIOUS
  <2> HIDE DEF Grow, P
  <2>2. QED
    BY <2>1, Recursion, Zenon
<1>2. f[0] = 1 /\ \A n \in Nat : f[n + 1] = 2 * f[n]
  BY <1>1 DEF Iterates
<1>3. f = [n \in Nat |-> IF n = 0 THEN 1 ELSE 2 * f[n - 1]]
  <2>1. ASSUME NEW n \in Nat, n # 0
        PROVE  f[n] = 2 * f[n - 1]
    <3>1. n - 1 \in Nat /\ (n - 1) + 1 = n
      BY <2>1
    <3>2. QED
      BY <1>2, <3>1
  <2>2. QED
    BY <1>1, <1>2, <2>1
<1>4. Pow2 = [n \in Nat |-> IF n = 0 THEN 1 ELSE 2 * Pow2[n - 1]]
  BY <1>3 DEF Pow2
<1>5. Pow2[0] = 1
  BY <1>4
<1>6. \A n \in Nat : Pow2[n + 1] = 2 * Pow2[n]
  <2>1. ASSUME NEW n \in Nat
        PROVE  Pow2[n + 1] = 2 * Pow2[n]
    <3>1. n + 1 \in Nat /\ n + 1 # 0 /\ (n + 1) - 1 = n
      OBVIOUS
    <3>2. Pow2[n + 1] = 2 * Pow2[(n + 1) - 1]
      BY <1>4, <3>1
    <3>3. QED
      BY <3>1, <3>2
  <2>2. QED
    BY <2>1
<1> DEFINE S == {n \in Nat : Pow2[n] \in Nat \ {0}}
<1>7. Nat \subseteq S
  <2>1. 0 \in S
    BY <1>5
  <2>2. \A n \in Nat : n \in S => n + 1 \in S
    BY <1>6
  <2> HIDE DEF S
  <2>3. QED
    BY <2>1, <2>2, Induction
<1>8. QED
  BY <1>5, <1>6, <1>7

(* Powers of two multiply by adding exponents. *)
LEMMA Pow2Add ==
  ASSUME NEW m \in Nat, NEW n \in Nat
  PROVE  Pow2[m + n] = Pow2[m] * Pow2[n]
<1> DEFINE S == {k \in Nat : Pow2[m + k] = Pow2[m] * Pow2[k]}
<1>1. 0 \in S
  BY Pow2Facts
<1>2. ASSUME NEW k \in Nat, k \in S
      PROVE  k + 1 \in S
  <2>1. Pow2[m + (k + 1)] = 2 * Pow2[m + k]
    <3>1. m + (k + 1) = (m + k) + 1 /\ m + k \in Nat
      OBVIOUS
    <3>2. QED
      BY <3>1, Pow2Facts
  <2>2. Pow2[k + 1] = 2 * Pow2[k] /\ Pow2[k] \in Nat /\ Pow2[m] \in Nat
    BY Pow2Facts
  <2> DEFINE p == Pow2[m]
             q == Pow2[k]
  <2>3. 2 * (p * q) = p * (2 * q)
    <3>1. p \in Nat /\ q \in Nat
      BY <2>2
    <3> HIDE DEF p, q
    <3>2. QED
      BY <3>1
  <2>4. QED
    BY <1>2, <2>1, <2>2, <2>3
<1> HIDE DEF S
<1>3. Nat \subseteq S
  BY <1>1, <1>2, Induction
<1>4. QED
  BY <1>3 DEF S

(* Powers of two grow faster than their exponents. *)
LEMMA Pow2Grows ==
  ASSUME NEW n \in Nat
  PROVE  n < Pow2[n]
<1> DEFINE S == {k \in Nat : k < Pow2[k]}
<1>1. 0 \in S
  BY Pow2Facts
<1>2. \A k \in Nat : k \in S => k + 1 \in S
  BY Pow2Facts
<1> HIDE DEF S
<1>3. Nat \subseteq S
  BY <1>1, <1>2, Induction
<1>4. QED
  BY <1>3 DEF S

(* The partial sums of f[0] + ... + f[n - 1] *)
Sums(t, f, n) ==
  /\ t \in [0 .. n -> Nat] /\ t[0] = 0
  /\ \A k \in 0 .. n - 1 : t[k + 1] = t[k] + f[k]

(* A total is the last of its partial sums. *)
LEMMA TotalFacts ==
  ASSUME NEW n \in Nat, NEW f \in [0 .. n - 1 -> Nat]
  PROVE  \E t : Sums(t, f, n) /\ Total(f, n) = t[n]
<1> DEFINE Grow == [k \in Nat |-> [v \in Nat |-> IF k < n THEN v + f[k] ELSE v]]
           Fits(t) == t = [k \in 0 .. n |-> IF k = 0 THEN 0 ELSE t[k - 1] + f[k - 1]]
           t == CHOOSE t : Fits(t)
<1>1. PICK g \in [Nat -> Nat] : Iterates(g, 0, Grow)
  <2>1. Grow \in [Nat -> [Nat -> Nat]] /\ 0 \in Nat
    OBVIOUS
  <2> HIDE DEF Grow
  <2>2. QED
    BY <2>1, Recursion, Zenon
<1>2. g[0] = 0 /\ \A k \in 0 .. n - 1 : g[k + 1] = g[k] + f[k]
  <2>1. g[0] = 0 /\ \A k \in Nat : g[k + 1] = Grow[k][g[k]]
    BY <1>1 DEF Iterates
  <2>2. ASSUME NEW k \in 0 .. n - 1
        PROVE  Grow[k][g[k]] = g[k] + f[k]
    <3>1. k \in Nat /\ k < n /\ g[k] \in Nat
      OBVIOUS
    <3>2. QED
      BY <3>1
  <2> HIDE DEF Grow
  <2>3. QED
    BY <2>1, <2>2
<1>3. Fits([k \in 0 .. n |-> g[k]])
  <2>1. ASSUME NEW k \in 0 .. n, k # 0
        PROVE  g[k] = g[k - 1] + f[k - 1]
    <3>1. k - 1 \in 0 .. n - 1 /\ (k - 1) + 1 = k
      BY <2>1
    <3>2. QED
      BY <1>2, <3>1
  <2>2. QED
    BY <1>2, <2>1
<1>4. Fits(t)
  <2> HIDE DEF Fits
  <2> QED BY <1>3
<1>5. Total(f, n) = t[n]
  BY DEF Total
<1> HIDE DEF t
<1>6. t[0] = 0
  BY <1>4
<1>7. ASSUME NEW k \in 0 .. n - 1
      PROVE  t[k + 1] = t[k] + f[k]
  <2>1. k + 1 \in 0 .. n /\ k + 1 # 0 /\ (k + 1) - 1 = k
    OBVIOUS
  <2>2. t[k + 1] = IF k + 1 = 0 THEN 0 ELSE t[(k + 1) - 1] + f[(k + 1) - 1]
    BY <1>4, <2>1
  <2>3. QED
    BY <2>1, <2>2
<1> DEFINE S == {k \in Nat : k <= n => t[k] \in Nat}
<1>8. Nat \subseteq S
  <2>1. 0 \in S
    BY <1>6
  <2>2. ASSUME NEW k \in Nat, k \in S
        PROVE  k + 1 \in S
    <3>1. CASE k + 1 <= n
      <4>1. k \in 0 .. n - 1 /\ k <= n
        BY <3>1
      <4>2. t[k] \in Nat /\ f[k] \in Nat
        BY <2>2, <4>1
      <4>3. t[k + 1] = t[k] + f[k]
        BY <1>7, <4>1
      <4>4. \A a, b \in Nat : a + b \in Nat
        OBVIOUS
      <4>5. t[k + 1] \in Nat
        BY <4>2, <4>3, <4>4, Zenon
      <4>6. QED
        BY <4>5
    <3>2. CASE ~ (k + 1 <= n)
      BY <3>2
    <3>3. QED
      BY <3>1, <3>2
  <2> HIDE DEF S
  <2>3. QED
    BY <2>1, <2>2, Induction
<1>9. t \in [0 .. n -> Nat]
  <2>1. \A k \in 0 .. n : t[k] \in Nat
    BY <1>8
  <2>2. DOMAIN t = 0 .. n /\ t = [k \in 0 .. n |-> t[k]]
    BY <1>4
  <2>3. QED
    BY <2>1, <2>2
<1>10. Sums(t, f, n)
  BY <1>6, <1>7, <1>9 DEF Sums
<1>11. QED
  BY <1>5, <1>10

-----------------------------------------------------------------------------
(* Division *)

(* The quotient and the remainder of an integer *)
LEMMA DivisionParts ==
  ASSUME NEW x \in Int, NEW m \in Nat \ {0}
  PROVE  /\ x \div m \in Int /\ (x % m) \in 0 .. m - 1
         /\ x = (x \div m) * m + (x % m)
  OBVIOUS

(* The quotient and the remainder of a sum that names them. *)
LEMMA DivisionIsUnique ==
  ASSUME NEW q \in Int, NEW m \in Nat \ {0}, NEW r \in 0 .. m - 1
  PROVE  (q * m + r) \div m = q /\ ((q * m + r) % m) = r
  OBVIOUS

(* Multiples of the divisor add to the quotient alone. *)
LEMMA DivideSum ==
  ASSUME NEW x \in Int, NEW q \in Int, NEW m \in Nat \ {0}
  PROVE  (x + q * m) \div m = x \div m + q /\ ((x + q * m) % m) = (x % m)
<1> DEFINE d == x \div m
           r == x % m
<1>1. d \in Int /\ r \in 0 .. m - 1 /\ x = d * m + r
  BY DivisionParts
<1> HIDE DEF d, r
<1>2. x + q * m = (d + q) * m + r
  BY <1>1
<1>3. d + q \in Int
  BY <1>1
<1>4. (x + q * m) \div m = d + q /\ ((x + q * m) % m) = r
  BY <1>1, <1>2, <1>3, DivisionIsUnique
<1>5. QED
  BY <1>4 DEF d, r

(* Dividing twice is dividing by the product. *)
LEMMA DivideTwice ==
  ASSUME NEW x \in Int, NEW m \in Nat \ {0}, NEW q \in Nat \ {0}
  PROVE  (x \div m) \div q = x \div (m * q)
  OBVIOUS

(* A common factor cancels. *)
LEMMA DivideMultiples ==
  ASSUME NEW x \in Int, NEW m \in Nat \ {0}, NEW q \in Nat \ {0}
  PROVE  (x * m) \div (q * m) = x \div q
  OBVIOUS

(* The digit of place m of x, in base 2, whatever multiples of 2 * m one adds. *)
LEMMA HigherBits ==
  ASSUME NEW x \in Int, NEW q \in Int, NEW m \in Nat \ {0}
  PROVE  (((x + q * (2 * m)) \div m) % 2) = ((x \div m) % 2)
<1>1. x + q * (2 * m) = x + (2 * q) * m
  OBVIOUS
<1>2. (x + (2 * q) * m) \div m = x \div m + 2 * q
  <2>1. 2 * q \in Int
    OBVIOUS
  <2>2. QED
    BY <2>1, DivideSum
<1>3. x \div m \in Int
  BY DivisionParts
<1>4. ((x \div m + 2 * q) % 2) = ((x \div m) % 2)
  <2> DEFINE d == x \div m
  <2> HIDE DEF d
  <2> QED BY <1>3 DEF d
<1>5. QED
  BY <1>1, <1>2, <1>4

-----------------------------------------------------------------------------
(* Words and their bits *)

(* A word has at least four bits, and its range is a multiple of four. *)
LEMMA SizeFacts ==
  /\ ByteBits \in Nat /\ Xlen \in Nat /\ Xlen >= 4 /\ Xlen - 1 \in Nat
  /\ Size = Pow2[Xlen] /\ Size \in Nat /\ Size >= 16
  /\ Size \div 2 = Pow2[Xlen - 1] /\ Size = 2 * (Size \div 2) /\ Size \div 2 \in Nat
  /\ \E q \in Nat : Size = 4 * q
<1>1. ByteBits \in Nat /\ Xlen \in Nat /\ Xlen >= 4 /\ Xlen = 4 * ByteBits
  BY ByteBitsAssumption DEF Xlen
<1>2. Size = Pow2[Xlen]
  BY <1>1 DEF Size, Span
<1> HIDE DEF Xlen
<1> DEFINE n == Xlen - 4
<1>3. n \in Nat /\ n + 4 = Xlen
  BY <1>1
<1>4. Pow2[4] = 16
  <2>1. Pow2[1] = 2
    <3>1. Pow2[0 + 1] = 2 * Pow2[0] /\ Pow2[0] = 1
      BY Pow2Facts
    <3>2. QED
      BY <3>1
  <2>2. Pow2[2] = 4
    <3>1. Pow2[1 + 1] = 2 * Pow2[1]
      BY Pow2Facts
    <3>2. QED
      BY <2>1, <3>1
  <2>3. Pow2[2 + 2] = Pow2[2] * Pow2[2]
    BY Pow2Add
  <2>4. QED
    BY <2>2, <2>3
<1>5. Size = Pow2[n] * 16 /\ Pow2[n] \in Nat \ {0}
  <2>1. Pow2[n + 4] = Pow2[n] * Pow2[4]
    <3>1. 4 \in Nat
      OBVIOUS
    <3> HIDE DEF n
    <3>2. QED
      BY <1>3, <3>1, Pow2Add
  <2>2. QED
    BY <1>2, <1>3, <1>4, <2>1, Pow2Facts
<1>6. Size \in Nat /\ Size >= 16 /\ Size = 4 * (4 * Pow2[n]) /\ 4 * Pow2[n] \in Nat
  BY <1>5
<1>7. Xlen - 1 \in Nat /\ (Xlen - 1) + 1 = Xlen
  BY <1>1
<1>8. Size = 2 * Pow2[Xlen - 1] /\ Pow2[Xlen - 1] \in Nat
  BY <1>2, <1>7, Pow2Facts
<1>9. Size \div 2 = Pow2[Xlen - 1]
  BY <1>8
<1>10. QED
  BY <1>1, <1>2, <1>6, <1>7, <1>8, <1>9

(* The ranges of one, two, three and four bytes *)
LEMMA SpanFacts ==
  /\ Span(0) = 1 /\ Span(1) = ByteSize /\ ByteSize \in Nat /\ ByteSize >= 2
  /\ Span(2) = ByteSize * ByteSize /\ Span(3) = ByteSize * Span(2)
  /\ Span(4) = Size /\ Size = Span(2) * Span(2)
  /\ Span(2) \in Nat \ {0} /\ Span(3) \in Nat \ {0}
<1>1. ByteBits \in Nat \ {0}
  BY ByteBitsAssumption
<1>2. Span(1) = ByteSize /\ Span(4) = Size
  BY DEF ByteSize, Size
<1>3. ByteSize = Pow2[ByteBits] /\ ByteSize \in Nat /\ ByteSize >= 2
  <2>1. 1 * ByteBits = ByteBits
    BY <1>1
  <2>2. ByteSize = Pow2[ByteBits]
    BY <2>1 DEF ByteSize, Span
  <2>3. ByteBits < Pow2[ByteBits] /\ Pow2[ByteBits] \in Nat
    BY <1>1, Pow2Grows, Pow2Facts
  <2>4. QED
    BY <1>1, <2>2, <2>3
<1>4. Span(0) = 1
  <2>1. 0 * ByteBits = 0
    BY <1>1
  <2>2. QED
    BY <2>1, Pow2Facts DEF Span
<1>5. \A m, n \in Nat : Span(m + n) = Span(m) * Span(n)
  <2>1. ASSUME NEW m \in Nat, NEW n \in Nat
        PROVE  Span(m + n) = Span(m) * Span(n)
    <3>1. m * ByteBits \in Nat /\ n * ByteBits \in Nat
          /\ (m + n) * ByteBits = m * ByteBits + n * ByteBits
      BY <1>1
    <3>2. Pow2[m * ByteBits + n * ByteBits] = Pow2[m * ByteBits] * Pow2[n * ByteBits]
      BY <3>1, Pow2Add
    <3>3. QED
      BY <3>1, <3>2 DEF Span
  <2>2. QED
    BY <2>1
<1>6. Span(1 + 1) = Span(1) * Span(1) /\ Span(1 + 2) = Span(1) * Span(2) /\ Span(2 + 2) = Span(2) * Span(2)
  BY <1>5
<1>7. Span(2) = ByteSize * ByteSize /\ Span(3) = ByteSize * Span(2) /\ Size = Span(2) * Span(2)
  BY <1>2, <1>6
<1>8. Span(2) \in Nat \ {0}
  BY <1>3, <1>7
<1>9. Span(3) \in Nat \ {0}
  BY <1>3, <1>7, <1>8
<1>10. QED
  BY <1>2, <1>3, <1>4, <1>7, <1>8, <1>9

(* A bit is 0 or 1. *)
LEMMA BitType ==
  ASSUME NEW x \in Int, NEW j \in Nat
  PROVE  Bit(x, j) \in {0, 1}
<1>1. Pow2[j] \in Nat \ {0}
  BY Pow2Facts
<1>2. x \div Pow2[j] \in Int
  BY <1>1, DivisionParts
<1>3. \A d \in Int : (d % 2) \in {0, 1}
  OBVIOUS
<1>4. QED
  BY <1>2, <1>3, Zenon DEF Bit

(* Multiples of a higher power of two leave the bits below alone. *)
LEMMA LowerBits ==
  ASSUME NEW x \in Int, NEW q \in Int, NEW m \in Nat, NEW j \in 0 .. m - 1
  PROVE  Bit(x + q * Pow2[m], j) = Bit(x, j)
<1> DEFINE p == Pow2[m - (j + 1)]
<1>1. m - (j + 1) \in Nat /\ j + 1 \in Nat /\ j \in Nat /\ (m - (j + 1)) + (j + 1) = m
  OBVIOUS
<1>2. p \in Nat /\ Pow2[j] \in Nat \ {0} /\ Pow2[m] = p * (2 * Pow2[j])
  <2>1. Pow2[(m - (j + 1)) + (j + 1)] = p * Pow2[j + 1]
    BY <1>1, Pow2Add
  <2>2. p \in Nat /\ Pow2[j] \in Nat \ {0} /\ Pow2[j + 1] = 2 * Pow2[j]
    BY <1>1, Pow2Facts
  <2>3. QED
    BY <1>1, <2>1, <2>2
<1> HIDE DEF p
<1>3. q * Pow2[m] = (q * p) * (2 * Pow2[j]) /\ q * p \in Int
  BY <1>2
<1> DEFINE y == x + q * Pow2[m]
<1>4. y = x + (q * p) * (2 * Pow2[j])
  BY <1>3
<1>5. ((y \div Pow2[j]) % 2) = ((x \div Pow2[j]) % 2)
  <2> DEFINE k == q * p
             d == Pow2[j]
  <2>1. k \in Int /\ d \in Nat \ {0} /\ y = x + k * (2 * d)
    BY <1>2, <1>3, <1>4
  <2> HIDE DEF k, d, y
  <2>2. (((x + k * (2 * d)) \div d) % 2) = ((x \div d) % 2)
    BY <2>1, HigherBits
  <2>3. QED
    BY <2>1, <2>2 DEF d
<1> HIDE DEF y
<1>6. Bit(y, j) = Bit(x, j)
  BY <1>5 DEF Bit
<1>7. QED
  BY <1>6 DEF y

(* One bit more on top. *)
LEMMA TopBit ==
  ASSUME NEW m \in Nat, NEW x \in 0 .. Pow2[m] - 1, NEW b \in {0, 1}
  PROVE  LET y == x + b * Pow2[m] IN
         /\ y \in 0 .. Pow2[m + 1] - 1
         /\ Bit(y, m) = b
         /\ \A j \in 0 .. m - 1 : Bit(y, j) = Bit(x, j)
<1> DEFINE p == Pow2[m]
           y == x + b * p
<1>1. p \in Nat \ {0} /\ Pow2[m + 1] = 2 * p /\ x \in 0 .. p - 1
  BY Pow2Facts
<1>2. \A j \in 0 .. m - 1 : Bit(y, j) = Bit(x, j)
  <2>1. x \in Int /\ b \in Int
    BY <1>1
  <2>2. QED
    BY <2>1, LowerBits
<1> HIDE DEF p
<1>3. y \in 0 .. Pow2[m + 1] - 1
  BY <1>1
<1>4. y \div p = b
  BY <1>1
<1>5. Bit(y, m) = b
  <2>1. y \div Pow2[m] = b
    BY <1>4 DEF p
  <2>2. (b % 2) = b
    OBVIOUS
  <2> HIDE DEF y
  <2>3. QED
    BY <2>1, <2>2 DEF Bit
<1>6. QED
  BY <1>2, <1>3, <1>5 DEF p

(* OfBits makes the word that has exactly these bits. *)
LEMMA SetOfBits ==
  ASSUME NEW S \in SUBSET (0 .. Xlen - 1)
  PROVE  /\ OfBits[S] \in Word
         /\ \A j \in 0 .. Xlen - 1 : Bit(OfBits[S], j) = Flag(j \in S)
<1> DEFINE f == [k \in 0 .. Xlen - 1 |-> IF k \in S THEN Pow2[k] ELSE 0]
<1>1. f \in [0 .. Xlen - 1 -> Nat] /\ Xlen \in Nat
  BY Pow2Facts, SizeFacts
<1>2. OfBits[S] = Total(f, Xlen)
  BY DEF OfBits
<1>3. \A k \in 0 .. Xlen - 1 : f[k] = Flag(k \in S) * Pow2[k]
  BY Pow2Facts DEF Flag
<1> HIDE DEF f
<1>4. PICK t : Sums(t, f, Xlen) /\ Total(f, Xlen) = t[Xlen]
  BY <1>1, TotalFacts
<1> DEFINE Good(m) == /\ t[m] \in 0 .. Pow2[m] - 1
                      /\ \A j \in 0 .. m - 1 : Bit(t[m], j) = Flag(j \in S)
           T == {m \in Nat : m <= Xlen => Good(m)}
<1>5. 0 \in T
  <2>1. t[0] = 0 /\ Pow2[0] = 1
    BY <1>4, Pow2Facts DEF Sums
  <2>2. t[0] \in 0 .. Pow2[0] - 1 /\ 0 .. 0 - 1 = {}
    BY <2>1
  <2>3. QED
    BY <2>2
<1>6. ASSUME NEW m \in Nat, m \in T
      PROVE  m + 1 \in T
  <2>1. SUFFICES ASSUME m + 1 <= Xlen
                 PROVE  Good(m + 1)
    OBVIOUS
  <2>2. m \in 0 .. Xlen - 1 /\ m <= Xlen
    BY <1>1, <2>1
  <2>3. t[m + 1] = t[m] + Flag(m \in S) * Pow2[m]
    BY <1>3, <1>4, <2>2 DEF Sums
  <2>4. Good(m)
    BY <1>6, <2>2
  <2>5. Flag(m \in S) \in {0, 1}
    BY DEF Flag
  <2>6. /\ t[m + 1] \in 0 .. Pow2[m + 1] - 1
        /\ Bit(t[m + 1], m) = Flag(m \in S)
        /\ \A j \in 0 .. m - 1 : Bit(t[m + 1], j) = Bit(t[m], j)
    BY <2>3, <2>4, <2>5, TopBit
  <2>7. ASSUME NEW j \in 0 .. (m + 1) - 1
        PROVE  Bit(t[m + 1], j) = Flag(j \in S)
    <3>1. j \in 0 .. m - 1 \/ j = m
      OBVIOUS
    <3>2. QED
      BY <2>4, <2>6, <3>1
  <2>8. QED
    BY <2>6, <2>7
<1> HIDE DEF T, Good
<1>7. Nat \subseteq T
  BY <1>5, <1>6, Induction
<1>8. Good(Xlen)
  BY <1>1, <1>7 DEF T
<1>9. QED
  BY <1>2, <1>4, <1>8, SizeFacts DEF Good, Word

(* Wrap makes a word of n, by a multiple of Size. *)
LEMMA WrapType ==
  ASSUME NEW n \in Int
  PROVE  /\ Wrap(n) \in Word
         /\ \E q \in Int : n = q * Size + Wrap(n)
<1>1. Size \in Nat \ {0}
  BY SizeFacts
<1>2. /\ n \div Size \in Int /\ (n % Size) \in 0 .. Size - 1
      /\ n = (n \div Size) * Size + (n % Size)
  BY <1>1, DivisionParts
<1>3. QED
  BY <1>2 DEF Wrap, Word

(* Wrap makes the one word that differs from n in a multiple of Size. *)
LEMMA WrapIsUnique ==
  ASSUME NEW r \in Word, NEW q \in Int
  PROVE  Wrap(q * Size + r) = r
<1>1. Size \in Nat \ {0}
  BY SizeFacts
<1>2. r \in 0 .. Size - 1
  BY DEF Word
<1>3. ((q * Size + r) % Size) = r
  BY <1>1, <1>2, DivisionIsUnique
<1>4. QED
  BY <1>3 DEF Wrap

(* Wrap leaves words alone. *)
LEMMA WrapWord ==
  ASSUME NEW r \in Word
  PROVE  Wrap(r) = r
<1>1. Size \in Nat \ {0}
  BY SizeFacts
<1>2. QED
  BY <1>1 DEF Wrap, Word

(* The signed number of a word, and its range *)
LEMMA SignedFacts ==
  ASSUME NEW a \in Word
  PROVE  /\ Signed(a) \in -(Size \div 2) .. (Size \div 2) - 1
         /\ \/ Signed(a) = a /\ a < Size \div 2
            \/ Signed(a) = a - Size /\ a >= Size \div 2
<1> DEFINE half == Size \div 2
<1>1. half \in Nat /\ Size = 2 * half /\ Size \in Nat
  BY SizeFacts
<1>2. a \in 0 .. Size - 1
  BY DEF Word
<1>3. Signed(a) = IF a < half THEN a ELSE a - Size
  BY DEF Signed
<1> HIDE DEF half
<1>4. /\ Signed(a) \in -half .. half - 1
      /\ \/ Signed(a) = a /\ a < half
         \/ Signed(a) = a - Size /\ a >= half
  BY <1>1, <1>2, <1>3
<1>5. QED
  BY <1>4 DEF half

(* What comparisons make is a word. *)
LEMMA FlagType ==
  ASSUME NEW p
  PROVE  Flag(p) \in {0, 1} /\ Flag(p) \in Word
<1>1. Size \in Nat /\ Size >= 16
  BY SizeFacts
<1>2. QED
  BY <1>1 DEF Flag, Word

(* Division that truncates: the remainder has the sign of the dividend. *)
LEMMA QuotientFacts ==
  ASSUME NEW m \in Int, NEW n \in Int, n # 0
  PROVE  /\ Quotient(m, n) \in Int
         /\ Remains(m - n * Quotient(m, n), m, n)
         /\ Abs(Quotient(m, n)) <= Abs(m)
<1> DEFINE k == Abs(m)
           l == Abs(n)
           q == k \div l
           r == k % l
<1>1. k \in Nat /\ l \in Nat \ {0}
  BY DEF Abs
<1>2. q \in Int /\ r \in 0 .. l - 1 /\ k = q * l + r
  <2> HIDE DEF k, l
  <2> QED BY <1>1, DivisionParts
<1>3. q >= 0 /\ q <= k
  <2> HIDE DEF k, l
  <2> QED BY <1>1
<1>4. Quotient(m, n) = IF (m < 0) = (n < 0) THEN q ELSE -q
  BY DEF Quotient
<1>5. m = (IF m < 0 THEN -k ELSE k) /\ n = (IF n < 0 THEN -l ELSE l)
  BY DEF Abs
<1> HIDE DEF k, l, q, r
<1>6. m - n * Quotient(m, n) = IF m < 0 THEN -r ELSE r
  <2>1. CASE m < 0 /\ n < 0
    <3>1. m = -k /\ n = -l /\ Quotient(m, n) = q
      BY <1>4, <1>5, <2>1
    <3>2. (-l) * q = -(q * l)
      BY <1>1, <1>2
    <3>3. QED
      BY <1>1, <1>2, <2>1, <3>1, <3>2
  <2>2. CASE m < 0 /\ ~(n < 0)
    <3>1. m = -k /\ n = l /\ Quotient(m, n) = -q
      BY <1>4, <1>5, <2>2
    <3>2. l * (-q) = -(q * l)
      BY <1>1, <1>2
    <3>3. QED
      BY <1>1, <1>2, <2>2, <3>1, <3>2
  <2>3. CASE ~(m < 0) /\ n < 0
    <3>1. m = k /\ n = -l /\ Quotient(m, n) = -q
      BY <1>4, <1>5, <2>3
    <3>2. (-l) * (-q) = q * l
      BY <1>1, <1>2
    <3>3. QED
      BY <1>1, <1>2, <2>3, <3>1, <3>2
  <2>4. CASE ~(m < 0) /\ ~(n < 0)
    <3>1. m = k /\ n = l /\ Quotient(m, n) = q
      BY <1>4, <1>5, <2>4
    <3>2. l * q = q * l
      BY <1>1, <1>2
    <3>3. QED
      BY <1>1, <1>2, <2>4, <3>1, <3>2
  <2>5. QED
    BY <2>1, <2>2, <2>3, <2>4
<1>7. Quotient(m, n) \in Int
  BY <1>2, <1>4
<1>8. Abs(Quotient(m, n)) <= Abs(m)
  BY <1>1, <1>2, <1>3, <1>4 DEF Abs, k
<1>9. Remains(m - n * Quotient(m, n), m, n)
  <2> DEFINE rest == m - n * Quotient(m, n)
  <2>1. rest = IF m < 0 THEN -r ELSE r
    BY <1>6
  <2>2. r \in Nat /\ r < l /\ l = Abs(n)
    BY <1>1, <1>2 DEF l
  <2> HIDE DEF rest
  <2>3. Abs(rest) < Abs(n) /\ (rest = 0 \/ (rest < 0 <=> m < 0))
    BY <2>1, <2>2 DEF Abs
  <2>4. QED
    BY <2>3 DEF Remains, rest
<1>10. QED
  BY <1>7, <1>8, <1>9

(* The upper half of an unsigned product is a word. *)
LEMMA ProductBelow ==
  ASSUME NEW a \in Word, NEW b \in Word
  PROVE  /\ a * b \in Nat /\ (a * b) \div Size \in Word
<1>1. Size \in Nat \ {0}
  BY SizeFacts
<1>2. a \in 0 .. Size - 1 /\ b \in 0 .. Size - 1
  BY DEF Word
<1>3. a * b \in Nat /\ a * b <= (Size - 1) * (Size - 1)
  BY <1>1, <1>2
<1> DEFINE x == a * b
<1>4. x < Size * Size
  BY <1>1, <1>3
<1> HIDE DEF x
<1>5. x \in Nat
  BY <1>3 DEF x
<1>6. x \div Size >= 0 /\ x \div Size < Size /\ x \div Size \in Int
  BY <1>1, <1>4, <1>5
<1>7. QED
  BY <1>1, <1>3, <1>6 DEF x, Word

(* A shift is by less than a word has bits. *)
LEMMA AmountType ==
  ASSUME NEW b \in Word
  PROVE  /\ Amount(b) \in 0 .. Xlen - 1 /\ Amount(b) \in Nat
         /\ Pow2[Amount(b)] \in Nat \ {0}
<1>1. b \in Int /\ Xlen \in Nat \ {0}
  BY SizeFacts DEF Word
<1>2. (b % Xlen) \in 0 .. Xlen - 1
  BY <1>1, DivisionParts
<1>3. (b % Xlen) \in Nat
  BY <1>1, <1>2
<1>4. QED
  BY <1>2, <1>3, Pow2Facts DEF Amount

(* Every operation makes a word of two words. *)
LEMMA AluType ==
  ASSUME NEW op \in RegOps, NEW a \in Word, NEW b \in Word
  PROVE  Alu(op, a, b) \in Word
<1>1. Size \in Nat /\ Size >= 16 /\ Word = 0 .. Size - 1 /\ Xlen \in Nat /\ Xlen >= 4
  BY SizeFacts DEF Word
<1>2. Signed(a) \in Int /\ Signed(b) \in Int /\ a \in Int /\ b \in Int
      /\ (b # 0 => Signed(b) # 0)
  BY <1>1, SignedFacts, SizeFacts
<1>3. Amount(b) \in Nat /\ Pow2[Amount(b)] \in Nat \ {0}
  BY AmountType
<1>4. \A n \in Int : Wrap(n) \in Word
  BY WrapType
<1>5. CASE op \in {"add", "sub", "mul"}
  <2>1. a + b \in Int /\ a - b \in Int /\ a * b \in Int
    BY <1>2
  <2>2. QED
    BY <1>4, <1>5, <2>1 DEF Alu
<1>6. CASE op \in {"slt", "sltu"}
  BY <1>6, FlagType DEF Alu
<1>7. CASE op \in {"and", "or", "xor"}
  <2>1. /\ Bits[a] \in SUBSET (0 .. Xlen - 1) /\ Bits[b] \in SUBSET (0 .. Xlen - 1)
    BY DEF Bits
  <2>2. /\ Bits[a] \cap Bits[b] \in SUBSET (0 .. Xlen - 1)
        /\ Bits[a] \cup Bits[b] \in SUBSET (0 .. Xlen - 1)
        /\ (Bits[a] \ Bits[b]) \cup (Bits[b] \ Bits[a]) \in SUBSET (0 .. Xlen - 1)
    BY <2>1, Zenon
  <2>3. \A S \in SUBSET (0 .. Xlen - 1) : OfBits[S] \in Word
    BY SetOfBits
  <2>4. QED
    BY <1>7, <2>2, <2>3 DEF Alu
<1>8. CASE op = "sll"
  <2>1. a * Pow2[Amount(b)] \in Int
    BY <1>2, <1>3
  <2>2. QED
    BY <1>4, <1>8, <2>1 DEF Alu
<1>9. CASE op = "srl"
  <2> DEFINE p == Pow2[Amount(b)]
  <2>1. p \in Nat \ {0}
    BY <1>3
  <2> HIDE DEF p
  <2>2. a \div p \in Word
    BY <1>1, <2>1
  <2>3. QED
    BY <1>9, <2>2 DEF Alu, p
<1>10. CASE op = "sra"
  <2>1. Signed(a) \div Pow2[Amount(b)] \in Int
    BY <1>2, <1>3, DivisionParts
  <2>2. QED
    BY <1>4, <1>10, <2>1 DEF Alu
<1>11. CASE op \in {"mulh", "mulhsu"}
  <2>1. Signed(a) * Signed(b) \in Int /\ Signed(a) * b \in Int /\ Size \in Nat \ {0}
    BY <1>1, <1>2
  <2>2. (Signed(a) * Signed(b)) \div Size \in Int /\ (Signed(a) * b) \div Size \in Int
    BY <2>1, DivisionParts
  <2>3. QED
    BY <1>4, <1>11, <2>2 DEF Alu
<1>12. CASE op = "mulhu"
  BY <1>12, ProductBelow DEF Alu
<1>13. Size - 1 \in Word
  BY <1>1
<1>14. CASE op = "div"
  <2>1. CASE b = 0
    BY <1>13, <1>14, <2>1 DEF Alu
  <2>2. CASE b # 0
    <3>1. Quotient(Signed(a), Signed(b)) \in Int
      BY <1>2, <2>2, QuotientFacts
    <3>2. QED
      BY <1>4, <1>14, <2>2, <3>1 DEF Alu
  <2>3. QED
    BY <2>1, <2>2
<1>15. CASE op = "rem"
  <2>1. CASE b = 0
    BY <1>15, <2>1 DEF Alu
  <2>2. CASE b # 0
    <3>1. Quotient(Signed(a), Signed(b)) \in Int
      BY <1>2, <2>2, QuotientFacts
    <3>2. Signed(a) - Signed(b) * Quotient(Signed(a), Signed(b)) \in Int
      BY <1>2, <3>1
    <3>3. QED
      BY <1>4, <1>15, <2>2, <3>2 DEF Alu
  <2>3. QED
    BY <2>1, <2>2
<1>16. CASE op = "divu"
  <2>1. b # 0 => a \div b \in Word
    BY <1>1
  <2>2. QED
    BY <1>13, <1>16, <2>1 DEF Alu
<1>17. CASE op = "remu"
  <2>1. b # 0 => (a % b) \in Word
    BY <1>1
  <2>2. QED
    BY <1>17, <2>1 DEF Alu
<1>18. QED
  BY <1>5, <1>6, <1>7, <1>8, <1>9, <1>10, <1>11, <1>12, <1>14, <1>15, <1>16, <1>17 DEF RegOps


-----------------------------------------------------------------------------
(* Bytes in memory *)

(* The totals of one, two and four terms *)
LEMMA TotalTerms ==
  ASSUME NEW n \in {1, 2, 4}, NEW f \in [0 .. n - 1 -> Nat]
  PROVE  Total(f, n) = IF n = 1 THEN f[0] ELSE IF n = 2 THEN f[0] + f[1]
                       ELSE f[0] + f[1] + f[2] + f[3]
<1>1. n \in Nat
  OBVIOUS
<1>2. PICK t : Sums(t, f, n) /\ Total(f, n) = t[n]
  BY <1>1, TotalFacts
<1>3. t[0] = 0 /\ \A k \in 0 .. n - 1 : t[k + 1] = t[k] + f[k]
  BY <1>2 DEF Sums
<1>4. f[0] \in Nat /\ t[1] = f[0]
  <2>1. 0 \in 0 .. n - 1 /\ 0 + 1 = 1
    OBVIOUS
  <2>2. t[0 + 1] = t[0] + f[0]
    BY <1>3, <2>1
  <2>3. QED
    BY <1>3, <2>1, <2>2
<1>5. CASE n = 1
  BY <1>2, <1>4, <1>5
<1>6. ASSUME n # 1
      PROVE  f[1] \in Nat /\ t[2] = f[0] + f[1]
  <2>1. 1 \in 0 .. n - 1 /\ 1 + 1 = 2
    BY <1>6
  <2>2. t[1 + 1] = t[1] + f[1]
    BY <1>3, <2>1
  <2>3. QED
    BY <1>4, <2>1, <2>2
<1>7. CASE n = 2
  BY <1>2, <1>6, <1>7
<1>8. CASE n = 4
  <2>1. 2 \in 0 .. n - 1 /\ 2 + 1 = 3 /\ 3 \in 0 .. n - 1 /\ 3 + 1 = 4
    BY <1>8
  <2>2. t[2 + 1] = t[2] + f[2] /\ t[3 + 1] = t[3] + f[3]
    BY <1>3, <2>1
  <2>3. t[4] = f[0] + f[1] + f[2] + f[3]
    BY <1>6, <1>8, <2>1, <2>2
  <2>4. QED
    BY <1>2, <1>8, <2>3
<1>9. QED
  BY <1>5, <1>7, <1>8

(* The digit of rank i of a value of n bytes at a *)
Digit(s, a, n, i) == s.mem[IF s.big THEN a + n - 1 - i ELSE a + i]

(* What a value of n bytes is, as a number: digits in base ByteSize *)
Number(s, a, n) ==
  LET D(i) == Digit(s, a, n, i)
  IN IF n = 1 THEN D(0) ELSE IF n = 2 THEN D(0) + D(1) * ByteSize
     ELSE D(0) + D(1) * ByteSize + D(2) * Span(2) + D(3) * Span(3)

(* The addresses of an access that the bus accepts are words. *)
Within(a, n) == a \in Word /\ a .. a + n - 1 \subseteq Word

(* The bus accepts no access beyond the last address, and no write where it refuses to read. *)
LEMMA RefusedWithin ==
  ASSUME NEW a \in Word, NEW n \in {1, 2, 4}, NEW type, Refused(a, n, type) = "none"
  PROVE  Within(a, n) /\ Refused(a, n, "read") = "none"
<1>1. \A c \in a .. a + n - 1 : c \in Word /\ Region[c] = Region[a]
  BY DEF Refused
<1>2. Refused(a, n, "read") = "none"
  BY DEF Refused
<1>3. QED
  BY <1>1, <1>2 DEF Within

(* The digits are bytes. *)
LEMMA DigitType ==
  ASSUME NEW s \in Harts, NEW a, NEW n \in {1, 2, 4}, Within(a, n), NEW i \in 0 .. n - 1
  PROVE  Digit(s, a, n, i) \in Byte
<1>1. a \in Int
  BY DEF Within, Word
<1>2. a + n - 1 - i \in a .. a + n - 1 /\ a + i \in a .. a + n - 1
  BY <1>1
<1>3. a + n - 1 - i \in Word /\ a + i \in Word
  BY <1>2 DEF Within
<1>4. s.mem \in [Word -> Byte]
  BY DEF Harts
<1>5. QED
  BY <1>3, <1>4 DEF Digit

(* Get adds up the digits of the value, whatever the endianness. *)
LEMMA GetNumber ==
  ASSUME NEW s \in Harts, NEW a, NEW n \in {1, 2, 4}, Within(a, n)
  PROVE  Get(s, a, n) = Number(s, a, n)
<1> DEFINE f == [i \in 0 .. n - 1 |-> s.mem[a + i] * Weight(s, a, n, a + i)]
           D(i) == Digit(s, a, n, i)
<1>1. a \in Int
  BY DEF Within, Word
<1>2. \A i \in 0 .. n - 1 : D(i) \in Byte
  BY DigitType
<1>3. \A i \in {0, 1, 2, 3} : Span(i) \in Nat
  BY SpanFacts
<1>4. Byte \subseteq Nat
  BY SpanFacts DEF Byte
<1>5. ASSUME NEW i \in 0 .. n - 1
      PROVE  f[i] = IF s.big THEN D(n - 1 - i) * Span(n - 1 - i) ELSE D(i) * Span(i)
  <2>1. CASE s.big
    <3>1. a + n - 1 - (n - 1 - i) = a + i /\ a + n - 1 - (a + i) = n - 1 - i
      BY <1>1
    <3>2. D(n - 1 - i) = s.mem[a + i]
      BY <2>1, <3>1 DEF Digit
    <3>3. Weight(s, a, n, a + i) = Span(n - 1 - i)
      BY <2>1, <3>1 DEF Weight
    <3>4. QED
      BY <2>1, <3>2, <3>3
  <2>2. CASE ~s.big
    <3>1. (a + i) - a = i
      BY <1>1
    <3>2. Weight(s, a, n, a + i) = Span(i)
      BY <2>2, <3>1 DEF Weight
    <3>3. D(i) = s.mem[a + i]
      BY <2>2 DEF Digit
    <3>4. QED
      BY <2>2, <3>2, <3>3
  <2>3. QED
    BY <2>1, <2>2
<1>6. Get(s, a, n) = Total(f, n)
  BY DEF Get
<1>7. DOMAIN f = 0 .. n - 1 /\ f = [i \in 0 .. n - 1 |-> f[i]]
  OBVIOUS
<1> HIDE DEF f
<1>8. f \in [0 .. n - 1 -> Nat]
  <2>1. ASSUME NEW i \in 0 .. n - 1
        PROVE  f[i] \in Nat
    <3>1. i \in {0, 1, 2, 3} /\ n - 1 - i \in {0, 1, 2, 3} /\ n - 1 - i \in 0 .. n - 1
      OBVIOUS
    <3>2. D(i) \in Nat /\ D(n - 1 - i) \in Nat
      BY <1>2, <1>4, <3>1
    <3>3. Span(i) \in Nat /\ Span(n - 1 - i) \in Nat
      BY <1>3, <3>1
    <3>4. D(i) * Span(i) \in Nat /\ D(n - 1 - i) * Span(n - 1 - i) \in Nat
      <4> DEFINE d == D(i) p == Span(i) e == D(n - 1 - i) q == Span(n - 1 - i)
      <4>1. d \in Nat /\ e \in Nat /\ p \in Nat /\ q \in Nat
        BY <3>2, <3>3
      <4> HIDE DEF d, e, p, q
      <4>2. d * p \in Nat /\ e * q \in Nat
        BY <4>1
      <4>3. QED
        BY <4>2 DEF d, e, p, q
    <3>5. QED
      BY <1>5, <3>4
  <2>2. QED
    BY <1>7, <2>1
<1>9. Span(0) = 1 /\ Span(1) = ByteSize /\ ByteSize \in Nat /\ Span(2) \in Nat /\ Span(3) \in Nat
  BY SpanFacts
<1> HIDE DEF D
<1>10. CASE n = 1
  <2>1. Total(f, n) = f[0] /\ 0 \in 0 .. n - 1 /\ n - 1 - 0 = 0
    BY <1>8, <1>10, TotalTerms
  <2>2. f[0] = D(0) * 1 /\ D(0) \in Nat
    BY <1>2, <1>4, <1>5, <1>9, <2>1
  <2>3. QED
    BY <1>6, <1>10, <2>1, <2>2 DEF Number, D
<1>11. CASE n = 2
  <2>1. Total(f, n) = f[0] + f[1] /\ 0 \in 0 .. n - 1 /\ 1 \in 0 .. n - 1
        /\ n - 1 - 0 = 1 /\ n - 1 - 1 = 0
    BY <1>8, <1>11, TotalTerms
  <2>2. D(0) \in Nat /\ D(1) \in Nat
    BY <1>2, <1>4, <2>1
  <2>3. f[0] = IF s.big THEN D(1) * ByteSize ELSE D(0) * 1
    BY <1>5, <1>9, <2>1
  <2>4. f[1] = IF s.big THEN D(0) * 1 ELSE D(1) * ByteSize
    BY <1>5, <1>9, <2>1
  <2> DEFINE p == D(1) * ByteSize
  <2>5. p \in Nat /\ D(0) * 1 = D(0)
    BY <1>9, <2>2
  <2> HIDE DEF p
  <2>6. f[0] + f[1] = D(0) + p
    BY <2>2, <2>3, <2>4, <2>5 DEF p
  <2>7. QED
    BY <1>6, <1>11, <2>1, <2>6 DEF Number, D, p
<1>12. CASE n = 4
  <2>1. Total(f, n) = f[0] + f[1] + f[2] + f[3] /\ {0, 1, 2, 3} = 0 .. n - 1
        /\ n - 1 - 0 = 3 /\ n - 1 - 1 = 2 /\ n - 1 - 2 = 1 /\ n - 1 - 3 = 0
    BY <1>8, <1>12, TotalTerms
  <2>2. D(0) \in Nat /\ D(1) \in Nat /\ D(2) \in Nat /\ D(3) \in Nat
    BY <1>2, <1>4, <2>1
  <2> DEFINE p == D(1) * ByteSize
             q == D(2) * Span(2)
             u == D(3) * Span(3)
  <2>3. /\ f[0] = IF s.big THEN u ELSE D(0) * 1
        /\ f[1] = IF s.big THEN q ELSE p
        /\ f[2] = IF s.big THEN p ELSE q
        /\ f[3] = IF s.big THEN D(0) * 1 ELSE u
    BY <1>5, <1>9, <2>1
  <2>4. p \in Nat /\ q \in Nat /\ u \in Nat /\ D(0) * 1 = D(0)
    BY <1>9, <2>2
  <2> HIDE DEF p, q, u
  <2>5. f[0] + f[1] + f[2] + f[3] = D(0) + p + q + u
    BY <2>2, <2>3, <2>4
  <2>6. QED
    BY <1>6, <1>12, <2>1, <2>5 DEF Number, D, p, q, u
<1>13. QED
  BY <1>10, <1>11, <1>12

(* A value of n bytes is below Span(n). *)
LEMMA GetType ==
  ASSUME NEW s \in Harts, NEW a, NEW n \in {1, 2, 4}, Within(a, n)
  PROVE  Get(s, a, n) \in 0 .. Span(n) - 1 /\ Get(s, a, n) \in Word
<1> DEFINE D(i) == Digit(s, a, n, i)
           B == ByteSize
           T == Span(2)
<1>1. Get(s, a, n) = Number(s, a, n)
  BY GetNumber
<1>2. \A i \in 0 .. n - 1 : D(i) \in 0 .. B - 1
  BY DigitType DEF Byte
<1>3. /\ B \in Nat /\ B >= 2 /\ T \in Nat \ {0} /\ T = B * B /\ Span(1) = B
      /\ Span(3) = B * T /\ Span(4) = T * T /\ Size = T * T
  BY SpanFacts
<1> HIDE DEF D, B, T
<1>4. CASE n = 1
  <2>1. Get(s, a, n) = D(0) /\ D(0) \in 0 .. B - 1
    BY <1>1, <1>2, <1>4 DEF Number, D
  <2>2. B - 1 <= T * T - 1
    BY <1>3
  <2>3. QED
    BY <1>3, <1>4, <2>1, <2>2 DEF Word
<1>5. CASE n = 2
  <2>1. Get(s, a, n) = D(0) + D(1) * B /\ D(0) \in 0 .. B - 1 /\ D(1) \in 0 .. B - 1
    BY <1>1, <1>2, <1>5 DEF Number, D, B
  <2> DEFINE p == D(1) * B
  <2>2. p \in Nat /\ p <= (B - 1) * B
    BY <1>3, <2>1
  <2>3. (B - 1) * B = T - B
    BY <1>3
  <2>4. D(0) + p \in 0 .. T - 1
    <3> HIDE DEF p
    <3> QED BY <1>3, <2>1, <2>2, <2>3
  <2>5. T - 1 <= T * T - 1
    BY <1>3
  <2> HIDE DEF p
  <2>6. D(0) + p \in 0 .. T * T - 1
    BY <1>3, <2>4, <2>5
  <2>7. QED
    BY <1>3, <1>5, <2>1, <2>4, <2>6 DEF Word, T, p
<1>6. CASE n = 4
  <2>1. /\ Get(s, a, n) = D(0) + D(1) * B + D(2) * T + D(3) * (B * T)
        /\ D(0) \in 0 .. B - 1 /\ D(1) \in 0 .. B - 1 /\ D(2) \in 0 .. B - 1 /\ D(3) \in 0 .. B - 1
    BY <1>1, <1>2, <1>3, <1>6 DEF Number, D, B, T
  <2> DEFINE p == D(1) * B
             q == D(2) * T
             u == D(3) * (B * T)
  <2>2. p \in Nat /\ p <= T - B
    <3>1. p \in Nat /\ p <= (B - 1) * B
      BY <1>3, <2>1
    <3>2. (B - 1) * B = T - B
      BY <1>3
    <3> HIDE DEF p
    <3>3. QED
      BY <3>1, <3>2
  <2>3. q \in Nat /\ q <= B * T - T
    <3>1. q \in Nat /\ q <= (B - 1) * T
      BY <1>3, <2>1
    <3>2. (B - 1) * T = B * T - T
      BY <1>3
    <3> HIDE DEF q
    <3>3. QED
      BY <3>1, <3>2
  <2>4. u \in Nat /\ u <= T * T - B * T
    <3>1. B * T \in Nat
      BY <1>3
    <3>2. u \in Nat /\ u <= (B - 1) * (B * T)
      BY <2>1, <3>1, <1>3
    <3>3. (B - 1) * (B * T) = T * T - B * T
      BY <1>3
    <3> HIDE DEF u
    <3>4. QED
      BY <3>2, <3>3
  <2> HIDE DEF p, q, u
  <2>5. B * T \in Nat /\ T * T \in Nat
    BY <1>3
  <2>6. D(0) + p + q + u \in 0 .. T * T - 1
    BY <1>3, <2>1, <2>2, <2>3, <2>4, <2>5
  <2>7. QED
    BY <1>3, <1>6, <2>1, <2>6 DEF p, q, u, Word
<1>7. QED
  BY <1>4, <1>5, <1>6

(* A store changes the bytes of its access, to the digits of the value. *)
LEMMA PutFacts ==
  ASSUME NEW s \in Harts, NEW a, NEW n \in {1, 2, 4}, Within(a, n), NEW v \in Word
  PROVE  LET t == Put(s, a, n, v) IN
         /\ t \in Harts /\ t = [s EXCEPT !.mem = t.mem]
         /\ \A c \in Word \ (a .. a + n - 1) : t.mem[c] = s.mem[c]
         /\ \A i \in 0 .. n - 1 : Digit(t, a, n, i) = (v \div Span(i)) % ByteSize
<1> DEFINE t == Put(s, a, n, v)
<1>1. /\ s.mem \in [Word -> Byte]
      /\ s \in [x : [Registers -> Word], pc : Word, mem : [Word -> Byte], big : BOOLEAN]
  BY DEF Harts
<1>2. a \in Int /\ v \in Int
  BY SizeFacts DEF Within, Word
<1>3. t = [s EXCEPT !.mem = [c \in Word |->
             IF c \in a .. a + n - 1 THEN (v \div Weight(s, a, n, c)) % ByteSize ELSE s.mem[c]]]
  BY DEF Put
<1>4. /\ t.mem = [c \in Word |->
             IF c \in a .. a + n - 1 THEN (v \div Weight(s, a, n, c)) % ByteSize ELSE s.mem[c]]
      /\ t.x = s.x /\ t.pc = s.pc /\ t.big = s.big /\ t = [s EXCEPT !.mem = t.mem]
  BY <1>1, <1>3
<1>5. ASSUME NEW c \in a .. a + n - 1
      PROVE  (v \div Weight(s, a, n, c)) % ByteSize \in Byte
  <2> DEFINE k == IF s.big THEN a + n - 1 - c ELSE c - a
  <2>1. k \in {0, 1, 2, 3}
    BY <1>2
  <2>2. Weight(s, a, n, c) = Span(k)
    BY DEF Weight
  <2> HIDE DEF k
  <2>3. Span(k) \in Nat \ {0} /\ ByteSize \in Nat \ {0}
    BY <2>1, SpanFacts
  <2> DEFINE w == Span(k)
             B == ByteSize
  <2>4. v \div w \in Int
    BY <1>2, <2>3, DivisionParts
  <2> DEFINE d == v \div w
  <2>5. (d % B) \in 0 .. B - 1
    BY <2>3, <2>4, DivisionParts
  <2>6. QED
    BY <2>2, <2>5 DEF Byte
<1>6. t.mem \in [Word -> Byte]
  <2> DEFINE D(c) == IF c \in a .. a + n - 1 THEN (v \div Weight(s, a, n, c)) % ByteSize ELSE s.mem[c]
  <2>1. \A c \in Word : D(c) \in Byte
    <3>1. SUFFICES ASSUME NEW c \in Word
                   PROVE  D(c) \in Byte
      OBVIOUS
    <3>2. CASE c \in a .. a + n - 1
      BY <1>5, <3>2
    <3>3. CASE c \notin a .. a + n - 1
      BY <1>1, <3>3
    <3>4. QED
      BY <3>2, <3>3
  <2>2. t.mem = [c \in Word |-> D(c)]
    BY <1>4
  <2> HIDE DEF D
  <2>3. QED
    BY <2>1, <2>2
<1>7. t \in Harts
  BY <1>1, <1>4, <1>6 DEF Harts
<1>8. ASSUME NEW i \in 0 .. n - 1
      PROVE  Digit(t, a, n, i) = (v \div Span(i)) % ByteSize
  <2> DEFINE c == IF s.big THEN a + n - 1 - i ELSE a + i
  <2>1. c \in a .. a + n - 1
    BY <1>2
  <2>2. (IF s.big THEN a + n - 1 - c ELSE c - a) = i
    BY <1>2
  <2>3. Weight(s, a, n, c) = Span(i)
    BY <2>2 DEF Weight
  <2>4. Digit(t, a, n, i) = t.mem[c]
    BY <1>4 DEF Digit
  <2> HIDE DEF c
  <2>5. c \in Word
    BY <2>1 DEF Within
  <2>6. QED
    BY <1>4, <2>1, <2>3, <2>4, <2>5
<1>9. QED
  BY <1>4, <1>7, <1>8

(* Two parts of a number make a longer one. *)
LEMMA JoinDigits ==
  ASSUME NEW v \in Int, NEW m \in Nat \ {0}, NEW q \in Nat \ {0}
  PROVE  (v % m) + ((v \div m) % q) * m = (v % (m * q))
<1> DEFINE d == v \div m
           r == v % m
           e == d \div q
           k == d % q
<1>1. d \in Int /\ r \in 0 .. m - 1 /\ v = d * m + r
  BY DivisionParts
<1> HIDE DEF d, r
<1>2. e \in Int /\ k \in 0 .. q - 1 /\ d = e * q + k
  BY <1>1, DivisionParts
<1> HIDE DEF e, k
<1>3. v = e * (m * q) + (k * m + r)
  <2>1. v = (e * q + k) * m + r
    BY <1>1, <1>2
  <2>2. QED
    BY <1>1, <1>2, <2>1
<1>4. k * m + r \in 0 .. m * q - 1 /\ m * q \in Nat \ {0}
  <2>1. k * m <= (q - 1) * m /\ (q - 1) * m = m * q - m /\ k * m \in Nat /\ m * q \in Nat \ {0}
    BY <1>2
  <2> DEFINE p == k * m
             z == m * q
  <2> HIDE DEF p, z
  <2>2. p + r \in 0 .. z - 1
    BY <1>1, <2>1 DEF p, z
  <2>3. QED
    BY <2>1, <2>2 DEF p, z
<1>5. (v % (m * q)) = k * m + r
  <2> DEFINE rest == k * m + r
             z == m * q
  <2>1. rest \in 0 .. z - 1 /\ z \in Nat \ {0}
    BY <1>4
  <2> HIDE DEF rest, z
  <2>2. ((e * z + rest) % z) = rest
    BY <1>2, <2>1, DivisionIsUnique
  <2>3. QED
    BY <1>3, <2>2 DEF rest, z
<1>6. QED
  BY <1>5 DEF r, k, d

(* What was put is got back, as much as n bytes hold of it. *)
LEMMA PutGet ==
  ASSUME NEW s \in Harts, NEW a, NEW n \in {1, 2, 4}, Within(a, n), NEW v \in Word
  PROVE  Get(Put(s, a, n, v), a, n) = v % Span(n)
<1> DEFINE t == Put(s, a, n, v)
           D(i) == Digit(t, a, n, i)
           B == ByteSize
           T == Span(2)
<1>1. t \in Harts /\ \A i \in 0 .. n - 1 : D(i) = (v \div Span(i)) % B
  BY PutFacts
<1>2. Get(t, a, n) = Number(t, a, n)
  BY <1>1, GetNumber
<1>3. /\ B \in Nat /\ B >= 2 /\ T \in Nat \ {0} /\ T = B * B /\ Span(1) = B /\ Span(0) = 1
      /\ Span(3) = B * T /\ Span(4) = T * T /\ Size = T * T /\ B \in Nat \ {0}
  BY SpanFacts
<1>4. v \in Int
  BY SizeFacts DEF Word
<1> HIDE DEF t, D, B, T
<1>5. D(0) = (v % B)
  <2>1. 0 \in 0 .. n - 1 /\ v \div 1 = v
    BY <1>4
  <2>2. QED
    BY <1>1, <1>3, <2>1
<1>6. CASE n = 1
  BY <1>2, <1>3, <1>5, <1>6 DEF Number, D, t
<1>7. ASSUME n # 1
      PROVE  D(0) + D(1) * B = (v % T)
  <2>1. D(1) = ((v \div B) % B)
    BY <1>1, <1>3, <1>7
  <2>2. (v % B) + ((v \div B) % B) * B = (v % (B * B))
    BY <1>3, <1>4, JoinDigits
  <2>3. QED
    BY <1>3, <1>5, <2>1, <2>2
<1>8. CASE n = 2
  BY <1>2, <1>7, <1>8 DEF Number, D, t, B, T
<1>9. CASE n = 4
  <2>1. D(2) = ((v \div T) % B) /\ D(3) = ((v \div (B * T)) % B)
    BY <1>1, <1>3, <1>9 DEF T
  <2> DEFINE S == B * T
  <2>2. S \in Nat \ {0} /\ S = T * B /\ S * B = T * T
    BY <1>3
  <2>3. (v % T) + ((v \div T) % B) * T = (v % (T * B))
    BY <1>3, <1>4, JoinDigits
  <2> HIDE DEF S
  <2>4. (v % S) + ((v \div S) % B) * S = (v % (S * B))
    BY <1>3, <1>4, <2>2, JoinDigits
  <2>5. Get(t, a, n) = D(0) + D(1) * B + D(2) * T + D(3) * S
    BY <1>2, <1>3, <1>9 DEF Number, D, B, T, S
  <2>6. D(0) + D(1) * B + D(2) * T = (v % S)
    BY <1>7, <1>9, <2>1, <2>2, <2>3
  <2>7. D(3) = ((v \div S) % B)
    BY <2>1 DEF S
  <2>8. Get(t, a, n) = (v % (T * T))
    BY <2>2, <2>4, <2>5, <2>6, <2>7
  <2>9. QED
    BY <1>3, <1>9, <2>8 DEF t
<1>10. QED
  BY <1>6, <1>8, <1>9


-----------------------------------------------------------------------------
(* Types *)

(* TypeOK, of any hart *)
Sound(s) == s \in Harts /\ s.x[0] = 0 /\ WordAligned(s.pc)

(* Loads that extend the sign make words. *)
LEMMA ExtendType ==
  ASSUME NEW n \in {1, 2, 4}, NEW v \in 0 .. Span(n) - 1
  PROVE  Extend(v, n) \in Word /\ v \in Word
<1>1. Span(n) \in Nat /\ Span(n) <= Size /\ Size \in Nat
  <2>1. /\ Span(1) \in Nat /\ Span(1) >= 2 /\ Span(2) \in Nat /\ Span(2) = Span(1) * Span(1)
        /\ Span(4) = Size /\ Size = Span(2) * Span(2) /\ Size \in Nat
    BY SpanFacts, SizeFacts
  <2>2. Span(1) <= Span(2) /\ Span(2) <= Size
    <3> DEFINE p == Span(1)
               q == Span(2)
    <3>1. p \in Nat /\ p >= 2 /\ q \in Nat /\ q = p * p /\ Size = q * q
      BY <2>1
    <3> HIDE DEF p, q
    <3>2. p <= q
      BY <3>1
    <3>3. q <= q * q
      BY <3>1, <3>2
    <3>4. QED
      BY <3>1, <3>2, <3>3 DEF p, q
  <2>3. QED
    BY <2>1, <2>2
<1>2. v \in Word /\ v - Span(n) \in Int
  BY <1>1 DEF Word
<1>3. Wrap(v - Span(n)) \in Word
  BY <1>2, WrapType
<1>4. QED
  BY <1>2, <1>3 DEF Extend

(* Wrapping keeps the alignment of words. *)
LEMMA WrapAligned ==
  ASSUME NEW n \in Int, n % 4 = 0
  PROVE  WordAligned(Wrap(n))
<1>1. PICK q \in Int : n = q * Size + Wrap(n)
  BY WrapType
<1>2. PICK k \in Nat : Size = 4 * k
  BY SizeFacts
<1>3. Wrap(n) \in Int
  <2>1. Wrap(n) \in Word /\ Size \in Nat
    BY WrapType, SizeFacts
  <2>2. QED
    BY <2>1 DEF Word
<1>4. PICK j \in Int : n = j * 4
  <2>1. n = (n \div 4) * 4 + (n % 4) /\ n \div 4 \in Int
    OBVIOUS
  <2>2. QED
    BY <2>1
<1> DEFINE w == Wrap(n)
<1> HIDE DEF w
<1>5. w = (j - q * k) * 4 /\ j - q * k \in Int
  <2>1. q * (4 * k) = (q * k) * 4 /\ q * k \in Int
    BY <1>2
  <2>2. QED
    BY <1>1, <1>2, <1>3, <1>4, <2>1 DEF w
<1>6. (w % 4) = 0
  BY <1>5
<1>7. QED
  BY <1>6 DEF WordAligned, w

(* Setting a register to a word keeps x0 and the rest as they are. *)
LEMMA SetXSound ==
  ASSUME NEW s, Sound(s), NEW d \in Registers, NEW v \in Word
  PROVE  Sound(SetX(s, d, v))
  BY DEF Sound, SetX, Harts, WordAligned

(* The word that follows pc *)
LEMMA NextSound ==
  ASSUME NEW s, Sound(s)
  PROVE  /\ Wrap(s.pc + 4) \in Word /\ WordAligned(Wrap(s.pc + 4))
         /\ Sound(Done(s).to)
<1>1. s.pc \in Int /\ (s.pc % 4) = 0
  BY SizeFacts DEF Sound, Harts, Word, WordAligned
<1>2. s.pc + 4 \in Int /\ ((s.pc + 4) % 4) = 0
  BY <1>1
<1>3. Wrap(s.pc + 4) \in Word /\ WordAligned(Wrap(s.pc + 4))
  BY <1>2, WrapType, WrapAligned
<1>4. QED
  BY <1>3 DEF Sound, Harts, Done, Ok, WordAligned

(* Jumps check the alignment of their target. *)
LEMMA JumpSound ==
  ASSUME NEW s, Sound(s), NEW d \in Registers, NEW target \in Word
  PROVE  Sound(Jump(s, d, target).to)
<1>1. CASE WordAligned(target)
  <2> DEFINE t == [s EXCEPT !.pc = target]
  <2>1. Sound(t)
    BY <1>1 DEF Sound, Harts
  <2> HIDE DEF t
  <2>2. Sound(SetX(t, d, Wrap(s.pc + 4)))
    BY <2>1, NextSound, SetXSound
  <2>3. QED
    BY <1>1, <2>2 DEF Jump, Ok, t
<1>2. CASE ~WordAligned(target)
  BY <1>2 DEF Jump, Fail
<1>3. QED
  BY <1>1, <1>2

(* So do branches that are taken. *)
LEMMA BranchSound ==
  ASSUME NEW s, Sound(s), NEW op, NEW at, NEW imm \in Int
  PROVE  Sound(Branch(s, op, at, imm).to)
<1>1. s.pc \in Int
  BY SizeFacts DEF Sound, Harts, Word
<1>2. Wrap(s.pc + imm) \in Word
  BY <1>1, WrapType
<1> DEFINE target == Wrap(s.pc + imm)
<1>3. ASSUME WordAligned(target)
      PROVE  Sound([s EXCEPT !.pc = target])
  BY <1>2, <1>3 DEF Sound, Harts
<1>4. \/ Branch(s, op, at, imm) = Done(s)
      \/ WordAligned(target) /\ Branch(s, op, at, imm).to = [s EXCEPT !.pc = target]
      \/ Branch(s, op, at, imm).to = s
  BY DEF Branch, Ok, Fail
<1>5. QED
  BY <1>3, <1>4, NextSound

(* Loads write words to registers. *)
LEMMA LoadSound ==
  ASSUME NEW s, Sound(s), NEW d \in Registers, NEW a \in Word, NEW n \in {1, 2, 4}, NEW signed
  PROVE  Sound(LoadFrom(s, d, a, n, signed).to)
<1> DEFINE v == IF signed THEN Extend(Get(s, a, n), n) ELSE Get(s, a, n)
<1>1. ASSUME Refused(a, n, "read") = "none"
      PROVE  v \in Word
  <2>1. s \in Harts /\ Within(a, n)
    BY <1>1, RefusedWithin DEF Sound
  <2>2. Get(s, a, n) \in 0 .. Span(n) - 1
    BY <2>1, GetType
  <2>3. QED
    BY <2>2, ExtendType
<1>2. \/ LoadFrom(s, d, a, n, signed).to = s
      \/ Refused(a, n, "read") = "none" /\ LoadFrom(s, d, a, n, signed) = Done(SetX(s, d, v))
  BY DEF LoadFrom, Fail
<1> HIDE DEF v
<1>3. QED
  BY <1>1, <1>2, SetXSound, NextSound

(* Stores write bytes to memory. *)
LEMMA StoreSound ==
  ASSUME NEW s, Sound(s), NEW a \in Word, NEW n \in {1, 2, 4}, NEW v \in Word
  PROVE  Sound(StoreTo(s, a, n, v).to)
<1>1. ASSUME Refused(a, n, "write") = "none"
      PROVE  Sound(Put(s, a, n, v))
  <2>1. s \in Harts /\ Within(a, n)
    BY <1>1, RefusedWithin DEF Sound
  <2> DEFINE t == Put(s, a, n, v)
  <2>2. t \in Harts /\ t = [s EXCEPT !.mem = t.mem]
    BY <2>1, PutFacts
  <2>3. QED
    BY <2>2 DEF Sound, Harts
<1>2. \/ StoreTo(s, a, n, v).to = s
      \/ Refused(a, n, "write") = "none" /\ StoreTo(s, a, n, v) = Done(Put(s, a, n, v))
  BY DEF StoreTo, Fail
<1>3. QED
  BY <1>1, <1>2, NextSound

(* What an atomic operation stores is a word. *)
LEMMA AmoAluType ==
  ASSUME NEW op \in AmoOps, NEW m \in Word, NEW r \in Word
  PROVE  AmoAlu(op, m, r) \in Word
<1>1. \A o \in {"add", "and", "or", "xor"} : Alu(o, m, r) \in Word
  BY AluType DEF RegOps
<1>2. Signed(m) \in Int /\ Signed(r) \in Int /\ m \in Int /\ r \in Int
  BY SignedFacts, SizeFacts DEF Word
<1>3. Wrap(Larger(Signed(m), Signed(r))) \in Word /\ Wrap(Smaller(Signed(m), Signed(r))) \in Word
  <2>1. Larger(Signed(m), Signed(r)) \in Int /\ Smaller(Signed(m), Signed(r)) \in Int
    BY <1>2 DEF Larger, Smaller
  <2>2. QED
    BY <2>1, WrapType
<1>4. Larger(m, r) \in Word /\ Smaller(m, r) \in Word
  BY DEF Larger, Smaller
<1>5. QED
  BY <1>1, <1>3, <1>4 DEF AmoAlu, AmoOps

(* Atomic operations load before they store. *)
LEMMA AmoSound ==
  ASSUME NEW s, Sound(s), NEW op \in AmoOps, NEW at \in Operand
  PROVE  Sound(Amo(s, op, at).to)
<1> DEFINE a == s.x[at.rs1]
           old == Get(s, a, 4)
           stored == StoreTo(s, a, 4, AmoAlu(op, old, s.x[at.rs2]))
<1>1. a \in Word /\ s.x[at.rs2] \in Word /\ at.rd \in Registers
  BY DEF Sound, Harts, Operand
<1>2. ASSUME Refused(a, 4, "read") = "none"
      PROVE  old \in Word /\ Sound(stored.to)
  <2>1. Within(a, 4) /\ s \in Harts
    BY <1>1, <1>2, RefusedWithin DEF Sound
  <2>2. old \in Word
    BY <2>1, GetType
  <2> HIDE DEF a, old
  <2>3. AmoAlu(op, old, s.x[at.rs2]) \in Word
    BY <1>1, <2>2, AmoAluType
  <2>4. Sound(stored.to)
    BY <1>1, <2>3, StoreSound
  <2>5. QED
    BY <2>2, <2>4
<1>3. \/ Amo(s, op, at).to = s
      \/ /\ Refused(a, 4, "read") = "none"
         /\ Amo(s, op, at) = stored \/ Amo(s, op, at).to = SetX(stored.to, at.rd, old)
  BY DEF Amo, Fail, Ok
<1> HIDE DEF a, old, stored
<1>4. QED
  BY <1>1, <1>2, <1>3, SetXSound

(* Accesses to CSRs write words to registers, and change MBE at most. *)
LEMMA CsrSound ==
  ASSUME NEW s, Sound(s), NEW op \in {"write", "set", "clear"}, NEW d \in Registers, NEW csr, NEW source
  PROVE  Sound(CsrAccess(s, op, d, csr, source).to)
<1> DEFINE read == op # "write" \/ d # 0
           kept == IF read THEN SetX(s, d, CsrValue(s, csr)) ELSE s
<1>1. CsrValue(s, csr) \in Word
  <2>1. 0 \in Word
    BY SizeFacts DEF Word
  <2>2. QED
    BY <2>1, FlagType DEF CsrValue
<1>2. Sound(kept)
  BY <1>1, SetXSound
<1>3. ASSUME NEW new, NEW mask
      PROVE  Sound(WriteStatus(kept, new, mask))
  <2> HIDE DEF kept
  <2> DEFINE big == IF 0 \in mask THEN 0 \in new ELSE kept.big
  <2>1. big \in BOOLEAN
    <3>1. kept.big \in BOOLEAN
      BY <1>2 DEF Sound, Harts
    <3>2. (0 \in new) \in BOOLEAN
      OBVIOUS
    <3>3. QED
      BY <3>1, <3>2, Zenon
  <2>2. WriteStatus(kept, new, mask) = [kept EXCEPT !.big = big]
    BY DEF WriteStatus
  <2> HIDE DEF big
  <2>3. QED
    BY <1>2, <2>1, <2>2 DEF Sound, Harts
<1>4. \/ CsrAccess(s, op, d, csr, source).to \in {s, kept}
      \/ CsrAccess(s, op, d, csr, source) = Done(kept)
      \/ \E new, mask : CsrAccess(s, op, d, csr, source) = Done(WriteStatus(kept, new, mask))
  BY DEF CsrAccess, Fail
<1>5. QED
  BY <1>2, <1>3, <1>4, NextSound

(* What the names of the instructions stand for *)
LEMMA OpTypes ==
  /\ \A op \in DOMAIN ImmOps : ImmOps[op] \in RegOps
  /\ \A op \in DOMAIN ShiftOps : ShiftOps[op] \in RegOps
  /\ \A op \in DOMAIN LoadOps : LoadOps[op][1] \in {1, 2, 4} /\ LoadOps[op][2] \in BOOLEAN
  /\ \A op \in DOMAIN StoreOps : StoreOps[op] \in {1, 2, 4}
  /\ \A op \in DOMAIN CsrRegOps : CsrRegOps[op] \in {"write", "set", "clear"}
  /\ \A op \in DOMAIN CsrImmOps : CsrImmOps[op] \in {"write", "set", "clear"}
<1>1. \A op \in DOMAIN ImmOps : ImmOps[op] \in RegOps
  BY DEF ImmOps, RegOps
<1>2. \A op \in DOMAIN ShiftOps : ShiftOps[op] \in RegOps
  BY DEF ShiftOps, RegOps
<1>3. \A op \in DOMAIN LoadOps : LoadOps[op][1] \in {1, 2, 4} /\ LoadOps[op][2] \in BOOLEAN
  <2>1. /\ DOMAIN LoadOps = {"lb", "lbu", "lh", "lhu", "lw"}
        /\ LoadOps["lb"] = <<1, TRUE>> /\ LoadOps["lbu"] = <<1, FALSE>> /\ LoadOps["lh"] = <<2, TRUE>>
        /\ LoadOps["lhu"] = <<2, FALSE>> /\ LoadOps["lw"] = <<4, FALSE>>
    BY DEF LoadOps
  <2>2. ASSUME NEW op, NEW n \in {1, 2, 4}, NEW t \in BOOLEAN, LoadOps[op] = <<n, t>>
        PROVE  LoadOps[op][1] \in {1, 2, 4} /\ LoadOps[op][2] \in BOOLEAN
    <3>1. LoadOps[op][1] = n /\ LoadOps[op][2] = t
      BY <2>2
    <3>2. QED
      BY <3>1, Zenon
  <2>3. TRUE \in BOOLEAN /\ FALSE \in BOOLEAN /\ 1 \in {1, 2, 4} /\ 2 \in {1, 2, 4} /\ 4 \in {1, 2, 4}
    OBVIOUS
  <2>4. QED
    BY <2>1, <2>2, <2>3, Zenon
<1>4. \A op \in DOMAIN StoreOps : StoreOps[op] \in {1, 2, 4}
  BY DEF StoreOps
<1>5. \A op \in DOMAIN CsrRegOps : CsrRegOps[op] \in {"write", "set", "clear"}
  BY DEF CsrRegOps
<1>6. \A op \in DOMAIN CsrImmOps : CsrImmOps[op] \in {"write", "set", "clear"}
  BY DEF CsrImmOps
<1>7. QED
  BY <1>1, <1>2, <1>3, <1>4, <1>5, <1>6

(* What an instruction has besides its name *)
LEMMA InstructionTypes ==
  ASSUME NEW i \in Instructions
  PROVE  /\ i.op \in RegOps \cup DOMAIN ImmOps \cup DOMAIN ShiftOps \cup DOMAIN LoadOps
                     \cup DOMAIN StoreOps \cup BranchOps \cup AmoOps \cup DOMAIN CsrRegOps
                     \cup DOMAIN CsrImmOps \cup {"jalr", "lui", "auipc", "jal", "lr", "sc"}
              => i.at \in Operand
         /\ i.op \in DOMAIN ImmOps \cup DOMAIN ShiftOps \cup DOMAIN LoadOps \cup DOMAIN StoreOps
                     \cup BranchOps \cup {"jalr", "lui", "auipc", "jal"} => i.imm \in Int
<1>1. Operands \subseteq Operand /\ Imms \subseteq Int
  BY ExecutorAssumption, SizeFacts
<1>2. QED
  BY <1>1, ZenonT(30) DEF Instructions, RegOps, ImmOps, ShiftOps, BranchOps, LoadOps, StoreOps, AmoOps,
              CsrRegOps, CsrImmOps

(* The immediates of lui and auipc are integers. *)
LEMMA UpperType ==
  ASSUME NEW imm \in Int
  PROVE  Upper(imm) \in Int
<1> DEFINE k == (3 * Xlen) \div 8
<1>1. k \in Nat
  BY SizeFacts
<1> HIDE DEF k
<1>2. Pow2[k] \in Nat \ {0}
  BY <1>1, Pow2Facts
<1> DEFINE low == Pow2[k]
<1>3. (imm % low) \in 0 .. low - 1
  BY <1>2, DivisionParts
<1> HIDE DEF low
<1>4. low \in Nat
  BY <1>2 DEF low
<1>5. imm - (imm % low) \in Int
  BY <1>3, <1>4
<1>6. QED
  BY <1>5 DEF Upper, low, k

(* The instructions that only compute *)
LEMMA ComputeSound ==
  ASSUME NEW s, Sound(s), NEW at \in Operand
  PROVE  /\ \A op \in RegOps : Sound(RegReg(s, op, at).to)
         /\ \A op \in RegOps, imm \in Int : Sound(RegImm(s, op, at, imm).to)
         /\ \A imm \in Int : Sound(Lui(s, at, imm).to) /\ Sound(Auipc(s, at, imm).to)
<1>1. at.rd \in Registers /\ s.x[at.rs1] \in Word /\ s.x[at.rs2] \in Word /\ s.pc \in Int
  BY SizeFacts DEF Sound, Harts, Operand, Word
<1>2. ASSUME NEW v \in Word
      PROVE  Sound(Done(SetX(s, at.rd, v)).to)
  BY <1>1, SetXSound, NextSound
<1>3. ASSUME NEW op \in RegOps
      PROVE  Sound(RegReg(s, op, at).to)
  BY <1>1, <1>2, AluType DEF RegReg
<1>4. ASSUME NEW op \in RegOps, NEW imm \in Int
      PROVE  Sound(RegImm(s, op, at, imm).to)
  BY <1>1, <1>2, AluType, WrapType DEF RegImm
<1>5. ASSUME NEW imm \in Int
      PROVE  Sound(Lui(s, at, imm).to) /\ Sound(Auipc(s, at, imm).to)
  <2>1. Upper(imm) \in Int
    BY UpperType
  <2> DEFINE u == Upper(imm)
  <2> HIDE DEF u
  <2>2. s.pc + u \in Int
    BY <1>1, <2>1 DEF u
  <2>3. Wrap(u) \in Word /\ Wrap(s.pc + u) \in Word
    BY <2>1, <2>2, WrapType DEF u
  <2>4. QED
    BY <1>2, <2>3 DEF Lui, Auipc, u
<1>6. QED
  BY <1>3, <1>4, <1>5

(* The jumps, loads and stores *)
LEMMA TransferSound ==
  ASSUME NEW s, Sound(s), NEW at \in Operand, NEW imm \in Int
  PROVE  /\ Sound(Jal(s, at, imm).to) /\ Sound(Jalr(s, at, imm).to)
         /\ \A op \in DOMAIN LoadOps : Sound(Load(s, op, at, imm).to)
         /\ \A op \in DOMAIN StoreOps : Sound(Store(s, op, at, imm).to)
<1>1. at.rd \in Registers /\ s.x[at.rs1] \in Word /\ s.x[at.rs2] \in Word /\ s.pc \in Word
  BY DEF Sound, Harts, Operand
<1>2. s.x[at.rs1] + imm \in Int /\ s.pc + imm \in Int
  BY <1>1, SizeFacts DEF Word
<1>3. Wrap(s.x[at.rs1] + imm) \in Word /\ Wrap(s.pc + imm) \in Word
  BY <1>2, WrapType
<1>4. Sound(Jal(s, at, imm).to)
  BY <1>1, <1>3, JumpSound DEF Jal
<1>5. Sound(Jalr(s, at, imm).to)
  <2> DEFINE target == Wrap(s.x[at.rs1] + imm)
  <2>1. target \in Word
    BY <1>3
  <2> HIDE DEF target
  <2>2. target - (target % 2) \in Word
    BY <2>1, SizeFacts DEF Word
  <2>3. QED
    BY <1>1, <2>2, JumpSound DEF Jalr, target
<1>6. ASSUME NEW op \in DOMAIN LoadOps
      PROVE  Sound(Load(s, op, at, imm).to)
  <2>1. LoadOps[op][1] \in {1, 2, 4}
    BY OpTypes
  <2>2. QED
    BY <1>1, <1>3, <2>1, LoadSound DEF Load
<1>7. ASSUME NEW op \in DOMAIN StoreOps
      PROVE  Sound(Store(s, op, at, imm).to)
  <2>1. StoreOps[op] \in {1, 2, 4}
    BY OpTypes
  <2>2. QED
    BY <1>1, <1>3, <2>1, StoreSound DEF Store
<1>8. QED
  BY <1>4, <1>5, <1>6, <1>7

(* lr and sc *)
LEMMA ReservedSound ==
  ASSUME NEW s, Sound(s), NEW at \in Operand
  PROVE  Sound(LoadReserved(s, at).to) /\ Sound(StoreConditional(s, at).to)
<1>1. at.rd \in Registers /\ s.x[at.rs1] \in Word /\ s.x[at.rs2] \in Word /\ 4 \in {1, 2, 4}
  BY DEF Sound, Harts, Operand
<1>2. Sound(LoadReserved(s, at).to)
  <2>1. LoadReserved(s, at).to = s \/ LoadReserved(s, at) = LoadFrom(s, at.rd, s.x[at.rs1], 4, FALSE)
    BY DEF LoadReserved, Fail
  <2>2. QED
    BY <1>1, <2>1, LoadSound
<1>3. Sound(StoreConditional(s, at).to)
  <2> DEFINE t == SetX(s, at.rd, 0)
  <2>1. Sound(t)
    <3>1. 0 \in Word
      BY SizeFacts DEF Word
    <3>2. QED
      BY <1>1, <3>1, SetXSound
  <2>2. \/ StoreConditional(s, at).to = s
        \/ StoreConditional(s, at) = StoreTo(t, s.x[at.rs1], 4, s.x[at.rs2])
    BY DEF StoreConditional, Fail
  <2> HIDE DEF t
  <2>3. QED
    BY <1>1, <2>1, <2>2, StoreSound
<1>4. QED
  BY <1>2, <1>3

(* Every instruction leaves a hart of the right type, also one that fails. *)
LEMMA ExecuteSound ==
  ASSUME NEW s, Sound(s), NEW i \in Instructions
  PROVE  Sound(Execute(s, i).to)
<1>1. /\ i.op \in RegOps \cup DOMAIN ImmOps \cup DOMAIN ShiftOps \cup DOMAIN LoadOps
                     \cup DOMAIN StoreOps \cup BranchOps \cup AmoOps \cup DOMAIN CsrRegOps
                     \cup DOMAIN CsrImmOps \cup {"jalr", "lui", "auipc", "jal", "lr", "sc"}
              => i.at \in Operand
      /\ i.op \in DOMAIN ImmOps \cup DOMAIN ShiftOps \cup DOMAIN LoadOps \cup DOMAIN StoreOps
                  \cup BranchOps \cup {"jalr", "lui", "auipc", "jal"} => i.imm \in Int
  BY InstructionTypes
<1>2. CASE i.op \in RegOps
  <2>1. Execute(s, i) = RegReg(s, i.op, i.at) /\ i.at \in Operand
    BY <1>1, <1>2, Dispatch
  <2>2. QED
    BY <1>2, <2>1, ComputeSound
<1>3. CASE i.op \in DOMAIN ImmOps
  <2>1. Execute(s, i) = RegImm(s, ImmOps[i.op], i.at, i.imm) /\ i.at \in Operand /\ ImmOps[i.op] \in RegOps
        /\ i.imm \in Int
    BY <1>1, <1>3, Dispatch, OpTypes
  <2>2. QED
    BY <2>1, ComputeSound
<1>4. CASE i.op \in DOMAIN ShiftOps
  <2>1. Execute(s, i) = RegImm(s, ShiftOps[i.op], i.at, i.imm) /\ i.at \in Operand
        /\ ShiftOps[i.op] \in RegOps /\ i.imm \in Int
    BY <1>1, <1>4, Dispatch, OpTypes
  <2>2. QED
    BY <2>1, ComputeSound
<1>5. CASE i.op \in {"lui", "auipc"}
  <2>1. /\ i.at \in Operand /\ i.imm \in Int
        /\ Execute(s, i) \in {Lui(s, i.at, i.imm), Auipc(s, i.at, i.imm)}
    BY <1>1, <1>5, Dispatch
  <2>2. QED
    BY <2>1, ComputeSound
<1>6. CASE i.op \in {"jal", "jalr"}
  <2>1. /\ i.at \in Operand /\ i.imm \in Int
        /\ Execute(s, i) \in {Jal(s, i.at, i.imm), Jalr(s, i.at, i.imm)}
    BY <1>1, <1>6, Dispatch
  <2>2. QED
    BY <2>1, TransferSound
<1>7. CASE i.op \in BranchOps
  <2>1. i.imm \in Int /\ Execute(s, i) = Branch(s, i.op, i.at, i.imm)
    BY <1>1, <1>7, Dispatch
  <2>2. QED
    BY <2>1, BranchSound
<1>8. CASE i.op \in DOMAIN LoadOps \cup DOMAIN StoreOps
  <2>1. /\ i.at \in Operand /\ i.imm \in Int
        /\ \/ i.op \in DOMAIN LoadOps /\ Execute(s, i) = Load(s, i.op, i.at, i.imm)
           \/ i.op \in DOMAIN StoreOps /\ Execute(s, i) = Store(s, i.op, i.at, i.imm)
    BY <1>1, <1>8, Dispatch
  <2>2. QED
    BY <2>1, TransferSound
<1>9. CASE i.op \in {"lr", "sc"}
  <2>1. /\ i.at \in Operand
        /\ Execute(s, i) \in {LoadReserved(s, i.at), StoreConditional(s, i.at)}
    BY <1>1, <1>9, Dispatch
  <2>2. QED
    BY <2>1, ReservedSound
<1>10. CASE i.op \in AmoOps
  <2>1. i.at \in Operand /\ Execute(s, i) = Amo(s, i.op, i.at)
    BY <1>1, <1>10, Dispatch
  <2>2. QED
    BY <1>10, <2>1, AmoSound
<1>11. CASE i.op \in DOMAIN CsrRegOps \cup DOMAIN CsrImmOps
  <2>1. /\ i.at.rd \in Registers
        /\ \E op \in {"write", "set", "clear"} :
             \/ Execute(s, i) = CsrReg(s, op, i.at, i.csr)
             \/ Execute(s, i) = CsrImm(s, op, i.at, i.csr, i.imm)
    <3>1. i.at.rd \in Registers
      BY <1>1, <1>11 DEF CsrRegOps, CsrImmOps, Operand
    <3>2. CASE i.op \in DOMAIN CsrRegOps
      <4>1. /\ CsrRegOps[i.op] \in {"write", "set", "clear"}
            /\ Execute(s, i) = CsrReg(s, CsrRegOps[i.op], i.at, i.csr)
        BY <3>2, Dispatch, OpTypes
      <4>2. QED
        BY <3>1, <4>1
    <3>3. CASE i.op \in DOMAIN CsrImmOps
      <4>1. /\ CsrImmOps[i.op] \in {"write", "set", "clear"}
            /\ Execute(s, i) = CsrImm(s, CsrImmOps[i.op], i.at, i.csr, i.imm)
        BY <3>3, Dispatch, OpTypes
      <4>2. QED
        BY <3>1, <4>1
    <3>4. QED
      BY <1>11, <3>2, <3>3
  <2>2. QED
    BY <2>1, CsrSound DEF CsrReg, CsrImm
<1>12. CASE i.op \in {"fence", "ecall", "ebreak", "illegal"}
  <2>1. Execute(s, i) = Done(s) \/ Execute(s, i).to = s
    BY <1>12, Dispatch DEF Fail
  <2>2. QED
    BY <2>1, NextSound
<1>13. QED
  BY <1>2, <1>3, <1>4, <1>5, <1>6, <1>7, <1>8, <1>9, <1>10, <1>11, <1>12, InstructionKinds DEF SetEarly

(* x0 stays 0, and pc stays aligned: no instruction jumps off the words    *)
(* that fetching reads (set_x; jump_op and cond_branch).                   *)
THEOREM RegistersSound == Spec => []TypeOK
<1>1. Init => TypeOK
  <2> SUFFICES ASSUME Init
               PROVE  TypeOK
    OBVIOUS
  <2>1. 0 \in Word /\ Vector \in Word /\ Image \in [Word -> Byte] /\ WordAligned(Vector)
    BY SizeFacts, ExecutorAssumption DEF Word, WordAligned
  <2>2. 0 \in Registers
    BY ExecutorAssumption
  <2>3. QED
    BY <2>1, <2>2 DEF Init, TypeOK, Harts
<1>2. TypeOK /\ [Next]_h => TypeOK'
  <2> SUFFICES ASSUME Sound(h), [Next]_h
               PROVE  Sound(h')
    BY DEF Sound, TypeOK
  <2>1. ASSUME NEW s, Sound(s)
        PROVE  Sound(Trap(s))
    <3>1. Vector \in Word /\ WordAligned(Vector)
      BY ExecutorAssumption DEF WordAligned
    <3>2. QED
      BY <2>1, <3>1 DEF Sound, Harts, Trap
  <2>2. ASSUME FetchFault
        PROVE  Sound(h')
    BY <2>1, <2>2 DEF FetchFault
  <2>3. ASSUME NEW i \in Instructions, Step(i)
        PROVE  Sound(h')
    BY <2>1, <2>3, ExecuteSound DEF Step
  <2>4. QED
    BY <2>2, <2>3 DEF Next
<1>3. QED
  BY <1>1, <1>2, PTL DEF Spec


-----------------------------------------------------------------------------
(* Arithmetic *)

(* Words, and the signed numbers they stand for, are integers. *)
LEMMA WordIntegers ==
  ASSUME NEW a \in Word
  PROVE  /\ a \in 0 .. Size - 1 /\ a \in Nat /\ a \in Int
         /\ Signed(a) \in Int /\ Size \in Nat \ {0}
<1>1. Size \in Nat \ {0} /\ Size \div 2 \in Nat
  BY SizeFacts
<1>2. a \in 0 .. Size - 1 /\ a \in Nat /\ a \in Int
  BY <1>1 DEF Word
<1>3. Signed(a) \in Int
  BY <1>1, <1>2, SignedFacts
<1>4. QED
  BY <1>1, <1>2, <1>3

(* Wrap removes a multiple of Size. *)
LEMMA WrapCongruent ==
  ASSUME NEW n \in Int
  PROVE  (n - Wrap(n)) % Size = 0
<1> DEFINE w == Wrap(n)
<1>1. PICK q \in Int : n = q * Size + w
  BY WrapType
<1>2. Size \in Nat \ {0} /\ w \in Int
  BY WrapType, WordIntegers
<1> HIDE DEF w
<1>3. n - w = q * Size + 0
  BY <1>1, <1>2
<1>4. ((q * Size + 0) % Size) = 0
  BY <1>2, DivisionIsUnique
<1>5. ((n - w) % Size) = 0
  BY <1>3, <1>4
<1>6. QED
  BY <1>5 DEF w

(* Wrapping a number that a signed word can hold loses nothing. *)
LEMMA SignedWrap ==
  ASSUME NEW n \in -(Size \div 2) .. (Size \div 2) - 1
  PROVE  Signed(Wrap(n)) = n
<1> DEFINE half == Size \div 2
<1>1. half \in Nat /\ Size = 2 * half /\ Size \in Nat
  BY SizeFacts
<1>2. CASE n >= 0
  <2>1. n \in Word /\ n < half
    BY <1>1, <1>2 DEF Word
  <2>2. Wrap(n) = n
    BY <2>1, WrapWord
  <2>3. QED
    BY <2>1, <2>2 DEF Signed
<1>3. CASE n < 0
  <2>1. n + Size \in Word /\ ~(n + Size < half) /\ n \in Int
    <3> HIDE DEF half
    <3>1. n \in -half .. half - 1
      BY DEF half
    <3>2. QED
      BY <1>1, <1>3, <3>1 DEF Word
  <2>2. n = (-1) * Size + (n + Size)
    BY <1>1, <2>1
  <2>3. Wrap((-1) * Size + (n + Size)) = n + Size
    BY <2>1, WrapIsUnique
  <2>4. Signed(n + Size) = n
    BY <1>1, <2>1 DEF Signed
  <2>5. QED
    BY <2>2, <2>3, <2>4
<1>4. QED
  BY <1>2, <1>3

(* Biased moves the signed numbers up to the words, in their order. *)
LEMMA BiasedSigned ==
  ASSUME NEW a \in Word
  PROVE  Biased(a) = Signed(a) + Size \div 2 /\ Biased(a) \in Int
<1> DEFINE half == Size \div 2
<1>1. half \in Nat /\ Size = 2 * half /\ Size \in Nat /\ a \in 0 .. Size - 1
  BY SizeFacts, WordIntegers
<1>2. Biased(a) = Wrap(a + half)
  BY DEF Biased
<1>3. Signed(a) = IF a < half THEN a ELSE a - Size
  BY DEF Signed
<1> HIDE DEF half
<1>4. CASE a < half
  <2>1. a + half \in Word
    BY <1>1, <1>4 DEF Word
  <2>2. QED
    BY <1>1, <1>2, <1>3, <1>4, <2>1, WrapWord DEF half
<1>5. CASE a >= half
  <2>1. a - half \in Word /\ a + half = 1 * Size + (a - half)
    BY <1>1, <1>5 DEF Word
  <2>2. Wrap(1 * Size + (a - half)) = a - half
    BY <2>1, WrapIsUnique
  <2>3. Biased(a) = a - half
    BY <1>2, <2>1, <2>2
  <2>4. QED
    BY <1>1, <1>3, <1>5, <2>3 DEF half
<1>6. QED
  BY <1>1, <1>4, <1>5

(* Sums, differences and lower products *)
LEMMA RightSums ==
  ASSUME NEW op \in {"add", "sub", "mul"}, NEW a \in Word, NEW b \in Word
  PROVE  Right(op, a, b, Alu(op, a, b))
<1>1. a + b \in Int /\ a - b \in Int /\ a * b \in Int
  BY WordIntegers
<1>2. CASE op = "add"
  <2> DEFINE n == a + b
  <2> HIDE DEF n
  <2>1. ((n - Wrap(n)) % Size) = 0
    BY <1>1, WrapCongruent DEF n
  <2>2. QED
    <3>1. Alu(op, a, b) = Wrap(n)
      BY <1>2 DEF Alu, n
    <3>2. Right(op, a, b, Wrap(n)) <=> ((n - Wrap(n)) % Size) = 0
      <4> DEFINE r == Wrap(n)
      <4> HIDE DEF r
      <4>1. Right(op, a, b, r) <=> ((a + b - r) % Size) = 0
        BY <1>2 DEF Right
      <4>2. a + b - r = n - r
        <5>1. a \in Int /\ b \in Int /\ r \in Int
          BY <1>1, WrapType, WordIntegers DEF r, n
        <5>2. QED
          BY <5>1 DEF n
      <4>3. QED
        BY <4>1, <4>2 DEF r
    <3>3. QED
      BY <2>1, <3>1, <3>2
<1>3. CASE op = "sub"
  <2>1. (a - b - Wrap(a - b)) % Size = 0
    BY <1>1, WrapCongruent
  <2>2. QED
    BY <1>3, <2>1 DEF Right, Alu
<1>4. CASE op = "mul"
  <2>1. (a * b - Wrap(a * b)) % Size = 0
    BY <1>1, WrapCongruent
  <2>2. QED
    BY <1>4, <2>1 DEF Right, Alu
<1>5. QED
  BY <1>2, <1>3, <1>4

(* Comparisons, signed and unsigned *)
LEMMA RightComparisons ==
  ASSUME NEW op \in {"slt", "sltu"}, NEW a \in Word, NEW b \in Word
  PROVE  Right(op, a, b, Alu(op, a, b))
<1>1. CASE op = "slt"
  <2>1. Biased(a) < Biased(b) <=> Signed(a) < Signed(b)
    BY BiasedSigned, WordIntegers, SizeFacts
  <2>2. QED
    BY <1>1, <2>1 DEF Right, Alu, Flag
<1>2. CASE op = "sltu"
  <2>1. a < b <=> \E d \in 1 .. Size - 1 : a + d = b
    <3>1. a \in 0 .. Size - 1 /\ b \in 0 .. Size - 1 /\ Size \in Nat
      BY WordIntegers
    <3>2. ASSUME a < b
          PROVE  \E d \in 1 .. Size - 1 : a + d = b
      <4>1. b - a \in 1 .. Size - 1 /\ a + (b - a) = b
        BY <3>1, <3>2
      <4>2. QED
        BY <4>1
    <3>3. ASSUME NEW d \in 1 .. Size - 1, a + d = b
          PROVE  a < b
      BY <3>1, <3>3
    <3>4. QED
      BY <3>2, <3>3
  <2>2. QED
    BY <1>2, <2>1 DEF Right, Alu, Flag
<1>3. QED
  BY <1>1, <1>2

(* The bitwise operations *)
LEMMA RightBitwise ==
  ASSUME NEW op \in {"and", "or", "xor"}, NEW a \in Word, NEW b \in Word
  PROVE  Right(op, a, b, Alu(op, a, b))
<1> DEFINE r == Alu(op, a, b)
           S == CASE op = "and" -> Bits[a] \cap Bits[b]
                  [] op = "or"  -> Bits[a] \cup Bits[b]
                  [] op = "xor" -> (Bits[a] \ Bits[b]) \cup (Bits[b] \ Bits[a])
<1>1. \A x \in Word : /\ Bits[x] \subseteq 0 .. Xlen - 1
                      /\ \A j \in 0 .. Xlen - 1 : j \in Bits[x] <=> Bit(x, j) = 1
  BY DEF Bits, Bit
<1>2. r = OfBits[S]
  BY DEF Alu
<1>3. S \in SUBSET (0 .. Xlen - 1)
  BY <1>1
<1>4. \A j \in 0 .. Xlen - 1 : Bit(r, j) = Flag(j \in S)
  BY <1>2, <1>3, SetOfBits
<1>5. \A j \in 0 .. Xlen - 1 : Bit(a, j) \in {0, 1} /\ Bit(b, j) \in {0, 1}
  BY BitType, WordIntegers
<1> HIDE DEF r
<1>6. CASE op = "and"
  <2>1. \A j \in 0 .. Xlen - 1 : Bit(r, j) = Bit(a, j) * Bit(b, j)
    BY <1>1, <1>4, <1>5, <1>6 DEF Flag
  <2>2. QED
    BY <1>6, <2>1 DEF Right, r
<1>7. CASE op = "or"
  <2>1. \A j \in 0 .. Xlen - 1 : Bit(r, j) = Bit(a, j) + Bit(b, j) - Bit(a, j) * Bit(b, j)
    BY <1>1, <1>4, <1>5, <1>7 DEF Flag
  <2>2. QED
    BY <1>7, <2>1 DEF Right, r
<1>8. CASE op = "xor"
  <2>1. \A j \in 0 .. Xlen - 1 : Bit(r, j) = (Bit(a, j) + Bit(b, j)) % 2
    BY <1>1, <1>4, <1>5, <1>8 DEF Flag
  <2>2. QED
    BY <1>8, <2>1 DEF Right, r
<1>9. QED
  BY <1>6, <1>7, <1>8

(* The bits of a word are those of the numbers it stands for. *)
LEMMA WrapBits ==
  ASSUME NEW n \in Int, NEW j \in 0 .. Xlen - 1
  PROVE  Bit(Wrap(n), j) = Bit(n, j)
<1>1. PICK q \in Int : n = q * Size + Wrap(n)
  BY WrapType
<1>2. Wrap(n) \in Int /\ Size = Pow2[Xlen] /\ Xlen \in Nat /\ Size \in Nat
  BY WrapType, WordIntegers, SizeFacts
<1>3. n = Wrap(n) + q * Pow2[Xlen]
  BY <1>1, <1>2
<1>4. Bit(Wrap(n) + q * Pow2[Xlen], j) = Bit(Wrap(n), j)
  BY <1>2, LowerBits
<1>5. QED
  BY <1>3, <1>4

(* Dividing by a power of two shifts the bits. *)
LEMMA DividedBits ==
  ASSUME NEW x \in Int, NEW k \in Nat, NEW j \in Nat
  PROVE  Bit(x \div Pow2[k], j) = Bit(x, j + k)
<1>1. Pow2[k] \in Nat \ {0} /\ Pow2[j] \in Nat \ {0}
  BY Pow2Facts
<1>2. Pow2[j + k] = Pow2[k] * Pow2[j]
  <2>1. j + k = k + j
    OBVIOUS
  <2>2. QED
    BY <2>1, Pow2Add
<1>3. (x \div Pow2[k]) \div Pow2[j] = x \div (Pow2[k] * Pow2[j])
  BY <1>1, DivideTwice
<1>4. QED
  BY <1>2, <1>3 DEF Bit

(* Multiplying by a power of two shifts the bits the other way. *)
LEMMA MultipliedBits ==
  ASSUME NEW x \in Int, NEW k \in Nat, NEW j \in Nat
  PROVE  Bit(x * Pow2[k], j) = IF j < k THEN 0 ELSE Bit(x, j - k)
<1>1. CASE j < k
  <2>1. j \in 0 .. k - 1 /\ 0 \in Int
    BY <1>1
  <2>2. Bit(0 + x * Pow2[k], j) = Bit(0, j)
    BY <2>1, LowerBits
  <2>3. 0 + x * Pow2[k] = x * Pow2[k]
    BY Pow2Facts
  <2>4. Bit(0, j) = 0
    <3>1. Pow2[j] \in Nat \ {0}
      BY Pow2Facts
    <3>2. ((0 \div Pow2[j]) % 2) = 0
      BY <3>1
    <3>3. QED
      BY <3>2 DEF Bit
  <2>5. QED
    BY <1>1, <2>2, <2>3, <2>4
<1>2. CASE ~(j < k)
  <2>1. j - k \in Nat /\ (j - k) + k = j
    BY <1>2
  <2>2. Pow2[j] = Pow2[j - k] * Pow2[k] /\ Pow2[j - k] \in Nat \ {0} /\ Pow2[k] \in Nat \ {0}
    <3> DEFINE i == j - k
    <3>1. i \in Nat /\ i + k = j
      BY <2>1
    <3> HIDE DEF i
    <3>2. Pow2[i + k] = Pow2[i] * Pow2[k] /\ Pow2[i] \in Nat \ {0} /\ Pow2[k] \in Nat \ {0}
      BY <3>1, Pow2Add, Pow2Facts
    <3>3. QED
      BY <3>1, <3>2 DEF i
  <2>3. (x * Pow2[k]) \div (Pow2[j - k] * Pow2[k]) = x \div Pow2[j - k]
    BY <2>2, DivideMultiples
  <2>4. QED
    BY <1>2, <2>2, <2>3 DEF Bit
<1>3. QED
  BY <1>1, <1>2

(* From the sign bit on, a signed word has nothing but its sign. *)
LEMMA SignBits ==
  ASSUME NEW a \in Word, NEW j \in Nat, j >= Xlen - 1
  PROVE  /\ Bit(Signed(a), j) = Bit(a, Xlen - 1)
         /\ j >= Xlen => Bit(a, j) = 0
<1> DEFINE half == Size \div 2
           p == Pow2[j]
           s == Signed(a)
<1>1. /\ half \in Nat /\ half > 0 /\ Size = 2 * half /\ a \in 0 .. Size - 1 /\ s \in Int
      /\ half = Pow2[Xlen - 1] /\ Xlen \in Nat /\ Xlen - 1 \in Nat /\ Size = Pow2[Xlen]
  BY SizeFacts, WordIntegers
<1>2. s \in -half .. half - 1 /\ (s < 0 <=> a >= half)
  BY <1>1, SignedFacts
<1>3. \A k \in Nat : j >= k => p >= Pow2[k]
  <2>1. SUFFICES ASSUME NEW k \in Nat, j >= k
                 PROVE  p >= Pow2[k]
    OBVIOUS
  <2> DEFINE i == j - k
  <2>2. i \in Nat /\ i + k = j
    BY <2>1
  <2> HIDE DEF i
  <2>3. Pow2[i + k] = Pow2[i] * Pow2[k] /\ Pow2[i] \in Nat \ {0} /\ Pow2[k] \in Nat \ {0}
    BY <2>2, Pow2Add, Pow2Facts
  <2>4. Pow2[i] * Pow2[k] >= Pow2[k]
    BY <2>3
  <2>5. QED
    BY <2>2, <2>3, <2>4
<1>4. p \in Nat \ {0} /\ p >= half /\ (j >= Xlen => p >= Size)
  BY <1>1, <1>3, Pow2Facts
<1> HIDE DEF half, p, s
<1>5. s \div p = IF s < 0 THEN -1 ELSE 0
  <2>1. CASE s < 0
    <3>1. s = (-1) * p + (s + p) /\ s + p \in 0 .. p - 1
      BY <1>1, <1>2, <1>4, <2>1
    <3>2. ((-1) * p + (s + p)) \div p = -1
      <4> DEFINE z == s + p
      <4> HIDE DEF z
      <4>1. z \in 0 .. p - 1 /\ -1 \in Int
        BY <3>1 DEF z
      <4>2. ((-1) * p + z) \div p = -1
        BY <1>4, <4>1, DivisionIsUnique
      <4>3. QED
        BY <4>2 DEF z
    <3>3. QED
      BY <2>1, <3>1, <3>2
  <2>2. CASE ~(s < 0)
    <3>1. s = 0 * p + s /\ s \in 0 .. p - 1
      BY <1>1, <1>2, <1>4, <2>2
    <3>2. (0 * p + s) \div p = 0
      BY <1>4, <3>1, DivisionIsUnique
    <3>3. QED
      BY <2>2, <3>1, <3>2
  <2>3. QED
    BY <2>1, <2>2
<1>6. a \div half = IF a >= half THEN 1 ELSE 0
  BY <1>1, SMTT(30)
<1>7. j >= Xlen => a \div p = 0
  BY <1>1, <1>4
<1>8. ((s \div p) % 2) = ((a \div half) % 2)
  BY <1>2, <1>5, <1>6
<1>9. Bit(s, j) = Bit(a, Xlen - 1)
  BY <1>1, <1>8 DEF Bit, p
<1>10. j >= Xlen => Bit(a, j) = 0
  BY <1>7 DEF Bit, p
<1>11. QED
  BY <1>9, <1>10 DEF s

(* Below the sign bit and at it, a signed word has the bits of the word. *)
LEMMA SignedBits ==
  ASSUME NEW a \in Word, NEW j \in 0 .. Xlen - 1
  PROVE  Bit(Signed(a), j) = Bit(a, j)
<1>1. a \in Int /\ Size = Pow2[Xlen] /\ Xlen \in Nat /\ Size \in Nat
  BY WordIntegers, SizeFacts
<1>2. CASE Signed(a) = a
  BY <1>2
<1>3. CASE Signed(a) = a - Size
  <2>1. a - Size = a + (-1) * Pow2[Xlen]
    BY <1>1
  <2>2. Bit(a + (-1) * Pow2[Xlen], j) = Bit(a, j)
    BY <1>1, LowerBits
  <2>3. QED
    BY <1>3, <2>1, <2>2
<1>4. QED
  BY <1>2, <1>3, SignedFacts

(* Shifts, whose amount is taken from the lower bits of b *)
LEMMA RightShifts ==
  ASSUME NEW op \in {"sll", "srl", "sra"}, NEW a \in Word, NEW b \in Word
  PROVE  Right(op, a, b, Alu(op, a, b))
<1> DEFINE k == Amount(b)
           s == Signed(a)
<1>1. k \in Nat /\ k \in 0 .. Xlen - 1 /\ Pow2[k] \in Nat \ {0} /\ k = b % Xlen
  BY AmountType DEF Amount
<1>2. a \in Int /\ s \in Int /\ Xlen \in Nat
  BY WordIntegers, SizeFacts
<1> HIDE DEF k, s
<1>3. CASE op = "sll"
  <2>1. a * Pow2[k] \in Int
    BY <1>1, <1>2
  <2>2. ASSUME NEW j \in 0 .. Xlen - 1
        PROVE  Bit(Wrap(a * Pow2[k]), j) = IF j < k THEN 0 ELSE Bit(a, j - k)
    <3>1. j \in Nat
      BY <1>2
    <3>2. Bit(Wrap(a * Pow2[k]), j) = Bit(a * Pow2[k], j)
      BY <2>1, WrapBits
    <3>3. QED
      BY <1>1, <1>2, <3>1, <3>2, MultipliedBits
  <2>3. Alu(op, a, b) = Wrap(a * Pow2[k])
    BY <1>3 DEF Alu, k
  <2>4. QED
    BY <1>1, <1>3, <2>2, <2>3 DEF Right
<1>4. CASE op = "srl"
  <2>1. ASSUME NEW j \in 0 .. Xlen - 1
        PROVE  Bit(a \div Pow2[k], j) = IF j + k < Xlen THEN Bit(a, j + k) ELSE 0
    <3>1. j \in Nat /\ j + k \in Nat
      BY <1>1, <1>2
    <3>2. Bit(a \div Pow2[k], j) = Bit(a, j + k)
      BY <1>1, <1>2, <3>1, DividedBits, ZenonT(30)
    <3>3. ~(j + k < Xlen) => j + k >= Xlen /\ j + k >= Xlen - 1
      BY <1>1, <1>2, <3>1
    <3>4. ~(j + k < Xlen) => Bit(a, j + k) = 0
      BY <3>1, <3>3, SignBits
    <3>5. QED
      BY <3>2, <3>4
  <2>2. Alu(op, a, b) = a \div Pow2[k]
    BY <1>4 DEF Alu, k
  <2>3. QED
    BY <1>1, <1>4, <2>1, <2>2 DEF Right
<1>5. CASE op = "sra"
  <2>1. s \div Pow2[k] \in Int
    BY <1>1, <1>2, DivisionParts
  <2>2. ASSUME NEW j \in 0 .. Xlen - 1
        PROVE  Bit(Wrap(s \div Pow2[k]), j) = Bit(a, IF j + k < Xlen THEN j + k ELSE Xlen - 1)
    <3>1. j \in Nat /\ j + k \in Nat
      BY <1>1, <1>2
    <3>2. Bit(Wrap(s \div Pow2[k]), j) = Bit(s \div Pow2[k], j)
      BY <2>1, WrapBits
    <3>3. Bit(s \div Pow2[k], j) = Bit(s, j + k)
      BY <1>1, <1>2, <3>1, DividedBits
    <3>4. CASE j + k < Xlen
      <4>1. j + k \in 0 .. Xlen - 1
        BY <1>2, <3>1, <3>4
      <4>2. Bit(s, j + k) = Bit(a, j + k)
        BY <4>1, SignedBits DEF s
      <4>3. QED
        BY <3>2, <3>3, <3>4, <4>2
    <3>5. CASE ~(j + k < Xlen)
      <4>1. j + k >= Xlen - 1
        BY <1>2, <3>1, <3>5
      <4>2. Bit(s, j + k) = Bit(a, Xlen - 1)
        BY <3>1, <4>1, SignBits DEF s
      <4>3. QED
        BY <3>2, <3>3, <3>5, <4>2
    <3>6. QED
      BY <3>4, <3>5
  <2>3. Alu(op, a, b) = Wrap(s \div Pow2[k])
    BY <1>5 DEF Alu, k, s
  <2>4. QED
    BY <1>1, <1>5, <2>2, <2>3 DEF Right
<1>6. QED
  BY <1>3, <1>4, <1>5


(* The upper halves of products, for the three mixtures of signs *)
LEMMA RightProducts ==
  ASSUME NEW op \in {"mulh", "mulhsu", "mulhu"}, NEW a \in Word, NEW b \in Word
  PROVE  Right(op, a, b, Alu(op, a, b))
<1> DEFINE half == Size \div 2
           s == Signed(a)
           t == Signed(b)
<1>1. /\ half \in Nat /\ half >= 8 /\ Size = 2 * half /\ Size \in Nat \ {0}
      /\ a \in 0 .. Size - 1 /\ b \in 0 .. Size - 1 /\ Word = 0 .. Size - 1
      /\ s \in -half .. half - 1 /\ t \in -half .. half - 1
  <2>1. Size \in Nat /\ Size >= 16 /\ half \in Nat /\ Size = 2 * half
    BY SizeFacts
  <2>2. s \in -half .. half - 1 /\ t \in -half .. half - 1
    BY SignedFacts
  <2>3. a \in 0 .. Size - 1 /\ b \in 0 .. Size - 1 /\ Word = 0 .. Size - 1
    BY WordIntegers DEF Word
  <2> HIDE DEF half, s, t
  <2>4. QED
    BY <2>1, <2>2, <2>3
(* What the division of the product leaves out is a word. *)
<1>2. ASSUME NEW x \in Int
      PROVE  x \div Size \in Int /\ x - (x \div Size) * Size \in Word
  <2>1. x \div Size \in Int /\ (x % Size) \in 0 .. Size - 1 /\ x = (x \div Size) * Size + (x % Size)
    BY <1>1, DivisionParts
  <2> DEFINE d == (x \div Size) * Size
             e == x % Size
  <2>2. d \in Int /\ e \in 0 .. Size - 1 /\ x = d + e
    BY <1>1, <2>1
  <2> HIDE DEF d, e
  <2>3. x - d = e
    BY <1>1, <2>2
  <2>4. QED
    BY <1>1, <2>1, <2>2, <2>3 DEF d
<1>3. ASSUME NEW x \in Int, -(half * Size) <= x, x < half * Size
      PROVE  Signed(Wrap(x \div Size)) = x \div Size
  <2> HIDE DEF half
  <2>1. x \div Size >= -half
    <3>1. -(half * Size) = (-half) * Size
      BY <1>1
    <3>2. QED
      BY <1>1, <1>3, <3>1
  <2>2. x \div Size < half
    BY <1>1, <1>3
  <2>3. x \div Size \in -half .. half - 1
    BY <1>1, <1>2, <2>1, <2>2
  <2>4. QED
    BY <2>3, SignedWrap DEF half
<1> HIDE DEF half, s, t
<1>4. CASE op = "mulh"
  <2> DEFINE x == s * t
  <2>1. x \in Int /\ -(half * half) <= x /\ x <= half * half
    <3>1. s * t \in Int /\ -(half * half) <= s * t /\ s * t <= half * half
      BY <1>1
    <3>2. QED
      BY <3>1
  <2>2. half * half < half * Size /\ half * half \in Int /\ half * Size \in Int
    BY <1>1
  <2>3. -(half * Size) <= x /\ x < half * Size
    <3> DEFINE p == half * half
               q == half * Size
    <3> HIDE DEF p, q, x
    <3>1. -p <= x /\ x <= p /\ p < q /\ p \in Int /\ q \in Int /\ x \in Int
      BY <2>1, <2>2 DEF p, q
    <3>2. -q <= x /\ x < q
      BY <3>1
    <3>3. QED
      BY <3>2 DEF q
  <2>4. Alu(op, a, b) = Wrap(x \div Size)
    BY <1>4 DEF Alu, s, t
  <2> HIDE DEF x
  <2>5. x - Signed(Wrap(x \div Size)) * Size \in Word
    BY <1>2, <1>3, <2>1, <2>3
  <2>6. QED
    BY <1>4, <2>4, <2>5 DEF Right, x, s, t
<1>5. CASE op = "mulhsu"
  <2> DEFINE x == s * b
  <2>1. x \in Int /\ -(half * Size) <= x /\ x < half * Size
    <3>1. s * b \in Int
      BY <1>1
    <3>2. -(half * Size) <= s * b
      <4>1. (-half) * b <= s * b
        BY <1>1
      <4>2. (-half) * b = -(half * b) /\ half * b <= half * Size /\ half * b \in Int /\ half * Size \in Int
        BY <1>1
      <4> DEFINE p == half * b
                 q == half * Size
                 y == s * b
      <4> HIDE DEF p, q, y
      <4>3. -q <= y
        BY <3>1, <4>1, <4>2 DEF p, q, y
      <4>4. QED
        BY <4>3 DEF q, y
    <3>3. s * b < half * Size
      <4>1. s * b <= half * b /\ half * b < half * Size /\ half * b \in Int /\ half * Size \in Int
        BY <1>1
      <4> DEFINE p == half * b
                 q == half * Size
                 y == s * b
      <4> HIDE DEF p, q, y
      <4>2. y < q
        BY <3>1, <4>1 DEF p, q, y
      <4>3. QED
        BY <4>2 DEF q, y
    <3>4. QED
      BY <3>1, <3>2, <3>3
  <2>2. Alu(op, a, b) = Wrap(x \div Size)
    BY <1>5 DEF Alu, s
  <2> HIDE DEF x
  <2>3. x - Signed(Wrap(x \div Size)) * Size \in Word
    BY <1>2, <1>3, <2>1
  <2>4. QED
    BY <1>5, <2>2, <2>3 DEF Right, x, s
<1>6. CASE op = "mulhu"
  <2> DEFINE x == a * b
  <2>1. x \in Int
    BY <1>1
  <2>2. Alu(op, a, b) = x \div Size
    BY <1>6 DEF Alu
  <2> HIDE DEF x
  <2>3. x - (x \div Size) * Size \in Word
    BY <1>2, <2>1
  <2>4. QED
    BY <1>6, <2>2, <2>3 DEF Right, x
<1>7. QED
  BY <1>4, <1>5, <1>6

(* Only the division that overflows has a quotient that is no signed word. *)
LEMMA QuotientRange ==
  ASSUME NEW a \in Word, NEW b \in Word, b # 0
  PROVE  LET q == Quotient(Signed(a), Signed(b)) IN
         IF Overflows(a, b) THEN q = Size \div 2
         ELSE q \in -(Size \div 2) .. (Size \div 2) - 1
<1> DEFINE half == Size \div 2
           s == Signed(a)
           t == Signed(b)
           q == Quotient(s, t)
<1>1. /\ half \in Nat /\ half >= 8 /\ Size = 2 * half /\ Size \in Nat
      /\ a \in 0 .. Size - 1 /\ b \in 0 .. Size - 1
  BY SizeFacts, WordIntegers
<1>2. /\ s \in -half .. half - 1 /\ ((s = a /\ a < half) \/ (s = a - Size /\ a >= half))
      /\ t \in -half .. half - 1 /\ ((t = b /\ b < half) \/ (t = b - Size /\ b >= half))
  BY SignedFacts
<1>3. s \in Int /\ t \in Int
  BY WordIntegers
<1>4. Overflows(a, b) <=> a = half /\ b = Size - 1
  BY DEF Overflows
<1> HIDE DEF half, s, t
<1>5. t # 0 /\ (Overflows(a, b) <=> s = -half /\ t = -1)
  BY <1>1, <1>2, <1>4
<1>6. q \in Int /\ Abs(q) <= Abs(s) /\ Remains(s - t * q, s, t)
  BY <1>3, <1>5, QuotientFacts
<1>7. Abs(s) <= half /\ (Abs(s) = half => s = -half)
  BY <1>1, <1>2 DEF Abs
<1>8. Abs(s) \in Nat
  BY <1>3 DEF Abs
<1>9. CASE Overflows(a, b)
  <2>1. s = -half /\ t = -1
    BY <1>5, <1>9
  <2>2. Abs(s) = half /\ Abs(t) = 1 /\ s < 0 /\ t < 0
    <3>1. half \in Nat /\ half > 0
      BY <1>1
    <3>2. s \in Int /\ s < 0 /\ t < 0 /\ Abs(s) = -s /\ Abs(t) = -t
      BY <1>3, <2>1, <3>1 DEF Abs
    <3>3. QED
      BY <2>1, <3>1, <3>2
  <2>3. q = half \div 1
    BY <2>2 DEF Quotient
  <2>4. q = half
    BY <1>1, <2>3
  <2>5. QED
    BY <1>9, <2>4 DEF half, s, t
<1>10. CASE ~Overflows(a, b)
  <2>1. SUFFICES ASSUME q >= half
                 PROVE  FALSE
    <3> HIDE DEF q
    <3>1. -half <= q
      BY <1>1, <1>6, <1>7, <1>8 DEF Abs
    <3>2. q < half => q \in -half .. half - 1
      BY <1>1, <1>6, <3>1
    <3>3. q \in -half .. half - 1
      BY <1>1, <1>6, <3>2, <2>1
    <3>4. QED
      BY <1>10, <3>3 DEF half, s, t, q
  <2>2. s = -half /\ q = half
    <3> HIDE DEF q
    <3>1. Abs(q) = q
      BY <1>1, <1>6, <2>1 DEF Abs
    <3>2. QED
      BY <1>1, <1>6, <1>7, <1>8, <2>1, <3>1
  <2>3. t < 0
    <3>1. SUFFICES ASSUME ~(t < 0)
                   PROVE  FALSE
      OBVIOUS
    <3>2. q = -(Abs(s) \div Abs(t)) /\ Abs(t) = t /\ Abs(s) = half
      BY <1>1, <1>3, <2>2, <3>1 DEF Quotient, Abs
    <3>3. half \div t >= 0 /\ half \div t \in Int
      BY <1>1, <1>3, <1>5, <3>1
    <3>4. q <= 0
      <4> DEFINE d == half \div t
      <4> HIDE DEF d
      <4>1. q = -d /\ d >= 0 /\ d \in Int
        BY <3>2, <3>3 DEF d
      <4>2. QED
        BY <4>1
    <3>5. QED
      BY <1>1, <2>2, <3>4
  <2>4. t # -1
    BY <1>5, <1>10, <2>2
  <2>5. q = half \div (-t) /\ -t \in Int /\ -t >= 2
    <3>1. Abs(t) = -t /\ Abs(s) = half /\ s < 0
      BY <1>1, <1>3, <2>2, <2>3 DEF Abs
    <3>2. q = half \div (-t)
      BY <2>3, <3>1 DEF Quotient
    <3>3. QED
      BY <1>3, <2>3, <2>4, <3>2
  <2>6. half \div (-t) < half
    <3> DEFINE m == -t
    <3>1. m \in Int /\ m >= 2
      BY <2>5
    <3> HIDE DEF m
    <3>2. half \div m < half
      BY <1>1, <3>1
    <3>3. QED
      BY <3>2 DEF m
  <2>7. QED
    BY <1>1, <2>2, <2>5, <2>6
<1>11. QED
  BY <1>9, <1>10

(* Signed division: by zero, with its overflow, and otherwise *)
LEMMA RightQuotients ==
  ASSUME NEW op \in {"div", "rem"}, NEW a \in Word, NEW b \in Word
  PROVE  Right(op, a, b, Alu(op, a, b))
<1> DEFINE half == Size \div 2
           s == Signed(a)
           t == Signed(b)
           q == Quotient(s, t)
           rest == s - t * q
<1>1. CASE b = 0
  BY <1>1 DEF Right, Alu
<1>2. CASE b # 0
  <2>1. /\ half \in Nat /\ half >= 8 /\ Size = 2 * half /\ Size \in Nat
        /\ a \in 0 .. Size - 1 /\ b \in 0 .. Size - 1 /\ s \in Int /\ t \in Int
    BY SizeFacts, WordIntegers
  <2>2. /\ s \in -half .. half - 1
        /\ t \in -half .. half - 1 /\ ((t = b /\ b < half) \/ (t = b - Size /\ b >= half))
    BY SignedFacts
  <2>3. t # 0
    <3> HIDE DEF half, t
    <3> QED BY <1>2, <2>1, <2>2
  <2>4. q \in Int /\ Remains(rest, s, t) /\ Abs(q) <= Abs(s)
    BY <2>1, <2>3, QuotientFacts
  <2>5. CASE op = "div"
    <3>1. Alu(op, a, b) = Wrap(q)
      BY <1>2, <2>5 DEF Alu
    <3>2. CASE Overflows(a, b)
      <4>1. q = half /\ a = half
        BY <1>2, <3>2, QuotientRange DEF Overflows
      <4>2. Wrap(half) = half
        BY <4>1, WrapWord
      <4>3. QED
        BY <1>2, <2>5, <3>1, <3>2, <4>1, <4>2 DEF Right
    <3>3. CASE ~Overflows(a, b)
      <4>1. Signed(Wrap(q)) = q
        BY <1>2, <3>3, QuotientRange, SignedWrap
      <4>2. Remains(s - t * Signed(Wrap(q)), s, t)
        BY <2>4, <4>1
      <4>3. QED
        BY <1>2, <2>5, <3>1, <3>3, <4>2 DEF Right
    <3>4. QED
      BY <3>2, <3>3
  <2>6. CASE op = "rem"
    <3>1. Alu(op, a, b) = Wrap(rest)
      BY <1>2, <2>6 DEF Alu
    <3>2. rest \in Int /\ s = t * q + rest
      <4> HIDE DEF s, t, q
      <4>1. t * q \in Int
        BY <2>1, <2>4
      <4>2. QED
        BY <2>1, <4>1
    <3>3. Abs(rest) < Abs(t)
      BY <2>4 DEF Remains
    <3>4. Signed(Wrap(rest)) = rest
      <4>1. rest \in -half .. half - 1
        <5> HIDE DEF rest, half, s, t
        <5> QED BY <2>1, <2>2, <3>2, <3>3 DEF Abs
      <4>2. QED
        BY <4>1, SignedWrap
    <3>5. q \in -Size .. Size
      <4> HIDE DEF half, s, q
      <4> QED BY <2>1, <2>2, <2>4 DEF Abs
    <3>6. \E p \in -Size .. Size : s = t * p + Signed(Wrap(rest))
      BY <3>2, <3>4, <3>5
    <3>7. Remains(Signed(Wrap(rest)), s, t)
      BY <2>4, <3>4
    <3>8. QED
      BY <1>2, <2>6, <3>1, <3>6, <3>7 DEF Right
  <2>7. QED
    BY <2>5, <2>6
<1>3. QED
  BY <1>1, <1>2

(* Unsigned division *)
LEMMA RightUnsigned ==
  ASSUME NEW op \in {"divu", "remu"}, NEW a \in Word, NEW b \in Word
  PROVE  Right(op, a, b, Alu(op, a, b))
<1>1. CASE b = 0
  BY <1>1 DEF Right, Alu
<1>2. CASE b # 0
  <2> DEFINE d == a \div b
             r == a % b
  <2>1. a \in Nat /\ b \in Nat \ {0} /\ a \in 0 .. Size - 1 /\ Size \in Nat
    BY <1>2, WordIntegers
  <2>2. d \in Int /\ r \in 0 .. b - 1 /\ a = d * b + r
    <3>1. a \in Int
      BY <2>1
    <3>2. QED
      BY <2>1, <3>1, DivisionParts
  <2>3. d \in Word
    BY <2>1 DEF Word
  <2> HIDE DEF d, r
  <2>4. a - b * d = r /\ a = b * d + r
    <3>1. b * d = d * b /\ b * d \in Int
      BY <2>1, <2>2
    <3>2. QED
      BY <2>1, <2>2, <3>1
  <2>5. Remains(r, a, b)
    BY <2>1, <2>2 DEF Remains, Abs
  <2>6. CASE op = "divu"
    <3>1. Alu(op, a, b) = d
      BY <1>2, <2>6 DEF Alu, d
    <3>2. Remains(a - b * d, a, b)
      BY <2>4, <2>5
    <3>3. QED
      BY <1>2, <2>6, <3>1, <3>2 DEF Right
  <2>7. CASE op = "remu"
    <3>1. Alu(op, a, b) = r
      BY <1>2, <2>7 DEF Alu, r
    <3>2. \E q \in Word : a = b * q + r
      BY <2>3, <2>4
    <3>3. QED
      BY <1>2, <2>5, <2>7, <3>1, <3>2 DEF Right
  <2>8. QED
    BY <2>6, <2>7
<1>3. QED
  BY <1>1, <1>2

(* Every operation computes what the manual says of it. *)
LEMMA RightAlu ==
  ASSUME NEW op \in RegOps, NEW a \in Word, NEW b \in Word
  PROVE  Right(op, a, b, Alu(op, a, b))
<1>1. \/ op \in {"add", "sub", "mul"} \/ op \in {"slt", "sltu"} \/ op \in {"and", "or", "xor"}
      \/ op \in {"sll", "srl", "sra"} \/ op \in {"mulh", "mulhsu", "mulhu"}
      \/ op \in {"div", "rem"} \/ op \in {"divu", "remu"}
  BY DEF RegOps
<1>2. QED
  BY <1>1, RightSums, RightComparisons, RightBitwise, RightShifts, RightProducts, RightQuotients,
     RightUnsigned


(* What an operation writes is in rd after it. *)
LEMMA WritesValue ==
  ASSUME NEW s, Sound(s), NEW d \in Registers \ {0}, NEW v \in Word
  PROVE  Done(SetX(s, d, v)).to.x[d] = v
<1>1. SetX(s, d, v) = [s EXCEPT !.x[d] = v]
  BY DEF SetX
<1>2. QED
  BY <1>1 DEF Done, Ok, Sound, Harts

(* A register-register or register-immediate operation writes rd and pc. *)
LEMMA WritesRegister ==
  ASSUME NEW s, Sound(s), NEW d \in Registers, NEW v \in Word
  PROVE  LET r == Done(SetX(s, d, v)) IN
         r.to = [SetX(s, d, r.to.x[d]) EXCEPT !.pc = Wrap(@ + 4)]
<1> DEFINE t == SetX(s, d, v)
           r == Done(t)
<1>1. r.to = [t EXCEPT !.pc = Wrap(@ + 4)]
  BY DEF Done, Ok
<1>2. CASE d = 0
  BY <1>1, <1>2 DEF SetX
<1>3. CASE d # 0
  <2>1. r.to.x[d] = v
    BY <1>3, WritesValue
  <2> HIDE DEF r
  <2>2. SetX(s, d, r.to.x[d]) = t
    BY <2>1
  <2>3. QED
    BY <1>1, <2>2 DEF r
<1>4. QED
  BY <1>2, <1>3

(* A multiple of the divisor leaves nothing. *)
LEMMA MultipleRest ==
  ASSUME NEW q \in Int, NEW m \in Nat \ {0}
  PROVE  ((q * m) % m) = 0
<1>1. 0 \in 0 .. m - 1 /\ q * m + 0 = q * m
  OBVIOUS
<1>2. ((q * m + 0) % m) = 0
  BY <1>1, DivisionIsUnique
<1>3. QED
  BY <1>1, <1>2

(* What lui and auipc make of their immediate is what the manual says. *)
LEMMA UpperIsRight ==
  ASSUME NEW base \in Int, NEW imm \in Int
  PROVE  UpperRight(Wrap(base + Upper(imm)), base, imm)
<1> DEFINE k == (3 * Xlen) \div 8
           l == Xlen - k
           unit == Pow2[k]
           p == Pow2[l]
           low == imm % unit
           u == Upper(imm)
           v == Wrap(base + u)
           d == Wrap(v - base)
<1>1. k \in Nat /\ l \in Nat /\ k + l = Xlen
  BY SizeFacts
<1>2. /\ unit \in Nat \ {0} /\ p \in Nat \ {0} /\ Size = unit * p
      /\ Size \in Nat \ {0} /\ unit <= Size
  <2> HIDE DEF k, l
  <2>1. unit \in Nat \ {0} /\ p \in Nat \ {0} /\ Size = unit * p
    BY <1>1, Pow2Facts, Pow2Add, SizeFacts
  <2> HIDE DEF unit, p
  <2>2. QED
    BY <2>1
<1>3. u = imm - low
  BY DEF Upper
<1> HIDE DEF k, l, unit, p
<1>4. low \in 0 .. unit - 1 /\ imm \div unit \in Int /\ imm = (imm \div unit) * unit + low
  BY <1>2, DivisionParts
<1> DEFINE c == imm \div unit
<1>5. u \in Int /\ c \in Int /\ u = c * unit /\ low \in Int
  BY <1>2, <1>3, <1>4
<1> HIDE DEF u, low, c
<1>6. PICK q \in Int : base + u = q * Size + v
  BY <1>5, WrapType
<1>7. v \in Int
  BY <1>5, WrapType, WordIntegers
<1> HIDE DEF v
<1>8. PICK m \in Int : v - base = m * Size + d
  BY <1>7, WrapType
<1>9. d \in Int
  BY <1>7, WrapType, WordIntegers
<1> HIDE DEF d
<1>10. PICK n \in Int : d = u + n * Size
  <2> DEFINE y == q * Size
             z == m * Size
             o == -(q + m)
  <2>1. /\ y \in Int /\ z \in Int /\ o \in Int /\ o * Size = -y - z
        /\ base + u = y + v /\ v - base = z + d
    BY <1>2, <1>6, <1>8
  <2> HIDE DEF y, z, o
  <2>2. d = u + (-y - z)
    BY <1>5, <1>7, <1>9, <2>1
  <2>3. d = u + o * Size
    BY <2>1, <2>2
  <2>4. QED
    BY <2>1, <2>3
<1>11. (d % unit) = 0
  <2>1. n * (unit * p) = (n * p) * unit /\ n * p \in Int
    BY <1>2
  <2> DEFINE y == n * p
             e == c + y
  <2>2. y \in Int /\ e \in Int /\ e * unit = c * unit + y * unit /\ n * Size = y * unit
    BY <1>2, <1>5, <2>1
  <2> HIDE DEF y, e
  <2>3. d = e * unit
    BY <1>5, <1>10, <2>2
  <2>4. QED
    BY <1>2, <2>2, <2>3, MultipleRest
<1>12. Wrap(imm - d) = low
  <2> DEFINE y == n * Size
  <2>1. y \in Int /\ (-n) * Size = -y /\ -n \in Int
    BY <1>2
  <2> HIDE DEF y
  <2>2. imm - d = -y + low
    BY <1>3, <1>5, <1>9, <1>10, <2>1 DEF y
  <2>3. imm - d = (-n) * Size + low
    BY <2>1, <2>2
  <2>4. low \in Word
    BY <1>2, <1>4 DEF Word
  <2> DEFINE o == -n
  <2>5. o \in Int /\ imm - d = o * Size + low
    BY <2>1, <2>3
  <2> HIDE DEF o
  <2>6. QED
    BY <2>4, <2>5, WrapIsUnique
<1>13. low < unit
  BY <1>2, <1>4
<1>14. QED
  BY <1>11, <1>12, <1>13 DEF UpperRight, d, v, u, unit, k

(* Wrapping moves an address by a multiple of Size, and keeps its lowest bits. *)
LEMMA WrapMoves ==
  ASSUME NEW n \in Int
  PROVE  /\ WordAligned(Wrap(n)) <=> (n % 4) = 0
         /\ (Wrap(n) % 2) = (n % 2)
         /\ ((Wrap(n) - n) % Size) = 0
<1> DEFINE w == Wrap(n)
<1>1. PICK q \in Int : n = q * Size + w
  BY WrapType
<1>2. PICK k \in Nat : Size = 4 * k
  BY SizeFacts
<1>3. w \in Int /\ Size \in Nat \ {0}
  BY WrapType, WordIntegers
<1> HIDE DEF w
<1> DEFINE j == q * k
<1>4. j \in Int /\ q * (4 * k) = j * 4
  BY <1>2
<1> HIDE DEF j
<1>5. n = w + j * 4 /\ n = w + (2 * j) * 2 /\ 2 * j \in Int
  BY <1>1, <1>2, <1>3, <1>4
<1>6. ((w + j * 4) % 4) = (w % 4)
  BY <1>3, <1>4, DivideSum
<1> DEFINE i == 2 * j
<1>7. n = w + i * 2 /\ i \in Int
  BY <1>5
<1> HIDE DEF i
<1>8. ((w + i * 2) % 2) = (w % 2)
  BY <1>3, <1>7, DivideSum
<1> DEFINE m == -q
           y == q * Size
<1>9. m \in Int /\ y \in Int /\ m * Size = -y /\ n = y + w
  BY <1>1, <1>3
<1> HIDE DEF m, y
<1>10. w - n = m * Size
  BY <1>3, <1>9
<1>11. ((m * Size) % Size) = 0
  BY <1>3, <1>9, MultipleRest
<1>12. QED
  BY <1>5, <1>6, <1>7, <1>8, <1>10, <1>11 DEF WordAligned, w

(* A jump to an address that wraps leads there, with its link. *)
LEMMA JumpLeads ==
  ASSUME Sound(h), NEW d \in Registers, NEW to \in Int
  PROVE  Leads(Jump(h, d, Wrap(to)), SetX(h, d, Wrap(h.pc + 4)), to)
<1> DEFINE target == Wrap(to)
           link == Wrap(h.pc + 4)
           r == Jump(h, d, target)
           s == SetX(h, d, link)
<1>1. target \in Word /\ (WordAligned(target) <=> (to % 4) = 0) /\ ((target - to) % Size) = 0
  BY WrapType, WrapMoves
<1> HIDE DEF target, link
<1>2. CASE (to % 4) = 0
  <2>1. r = Ok(SetX([h EXCEPT !.pc = target], d, link))
    BY <1>1, <1>2 DEF Jump, link
  <2>2. SetX([h EXCEPT !.pc = target], d, link) = [s EXCEPT !.pc = target]
    BY DEF SetX, Sound, Harts
  <2>3. [s EXCEPT !.pc = target].pc = target
    BY DEF SetX, Sound, Harts
  <2> HIDE DEF r, s
  <2>4. r.to.pc = target /\ r = Ok([s EXCEPT !.pc = target])
    BY <2>1, <2>2, <2>3 DEF Ok
  <2>5. QED
    BY <1>1, <1>2, <2>4 DEF Leads, r, s, target, link
<1>3. CASE (to % 4) # 0
  <2>1. r = Fail(h, "target_misaligned")
    BY <1>1, <1>3 DEF Jump
  <2> HIDE DEF r, s
  <2>2. QED
    BY <1>3, <2>1 DEF Leads, r, s, target, link
<1>4. QED
  BY <1>2, <1>3

(* jalr clears the lowest bit of its target. *)
LEMMA EvenTarget ==
  ASSUME NEW n \in Int
  PROVE  \E to \in {n, n - 1} : (to % 2) = 0 /\ Wrap(to) = Wrap(n) - (Wrap(n) % 2)
<1> DEFINE w == Wrap(n)
<1>1. /\ w \in Word /\ w \in Int /\ w \in 0 .. Size - 1 /\ Size \in Nat \ {0}
      /\ (w % 2) = (n % 2)
  BY WrapType, WordIntegers, WrapMoves
<1>2. CASE (n % 2) = 0
  <2>1. Wrap(n) = w - (w % 2)
    BY <1>1, <1>2
  <2>2. QED
    BY <1>2, <2>1
<1>3. CASE (n % 2) # 0
  <2>1. PICK q \in Int : n = q * Size + w
    BY WrapType
  <2> HIDE DEF w
  <2>2. (n % 2) = 1 /\ ((n - 1) % 2) = 0 /\ w # 0 /\ (w % 2) = 1
    BY <1>1, <1>3
  <2>3. w - 1 \in Word
    BY <1>1, <2>2 DEF Word
  <2> DEFINE y == q * Size
  <2>4. y \in Int
    BY <1>1
  <2> HIDE DEF y
  <2>5. n - 1 = y + (w - 1)
    BY <1>1, <2>1, <2>4 DEF y
  <2>6. Wrap(n - 1) = w - 1
    BY <2>3, <2>5, WrapIsUnique DEF y
  <2>7. QED
    BY <2>2, <2>6 DEF w
<1>4. QED
  BY <1>2, <1>3

(* A branch that is taken leads to its target, or to the exception. *)
LEMMA BranchLeads ==
  ASSUME Sound(h), NEW op, NEW at, NEW imm \in Int
  PROVE  IF Taken(op, h.x[at.rs1], h.x[at.rs2]) THEN Leads(Branch(h, op, at, imm), h, h.pc + imm)
         ELSE Branch(h, op, at, imm) = Done(h)
<1> DEFINE to == h.pc + imm
           target == Wrap(to)
           r == Branch(h, op, at, imm)
<1>1. ASSUME ~Taken(op, h.x[at.rs1], h.x[at.rs2])
      PROVE  r = Done(h)
  BY <1>1 DEF Branch
<1>2. to \in Int
  BY WordIntegers DEF Sound, Harts
<1>3. ASSUME Taken(op, h.x[at.rs1], h.x[at.rs2])
      PROVE  r = IF WordAligned(target) THEN Ok([h EXCEPT !.pc = target])
                 ELSE Fail(h, "target_misaligned")
  BY <1>3 DEF Branch
<1> HIDE DEF r, to
<1>4. (WordAligned(target) <=> (to % 4) = 0) /\ ((target - to) % Size) = 0
  BY <1>2, WrapMoves
<1> HIDE DEF target
<1>5. [h EXCEPT !.pc = target].pc = target
  BY DEF Sound, Harts
<1>6. Ok([h EXCEPT !.pc = target]).to.pc = target
  BY <1>5 DEF Ok
<1>7. ASSUME Taken(op, h.x[at.rs1], h.x[at.rs2])
      PROVE  Leads(r, h, to)
  BY <1>3, <1>4, <1>6, <1>7 DEF Leads
<1>8. QED
  BY <1>1, <1>7 DEF r, to

(* The operations that compute, of any operands *)
LEMMA ResultsAreRight ==
  ASSUME TypeOK, NEW at \in Operands
  PROVE  ResultsRight(at)
<1> DEFINE a == h.x[at.rs1]
           b == h.x[at.rs2]
           run(op, imm) == Execute(h, [op |-> op, at |-> at, imm |-> imm])
           writes(r) == r.to = [SetX(h, at.rd, r.to.x[at.rd]) EXCEPT !.pc = Wrap(@ + 4)]
           right(r, op, with) == writes(r) /\ (at.rd # 0 => Right(op, a, with, r.to.x[at.rd]))
           upper(r, base, imm) == writes(r) /\ (at.rd # 0 => UpperRight(r.to.x[at.rd], base, imm))
<1>1. Sound(h)
  BY DEF TypeOK, Sound
<1>2. at.rd \in Registers /\ at.rs1 \in Registers /\ at.rs2 \in Registers /\ Imms \subseteq Int
  BY ExecutorAssumption, SizeFacts DEF Operand
<1>3. a \in Word /\ b \in Word /\ h.pc \in Int
  BY <1>1, <1>2, WordIntegers DEF Sound, Harts
<1>4. ASSUME NEW v \in Word
      PROVE  LET r == Done(SetX(h, at.rd, v)) IN
             writes(r) /\ (at.rd # 0 => r.to.x[at.rd] = v)
  BY <1>1, <1>2, <1>4, WritesRegister, WritesValue
<1>5. ASSUME NEW op \in RegOps, NEW v \in Word
      PROVE  right(Done(SetX(h, at.rd, Alu(op, a, v))), op, v)
  <2> DEFINE w == Alu(op, a, v)
             r == Done(SetX(h, at.rd, w))
  <2>1. w \in Word /\ Right(op, a, v, w)
    BY <1>3, AluType, RightAlu
  <2> HIDE DEF w
  <2>2. writes(r) /\ (at.rd # 0 => r.to.x[at.rd] = w)
    BY <1>4, <2>1
  <2> HIDE DEF r, a, writes
  <2>3. right(r, op, v)
    BY <2>1, <2>2
  <2>4. QED
    BY <2>3 DEF r, w
<1>6. ASSUME NEW base \in Int, NEW imm \in Imms
      PROVE  upper(Done(SetX(h, at.rd, Wrap(base + Upper(imm)))), base, imm)
  <2> DEFINE w == Wrap(base + Upper(imm))
             r == Done(SetX(h, at.rd, w))
  <2>1. w \in Word /\ UpperRight(w, base, imm)
    <3>1. imm \in Int /\ Upper(imm) \in Int
      BY <1>2, UpperType
    <3> DEFINE n == base + Upper(imm)
    <3>2. n \in Int
      BY <3>1
    <3>3. UpperRight(Wrap(base + Upper(imm)), base, imm)
      BY <3>1, UpperIsRight
    <3> HIDE DEF n
    <3>4. Wrap(n) \in Word
      BY <3>2, WrapType
    <3>5. QED
      BY <3>3, <3>4 DEF n
  <2> HIDE DEF w
  <2>2. writes(r) /\ (at.rd # 0 => r.to.x[at.rd] = w)
    BY <1>4, <2>1
  <2> HIDE DEF r, writes
  <2>3. upper(r, base, imm)
    BY <2>1, <2>2
  <2>4. QED
    BY <2>3 DEF r, w
<1> HIDE DEF writes, right, upper
<1>7. ASSUME NEW op \in RegOps
      PROVE  right(Execute(h, [op |-> op, at |-> at]), op, b)
  <2> DEFINE i == [op |-> op, at |-> at]
  <2>1. i.op = op /\ i.at = at
    OBVIOUS
  <2> HIDE DEF i
  <2>2. Execute(h, i) = Done(SetX(h, at.rd, Alu(op, a, b)))
    BY <2>1, Dispatch DEF RegReg
  <2>3. QED
    BY <1>3, <1>5, <2>2 DEF i
<1>8. ASSUME NEW imm \in Imms
      PROVE  /\ \A op \in DOMAIN ImmOps : right(run(op, imm), ImmOps[op], Wrap(imm))
             /\ imm \in 0 .. Xlen - 1 => \A op \in DOMAIN ShiftOps : right(run(op, imm), ShiftOps[op], imm)
             /\ upper(run("lui", imm), 0, imm) /\ upper(run("auipc", imm), h.pc, imm)
  <2>1. imm \in Int /\ Wrap(imm) \in Word
    BY <1>2, WrapType
  <2>2. ASSUME NEW op
        PROVE  /\ op \in DOMAIN ImmOps =>
                    run(op, imm) = Done(SetX(h, at.rd, Alu(ImmOps[op], a, Wrap(imm))))
               /\ op \in DOMAIN ShiftOps =>
                    run(op, imm) = Done(SetX(h, at.rd, Alu(ShiftOps[op], a, Wrap(imm))))
               /\ op = "lui" => run(op, imm) = Lui(h, at, imm)
               /\ op = "auipc" => run(op, imm) = Auipc(h, at, imm)
    <3> DEFINE i == [op |-> op, at |-> at, imm |-> imm]
    <3>1. i.op = op /\ i.at = at /\ i.imm = imm
      OBVIOUS
    <3> HIDE DEF i
    <3>2. /\ op \in DOMAIN ImmOps => Execute(h, i) = RegImm(h, ImmOps[op], at, imm)
          /\ op \in DOMAIN ShiftOps => Execute(h, i) = RegImm(h, ShiftOps[op], at, imm)
          /\ op = "lui" => Execute(h, i) = Lui(h, at, imm)
          /\ op = "auipc" => Execute(h, i) = Auipc(h, at, imm)
      BY <3>1, Dispatch
    <3>3. run(op, imm) = Execute(h, i)
      BY DEF i
    <3> HIDE DEF run
    <3>4. QED
      BY <3>2, <3>3 DEF RegImm
  <2> HIDE DEF run
  <2>3. ASSUME NEW op \in DOMAIN ImmOps
        PROVE  right(run(op, imm), ImmOps[op], Wrap(imm))
    BY <1>5, <2>1, <2>2, OpTypes
  <2>4. ASSUME NEW op \in DOMAIN ShiftOps, imm \in 0 .. Xlen - 1
        PROVE  right(run(op, imm), ShiftOps[op], imm)
    <3>1. Xlen \in Nat /\ Xlen < Size /\ Size \in Nat
      BY SizeFacts, Pow2Grows
    <3>2. imm \in Word
      BY <2>1, <2>4, <3>1 DEF Word
    <3>3. Wrap(imm) = imm /\ ShiftOps[op] \in RegOps
      BY <3>2, WrapWord, OpTypes
    <3>4. QED
      BY <1>5, <2>2, <3>2, <3>3
  <2>5. upper(run("lui", imm), 0, imm)
    <3>1. Upper(imm) \in Int /\ 0 \in Int
      BY <2>1, UpperType
    <3>2. 0 + Upper(imm) = Upper(imm)
      BY <3>1
    <3>3. run("lui", imm) = Done(SetX(h, at.rd, Wrap(0 + Upper(imm))))
      BY <2>2, <3>2 DEF Lui
    <3>4. QED
      BY <1>6, <3>1, <3>3
  <2>6. upper(run("auipc", imm), h.pc, imm)
    <3>1. run("auipc", imm) = Done(SetX(h, at.rd, Wrap(h.pc + Upper(imm))))
      BY <2>2 DEF Auipc
    <3>2. QED
      BY <1>3, <1>6, <3>1
  <2>7. QED
    BY <2>3, <2>4, <2>5, <2>6
<1>9. QED
  BY <1>7, <1>8 DEF ResultsRight, right, upper, writes

(* The jumps and the branches, of any operands and to any address *)
LEMMA TransfersAreRight ==
  ASSUME TypeOK, NEW at \in Operands, NEW imm \in Imms
  PROVE  TransfersRight(at, imm)
<1> DEFINE a == h.x[at.rs1]
           b == h.x[at.rs2]
           run(op) == Execute(h, [op |-> op, at |-> at, imm |-> imm])
           linked == SetX(h, at.rd, Wrap(h.pc + 4))
           less(op) == Execute(h, [op |-> op, at |-> [at EXCEPT !.rd = 1]]).to.x[1] = 1
           branches(op, taken) ==
             IF taken THEN Leads(run(op), h, h.pc + imm) ELSE run(op) = Done(h)
<1>1. Sound(h)
  BY DEF TypeOK, Sound
<1>2. /\ at.rd \in Registers /\ at.rs1 \in Registers /\ at.rs2 \in Registers
      /\ at \in [rd : Registers, rs1 : Registers, rs2 : Registers]
      /\ imm \in Int /\ 1 \in Registers
  BY ExecutorAssumption, SizeFacts DEF Operand
<1>3. a \in Word /\ b \in Word /\ a \in Int /\ b \in Int /\ h.pc \in Int
  BY <1>1, <1>2, WordIntegers DEF Sound, Harts
<1>4. /\ run("jal") = Jal(h, at, imm) /\ run("jalr") = Jalr(h, at, imm)
      /\ \A op \in BranchOps : run(op) = Branch(h, op, at, imm)
  <2>1. ASSUME NEW op
        PROVE  /\ op = "jal" => run(op) = Jal(h, at, imm)
               /\ op = "jalr" => run(op) = Jalr(h, at, imm)
               /\ op \in BranchOps => run(op) = Branch(h, op, at, imm)
    <3> DEFINE i == [op |-> op, at |-> at, imm |-> imm]
    <3>1. i.op = op /\ i.at = at /\ i.imm = imm
      OBVIOUS
    <3> HIDE DEF i
    <3>2. /\ op = "jal" => Execute(h, i) = Jal(h, at, imm)
          /\ op = "jalr" => Execute(h, i) = Jalr(h, at, imm)
          /\ op \in BranchOps => Execute(h, i) = Branch(h, op, at, imm)
      BY <3>1, Dispatch
    <3>3. QED
      BY <3>2 DEF i
  <2> HIDE DEF run
  <2>2. QED
    BY <2>1
<1> HIDE DEF run
<1>5. Leads(run("jal"), linked, h.pc + imm)
  <2> DEFINE to == h.pc + imm
  <2>1. to \in Int /\ run("jal") = Jump(h, at.rd, Wrap(to))
    BY <1>2, <1>3, <1>4 DEF Jal
  <2> HIDE DEF to
  <2>2. Leads(Jump(h, at.rd, Wrap(to)), linked, to)
    BY <1>1, <1>2, <2>1, JumpLeads
  <2>3. QED
    BY <2>1, <2>2 DEF to
<1>6. \E to \in {a + imm, (a + imm) - 1} : to % 2 = 0 /\ Leads(run("jalr"), linked, to)
  <2> DEFINE n == a + imm
  <2>1. n \in Int /\ n - 1 \in Int
    BY <1>2, <1>3
  <2>2. run("jalr") = Jump(h, at.rd, Wrap(n) - (Wrap(n) % 2))
    BY <1>4 DEF Jalr
  <2> HIDE DEF n
  <2>3. PICK to \in {n, n - 1} : (to % 2) = 0 /\ Wrap(to) = Wrap(n) - (Wrap(n) % 2)
    BY <2>1, EvenTarget
  <2>4. to \in Int
    BY <2>1, <2>3
  <2>5. Leads(Jump(h, at.rd, Wrap(to)), linked, to)
    BY <1>1, <1>2, <2>4, JumpLeads
  <2> HIDE DEF linked
  <2>6. Leads(run("jalr"), linked, to)
    BY <2>2, <2>3, <2>5
  <2>7. \E t \in {n, n - 1} : (t % 2) = 0 /\ Leads(run("jalr"), linked, t)
    BY <2>3, <2>6
  <2>8. QED
    BY <2>7 DEF n
<1>7. ASSUME NEW op \in {"slt", "sltu"}
      PROVE  less(op) <=> Alu(op, a, b) = 1
  <2> DEFINE one == [at EXCEPT !.rd = 1]
             i == [op |-> op, at |-> one]
             w == Alu(op, a, b)
  <2>1. i.op = op /\ i.at = one /\ one.rd = 1 /\ one.rs1 = at.rs1 /\ one.rs2 = at.rs2 /\ op \in RegOps
    BY <1>2 DEF RegOps
  <2>2. w \in Word
    BY <1>3, <2>1, AluType
  <2> HIDE DEF i, one
  <2>3. Execute(h, i) = Done(SetX(h, 1, w))
    BY <2>1, Dispatch DEF RegReg
  <2> HIDE DEF w
  <2>4. Done(SetX(h, 1, w)).to.x[1] = w
    <3>1. 1 \in Registers \ {0}
      BY <1>2
    <3>2. QED
      BY <1>1, <2>2, <3>1, WritesValue
  <2>5. QED
    BY <2>3, <2>4 DEF i, one, w
<1>8. ASSUME NEW op \in BranchOps
      PROVE  branches(op, Taken(op, a, b))
  BY <1>1, <1>2, <1>4, BranchLeads
<1> HIDE DEF less, branches, linked
<1>9. /\ branches("beq", a = b) /\ branches("bne", a # b)
      /\ branches("blt", less("slt")) /\ branches("bge", ~less("slt"))
      /\ branches("bltu", less("sltu")) /\ branches("bgeu", ~less("sltu"))
  <2>1. (less("slt") <=> Signed(a) < Signed(b)) /\ (less("sltu") <=> a < b)
    BY <1>7 DEF Alu, Flag
  <2>2. (Signed(a) >= Signed(b) <=> ~(Signed(a) < Signed(b))) /\ (a >= b <=> ~(a < b))
    BY <1>3, WordIntegers
  <2>3. \A op \in BranchOps : branches(op, Taken(op, a, b))
    BY <1>8
  <2>4. BranchOps = {"beq", "bne", "blt", "bltu", "bge", "bgeu"}
    BY DEF BranchOps
  <2> HIDE DEF a, b
  <2>5. /\ branches("beq", Taken("beq", a, b)) /\ branches("bne", Taken("bne", a, b))
        /\ branches("blt", Taken("blt", a, b)) /\ branches("bge", Taken("bge", a, b))
        /\ branches("bltu", Taken("bltu", a, b)) /\ branches("bgeu", Taken("bgeu", a, b))
    BY <2>3, <2>4
  <2>6. /\ Taken("beq", a, b) <=> a = b
        /\ Taken("bne", a, b) <=> a # b
        /\ Taken("blt", a, b) <=> less("slt")
        /\ Taken("bge", a, b) <=> ~less("slt")
        /\ Taken("bltu", a, b) <=> less("sltu")
        /\ Taken("bgeu", a, b) <=> ~less("sltu")
    BY <2>1, <2>2 DEF Taken
  <2>7. QED
    BY <2>5, <2>6 DEF branches
<1>10. QED
  BY <1>5, <1>6, <1>9 DEF TransfersRight, less, branches, linked, run

(* The instructions that compute write nothing but rd, and to it what the  *)
(* manual says; jumps and branches lead to their targets, with the right   *)
(* link and on the conditions of slt and sltu, or to the exception of a    *)
(* target that is not aligned; for every width of words (reg_reg_op,       *)
(* reg_imm_op, reg_shamt_op and their closures, lui, auipc; jump_op,       *)
(* cond_branch).  The property is about any operands; that x holds words   *)
(* is RegistersSound.                                                      *)
THEOREM ComputesArithmetic == Spec => []ArithmeticRight
<1>1. ASSUME TypeOK
      PROVE  ArithmeticRight
  BY <1>1, ResultsAreRight, TransfersAreRight DEF ArithmeticRight
<1>2. QED
  BY <1>1, RegistersSound, PTL


-----------------------------------------------------------------------------
(* Loads, stores and atomic operations *)

(* What a load makes of the n bytes that a store left of v *)
LEMMA LoadNarrows ==
  ASSUME NEW n \in {1, 2, 4}, NEW v \in Word
  PROVE  /\ v % Span(n) \in 0 .. Span(n) - 1
         /\ Narrowed(v, n, TRUE, Extend(v % Span(n), n))
         /\ Narrowed(v, n, FALSE, v % Span(n))
<1> DEFINE R == Span(n)
           u == v % R
           half == Size \div 2
           m == R \div 2
           r == Extend(u, n)
<1>1. /\ R \in Nat \ {0} /\ R <= Size /\ R = 2 * m /\ m \in Nat
      /\ half \in Nat /\ Size = 2 * half
  <2>1. /\ half \in Nat /\ Size = 2 * half /\ Size \in Nat /\ Size >= 16
    BY SizeFacts
  <2>2. ByteBits \in Nat \ {0} /\ R = Pow2[n * ByteBits]
    BY ByteBitsAssumption DEF Span
  <2> DEFINE k == n * ByteBits - 1
             l == 4 * ByteBits - n * ByteBits
  <2>3. k \in Nat /\ k + 1 = n * ByteBits /\ l \in Nat /\ n * ByteBits + l = 4 * ByteBits
        /\ n * ByteBits \in Nat
    BY <2>2
  <2> DEFINE j == n * ByteBits
  <2> HIDE DEF k, l, j
  <2>4. Pow2[k + 1] = 2 * Pow2[k] /\ Pow2[k] \in Nat \ {0}
    BY <2>3, Pow2Facts
  <2>5. Pow2[j + l] = Pow2[j] * Pow2[l] /\ Pow2[l] \in Nat \ {0} /\ Pow2[j] \in Nat \ {0}
    BY <2>3, Pow2Add, Pow2Facts DEF j
  <2>6. Size = Pow2[j + l]
    BY <2>3 DEF Size, Span, j
  <2>7. Pow2[j] <= Pow2[j] * Pow2[l]
    BY <2>5
  <2>8. R = 2 * Pow2[k] /\ R = Pow2[j]
    BY <2>2, <2>3, <2>4 DEF j
  <2>9. (2 * Pow2[k]) \div 2 = Pow2[k]
    BY <2>4
  <2>10. QED
    BY <2>1, <2>4, <2>5, <2>6, <2>7, <2>8, <2>9
<1>2. v \in Int
  BY WordIntegers
<1>3. u \in 0 .. R - 1 /\ v \div R \in Int /\ v = (v \div R) * R + u
  <2> HIDE DEF R
  <2> QED BY <1>1, <1>2, DivisionParts
<1>4. r = IF u < m THEN u ELSE Wrap(u - R)
  BY DEF Extend
<1> DEFINE q == v \div R
<1>5. q \in Int /\ v = q * R + u
  BY <1>3
<1> HIDE DEF R, u, half, m, r, q
<1>6. ASSUME NEW z \in {u, u - R}
      PROVE  ((z - v) % R) = 0
  <2>1. CASE z = u
    <3>1. z - v = (-q) * R + 0
      <4> DEFINE y == q * R
      <4>1. y \in Int /\ (-q) * R = -y
        BY <1>1, <1>5
      <4> HIDE DEF y
      <4>2. z - v = -y
        BY <1>3, <1>5, <2>1, <4>1 DEF y
      <4>3. QED
        BY <4>1, <4>2
    <3>2. -q \in Int /\ 0 \in 0 .. R - 1
      BY <1>1, <1>5
    <3>3. (((-q) * R + 0) % R) = 0
      BY <1>1, <3>2, DivisionIsUnique
    <3>4. QED
      BY <3>1, <3>3
  <2>2. CASE z = u - R
    <3>1. z - v = (-q - 1) * R + 0
      <4> DEFINE y == q * R
      <4>1. y \in Int /\ (-q - 1) * R = -y - R
        BY <1>1, <1>5
      <4> HIDE DEF y
      <4>2. z - v = -y - R
        BY <1>1, <1>3, <1>5, <2>2, <4>1 DEF y
      <4>3. QED
        BY <1>1, <4>1, <4>2
    <3>2. -q - 1 \in Int /\ 0 \in 0 .. R - 1
      BY <1>1, <1>5
    <3>3. (((-q - 1) * R + 0) % R) = 0
      BY <1>1, <3>2, DivisionIsUnique
    <3>4. QED
      BY <3>1, <3>3
  <2>3. QED
    BY <2>1, <2>2
<1>7. Signed(r) \in -m .. m - 1 /\ Signed(r) \in {u, u - R}
  <2>1. CASE u < m
    <3>1. u \in Word /\ u < half
      BY <1>1, <1>3, <2>1 DEF Word
    <3>2. Signed(u) = u
      BY <3>1 DEF Signed, half
    <3>3. QED
      BY <1>1, <1>3, <1>4, <2>1, <3>2
  <2>2. CASE ~(u < m)
    <3>1. u - R \in -half .. half - 1 /\ u - R \in -m .. m - 1
      BY <1>1, <1>3, <2>2
    <3>2. Signed(Wrap(u - R)) = u - R
      BY <3>1, SignedWrap DEF half
    <3>3. QED
      BY <1>4, <2>2, <3>1, <3>2
  <2>3. QED
    BY <2>1, <2>2
<1>8. Narrowed(v, n, TRUE, r)
  BY <1>6, <1>7 DEF Narrowed, R, m
<1>9. Narrowed(v, n, FALSE, u)
  BY DEF Narrowed, u, R
<1>10. QED
  BY <1>3, <1>8, <1>9 DEF r, u, R

(* Reading depends on memory and its endianness alone. *)
LEMMA GetSame ==
  ASSUME NEW s, NEW t, s.mem = t.mem, s.big = t.big, NEW a, NEW n
  PROVE  Get(s, a, n) = Get(t, a, n)
  BY DEF Get, Weight

(* t has the memory of s but for n bytes at a; the first of them is that of v. *)
Keeps(s, t, a, n) == \A c \in Word \ (a .. a + n - 1) : t.mem[c] = s.mem[c]

StoresFirst(s, t, a, n, v) == t.mem[IF s.big THEN a + n - 1 ELSE a] = v % ByteSize

(* What a store that succeeds leaves *)
LEMMA StoreFacts ==
  ASSUME NEW s, Sound(s), NEW a \in Word, NEW n \in {1, 2, 4}, NEW v \in Word,
         StoreTo(s, a, n, v).fault = "none"
  PROVE  LET t == StoreTo(s, a, n, v).to IN
         /\ Sound(t) /\ t.x = s.x /\ t.big = s.big /\ Within(a, n)
         /\ Refused(a, n, "read") = "none"
         /\ Get(t, a, n) = v % Span(n)
         /\ Keeps(s, t, a, n) /\ StoresFirst(s, t, a, n, v)
<1> DEFINE t == StoreTo(s, a, n, v).to
           p == Put(s, a, n, v)
<1>1. Refused(a, n, "write") = "none" /\ t = Done(p).to
  BY DEF StoreTo, Fail
<1>2. s \in Harts /\ Within(a, n) /\ Refused(a, n, "read") = "none"
  BY <1>1, RefusedWithin DEF Sound
<1>3. /\ p \in Harts /\ p = [s EXCEPT !.mem = p.mem]
      /\ \A c \in Word \ (a .. a + n - 1) : p.mem[c] = s.mem[c]
      /\ \A i \in 0 .. n - 1 : Digit(p, a, n, i) = (v \div Span(i)) % ByteSize
  BY <1>2, PutFacts, SMTT(30)
<1>4. Get(p, a, n) = v % Span(n)
  BY <1>2, PutGet
<1>5. Sound(t)
  BY StoreSound
<1> HIDE DEF p
<1>6. p.x = s.x /\ p.big = s.big
  BY <1>2, <1>3 DEF Harts
<1>7. t.x = p.x /\ t.big = p.big /\ t.mem = p.mem
  BY <1>1, <1>3 DEF Done, Ok, Harts
<1> HIDE DEF t
<1>8. Get(t, a, n) = v % Span(n)
  BY <1>4, <1>7, GetSame
<1>9. t.mem[IF s.big THEN a + n - 1 ELSE a] = v % ByteSize
  <2>1. a \in Int /\ v \in Int /\ 0 \in 0 .. n - 1
    BY WordIntegers
  <2>2. Digit(p, a, n, 0) = p.mem[IF s.big THEN a + n - 1 ELSE a]
    <3>1. a + n - 1 - 0 = a + n - 1 /\ a + 0 = a
      BY <2>1
    <3>2. QED
      BY <1>6, <3>1 DEF Digit
  <2>3. v \div Span(0) = v
    <3>1. v \div 1 = v
      BY <2>1
    <3>2. QED
      BY <3>1, SpanFacts
  <2>4. QED
    BY <1>3, <1>7, <2>1, <2>2, <2>3
<1>10. Keeps(s, t, a, n) /\ StoresFirst(s, t, a, n, v)
  BY <1>3, <1>7, <1>9 DEF Keeps, StoresFirst
<1>11. QED
  BY <1>2, <1>5, <1>6, <1>7, <1>8, <1>10 DEF t

(* What the manual says an atomic operation on m, in memory, and r leaves there *)
AmoRight(op, m, r, w) ==
  CASE op = "amoswap" -> w = r
    [] op = "amoadd" -> Right("add", m, r, w)
    [] op = "amoand" -> Right("and", m, r, w)
    [] op = "amoor"  -> Right("or", m, r, w)
    [] op = "amoxor" -> Right("xor", m, r, w)
    [] op = "amomax" -> w \in {m, r} /\ Biased(w) >= Biased(m) /\ Biased(w) >= Biased(r)
    [] op = "amomin" -> w \in {m, r} /\ Biased(w) <= Biased(m) /\ Biased(w) <= Biased(r)
    [] op = "amomaxu" -> w \in {m, r} /\ w >= m /\ w >= r
    [] op = "amominu" -> w \in {m, r} /\ w <= m /\ w <= r

(* The atomic operations store what the manual says. *)
LEMMA RightAmo ==
  ASSUME NEW op \in AmoOps, NEW m \in Word, NEW r \in Word
  PROVE  AmoRight(op, m, r, AmoAlu(op, m, r))
<1> DEFINE w == AmoAlu(op, m, r)
<1>1. \A o \in {"add", "and", "or", "xor"} : Right(o, m, r, Alu(o, m, r))
  BY RightAlu DEF RegOps
<1>2. \A x \in Word : Wrap(Signed(x)) = x
  <2>1. SUFFICES ASSUME NEW x \in Word
                 PROVE  Wrap(Signed(x)) = x
    OBVIOUS
  <2>2. CASE Signed(x) = x
    BY <2>2, WrapWord
  <2>3. CASE Signed(x) = x - Size
    <3>1. x - Size = (-1) * Size + x
      BY WordIntegers
    <3>2. Wrap((-1) * Size + x) = x
      BY WrapIsUnique
    <3>3. QED
      BY <2>3, <3>1, <3>2
  <2>4. QED
    BY <2>2, <2>3, SignedFacts
<1>3. \A x, y \in Word : Biased(x) >= Biased(y) <=> Signed(x) >= Signed(y)
  BY BiasedSigned, WordIntegers, SizeFacts
<1>4. m \in Int /\ r \in Int /\ Signed(m) \in Int /\ Signed(r) \in Int
      /\ Biased(m) \in Int /\ Biased(r) \in Int
  BY WordIntegers, BiasedSigned
<1>5. CASE op \in {"amoswap", "amoadd", "amoand", "amoor", "amoxor"}
  BY <1>1, <1>5 DEF AmoAlu, AmoRight
<1>6. CASE op = "amomax"
  <2>1. w = Wrap(Larger(Signed(m), Signed(r)))
    BY <1>6 DEF AmoAlu
  <2>2. CASE Signed(m) < Signed(r)
    <3>1. w = r /\ Biased(r) >= Biased(m)
      BY <1>2, <1>3, <1>4, <2>1, <2>2 DEF Larger
    <3>2. QED
      BY <1>4, <1>6, <3>1 DEF AmoRight
  <2>3. CASE ~(Signed(m) < Signed(r))
    <3>1. w = m /\ Biased(m) >= Biased(r)
      BY <1>2, <1>3, <1>4, <2>1, <2>3 DEF Larger
    <3>2. QED
      BY <1>4, <1>6, <3>1 DEF AmoRight
  <2>4. QED
    BY <2>2, <2>3
<1>7. CASE op = "amomin"
  <2>1. w = Wrap(Smaller(Signed(m), Signed(r)))
    BY <1>7 DEF AmoAlu
  <2>2. CASE Signed(m) < Signed(r)
    <3>1. w = m /\ Biased(m) <= Biased(r)
      BY <1>2, <1>3, <1>4, <2>1, <2>2 DEF Smaller
    <3>2. QED
      BY <1>4, <1>7, <3>1 DEF AmoRight
  <2>3. CASE ~(Signed(m) < Signed(r))
    <3>1. w = r /\ Biased(r) <= Biased(m)
      BY <1>2, <1>3, <1>4, <2>1, <2>3 DEF Smaller
    <3>2. QED
      BY <1>4, <1>7, <3>1 DEF AmoRight
  <2>4. QED
    BY <2>2, <2>3
<1>8. CASE op = "amomaxu"
  <2>1. w = Larger(m, r)
    BY <1>8 DEF AmoAlu
  <2>2. w \in {m, r} /\ w >= m /\ w >= r
    BY <1>4, <2>1 DEF Larger
  <2>3. QED
    BY <1>8, <2>2 DEF AmoRight
<1>9. CASE op = "amominu"
  <2>1. w = Smaller(m, r)
    BY <1>9 DEF AmoAlu
  <2>2. w \in {m, r} /\ w <= m /\ w <= r
    BY <1>4, <2>1 DEF Smaller
  <2>3. QED
    BY <1>9, <2>2 DEF AmoRight
<1>10. QED
  BY <1>5, <1>6, <1>7, <1>8, <1>9 DEF AmoOps


(* A load of what was stored gives it back, in the order it was stored in. *)
LEMMA StoreThenLoad ==
  ASSUME NEW s, Sound(s), NEW at \in Operand, NEW imm \in Int, NEW op \in DOMAIN StoreOps,
         NEW load \in DOMAIN LoadOps, LoadOps[load][1] = StoreOps[op],
         Store(s, op, at, imm).fault = "none"
  PROVE  LET l == Load(Store(s, op, at, imm).to, load, at, imm)
             v == s.x[at.rs2]
         IN /\ l.fault = "none"
            /\ at.rd # 0 => Narrowed(v, StoreOps[op], LoadOps[load][2], l.to.x[at.rd])
<1> DEFINE a == Wrap(s.x[at.rs1] + imm)
           v == s.x[at.rs2]
           n == StoreOps[op]
           t == StoreTo(s, a, n, v).to
           signed == LoadOps[load][2]
           w == IF signed THEN Extend(Get(t, a, n), n) ELSE Get(t, a, n)
<1>1. at.rd \in Registers /\ s.x[at.rs1] \in Word /\ v \in Word
  BY DEF Sound, Harts, Operand
<1>2. n \in {1, 2, 4} /\ signed \in BOOLEAN
  BY OpTypes
<1>3. a \in Word
  <2>1. s.x[at.rs1] + imm \in Int
    BY <1>1, WordIntegers
  <2>2. QED
    BY <2>1, WrapType
<1>4. Store(s, op, at, imm) = StoreTo(s, a, n, v)
  BY DEF Store
<1> HIDE DEF v, n, signed
<1>5. StoreTo(s, a, n, v).fault = "none"
  BY <1>4
<1> HIDE DEF a
<1>6. /\ Sound(t) /\ t.x = s.x /\ t.big = s.big /\ Within(a, n)
      /\ Refused(a, n, "read") = "none" /\ Get(t, a, n) = v % Span(n)
  BY <1>1, <1>2, <1>3, <1>5, StoreFacts
<1> HIDE DEF t
<1>7. Load(t, load, at, imm) = LoadFrom(t, at.rd, a, n, signed)
  BY <1>6 DEF Load, a, n, signed
<1>8. LoadFrom(t, at.rd, a, n, signed) = Done(SetX(t, at.rd, w))
  BY <1>6 DEF LoadFrom
<1> DEFINE g == Get(t, a, n)
<1>9. g \in 0 .. Span(n) - 1 /\ Narrowed(v, n, TRUE, Extend(g, n)) /\ Narrowed(v, n, FALSE, g)
  BY <1>1, <1>2, <1>6, LoadNarrows
<1>10. w \in Word
  BY <1>2, <1>9, ExtendType
<1>11. Narrowed(v, n, signed, w)
  <2>1. CASE signed
    <3>1. signed = TRUE
      BY <1>2, <2>1
    <3>2. QED
      BY <1>9, <3>1
  <2>2. CASE ~signed
    <3>1. signed = FALSE
      BY <1>2, <2>2
    <3>2. QED
      BY <1>9, <3>1
  <2>3. QED
    BY <2>1, <2>2
<1> HIDE DEF w, g
<1>12. ASSUME at.rd # 0
       PROVE  Done(SetX(t, at.rd, w)).to.x[at.rd] = w
  BY <1>1, <1>6, <1>10, <1>12, WritesValue
<1>13. Done(SetX(t, at.rd, w)).fault = "none"
  BY DEF Done, Ok
<1> DEFINE l == Load(t, load, at, imm)
<1>14. l.fault = "none" /\ (at.rd # 0 => Narrowed(v, n, signed, l.to.x[at.rd]))
  BY <1>7, <1>8, <1>11, <1>12, <1>13
<1> HIDE DEF l
<1>15. t = Store(s, op, at, imm).to
  BY <1>4 DEF t
<1>16. QED
  BY <1>14, <1>15 DEF l, v, n, signed

(* What an atomic operation that succeeds does *)
LEMMA AmoFacts ==
  ASSUME NEW s, Sound(s), NEW op \in AmoOps, NEW at \in Operand, Amo(s, op, at).fault = "none"
  PROVE  LET a == s.x[at.rs1]
             t == Amo(s, op, at).to
             old == Get(s, a, 4)
         IN /\ WordAligned(a)
            /\ Keeps(s, t, a, 4)
            /\ at.rd # 0 => t.x[at.rd] = old
            /\ AmoRight(op, old, s.x[at.rs2], Get(t, a, 4))
<1> DEFINE a == s.x[at.rs1]
           b == s.x[at.rs2]
           old == Get(s, a, 4)
           w == AmoAlu(op, old, b)
           u == StoreTo(s, a, 4, w).to
           t == Amo(s, op, at).to
<1>1. at.rd \in Registers /\ a \in Word /\ b \in Word /\ 4 \in {1, 2, 4}
  BY DEF Sound, Harts, Operand
<1>2. /\ WordAligned(a) /\ Refused(a, 4, "read") = "none" /\ StoreTo(s, a, 4, w).fault = "none"
      /\ t = SetX(u, at.rd, old)
  BY DEF Amo, Fail, Ok
<1>3. Within(a, 4) /\ s \in Harts
  BY <1>1, <1>2, RefusedWithin DEF Sound
<1>4. old \in Word
  BY <1>1, <1>3, GetType
<1> HIDE DEF a, b, old
<1>5. w \in Word
  BY <1>1, <1>4, AmoAluType
<1> HIDE DEF w
<1>6. /\ Sound(u) /\ u.x = s.x /\ u.big = s.big
      /\ Keeps(s, u, a, 4)
      /\ Get(u, a, 4) = w % Span(4)
  BY <1>1, <1>2, <1>5, StoreFacts
<1> HIDE DEF u
<1>7. t.mem = u.mem /\ t.big = u.big /\ (at.rd # 0 => t.x[at.rd] = old)
  BY <1>1, <1>2, <1>6 DEF SetX, Sound, Harts
<1>8. Keeps(s, t, a, 4)
  BY <1>6, <1>7 DEF Keeps
<1>9. Get(t, a, 4) = w
  <2>1. Get(t, a, 4) = Get(u, a, 4)
    BY <1>7, GetSame
  <2>2. (w % Size) = w
    BY <1>5, WrapWord DEF Wrap
  <2>3. QED
    BY <1>6, <2>1, <2>2, SpanFacts
<1> HIDE DEF t
<1>10. AmoRight(op, old, b, Get(t, a, 4))
  BY <1>1, <1>4, <1>9, RightAmo DEF w
<1>11. QED
  BY <1>2, <1>7, <1>8, <1>10 DEF a, b, old, t

(* Loads give back what stores of the same size stored, in either          *)
(* endianness; stores and atomic operations change no byte around their    *)
(* access; the atomic ones return the old word and leave what the manual   *)
(* says, for every width of words (load_op, store_op, access_fns!,         *)
(* amo_op).                                                                *)
THEOREM AccessesMemory == Spec => []MemoryRight
<1>1. ASSUME TypeOK
      PROVE  MemoryRight
  <2>1. SUFFICES ASSUME NEW at \in Operands
                 PROVE
        LET b == h.x[at.rs2]
            Kept(s, a, n) == \A c \in Word \ (a .. a + n - 1) : s.mem[c] = h.mem[c]
        IN /\ \A op \in DOMAIN StoreOps, imm \in Imms :
                LET a == Wrap(h.x[at.rs1] + imm)
                    n == StoreOps[op]
                    s == Execute(h, [op |-> op, at |-> at, imm |-> imm])
                IN s.fault = "none" =>
                     /\ Kept(s.to, a, n)
                     /\ s.to.mem[IF h.big THEN a + n - 1 ELSE a] = b % ByteSize
                     /\ \A load \in {l \in DOMAIN LoadOps : LoadOps[l][1] = n} :
                          LET l == Execute(s.to, [op |-> load, at |-> at, imm |-> imm])
                          IN /\ l.fault = "none"
                             /\ at.rd # 0 => Narrowed(b, n, LoadOps[load][2], l.to.x[at.rd])
           /\ \A op \in AmoOps :
                LET a   == h.x[at.rs1]
                    s   == Execute(h, [op |-> op, at |-> at])
                    old == Get(h, a, 4)
                    new == Get(s.to, a, 4)
                IN s.fault = "none" =>
                     /\ WordAligned(a) /\ Kept(s.to, a, 4)
                     /\ at.rd # 0 => s.to.x[at.rd] = old
                     /\ AmoRight(op, old, b, new)
    BY DEF MemoryRight, AmoRight
  <2>2. Sound(h) /\ at \in Operand /\ Imms \subseteq Int
    BY <1>1, ExecutorAssumption, SizeFacts DEF TypeOK, Sound
  <2>3. h.x[at.rs1] \in Word /\ h.x[at.rs2] \in Word
    BY <2>2 DEF Sound, Harts, Operand
  <2>4. ASSUME NEW op \in DOMAIN StoreOps, NEW imm \in Imms
        PROVE  LET a == Wrap(h.x[at.rs1] + imm)
                   n == StoreOps[op]
                   s == Execute(h, [op |-> op, at |-> at, imm |-> imm])
               IN s.fault = "none" =>
                    /\ \A c \in Word \ (a .. a + n - 1) : s.to.mem[c] = h.mem[c]
                    /\ s.to.mem[IF h.big THEN a + n - 1 ELSE a] = h.x[at.rs2] % ByteSize
                    /\ \A load \in {l \in DOMAIN LoadOps : LoadOps[l][1] = n} :
                         LET l == Execute(s.to, [op |-> load, at |-> at, imm |-> imm])
                         IN /\ l.fault = "none"
                            /\ at.rd # 0 => Narrowed(h.x[at.rs2], n, LoadOps[load][2], l.to.x[at.rd])
    <3> DEFINE a == Wrap(h.x[at.rs1] + imm)
               n == StoreOps[op]
               i == [op |-> op, at |-> at, imm |-> imm]
               s == Execute(h, i)
    <3>1. SUFFICES ASSUME s.fault = "none"
                   PROVE
          /\ \A c \in Word \ (a .. a + n - 1) : s.to.mem[c] = h.mem[c]
          /\ s.to.mem[IF h.big THEN a + n - 1 ELSE a] = h.x[at.rs2] % ByteSize
          /\ \A load \in {l \in DOMAIN LoadOps : LoadOps[l][1] = n} :
               LET l == Execute(s.to, [op |-> load, at |-> at, imm |-> imm])
               IN /\ l.fault = "none"
                  /\ at.rd # 0 => Narrowed(h.x[at.rs2], n, LoadOps[load][2], l.to.x[at.rd])
      OBVIOUS
    <3>2. i.op = op /\ i.at = at /\ i.imm = imm
      OBVIOUS
    <3> HIDE DEF i
    <3>3. s = Store(h, op, at, imm)
      BY <3>2, Dispatch
    <3>4. s = StoreTo(h, a, n, h.x[at.rs2])
      BY <3>3 DEF Store
    <3>5. n \in {1, 2, 4} /\ a \in Word
      <4>1. h.x[at.rs1] + imm \in Int
        BY <2>2, <2>3, WordIntegers
      <4>2. QED
        BY <4>1, WrapType, OpTypes
    <3> HIDE DEF a, n, s
    <3>6. /\ \A c \in Word \ (a .. a + n - 1) : s.to.mem[c] = h.mem[c]
          /\ s.to.mem[IF h.big THEN a + n - 1 ELSE a] = h.x[at.rs2] % ByteSize
      <4> DEFINE v == h.x[at.rs2]
                 t == StoreTo(h, a, n, v).to
      <4>1. v \in Word /\ StoreTo(h, a, n, v).fault = "none" /\ t = s.to
        BY <2>3, <3>1, <3>4
      <4> HIDE DEF v
      <4>2. /\ \A c \in Word \ (a .. a + n - 1) : t.mem[c] = h.mem[c]
            /\ t.mem[IF h.big THEN a + n - 1 ELSE a] = v % ByteSize
        <5>1. Sound(h) /\ a \in Word /\ n \in {1, 2, 4} /\ v \in Word /\ StoreTo(h, a, n, v).fault = "none"
          BY <2>2, <3>5, <4>1
        <5>2. Keeps(h, t, a, n) /\ StoresFirst(h, t, a, n, v)
          BY <5>1, StoreFacts
        <5>3. QED
          BY <5>2 DEF Keeps, StoresFirst
      <4> HIDE DEF t
      <4>3. QED
        BY <4>1, <4>2 DEF v
    <3>7. ASSUME NEW load \in DOMAIN LoadOps, LoadOps[load][1] = n
          PROVE  LET l == Execute(s.to, [op |-> load, at |-> at, imm |-> imm])
                 IN /\ l.fault = "none"
                    /\ at.rd # 0 => Narrowed(h.x[at.rs2], n, LoadOps[load][2], l.to.x[at.rd])
      <4> DEFINE j == [op |-> load, at |-> at, imm |-> imm]
      <4>1. j.op = load /\ j.at = at /\ j.imm = imm
        OBVIOUS
      <4> HIDE DEF j
      <4>2. Execute(s.to, j) = Load(s.to, load, at, imm)
        BY <4>1, Dispatch
      <4> DEFINE l == Load(s.to, load, at, imm)
      <4>3. Store(h, op, at, imm).fault = "none" /\ LoadOps[load][1] = StoreOps[op] /\ imm \in Int
        BY <2>2, <3>1, <3>3, <3>7 DEF n
      <4>4. l.fault = "none" /\ (at.rd # 0 => Narrowed(h.x[at.rs2], n, LoadOps[load][2], l.to.x[at.rd]))
        BY <2>2, <3>3, <4>3, StoreThenLoad DEF n
      <4>5. QED
        BY <4>2, <4>4 DEF j
    <3>8. QED
      BY <3>6, <3>7 DEF i
  <2>5. ASSUME NEW op \in AmoOps
        PROVE  LET a   == h.x[at.rs1]
                   b   == h.x[at.rs2]
                   s   == Execute(h, [op |-> op, at |-> at])
                   old == Get(h, a, 4)
                   new == Get(s.to, a, 4)
               IN s.fault = "none" =>
                    /\ WordAligned(a) /\ \A c \in Word \ (a .. a + 4 - 1) : s.to.mem[c] = h.mem[c]
                    /\ at.rd # 0 => s.to.x[at.rd] = old
                    /\ AmoRight(op, old, b, new)
    <3> DEFINE i == [op |-> op, at |-> at]
    <3>1. i.op = op /\ i.at = at
      OBVIOUS
    <3> HIDE DEF i
    <3>2. Execute(h, i) = Amo(h, op, at)
      BY <3>1, Dispatch
    <3>3. QED
      BY <2>2, <3>2, AmoFacts DEF i, Keeps
  <2>6. QED
    BY <2>4, <2>5
<1>2. QED
  BY <1>1, RegistersSound, PTL
=============================================================================
