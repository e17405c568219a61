-------------------------- MODULE SpaceTime_proofs --------------------------
(***************************************************************************)
(* Proofs about SpaceTime, for every bound and every set of values.        *)
(*                                                                         *)
(* StoreInv is the inductive invariant.  It counts the references to a     *)
(* cell by the arenas that hold a pointer to it: within an arena, filled   *)
(* slots point to different cells, so that an arena holds a cell at most   *)
(* once.  It also says what the free lists of arenas are, and that the     *)
(* arena of a snapshot has no gaps.                                        *)
(*                                                                         *)
(* A clean HEAD is the empty arena: a method that writes first owns a copy *)
(* of the snapshot HEAD is at, and OwnedInv is what holds in between.      *)
(*                                                                         *)
(* The second half shows that SpaceTime implements SnapshotStore: Objects  *)
(* is what an arena contains, each operation changes HEAD's as the store   *)
(* says, and no snapshot's.                                                *)
(***************************************************************************)
EXTENDS SpaceTime, FiniteSetTheorems, SequenceTheorems, FunctionTheorems,
        WellFoundedInduction, TLAPS

Ptrs(a) == {a.slots[i].ptr : i \in DOMAIN a.slots}

(* The snapshots in sn that point to cell p. *)
Holders(sn, p) == {s \in DOMAIN sn : p \in Ptrs(sn[s])}

One(a, p) == IF p \in Ptrs(a) THEN 1 ELSE 0

Slots(n) == [ptr : 0 .. n, gen : 0 .. MaxGen]
Cells    == [refs : Nat, val : Value]

(* An arena over n cells. *)
ArenaOK(a, n) ==
  /\ a \in [slots : Seq(Slots(n)), free : Seq(1 .. MaxSlots), gen : 0 .. MaxGen]
  /\ Len(a.slots) <= MaxSlots
  /\ \A i, j \in DOMAIN a.slots :
       a.slots[i].ptr = a.slots[j].ptr /\ a.slots[i].ptr # Nil => i = j
  /\ \A k \in DOMAIN a.free : a.free[k] \in DOMAIN a.slots /\ a.slots[a.free[k]].ptr = Nil
  /\ \A j, k \in DOMAIN a.free : a.free[j] = a.free[k] => j = k

(* The arena of a snapshot: no gaps, no generations. *)
Compact(a) ==
  /\ \A i \in DOMAIN a.slots : a.slots[i].ptr # Nil /\ a.slots[i].gen = 0
  /\ a.free = <<>>
  /\ a.gen = 0

TableOK(tb) ==
  /\ tb \in [cells : Seq(Cells), free : Seq(1 .. MaxCells)]
  /\ Len(tb.cells) <= MaxCells
  /\ \A k \in DOMAIN tb.free :
       tb.free[k] \in DOMAIN tb.cells /\ tb.cells[tb.free[k]].refs = 0
  /\ \A j, k \in DOMAIN tb.free : tb.free[j] = tb.free[k] => j = k
  /\ \A p \in DOMAIN tb.cells :
       tb.cells[p].refs = 0 => \E k \in DOMAIN tb.free : tb.free[k] = p

SnapsOK(sn, m, n) ==
  /\ DOMAIN sn \subseteq 1 .. m
  /\ \A s \in DOMAIN sn : ArenaOK(sn[s], n) /\ Compact(sn[s])

LeakedOK(lk, n) ==
  /\ lk \in [1 .. MaxCells -> Nat]
  /\ \A p \in 1 .. MaxCells : p > n => lk[p] = 0

(* Each reference of table tb is that of a snapshot in sn, of arena a, or  *)
(* leaked.                                                                 *)
Counted(tb, a, sn, lk) ==
  \A p \in DOMAIN tb.cells :
    tb.cells[p].refs = Cardinality(Holders(sn, p)) + One(a, p) + lk[p]

OwnedInv(tb, a, sn, m, lk) ==
  /\ TableOK(tb)
  /\ ArenaOK(a, Len(tb.cells))
  /\ m \in 0 .. MaxSnaps
  /\ SnapsOK(sn, m, Len(tb.cells))
  /\ LeakedOK(lk, Len(tb.cells))
  /\ Counted(tb, a, sn, lk)

HeadOK(h, sn) == h = Dirty(h.arena) \/ \E s \in DOMAIN sn : h = Checkedout(s)

StoreInv ==
  /\ OwnedInv(table, head.arena, snaps, made, leaked)
  /\ HeadOK(head, snaps)


-----------------------------------------------------------------------------
(* Enumerations in order *)

(* Induction over the natural numbers, for a set of them. *)
LEMMA Induction ==
  ASSUME NEW S, 0 \in S, \A n \in Nat : n \in S => n + 1 \in S
  PROVE  Nat \subseteq S
<1> DEFINE T == Nat \ S
<1>1. SUFFICES ASSUME T # {}
               PROVE  FALSE
  OBVIOUS
<1>2. T \in SUBSET Nat
  OBVIOUS
<1>3. PICK t \in T : \A u \in T : ~ (<<u, t>> \in OpToRel(<, Nat))
  BY <1>1, <1>2, NatLessThanWellFounded, WFMin
<1>4. t \in Nat /\ t \notin S /\ t # 0
  OBVIOUS
<1>5. t - 1 \in Nat /\ t - 1 \notin S
  <2>1. t - 1 \in Nat /\ (t - 1) + 1 = t
    BY <1>4
  <2>2. QED
    BY <1>4, <2>1
<1>6. <<t - 1, t>> \in Nat \X Nat /\ <<t - 1, t>>[1] < <<t - 1, t>>[2]
  BY <1>4, <1>5
<1>7. <<t - 1, t>> \in OpToRel(<, Nat)
  BY <1>6 DEF OpToRel
<1>8. QED
  BY <1>3, <1>5, <1>7

Increasing(f, n) == \A i, j \in 1 .. n : i < j => f[i] < f[j]

(* A finite set of positions can be enumerated in order. *)
LEMMA EnumerationExists ==
  ASSUME NEW n \in Nat, NEW P \in SUBSET (1 .. n)
  PROVE  \E o \in [1 .. Cardinality(P) -> P] : Increasing(o, Cardinality(P))
<1> DEFINE Has(Q) == \E o \in [1 .. Cardinality(Q) -> Q] : Increasing(o, Cardinality(Q))
           S == {m \in Nat : \A Q \in SUBSET (1 .. m) : Has(Q)}
<1>1. 0 \in S
  <2>1. SUFFICES ASSUME NEW Q \in SUBSET (1 .. 0)
                 PROVE  Has(Q)
    OBVIOUS
  <2>2. Q = {} /\ Cardinality(Q) = 0
    <3>1. 1 .. 0 = {}
      OBVIOUS
    <3>2. QED
      BY <3>1, FS_EmptySet
  <2>3. 1 .. Cardinality(Q) = {}
    BY <2>2
  <2>4. [i \in {} |-> 0] \in [1 .. Cardinality(Q) -> Q] /\ Increasing([i \in {} |-> 0], Cardinality(Q))
    BY <2>3 DEF Increasing
  <2>5. QED
    BY <2>4
<1>2. ASSUME NEW m \in Nat, m \in S
      PROVE  m + 1 \in S
  <2>1. SUFFICES ASSUME NEW Q \in SUBSET (1 .. m + 1)
                 PROVE  Has(Q)
    <3>1. m + 1 \in Nat
      OBVIOUS
    <3> HIDE DEF Has
    <3>2. QED
      BY <3>1
  <2>2. CASE m + 1 \notin Q
    <3>1. Q \in SUBSET (1 .. m)
      BY <2>2
    <3>2. QED
      BY <1>2, <3>1
  <2>3. CASE m + 1 \in Q
    <3> DEFINE R == Q \ {m + 1}
               c == Cardinality(R)
    <3>1. R \in SUBSET (1 .. m)
      OBVIOUS
    <3>2. PICK o \in [1 .. c -> R] : Increasing(o, c)
      BY <1>2, <3>1
    <3>3. IsFiniteSet(Q) /\ IsFiniteSet(R)
      <4>1. IsFiniteSet(1 .. m + 1)
        BY FS_Interval
      <4>2. QED
        BY <4>1, FS_Subset
    <3>4. c \in Nat /\ Cardinality(Q) = c + 1
      BY <2>3, <3>3, FS_RemoveElement, FS_CardinalityType
    <3> DEFINE e == [i \in 1 .. c + 1 |-> IF i = c + 1 THEN m + 1 ELSE o[i]]
    <3> HIDE DEF c, R
    <3>5. \A i \in 1 .. c + 1 : i # c + 1 => i \in 1 .. c /\ o[i] \in R
      BY <3>2, <3>4
    <3>6. e \in [1 .. c + 1 -> Q]
      BY <2>3, <3>5 DEF R
    <3>7. Increasing(e, c + 1)
      <4>1. SUFFICES ASSUME NEW i \in 1 .. c + 1, NEW j \in 1 .. c + 1, i < j
                     PROVE  e[i] < e[j]
        BY DEF Increasing
      <4>2. i \in 1 .. c
        BY <3>4, <4>1
      <4>3. o[i] \in 1 .. m
        BY <3>1, <3>2, <4>2
      <4>4. CASE j = c + 1
        <5>1. e[i] = o[i] /\ e[j] = m + 1
          BY <3>4, <4>1, <4>2, <4>4
        <5>2. QED
          BY <4>3, <5>1
      <4>5. CASE j # c + 1
        <5>1. j \in 1 .. c
          BY <3>4, <4>1, <4>5
        <5>2. e[i] = o[i] /\ e[j] = o[j]
          BY <3>4, <4>1, <4>2, <4>5
        <5>3. QED
          BY <3>2, <4>1, <4>2, <5>1, <5>2 DEF Increasing
      <4>6. QED
        BY <4>4, <4>5
    <3>8. QED
      BY <3>4, <3>6, <3>7
  <2>4. QED
    BY <2>2, <2>3
<1> HIDE DEF S
<1>3. Nat \subseteq S
  BY <1>1, <1>2, Induction
<1>4. QED
  BY <1>3 DEF S

(* InOrder enumerates the positions P, each once, in order. *)
LEMMA InOrderFacts ==
  ASSUME NEW n \in Nat, NEW P \in SUBSET (1 .. n)
  PROVE  /\ Cardinality(P) \in 0 .. n
         /\ InOrder(P) \in [1 .. Cardinality(P) -> P]
         /\ Increasing(InOrder(P), Cardinality(P))
         /\ \A i, j \in 1 .. Cardinality(P) : InOrder(P)[i] = InOrder(P)[j] => i = j
         /\ \A x \in P : \E i \in 1 .. Cardinality(P) : InOrder(P)[i] = x
<1> DEFINE c == Cardinality(P)
           o == InOrder(P)
<1>1. IsFiniteSet(1 .. n) /\ Cardinality(1 .. n) = n
  BY FS_Interval
<1>2. IsFiniteSet(P) /\ c \in 0 .. n
  <2>1. IsFiniteSet(P) /\ c <= n
    BY <1>1, FS_Subset
  <2>2. QED
    BY <2>1, FS_CardinalityType
<1>3. o \in [1 .. c -> P] /\ Increasing(o, c)
  BY EnumerationExists DEF InOrder, Increasing
<1> HIDE DEF o
<1>4. \A i, j \in 1 .. c : o[i] = o[j] => i = j
  <2>1. SUFFICES ASSUME NEW i \in 1 .. c, NEW j \in 1 .. c, o[i] = o[j], i # j
                 PROVE  FALSE
    OBVIOUS
  <2>2. i < j \/ j < i
    BY <1>2, <2>1
  <2>3. o[i] \in Int
    <3>1. o[i] \in P
      BY <1>3, <2>1
    <3>2. o[i] \in 1 .. n
      BY <3>1
    <3>3. QED
      BY <3>2
  <2>4. o[i] < o[j] \/ o[j] < o[i]
    BY <1>3, <2>2 DEF Increasing
  <2>5. QED
    BY <2>1, <2>3, <2>4
<1>5. \A x \in P : \E i \in 1 .. c : o[i] = x
  <2>1. o \in Injection(1 .. c, P)
    BY <1>3, <1>4, Fun_IsInj
  <2>2. Cardinality(1 .. c) = c
    BY <1>2, FS_Interval
  <2>3. o \in Surjection(1 .. c, P)
    BY <1>2, <2>1, <2>2, FS_Injection
  <2>4. QED
    BY <2>3 DEF Surjection
<1>6. QED
  BY <1>2, <1>3, <1>4, <1>5 DEF o


(* A function on 1 .. n is a sequence. *)
LEMMA SeqOfFunction ==
  ASSUME NEW S, NEW n \in Nat, NEW f \in [1 .. n -> S]
  PROVE  f \in Seq(S) /\ Len(f) = n /\ DOMAIN f = 1 .. n
<1>1. f \in Seq(S)
  BY SeqDef
<1>2. QED
  BY <1>1

-----------------------------------------------------------------------------
(* Arenas *)

LEMMA ArenaTypes ==
  ASSUME NEW a, NEW n \in Nat, ArenaOK(a, n)
  PROVE  /\ a = [slots |-> a.slots, free |-> a.free, gen |-> a.gen]
         /\ a.slots \in Seq(Slots(n)) /\ Len(a.slots) \in 0 .. MaxSlots
         /\ a.free \in Seq(1 .. MaxSlots) /\ a.gen \in 0 .. MaxGen
         /\ DOMAIN a.slots = 1 .. Len(a.slots) /\ DOMAIN a.free = 1 .. Len(a.free)
         /\ \A i \in DOMAIN a.slots :
              /\ a.slots[i] \in Slots(n)
              /\ a.slots[i].ptr \in 0 .. n /\ a.slots[i].gen \in 0 .. MaxGen
<1>1. /\ a = [slots |-> a.slots, free |-> a.free, gen |-> a.gen]
      /\ a.slots \in Seq(Slots(n)) /\ a.free \in Seq(1 .. MaxSlots) /\ a.gen \in 0 .. MaxGen
  BY DEF ArenaOK
<1>2. /\ Len(a.slots) \in Nat /\ Len(a.slots) <= MaxSlots
      /\ DOMAIN a.slots = 1 .. Len(a.slots) /\ DOMAIN a.free = 1 .. Len(a.free)
  BY <1>1 DEF ArenaOK
<1>3. \A i \in DOMAIN a.slots : a.slots[i] \in Slots(n)
  BY <1>1, <1>2, ElementOfSeq
<1>4. QED
  BY <1>1, <1>2, <1>3, SpaceTimeAssumption, SMTT(30) DEF Slots

(* An arena holds a cell at most once. *)
LEMMA CountIs ==
  ASSUME NEW a, NEW n \in Nat, ArenaOK(a, n), NEW p \in Nat \ {0}
  PROVE  Count(a, p) = One(a, p)
<1> DEFINE I == {i \in DOMAIN a.slots : a.slots[i].ptr = p}
<1>1. CASE p \in Ptrs(a)
  <2>1. PICK i \in DOMAIN a.slots : a.slots[i].ptr = p
    BY <1>1 DEF Ptrs
  <2>2. I = {i}
    BY <2>1 DEF ArenaOK, Nil
  <2>3. QED
    BY <1>1, <2>2, FS_Singleton DEF Count, One
<1>2. CASE p \notin Ptrs(a)
  <2>1. I = {}
    BY <1>2 DEF Ptrs
  <2>2. QED
    BY <1>2, <2>1, FS_EmptySet DEF Count, One
<1>3. QED
  BY <1>1, <1>2

(* The pointers of an arena, in the order of its slots: each is there once. *)
LEMMA PointersFacts ==
  ASSUME NEW a, NEW n \in Nat, ArenaOK(a, n)
  PROVE  LET c == Cardinality(Filled(a)) IN
         /\ c \in 0 .. MaxSlots
         /\ Pointers(a) \in Seq(1 .. n) /\ Len(Pointers(a)) = c
         /\ \A k \in 1 .. c : /\ InOrder(Filled(a))[k] \in Filled(a)
                              /\ Pointers(a)[k] = a.slots[InOrder(Filled(a))[k]].ptr
         /\ \A i \in Filled(a) : \E k \in 1 .. c : InOrder(Filled(a))[k] = i
         /\ \A j, k \in 1 .. c : Pointers(a)[j] = Pointers(a)[k] => j = k
         /\ \A p \in Nat \ {0} : p \in Ptrs(a) <=> \E k \in 1 .. c : Pointers(a)[k] = p
<1> DEFINE F == Filled(a)
           c == Cardinality(F)
           o == InOrder(F)
           q == Pointers(a)
<1>1. /\ Len(a.slots) \in 0 .. MaxSlots /\ DOMAIN a.slots = 1 .. Len(a.slots)
      /\ \A i \in DOMAIN a.slots : a.slots[i].ptr \in 0 .. n
  BY ArenaTypes
<1>2. F \in SUBSET (1 .. Len(a.slots)) /\ \A i \in F : a.slots[i].ptr \in 1 .. n
  BY <1>1 DEF Filled, Nil
<1>3. /\ c \in 0 .. Len(a.slots)
      /\ o \in [1 .. c -> F]
      /\ \A i, j \in 1 .. c : o[i] = o[j] => i = j
      /\ \A x \in F : \E i \in 1 .. c : o[i] = x
  <2> HIDE DEF F
  <2>1. Len(a.slots) \in Nat
    BY <1>1
  <2>2. QED
    BY <1>2, <2>1, InOrderFacts
<1>4. \A k \in 1 .. c : o[k] \in F /\ q[k] = a.slots[o[k]].ptr
  BY <1>3 DEF Pointers, Picked
<1>5. q \in [1 .. c -> 1 .. n]
  BY <1>2, <1>3 DEF Pointers, Picked
<1>6. q \in Seq(1 .. n) /\ Len(q) = c
  <2>1. c \in Nat
    BY <1>1, <1>3
  <2> HIDE DEF q, c
  <2>2. QED
    BY <1>5, <2>1, SeqOfFunction
<1>7. \A j, k \in 1 .. c : q[j] = q[k] => j = k
  <2>1. SUFFICES ASSUME NEW j \in 1 .. c, NEW k \in 1 .. c, q[j] = q[k]
                 PROVE  j = k
    OBVIOUS
  <2>2. o[j] \in F /\ o[k] \in F /\ a.slots[o[j]].ptr = a.slots[o[k]].ptr
    BY <1>4, <2>1
  <2>3. o[j] = o[k]
    BY <2>2 DEF ArenaOK, Filled
  <2>4. QED
    BY <1>3, <2>3
<1>8. ASSUME NEW p \in Nat \ {0}
      PROVE  p \in Ptrs(a) <=> \E k \in 1 .. c : q[k] = p
  <2>1. ASSUME p \in Ptrs(a)
        PROVE  \E k \in 1 .. c : q[k] = p
    <3>1. PICK i \in DOMAIN a.slots : a.slots[i].ptr = p
      BY <2>1 DEF Ptrs
    <3>2. i \in F
      BY <3>1 DEF Filled, Nil
    <3>3. QED
      BY <1>3, <1>4, <3>1, <3>2
  <2>2. ASSUME NEW k \in 1 .. c, q[k] = p
        PROVE  p \in Ptrs(a)
    BY <1>1, <1>2, <1>4, <2>2 DEF Ptrs
  <2>3. QED
    BY <2>1, <2>2
<1>9. c \in 0 .. MaxSlots
  BY <1>1, <1>3, SpaceTimeAssumption
<1> HIDE DEF c, o, q, F
<1>10. QED
  BY <1>3, <1>4, <1>6, <1>7, <1>8, <1>9 DEF c, o, q, F


(* clone_snapshot returns the same pointers, without gaps. *)
LEMMA CloneArenaFacts ==
  ASSUME NEW a, NEW n \in Nat, ArenaOK(a, n)
  PROVE  /\ ArenaOK(CloneArena(a), n) /\ Compact(CloneArena(a))
         /\ \A p \in Nat \ {0} : p \in Ptrs(CloneArena(a)) <=> p \in Ptrs(a)
         /\ \A p \in Nat \ {0} : One(CloneArena(a), p) = One(a, p)
<1> DEFINE q == Pointers(a)
           c == Cardinality(Filled(a))
           b == CloneArena(a)
<1>1. /\ c \in 0 .. MaxSlots
      /\ q \in Seq(1 .. n) /\ Len(q) = c
      /\ \A j, k \in 1 .. c : q[j] = q[k] => j = k
      /\ \A p \in Nat \ {0} : p \in Ptrs(a) <=> \E k \in 1 .. c : q[k] = p
  BY PointersFacts
<1>2. \A k \in 1 .. c : q[k] \in 1 .. n
  BY <1>1, ElementOfSeq
<1>3. c \in Nat /\ c <= MaxSlots
  BY <1>1, SpaceTimeAssumption
<1> HIDE DEF q, c
<1>4. /\ b = [slots |-> b.slots, free |-> <<>>, gen |-> 0]
      /\ b.slots = [i \in 1 .. c |-> [ptr |-> q[i], gen |-> 0]]
  BY <1>1 DEF CloneArena, Collect, q
<1> HIDE DEF b
<1>5. b.slots \in [1 .. c -> Slots(n)]
  BY <1>2, <1>4, SpaceTimeAssumption DEF Slots
<1>6. b.slots \in Seq(Slots(n)) /\ Len(b.slots) = c /\ DOMAIN b.slots = 1 .. c
  BY <1>3, <1>5, SeqOfFunction
<1>7. \A i \in 1 .. c : b.slots[i].ptr = q[i] /\ b.slots[i].gen = 0
  BY <1>4
<1>8. ArenaOK(b, n)
  <2>1. b \in [slots : Seq(Slots(n)), free : Seq(1 .. MaxSlots), gen : 0 .. MaxGen]
    <3>1. <<>> \in Seq(1 .. MaxSlots) /\ 0 \in 0 .. MaxGen
      BY SpaceTimeAssumption
    <3>2. b = [slots |-> b.slots, free |-> <<>>, gen |-> 0] /\ b.slots \in Seq(Slots(n))
      BY <1>4, <1>6
    <3>3. \A t \in Seq(Slots(n)) : [slots |-> t, free |-> <<>>, gen |-> 0]
            \in [slots : Seq(Slots(n)), free : Seq(1 .. MaxSlots), gen : 0 .. MaxGen]
      BY <3>1
    <3>4. QED
      BY <3>2, <3>3, Zenon
  <2>2. DOMAIN b.free = {}
    BY <1>4
  <2>3. QED
    BY <1>1, <1>3, <1>6, <1>7, <2>1, <2>2 DEF ArenaOK
<1>9. Compact(b)
  BY <1>2, <1>4, <1>6, <1>7 DEF Compact, Nil
<1>10. ASSUME NEW p \in Nat \ {0}
       PROVE  p \in Ptrs(b) <=> p \in Ptrs(a)
  <2>1. p \in Ptrs(b) <=> \E k \in 1 .. c : b.slots[k].ptr = p
    BY <1>6, Zenon DEF Ptrs
  <2>2. (\E k \in 1 .. c : b.slots[k].ptr = p) <=> \E k \in 1 .. c : q[k] = p
    BY <1>7, Zenon
  <2>3. QED
    BY <1>1, <2>1, <2>2, Zenon
<1>11. QED
  BY <1>8, <1>9, <1>10 DEF One, b

(* A copy of an arena without gaps, as that of a snapshot, has the same    *)
(* slots and generations: a checkout and a write after it leave every id   *)
(* valid, and only a snapshot made after a removal renames objects         *)
(* (snapshot.rs:31, lib.rs:116-137).                                       *)
THEOREM CompactIsItsCopy ==
  ASSUME NEW a, NEW n \in Nat, ArenaOK(a, n), Compact(a)
  PROVE  CloneArena(a) = a
<1> DEFINE c == Len(a.slots)
           o == InOrder(1 .. c)
<1>1. /\ a = [slots |-> a.slots, free |-> <<>>, gen |-> 0]
      /\ a.slots \in Seq(Slots(n)) /\ DOMAIN a.slots = 1 .. c /\ c \in Nat
      /\ \A i \in 1 .. c : a.slots[i] \in Slots(n)
  BY ArenaTypes, SpaceTimeAssumption DEF Compact
<1>2. Filled(a) = 1 .. c /\ Cardinality(1 .. c) = c
  <2>1. Filled(a) = 1 .. c
    BY <1>1 DEF Filled, Compact
  <2>2. c \in Nat
    BY <1>1
  <2> HIDE DEF c
  <2>3. Cardinality(1 .. c) = c
    BY <2>2, FS_Interval
  <2>4. QED
    BY <2>1, <2>3
<1> HIDE DEF c
<1>3. /\ o \in [1 .. c -> 1 .. c]
      /\ Increasing(o, c)
      /\ \A x \in 1 .. c : \E i \in 1 .. c : o[i] = x
  BY <1>1, <1>2, InOrderFacts
<1> HIDE DEF o
<1>4. \A i \in 1 .. c : o[i] >= i
  <2> DEFINE S == {i \in Nat : i \in 1 .. c => o[i] >= i}
  <2>1. 0 \in S
    OBVIOUS
  <2>2. ASSUME NEW i \in Nat, i \in S
        PROVE  i + 1 \in S
    <3>1. SUFFICES ASSUME i + 1 \in 1 .. c
                   PROVE  o[i + 1] >= i + 1
      OBVIOUS
    <3>2. CASE i = 0
      BY <1>3, <3>1, <3>2
    <3>3. CASE i # 0
      <4>1. i \in 1 .. c
        BY <1>1, <3>1, <3>3
      <4>2. o[i] >= i /\ o[i] \in 1 .. c /\ o[i + 1] \in 1 .. c
        BY <1>3, <2>2, <3>1, <4>1
      <4>3. o[i] < o[i + 1]
        BY <1>3, <3>1, <4>1 DEF Increasing
      <4>4. QED
        BY <4>2, <4>3
    <3>4. QED
      BY <3>2, <3>3
  <2> HIDE DEF S
  <2>3. Nat \subseteq S
    BY <2>1, <2>2, Induction
  <2>4. QED
    BY <1>1, <2>3 DEF S
<1>5. \A i \in 1 .. c : o[i] = i
  <2> DEFINE S == {k \in Nat : \A i \in 1 .. c : i + k = c => o[i] = i}
  <2>1. 0 \in S
    <3>1. ASSUME NEW i \in 1 .. c, i + 0 = c
          PROVE  o[i] = i
      <4>1. o[i] \in 1 .. c /\ o[i] >= i /\ i = c
        BY <1>1, <1>3, <1>4, <3>1
      <4>2. QED
        BY <1>1, <4>1
    <3>2. QED
      BY <3>1
  <2>2. ASSUME NEW k \in Nat, k \in S
        PROVE  k + 1 \in S
    <3>1. SUFFICES ASSUME NEW i \in 1 .. c, i + (k + 1) = c
                   PROVE  o[i] = i
      BY <2>2
    <3>2. i + 1 \in 1 .. c /\ (i + 1) + k = c
      BY <1>1, <2>2, <3>1
    <3>3. o[i + 1] = i + 1
      BY <2>2, <3>2
    <3>4. o[i] < o[i + 1]
      BY <1>3, <3>1, <3>2 DEF Increasing
    <3>5. o[i] \in 1 .. c /\ o[i] >= i
      BY <1>3, <1>4, <3>1
    <3>6. QED
      BY <3>1, <3>3, <3>4, <3>5
  <2> HIDE DEF S
  <2>3. Nat \subseteq S
    BY <2>1, <2>2, Induction
  <2>4. ASSUME NEW i \in 1 .. c
        PROVE  o[i] = i
    <3>1. c - i \in Nat /\ i + (c - i) = c
      BY <1>1, <2>4
    <3>2. QED
      BY <2>3, <2>4, <3>1 DEF S
  <2>5. QED
    BY <2>4
<1>6. Pointers(a) = [i \in 1 .. c |-> a.slots[i].ptr]
  BY <1>2, <1>5 DEF Pointers, Picked, o
<1>7. Len(Pointers(a)) = c
  <2>1. Pointers(a) \in [1 .. c -> 0 .. n]
    BY <1>1, <1>6 DEF Slots
  <2>2. QED
    BY <1>1, <2>1, SeqOfFunction
<1>8. CloneArena(a).slots = a.slots
  <2>1. CloneArena(a).slots = [i \in 1 .. c |-> [ptr |-> a.slots[i].ptr, gen |-> 0]]
    BY <1>6, <1>7 DEF CloneArena, Collect
  <2>2. \A i \in 1 .. c : a.slots[i] = [ptr |-> a.slots[i].ptr, gen |-> 0]
    BY <1>1 DEF Compact, Slots
  <2>3. a.slots = [i \in 1 .. c |-> a.slots[i]]
    BY <1>1
  <2>4. QED
    BY <2>1, <2>2, <2>3
<1>9. QED
  BY <1>1, <1>8 DEF CloneArena, Collect


-----------------------------------------------------------------------------
(* The table *)

LEMMA TableTypes ==
  ASSUME NEW tb, TableOK(tb)
  PROVE  /\ tb = [cells |-> tb.cells, free |-> tb.free]
         /\ tb.cells \in Seq(Cells) /\ Len(tb.cells) \in Nat
         /\ Len(tb.cells) <= MaxCells /\ DOMAIN tb.cells = 1 .. Len(tb.cells)
         /\ tb.free \in Seq(1 .. MaxCells) /\ DOMAIN tb.free = 1 .. Len(tb.free)
         /\ Len(tb.free) \in Nat
         /\ \A p \in DOMAIN tb.cells :
              /\ tb.cells[p] \in Cells
              /\ tb.cells[p].refs \in Nat /\ tb.cells[p].val \in Value
<1>1. /\ tb = [cells |-> tb.cells, free |-> tb.free]
      /\ tb.cells \in Seq(Cells) /\ tb.free \in Seq(1 .. MaxCells)
  BY DEF TableOK
<1>2. /\ Len(tb.cells) \in Nat /\ Len(tb.cells) <= MaxCells /\ Len(tb.free) \in Nat
      /\ DOMAIN tb.cells = 1 .. Len(tb.cells) /\ DOMAIN tb.free = 1 .. Len(tb.free)
  BY <1>1 DEF TableOK
<1>3. \A p \in DOMAIN tb.cells : tb.cells[p] \in Cells
  BY <1>1, <1>2, ElementOfSeq
<1>4. QED
  BY <1>1, <1>2, <1>3 DEF Cells

(* What makes a record a table. *)
LEMMA TableIntro ==
  ASSUME NEW n \in Nat, n <= MaxCells, NEW c \in [1 .. n -> Cells],
         NEW f \in Seq(1 .. MaxCells),
         \A k \in 1 .. Len(f) : f[k] \in 1 .. n /\ c[f[k]].refs = 0,
         \A j, k \in 1 .. Len(f) : f[j] = f[k] => j = k,
         \A p \in 1 .. n : c[p].refs = 0 => \E k \in 1 .. Len(f) : f[k] = p
  PROVE  TableOK([cells |-> c, free |-> f])
<1>1. c \in Seq(Cells) /\ Len(c) = n /\ DOMAIN c = 1 .. n
  BY SeqOfFunction
<1>2. DOMAIN f = 1 .. Len(f)
  OBVIOUS
<1>3. QED
  BY <1>1, <1>2 DEF TableOK

(* clone_snapshot counts a reference for each pointer of the arena. *)
LEMMA CloneRefsFacts ==
  ASSUME NEW tb, TableOK(tb), NEW a, ArenaOK(a, Len(tb.cells)),
         \A p \in DOMAIN tb.cells : p \in Ptrs(a) => tb.cells[p].refs > 0
  PROVE  LET t == CloneRefs(tb, a) IN
         /\ TableOK(t) /\ Len(t.cells) = Len(tb.cells)
         /\ t.free = tb.free
         /\ \A p \in DOMAIN tb.cells :
              t.cells[p] = [refs |-> tb.cells[p].refs + One(a, p), val |-> tb.cells[p].val]
<1> DEFINE n == Len(tb.cells)
           c == [p \in 1 .. n |-> [refs |-> tb.cells[p].refs + One(a, p), val |-> tb.cells[p].val]]
<1>1. /\ tb = [cells |-> tb.cells, free |-> tb.free]
      /\ n \in Nat /\ n <= MaxCells /\ DOMAIN tb.cells = 1 .. n
      /\ tb.free \in Seq(1 .. MaxCells) /\ DOMAIN tb.free = 1 .. Len(tb.free)
      /\ \A p \in 1 .. n : /\ tb.cells[p] \in Cells
                           /\ tb.cells[p].refs \in Nat /\ tb.cells[p].val \in Value
  BY TableTypes
<1>2. \A p \in 1 .. n : Count(a, p) = One(a, p) /\ One(a, p) \in Nat
  BY <1>1, CountIs DEF One
<1>3. CloneRefs(tb, a) = [cells |-> c, free |-> tb.free]
  <2>1. \A p \in 1 .. n : [tb.cells[p] EXCEPT !.refs = tb.cells[p].refs + Count(a, p)] = c[p]
    BY <1>1, <1>2 DEF Cells
  <2>2. CloneRefs(tb, a) =
          [tb EXCEPT !.cells =
             [p \in 1 .. n |-> [tb.cells[p] EXCEPT !.refs = tb.cells[p].refs + Count(a, p)]]]
    BY <1>1 DEF CloneRefs
  <2>3. [p \in 1 .. n |-> [tb.cells[p] EXCEPT !.refs = tb.cells[p].refs + Count(a, p)]] = c
    BY <2>1
  <2>4. CloneRefs(tb, a) = [tb EXCEPT !.cells = c]
    BY <2>2, <2>3, Zenon
  <2> HIDE DEF c
  <2>5. QED
    BY <1>1, <2>4
<1>4. c \in [1 .. n -> Cells]
  BY <1>1, <1>2 DEF Cells
<1>5. \A p \in 1 .. n : c[p].refs = 0 <=> tb.cells[p].refs = 0
  BY <1>1 DEF One
<1> HIDE DEF c, n
<1>6. TableOK([cells |-> c, free |-> tb.free])
  <2>1. /\ \A k \in 1 .. Len(tb.free) : tb.free[k] \in 1 .. n /\ c[tb.free[k]].refs = 0
        /\ \A j, k \in 1 .. Len(tb.free) : tb.free[j] = tb.free[k] => j = k
        /\ \A p \in 1 .. n : c[p].refs = 0 => \E k \in 1 .. Len(tb.free) : tb.free[k] = p
    BY <1>1, <1>5 DEF TableOK, n
  <2>2. QED
    BY <1>1, <1>4, <2>1, TableIntro
<1>7. Len(c) = n
  BY <1>1, <1>4, SeqOfFunction
<1>8. QED
  BY <1>1, <1>3, <1>6, <1>7 DEF c, n

(* add_item: which cell it takes, and what becomes of the table. *)
LEMMA AddFacts ==
  ASSUME NEW tb, TableOK(tb), HasRoom(tb), NEW v \in Value
  PROVE  LET t == AddItem(tb, v)
             p == NextCell(tb)
         IN  /\ TableOK(t)
             /\ Len(t.cells) >= Len(tb.cells)
             /\ DOMAIN t.cells = DOMAIN tb.cells \cup {p}
             /\ p \in 1 .. MaxCells
             /\ t.cells[p] = [refs |-> 1, val |-> v]
             /\ \A q \in DOMAIN tb.cells : q # p => t.cells[q] = tb.cells[q]
             /\ p \in DOMAIN tb.cells => tb.cells[p].refs = 0
<1> DEFINE n == Len(tb.cells)
           cell == [refs |-> 1, val |-> v]
           t == AddItem(tb, v)
           p == NextCell(tb)
<1>1. /\ tb = [cells |-> tb.cells, free |-> tb.free]
      /\ tb.cells \in Seq(Cells)
      /\ n \in Nat /\ n <= MaxCells /\ DOMAIN tb.cells = 1 .. n
      /\ tb.free \in Seq(1 .. MaxCells) /\ DOMAIN tb.free = 1 .. Len(tb.free)
      /\ Len(tb.free) \in Nat
      /\ \A q \in 1 .. n : /\ tb.cells[q] \in Cells
                           /\ tb.cells[q].refs \in Nat /\ tb.cells[q].val \in Value
  BY TableTypes
<1>2. cell \in Cells
  BY DEF Cells
<1>3. CASE tb.free = <<>>
  <2>1. t = [cells |-> Append(tb.cells, cell), free |-> <<>>] /\ p = n + 1 /\ n + 1 <= MaxCells
    <3>1. t = [tb EXCEPT !.cells = Append(tb.cells, cell)]
      BY <1>3 DEF AddItem
    <3>2. p = n + 1 /\ n < MaxCells
      BY <1>3 DEF NextCell, HasRoom
    <3>3. [tb EXCEPT !.cells = Append(tb.cells, cell)] =
            [cells |-> Append(tb.cells, cell), free |-> <<>>]
      BY <1>1, <1>3, SMTT(30)
    <3>4. n + 1 <= MaxCells
      BY <1>1, <3>2, SpaceTimeAssumption
    <3>5. QED
      BY <3>1, <3>2, <3>3, <3>4, Zenon
  <2>2. /\ Append(tb.cells, cell) \in [1 .. n + 1 -> Cells]
        /\ \A q \in 1 .. n : Append(tb.cells, cell)[q] = tb.cells[q]
        /\ Append(tb.cells, cell)[n + 1] = cell
        /\ Len(Append(tb.cells, cell)) = n + 1
    <3> HIDE DEF cell
    <3>1. /\ Append(tb.cells, cell) \in Seq(Cells)
          /\ Len(Append(tb.cells, cell)) = n + 1
          /\ \A q \in 1 .. n : Append(tb.cells, cell)[q] = tb.cells[q]
          /\ Append(tb.cells, cell)[n + 1] = cell
      BY <1>1, <1>2, AppendProperties
    <3>2. Append(tb.cells, cell) \in [1 .. n + 1 -> Cells]
      BY <3>1, LenProperties
    <3>3. QED
      BY <3>1, <3>2
  <2> DEFINE c == Append(tb.cells, cell)
  <2> HIDE DEF c, cell, t, p
  <2>3. \A q \in 1 .. n + 1 : c[q].refs # 0
    <3>1. \A q \in 1 .. n : tb.cells[q].refs # 0
      BY <1>1, <1>3 DEF TableOK
    <3>2. cell.refs = 1
      BY DEF cell
    <3>3. \A q \in 1 .. n + 1 : q \in 1 .. n \/ q = n + 1
      BY <1>1
    <3>4. QED
      BY <2>2, <3>1, <3>2, <3>3 DEF c
  <2>4. TableOK([cells |-> c, free |-> <<>>])
    <3>1. <<>> \in Seq(1 .. MaxCells) /\ 1 .. Len(<<>>) = {}
      OBVIOUS
    <3>2. n + 1 \in Nat /\ c \in [1 .. n + 1 -> Cells]
      BY <1>1, <2>2 DEF c
    <3>3. QED
      BY <2>1, <2>3, <3>1, <3>2, TableIntro
  <2>5. QED
    BY <1>1, <2>1, <2>2, <2>4, SpaceTimeAssumption DEF c, cell, t, p
<1>4. CASE tb.free # <<>>
  <2> DEFINE f == Tail(tb.free)
             c == [tb.cells EXCEPT ![p] = cell]
  <2>1. t = [cells |-> c, free |-> f] /\ p = tb.free[1]
    BY <1>1, <1>4 DEF AddItem, NextCell
  <2>2. 1 \in 1 .. Len(tb.free)
    BY <1>1, <1>4
  <2>3. p \in 1 .. n /\ tb.cells[p].refs = 0
    <3>1. tb.free[1] \in 1 .. n /\ tb.cells[tb.free[1]].refs = 0
      BY <1>1, <2>2 DEF TableOK
    <3>2. QED
      BY <2>1, <3>1, Zenon
  <2>4. /\ c \in [1 .. n -> Cells] /\ c[p] = cell
        /\ \A q \in 1 .. n : q # p => c[q] = tb.cells[q]
    BY <1>1, <1>2, <2>3, LenProperties
  <2>5. /\ f \in Seq(1 .. MaxCells) /\ Len(f) = Len(tb.free) - 1
        /\ \A k \in 1 .. Len(f) : f[k] = tb.free[k + 1]
    BY <1>1, <1>4
  <2>6. cell.refs = 1
    OBVIOUS
  <2> HIDE DEF c, cell, t, p, f
  <2>7. /\ \A k \in 1 .. Len(f) : f[k] \in 1 .. n /\ c[f[k]].refs = 0
        /\ \A j, k \in 1 .. Len(f) : f[j] = f[k] => j = k
    <3>1. \A k \in 1 .. Len(f) : k + 1 \in 1 .. Len(tb.free) /\ k + 1 # 1
      BY <1>1, <2>5
    <3>2. \A k \in 1 .. Len(tb.free) : tb.free[k] \in 1 .. n /\ tb.cells[tb.free[k]].refs = 0
      BY <1>1 DEF TableOK
    <3>3. \A j, k \in 1 .. Len(tb.free) : tb.free[j] = tb.free[k] => j = k
      BY <1>1 DEF TableOK
    <3>4. \A k \in 1 .. Len(f) : f[k] # p
      BY <2>1, <2>2, <2>5, <3>1, <3>3
    <3>5. ASSUME NEW k \in 1 .. Len(f)
          PROVE  f[k] \in 1 .. n /\ c[f[k]].refs = 0
      <4>1. f[k] \in 1 .. n /\ tb.cells[f[k]].refs = 0
        BY <2>5, <3>1, <3>2
      <4>2. c[f[k]] = tb.cells[f[k]]
        BY <2>4, <3>4, <4>1
      <4>3. QED
        BY <4>1, <4>2
    <3>6. ASSUME NEW j \in 1 .. Len(f), NEW k \in 1 .. Len(f), f[j] = f[k]
          PROVE  j = k
      <4>1. j + 1 = k + 1
        BY <2>5, <3>1, <3>3, <3>6
      <4>2. QED
        BY <4>1
    <3>7. QED
      BY <3>5, <3>6
  <2>8. ASSUME NEW q \in 1 .. n, c[q].refs = 0
        PROVE  \E k \in 1 .. Len(f) : f[k] = q
    <3>1. q # p /\ tb.cells[q].refs = 0
      BY <2>4, <2>6, <2>8
    <3>2. PICK k \in 1 .. Len(tb.free) : tb.free[k] = q
      BY <1>1, <3>1 DEF TableOK
    <3>3. k # 1
      BY <2>1, <3>1, <3>2
    <3>4. k - 1 \in 1 .. Len(f) /\ (k - 1) + 1 = k
      BY <1>1, <2>5, <3>2, <3>3
    <3>5. QED
      BY <2>5, <3>2, <3>4
  <2>9. TableOK([cells |-> c, free |-> f])
    BY <1>1, <2>4, <2>5, <2>7, <2>8, TableIntro
  <2>10. Len(c) = n /\ DOMAIN c = 1 .. n
    BY <1>1, <2>4, SeqOfFunction
  <2>11. t.cells = c /\ p \in 1 .. MaxCells
    BY <1>1, <2>1, <2>3, SpaceTimeAssumption
  <2>12. Len(t.cells) >= Len(tb.cells) /\ DOMAIN t.cells = DOMAIN tb.cells \cup {p}
    BY <1>1, <2>3, <2>10, <2>11
  <2>13. t.cells[p] = cell /\ \A q \in DOMAIN tb.cells : q # p => t.cells[q] = tb.cells[q]
    BY <1>1, <2>4, <2>11
  <2>14. TableOK(t)
    BY <2>1, <2>9
  <2>15. QED
    BY <2>3, <2>11, <2>12, <2>13, <2>14 DEF cell, t, p
<1>5. QED
  BY <1>3, <1>4


(* pop_item and drop_table_ptr give back one reference. *)
LEMMA DropFacts ==
  ASSUME NEW tb, TableOK(tb), NEW p \in DOMAIN tb.cells, tb.cells[p].refs > 0
  PROVE  LET t == DropPtr(tb, p) IN
         /\ TableOK(t) /\ Len(t.cells) = Len(tb.cells)
         /\ t.cells[p] = [refs |-> tb.cells[p].refs - 1, val |-> tb.cells[p].val]
         /\ \A q \in DOMAIN tb.cells : q # p => t.cells[q] = tb.cells[q]
<1> DEFINE n == Len(tb.cells)
           cell == [refs |-> tb.cells[p].refs - 1, val |-> tb.cells[p].val]
           c == [tb.cells EXCEPT ![p] = cell]
           f == IF tb.cells[p].refs = 1 THEN <<p>> \o tb.free ELSE tb.free
<1>1. /\ tb.cells \in Seq(Cells)
      /\ n \in Nat /\ n <= MaxCells /\ DOMAIN tb.cells = 1 .. n
      /\ tb.free \in Seq(1 .. MaxCells) /\ DOMAIN tb.free = 1 .. Len(tb.free)
      /\ Len(tb.free) \in Nat
      /\ \A q \in 1 .. n : /\ tb.cells[q] \in Cells
                           /\ tb.cells[q].refs \in Nat /\ tb.cells[q].val \in Value
  BY TableTypes
<1>2. /\ \A k \in 1 .. Len(tb.free) : tb.free[k] \in 1 .. n /\ tb.cells[tb.free[k]].refs = 0
      /\ \A j, k \in 1 .. Len(tb.free) : tb.free[j] = tb.free[k] => j = k
      /\ \A q \in 1 .. n : tb.cells[q].refs = 0 => \E k \in 1 .. Len(tb.free) : tb.free[k] = q
  BY <1>1 DEF TableOK
<1>3. DropPtr(tb, p) = [cells |-> c, free |-> f]
  <2>1. [tb.cells[p] EXCEPT !.refs = tb.cells[p].refs - 1] = cell
    BY <1>1, SMTT(30) DEF Cells
  <2>2. DropPtr(tb, p).cells = [tb.cells EXCEPT ![p] = [tb.cells[p] EXCEPT !.refs = tb.cells[p].refs - 1]]
    BY <1>1 DEF DropPtr
  <2>3. DropPtr(tb, p) = [cells |-> DropPtr(tb, p).cells, free |-> f]
    BY DEF DropPtr, Refs
  <2>4. DropPtr(tb, p).cells = c
    BY <2>1, <2>2, Zenon
  <2> HIDE DEF c, f
  <2>5. QED
    BY <2>3, <2>4, Zenon
<1>4. cell \in Cells
  BY <1>1 DEF Cells
<1>5. /\ c \in [1 .. n -> Cells] /\ c[p] = cell
      /\ \A q \in 1 .. n : q # p => c[q] = tb.cells[q]
  <2> HIDE DEF cell
  <2>1. QED
    BY <1>1, <1>4, LenProperties
<1>6. p \in 1 .. n /\ p \in 1 .. MaxCells /\ p \notin {tb.free[k] : k \in 1 .. Len(tb.free)}
  BY <1>1, <1>2, SpaceTimeAssumption
<1>7. cell.refs = 0 <=> tb.cells[p].refs = 1
  BY <1>1
<1> HIDE DEF n, c, cell
<1>8. TableOK([cells |-> c, free |-> f])
  <2>1. CASE tb.cells[p].refs = 1
    <3>1. /\ f \in Seq(1 .. MaxCells) /\ Len(f) = Len(tb.free) + 1 /\ f[1] = p
          /\ \A k \in 1 .. Len(tb.free) : f[k + 1] = tb.free[k]
      <4>1. f = <<p>> \o tb.free
        BY <2>1
      <4>2. <<p>> \in Seq(1 .. MaxCells) /\ Len(<<p>>) = 1 /\ <<p>>[1] = p
        BY <1>6
      <4>3. f \in Seq(1 .. MaxCells) /\ Len(f) = 1 + Len(tb.free)
        <5>1. /\ <<p>> \o tb.free \in Seq(1 .. MaxCells)
              /\ Len(<<p>> \o tb.free) = Len(<<p>>) + Len(tb.free)
          BY <1>1, <4>2, ConcatProperties
        <5> HIDE DEF f
        <5>2. QED
          BY <4>1, <4>2, <5>1
      <4>4. \A k \in 1 .. 1 + Len(tb.free) : f[k] = IF k <= 1 THEN p ELSE tb.free[k - 1]
        BY <1>1, <4>1
      <4>5. QED
        BY <1>1, <4>3, <4>4
    <3> HIDE DEF f
    <3>2. \A k \in 1 .. Len(f) : k = 1 \/ (k - 1 \in 1 .. Len(tb.free) /\ f[k] = tb.free[k - 1])
      <4>1. SUFFICES ASSUME NEW k \in 1 .. Len(f), k # 1
                     PROVE  k - 1 \in 1 .. Len(tb.free) /\ f[k] = tb.free[k - 1]
        OBVIOUS
      <4>2. k - 1 \in 1 .. Len(tb.free) /\ (k - 1) + 1 = k
        BY <1>1, <3>1, <4>1
      <4>3. QED
        BY <3>1, <4>2
    <3>3. ASSUME NEW k \in 1 .. Len(f)
          PROVE  f[k] \in 1 .. n /\ c[f[k]].refs = 0
      <4>1. CASE k = 1
        BY <1>5, <1>6, <1>7, <2>1, <3>1, <4>1
      <4>2. CASE k # 1
        <5>1. k - 1 \in 1 .. Len(tb.free) /\ f[k] = tb.free[k - 1]
          BY <3>2, <4>2
        <5>2. f[k] \in 1 .. n /\ tb.cells[f[k]].refs = 0 /\ f[k] # p
          BY <1>2, <1>6, <5>1
        <5>3. QED
          BY <1>5, <5>2
      <4>3. QED
        BY <4>1, <4>2
    <3>4. ASSUME NEW j \in 1 .. Len(f), NEW k \in 1 .. Len(f), f[j] = f[k]
          PROVE  j = k
      <4>1. CASE j = 1 \/ k = 1
        BY <1>6, <3>1, <3>2, <3>4, <4>1
      <4>2. CASE j # 1 /\ k # 1
        <5>1. /\ j - 1 \in 1 .. Len(tb.free) /\ f[j] = tb.free[j - 1]
              /\ k - 1 \in 1 .. Len(tb.free) /\ f[k] = tb.free[k - 1]
          BY <3>2, <4>2
        <5>2. tb.free[j - 1] = tb.free[k - 1]
          BY <3>4, <5>1, Zenon
        <5>3. j - 1 = k - 1
          BY <1>2, <5>1, <5>2, Zenon
        <5>4. QED
          BY <5>3
      <4>3. QED
        BY <4>1, <4>2
    <3>5. ASSUME NEW q \in 1 .. n, c[q].refs = 0
          PROVE  \E k \in 1 .. Len(f) : f[k] = q
      <4>1. CASE q = p
        BY <1>1, <3>1, <4>1
      <4>2. CASE q # p
        <5>1. PICK k \in 1 .. Len(tb.free) : tb.free[k] = q
          BY <1>2, <1>5, <3>5, <4>2
        <5>2. k + 1 \in 1 .. Len(f)
          BY <1>1, <3>1
        <5>3. QED
          BY <3>1, <5>1, <5>2
      <4>3. QED
        BY <4>1, <4>2
    <3>6. n \in Nat /\ n <= MaxCells
      BY <1>1 DEF n
    <3>7. QED
      BY <1>5, <3>1, <3>3, <3>4, <3>5, <3>6, TableIntro
  <2>2. CASE tb.cells[p].refs # 1
    <3>1. f = tb.free
      BY <2>2
    <3>2. /\ \A k \in 1 .. Len(tb.free) : tb.free[k] \in 1 .. n /\ c[tb.free[k]].refs = 0
          /\ \A q \in 1 .. n : c[q].refs = 0 => \E k \in 1 .. Len(tb.free) : tb.free[k] = q
      BY <1>2, <1>5, <1>6, <1>7, <2>2
    <3>3. n \in Nat /\ n <= MaxCells
      BY <1>1 DEF n
    <3> HIDE DEF f
    <3>4. QED
      BY <1>1, <1>2, <1>5, <3>1, <3>2, <3>3, TableIntro
  <2>3. QED
    BY <2>1, <2>2
<1>9. Len(c) = n
  BY <1>1, <1>5, SeqOfFunction DEF n
<1> HIDE DEF f
<1>10. QED
  BY <1>1, <1>3, <1>5, <1>6, <1>8, <1>9 DEF n, cell


(* The cells that delete_snapshot empties, in the order it frees them. *)
LEMMA EmptiedFacts ==
  ASSUME NEW n \in Nat, NEW q \in Seq(1 .. n), NEW L \in SUBSET (1 .. Len(q)),
         \A j, k \in 1 .. Len(q) : q[j] = q[k] => j = k
  PROVE  LET g == SX!Reverse(Picked(q, L)) IN
         /\ g \in Seq(1 .. n)
         /\ \A i \in 1 .. Len(g) : \E k \in L : g[i] = q[k]
         /\ \A k \in L : \E i \in 1 .. Len(g) : g[i] = q[k]
         /\ \A i, j \in 1 .. Len(g) : g[i] = g[j] => i = j
<1> DEFINE m == Cardinality(L)
           o == InOrder(L)
           u == Picked(q, L)
           g == SX!Reverse(u)
<1>1. Len(q) \in Nat /\ \A k \in 1 .. Len(q) : q[k] \in 1 .. n
  BY ElementOfSeq
<1>2. /\ m \in 0 .. Len(q)
      /\ o \in [1 .. m -> L]
      /\ \A i, j \in 1 .. m : o[i] = o[j] => i = j
      /\ \A x \in L : \E i \in 1 .. m : o[i] = x
  BY <1>1, InOrderFacts
<1>3. u = [i \in 1 .. m |-> q[o[i]]]
  BY DEF Picked
<1>4. m \in Nat
  BY <1>1, <1>2
<1> HIDE DEF m, o, u
<1>5. \A i \in 1 .. m : o[i] \in L /\ u[i] = q[o[i]] /\ u[i] \in 1 .. n
  BY <1>1, <1>2, <1>3
<1>6. u \in [1 .. m -> 1 .. n]
  BY <1>3, <1>5
<1>7. Len(u) = m
  BY <1>4, <1>6, SeqOfFunction
<1>8. g = [i \in 1 .. m |-> u[(m - i) + 1]]
  BY <1>7 DEF SX!Reverse
<1>9. \A i \in 1 .. m : (m - i) + 1 \in 1 .. m /\ g[i] = u[(m - i) + 1]
  BY <1>4, <1>8
<1>10. g \in [1 .. m -> 1 .. n]
  BY <1>5, <1>8, <1>9
<1>11. g \in Seq(1 .. n) /\ Len(g) = m
  BY <1>4, <1>10, SeqOfFunction
<1> HIDE DEF g
<1>12. ASSUME NEW i \in 1 .. m
       PROVE  \E k \in L : g[i] = q[k]
  <2>1. PICK j \in 1 .. m : g[i] = u[j]
    BY <1>9
  <2>2. o[j] \in L /\ u[j] = q[o[j]]
    BY <1>5
  <2>3. QED
    BY <2>1, <2>2
<1>13. ASSUME NEW k \in L
       PROVE  \E i \in 1 .. m : g[i] = q[k]
  <2>1. PICK i \in 1 .. m : o[i] = k
    BY <1>2
  <2>2. (m - i) + 1 \in 1 .. m /\ (m - ((m - i) + 1)) + 1 = i
    BY <1>4
  <2>3. QED
    BY <1>5, <1>9, <2>1, <2>2
<1>14. ASSUME NEW i \in 1 .. m, NEW j \in 1 .. m, g[i] = g[j]
       PROVE  i = j
  <2>1. u[(m - i) + 1] = u[(m - j) + 1]
    BY <1>9, <1>14
  <2>2. o[(m - i) + 1] = o[(m - j) + 1]
    <3>1. PICK x \in 1 .. m : x = (m - i) + 1
      BY <1>9
    <3>2. PICK y \in 1 .. m : y = (m - j) + 1
      BY <1>9
    <3>3. q[o[x]] = q[o[y]] /\ o[x] \in 1 .. Len(q) /\ o[y] \in 1 .. Len(q)
      BY <1>5, <2>1, <3>1, <3>2
    <3>4. QED
      BY <3>1, <3>2, <3>3
  <2>3. (m - i) + 1 = (m - j) + 1
    BY <1>2, <1>9, <2>2
  <2>4. QED
    BY <1>4, <2>3
<1>15. QED
  BY <1>11, <1>12, <1>13, <1>14 DEF g, u

(* delete_snapshot gives back a reference for each pointer of the arena. *)
LEMMA DeleteFacts ==
  ASSUME NEW tb, TableOK(tb), NEW a, ArenaOK(a, Len(tb.cells)),
         \A p \in DOMAIN tb.cells : p \in Ptrs(a) => tb.cells[p].refs > 0
  PROVE  LET t == DeleteSnapshot(tb, a) IN
         /\ TableOK(t) /\ Len(t.cells) = Len(tb.cells)
         /\ \A p \in DOMAIN tb.cells :
              t.cells[p] = [refs |-> tb.cells[p].refs - One(a, p), val |-> tb.cells[p].val]
<1> DEFINE n == Len(tb.cells)
           q == Pointers(a)
           L == {k \in DOMAIN q : Refs(tb, q[k]) = 1}
           g == SX!Reverse(Picked(q, L))
           f == g \o tb.free
           c == [p \in 1 .. n |-> [refs |-> tb.cells[p].refs - One(a, p), val |-> tb.cells[p].val]]
<1>1. /\ n \in Nat /\ n <= MaxCells /\ DOMAIN tb.cells = 1 .. n
      /\ tb.free \in Seq(1 .. MaxCells) /\ DOMAIN tb.free = 1 .. Len(tb.free)
      /\ Len(tb.free) \in Nat
      /\ \A p \in 1 .. n : /\ tb.cells[p] \in Cells
                           /\ tb.cells[p].refs \in Nat /\ tb.cells[p].val \in Value
  BY TableTypes
<1>2. /\ \A k \in 1 .. Len(tb.free) : tb.free[k] \in 1 .. n /\ tb.cells[tb.free[k]].refs = 0
      /\ \A j, k \in 1 .. Len(tb.free) : tb.free[j] = tb.free[k] => j = k
      /\ \A p \in 1 .. n : tb.cells[p].refs = 0 => \E k \in 1 .. Len(tb.free) : tb.free[k] = p
  BY <1>1 DEF TableOK
<1>3. \A p \in 1 .. n : Count(a, p) = One(a, p)
  BY <1>1, CountIs
<1>4. /\ q \in Seq(1 .. n)
      /\ \A j, k \in 1 .. Len(q) : q[j] = q[k] => j = k
      /\ \A p \in 1 .. n : p \in Ptrs(a) <=> \E k \in 1 .. Len(q) : q[k] = p
  BY <1>1, PointersFacts
<1>5. DOMAIN q = 1 .. Len(q) /\ \A k \in 1 .. Len(q) : q[k] \in 1 .. n
  BY <1>4, ElementOfSeq
<1>6. L \in SUBSET (1 .. Len(q)) /\ \A k \in 1 .. Len(q) : k \in L <=> tb.cells[q[k]].refs = 1
  BY <1>5 DEF Refs
<1>7. DeleteSnapshot(tb, a) = [cells |-> c, free |-> f]
  <2>1. \A p \in 1 .. n : [tb.cells[p] EXCEPT !.refs = tb.cells[p].refs - Count(a, p)] = c[p]
    BY <1>1, <1>3 DEF Cells
  <2>2. [p \in 1 .. n |-> [tb.cells[p] EXCEPT !.refs = tb.cells[p].refs - Count(a, p)]] = c
    BY <2>1
  <2>3. DeleteSnapshot(tb, a).cells =
          [p \in 1 .. n |-> [tb.cells[p] EXCEPT !.refs = tb.cells[p].refs - Count(a, p)]]
    BY <1>1 DEF DeleteSnapshot
  <2>4. DeleteSnapshot(tb, a) = [cells |-> DeleteSnapshot(tb, a).cells, free |-> f]
    BY DEF DeleteSnapshot
  <2> HIDE DEF c, f
  <2>5. QED
    BY <2>2, <2>3, <2>4, Zenon
<1> HIDE DEF L, q
<1>8. /\ g \in Seq(1 .. n)
      /\ \A i \in 1 .. Len(g) : \E k \in L : g[i] = q[k]
      /\ \A k \in L : \E i \in 1 .. Len(g) : g[i] = q[k]
      /\ \A i, j \in 1 .. Len(g) : g[i] = g[j] => i = j
  BY <1>1, <1>4, <1>6, EmptiedFacts
<1> HIDE DEF g
<1>9. /\ \A i \in 1 .. Len(g) : /\ g[i] \in 1 .. n /\ tb.cells[g[i]].refs = 1
                                /\ g[i] \in Ptrs(a)
      /\ \A p \in 1 .. n : p \in Ptrs(a) /\ tb.cells[p].refs = 1
                             => \E i \in 1 .. Len(g) : g[i] = p
  <2> HIDE DEF n
  <2>1. ASSUME NEW i \in 1 .. Len(g)
        PROVE  /\ g[i] \in 1 .. n /\ tb.cells[g[i]].refs = 1
               /\ g[i] \in Ptrs(a)
    <3>1. PICK k \in L : g[i] = q[k]
      BY <1>8
    <3>2. k \in 1 .. Len(q) /\ q[k] \in 1 .. n /\ tb.cells[q[k]].refs = 1
      BY <1>5, <1>6
    <3>3. q[k] \in Ptrs(a)
      BY <1>4, <3>2
    <3>4. QED
      BY <3>1, <3>2, <3>3
  <2>2. ASSUME NEW p \in 1 .. n, p \in Ptrs(a), tb.cells[p].refs = 1
        PROVE  \E i \in 1 .. Len(g) : g[i] = p
    <3>1. PICK k \in 1 .. Len(q) : q[k] = p
      BY <1>4, <2>2
    <3>2. k \in L
      BY <1>6, <2>2, <3>1
    <3>3. QED
      BY <1>8, <3>1, <3>2
  <2>3. QED
    BY <2>1, <2>2
<1>10. c \in [1 .. n -> Cells]
  <2>1. \A p \in 1 .. n : c[p].refs \in Nat
    BY <1>1 DEF One
  <2>2. QED
    BY <1>1, <2>1 DEF Cells
<1>11. /\ \A p \in 1 .. n : c[p].refs = 0 <=>
            tb.cells[p].refs = 0 \/ (p \in Ptrs(a) /\ tb.cells[p].refs = 1)
  BY <1>1 DEF One
<1>12. /\ f \in Seq(1 .. MaxCells) /\ Len(f) = Len(g) + Len(tb.free) /\ Len(g) \in Nat
       /\ \A k \in 1 .. Len(f) : f[k] = IF k <= Len(g) THEN g[k] ELSE tb.free[k - Len(g)]
  <2>1. g \in Seq(1 .. MaxCells)
    <3>1. 1 .. n \subseteq 1 .. MaxCells
      BY <1>1, SpaceTimeAssumption
    <3> HIDE DEF n
    <3>2. QED
      BY <1>8, <3>1, SeqMonotonic
  <2>2. QED
    BY <1>1, <2>1, ConcatProperties, LenProperties
<1> HIDE DEF f, c, n
<1>13. ASSUME NEW k \in 1 .. Len(f)
       PROVE  \/ k \in 1 .. Len(g) /\ f[k] = g[k]
              \/ /\ k \notin 1 .. Len(g)
                 /\ k - Len(g) \in 1 .. Len(tb.free) /\ f[k] = tb.free[k - Len(g)]
  <2>1. CASE k <= Len(g)
    BY <1>12, <2>1
  <2>2. CASE ~ (k <= Len(g))
    <3>1. k - Len(g) \in 1 .. Len(tb.free)
      BY <1>1, <1>12, <2>2
    <3>2. QED
      BY <1>12, <2>2, <3>1
  <2>3. QED
    BY <2>1, <2>2
<1>14. ASSUME NEW k \in 1 .. Len(f)
       PROVE  f[k] \in 1 .. n /\ c[f[k]].refs = 0
  <2>1. CASE k \in 1 .. Len(g) /\ f[k] = g[k]
    <3>1. g[k] \in 1 .. n /\ tb.cells[g[k]].refs = 1 /\ g[k] \in Ptrs(a)
      BY <1>9, <2>1
    <3>2. QED
      BY <1>11, <2>1, <3>1
  <2>2. CASE k - Len(g) \in 1 .. Len(tb.free) /\ f[k] = tb.free[k - Len(g)]
    <3>1. tb.free[k - Len(g)] \in 1 .. n /\ tb.cells[tb.free[k - Len(g)]].refs = 0
      BY <1>2, <2>2, Zenon
    <3>2. f[k] \in 1 .. n /\ tb.cells[f[k]].refs = 0
      BY <2>2, <3>1, Zenon
    <3>3. QED
      BY <1>11, <3>2, Zenon
  <2>3. QED
    BY <1>13, <2>1, <2>2
<1>15. ASSUME NEW j \in 1 .. Len(f), NEW k \in 1 .. Len(f), f[j] = f[k]
       PROVE  j = k
  <2>1. CASE j \in 1 .. Len(g) /\ k \in 1 .. Len(g)
    <3>1. f[j] = g[j] /\ f[k] = g[k]
      BY <1>13, <2>1
    <3>2. QED
      BY <1>8, <1>15, <2>1, <3>1
  <2>2. CASE j \notin 1 .. Len(g) /\ k \notin 1 .. Len(g)
    <3>1. /\ j - Len(g) \in 1 .. Len(tb.free) /\ f[j] = tb.free[j - Len(g)]
          /\ k - Len(g) \in 1 .. Len(tb.free) /\ f[k] = tb.free[k - Len(g)]
      BY <1>13, <2>2
    <3>2. j - Len(g) = k - Len(g)
      BY <1>2, <1>15, <3>1
    <3>3. QED
      BY <1>12, <3>2
  <2>3. ASSUME NEW x \in 1 .. Len(g), NEW y \in 1 .. Len(tb.free), g[x] = tb.free[y]
        PROVE  FALSE
    <3>1. tb.cells[g[x]].refs = 1 /\ tb.cells[tb.free[y]].refs = 0
      BY <1>2, <1>9
    <3>2. QED
      BY <2>3, <3>1
  <2>4. CASE j \in 1 .. Len(g) /\ k \notin 1 .. Len(g)
    BY <1>13, <1>15, <2>3, <2>4
  <2>5. CASE j \notin 1 .. Len(g) /\ k \in 1 .. Len(g)
    BY <1>13, <1>15, <2>3, <2>5
  <2>6. QED
    BY <2>1, <2>2, <2>4, <2>5
<1>16. ASSUME NEW p \in 1 .. n, c[p].refs = 0
       PROVE  \E k \in 1 .. Len(f) : f[k] = p
  <2>1. CASE tb.cells[p].refs = 0
    <3>1. PICK k \in 1 .. Len(tb.free) : tb.free[k] = p
      BY <1>2, <2>1
    <3>2. k + Len(g) \in 1 .. Len(f) /\ ~ (k + Len(g) <= Len(g)) /\ (k + Len(g)) - Len(g) = k
      BY <1>1, <1>12
    <3>3. f[k + Len(g)] = tb.free[k]
      BY <1>12, <3>2
    <3>4. QED
      BY <3>1, <3>2, <3>3
  <2>2. CASE p \in Ptrs(a) /\ tb.cells[p].refs = 1
    <3>1. PICK i \in 1 .. Len(g) : g[i] = p
      BY <1>9, <2>2
    <3>2. i \in 1 .. Len(f) /\ i <= Len(g)
      BY <1>1, <1>12
    <3>3. QED
      BY <1>12, <3>1, <3>2
  <2>3. QED
    BY <1>11, <1>16, <2>1, <2>2
<1>17. n \in Nat /\ n <= MaxCells
  BY <1>1 DEF n
<1>18. TableOK([cells |-> c, free |-> f])
  BY <1>10, <1>12, <1>14, <1>15, <1>16, <1>17, TableIntro
<1>19. Len(c) = n
  BY <1>10, <1>17, SeqOfFunction
<1>20. QED
  BY <1>1, <1>7, <1>18, <1>19 DEF c, n


-----------------------------------------------------------------------------
(* Who holds a cell *)

LEMMA ArenaGrows ==
  ASSUME NEW a, NEW n \in Nat, NEW m \in Nat, n <= m, ArenaOK(a, n)
  PROVE  ArenaOK(a, m)
<1>1. Slots(n) \subseteq Slots(m)
  BY DEF Slots
<1>2. a.slots \in Seq(Slots(m))
  BY <1>1, ArenaTypes, SeqMonotonic
<1>3. /\ a = [slots |-> a.slots, free |-> a.free, gen |-> a.gen]
      /\ a.free \in Seq(1 .. MaxSlots) /\ a.gen \in 0 .. MaxGen
  BY ArenaTypes
<1>4. \A t \in Seq(Slots(m)), f \in Seq(1 .. MaxSlots), g \in 0 .. MaxGen :
        [slots |-> t, free |-> f, gen |-> g]
          \in [slots : Seq(Slots(m)), free : Seq(1 .. MaxSlots), gen : 0 .. MaxGen]
  OBVIOUS
<1>5. a \in [slots : Seq(Slots(m)), free : Seq(1 .. MaxSlots), gen : 0 .. MaxGen]
  BY <1>2, <1>3, <1>4, Zenon
<1>6. QED
  BY <1>5 DEF ArenaOK

LEMMA EmptyArenaOK ==
  ASSUME NEW n \in Nat
  PROVE  /\ ArenaOK(EmptyArena, n)
         /\ Ptrs(EmptyArena) = {}
         /\ \A p : One(EmptyArena, p) = 0
<1>1. /\ DOMAIN EmptyArena.slots = {} /\ DOMAIN EmptyArena.free = {}
      /\ Len(EmptyArena.slots) = 0
      /\ EmptyArena.slots = <<>> /\ EmptyArena.free = <<>> /\ EmptyArena.gen = 0
  BY DEF EmptyArena
<1>2. <<>> \in Seq(Slots(n)) /\ <<>> \in Seq(1 .. MaxSlots) /\ 0 \in 0 .. MaxGen
  BY SpaceTimeAssumption
<1>3. EmptyArena \in [slots : Seq(Slots(n)), free : Seq(1 .. MaxSlots), gen : 0 .. MaxGen]
  BY <1>2 DEF EmptyArena
<1>4. QED
  BY <1>1, <1>3, SpaceTimeAssumption DEF ArenaOK, Ptrs, One

(* Cells without references are held by nobody, and a cell with one        *)
(* reference that the arena of HEAD holds is held by no snapshot.          *)
LEMMA HolderFacts ==
  ASSUME NEW tb, NEW a, NEW sn, NEW m, NEW lk, OwnedInv(tb, a, sn, m, lk),
         NEW p \in DOMAIN tb.cells
  PROVE  /\ p \in Nat \ {0} /\ p \in 1 .. MaxCells
         /\ IsFiniteSet(Holders(sn, p)) /\ Cardinality(Holders(sn, p)) \in Nat
         /\ lk[p] \in Nat /\ One(a, p) \in 0 .. 1
         /\ tb.cells[p].refs \in Nat
         /\ tb.cells[p].refs = Cardinality(Holders(sn, p)) + One(a, p) + lk[p]
         /\ p \in Ptrs(a) => tb.cells[p].refs > 0
         /\ \A s \in DOMAIN sn : p \in Ptrs(sn[s]) => tb.cells[p].refs > 0
         /\ p \in Ptrs(a) /\ tb.cells[p].refs = 1 =>
              \A s \in DOMAIN sn : p \notin Ptrs(sn[s])
         /\ tb.cells[p].refs = 0 => lk[p] = 0 /\ Holders(sn, p) = {}
<1>1. TableOK(tb) /\ LeakedOK(lk, Len(tb.cells)) /\ SnapsOK(sn, m, Len(tb.cells))
      /\ Counted(tb, a, sn, lk) /\ m \in Nat
  BY SpaceTimeAssumption DEF OwnedInv
<1>2. p \in 1 .. Len(tb.cells) /\ Len(tb.cells) \in Nat /\ Len(tb.cells) <= MaxCells
  BY <1>1, TableTypes
<1>3. p \in Nat \ {0} /\ p \in 1 .. MaxCells /\ tb.cells[p].refs \in Nat
  BY <1>1, <1>2, TableTypes, SpaceTimeAssumption
<1>4. IsFiniteSet(Holders(sn, p))
  <2>1. IsFiniteSet(1 .. m)
    BY <1>1, FS_Interval
  <2>2. Holders(sn, p) \in SUBSET (1 .. m)
    BY <1>1 DEF Holders, SnapsOK
  <2>3. QED
    BY <2>1, <2>2, FS_Subset
<1>5. Cardinality(Holders(sn, p)) \in Nat
  BY <1>4, FS_CardinalityType
<1>6. lk[p] \in Nat /\ One(a, p) \in 0 .. 1 /\ (p \in Ptrs(a) => One(a, p) = 1)
  BY <1>1, <1>3 DEF LeakedOK, One
<1>7. tb.cells[p].refs = Cardinality(Holders(sn, p)) + One(a, p) + lk[p]
  BY <1>1 DEF Counted
<1>8. Cardinality(Holders(sn, p)) = 0 <=> Holders(sn, p) = {}
  BY <1>4, FS_EmptySet
<1>9. \A s \in DOMAIN sn : p \in Ptrs(sn[s]) => s \in Holders(sn, p)
  BY DEF Holders
<1>10. p \in Ptrs(a) => tb.cells[p].refs > 0
  BY <1>5, <1>6, <1>7
<1>11. Holders(sn, p) # {} => tb.cells[p].refs > 0
  BY <1>5, <1>6, <1>7, <1>8
<1>12. p \in Ptrs(a) /\ tb.cells[p].refs = 1 => Holders(sn, p) = {}
  BY <1>5, <1>6, <1>7, <1>8
<1>13. tb.cells[p].refs = 0 => lk[p] = 0 /\ Holders(sn, p) = {}
  BY <1>5, <1>6, <1>7, <1>8
<1>14. QED
  BY <1>3, <1>4, <1>5, <1>6, <1>7, <1>9, <1>10, <1>11, <1>12, <1>13

(* A pointer is a cell of the table. *)
LEMMA PtrsAreCells ==
  ASSUME NEW a, NEW n \in Nat, ArenaOK(a, n), NEW p \in Ptrs(a)
  PROVE  p \in 0 .. n
<1>1. PICK i \in DOMAIN a.slots : a.slots[i].ptr = p
  BY DEF Ptrs
<1>2. QED
  BY <1>1, ArenaTypes

(* What get, get_mut and remove find. *)
LEMMA PtrAtFacts ==
  ASSUME NEW a, NEW n \in Nat, ArenaOK(a, n), NEW id, PtrAt(a, id) # Nil
  PROVE  /\ id[1] \in DOMAIN a.slots /\ id[1] \in 1 .. Len(a.slots)
         /\ a.slots[id[1]].ptr = PtrAt(a, id) /\ a.slots[id[1]].gen = id[2]
         /\ PtrAt(a, id) \in 1 .. n
         /\ PtrAt(a, id) \in Ptrs(a)
<1>1. /\ id[1] \in 1 .. Len(a.slots) /\ a.slots[id[1]].gen = id[2]
      /\ PtrAt(a, id) = a.slots[id[1]].ptr
  BY DEF PtrAt
<1>2. id[1] \in DOMAIN a.slots /\ a.slots[id[1]].ptr \in 0 .. n
  BY <1>1, ArenaTypes
<1>3. QED
  BY <1>1, <1>2 DEF Ptrs, Nil


-----------------------------------------------------------------------------
(* The operations *)

LEMMA OwnedParts ==
  ASSUME NEW tb, NEW a, NEW sn, NEW m, NEW lk, OwnedInv(tb, a, sn, m, lk)
  PROVE  /\ TableOK(tb) /\ Len(tb.cells) \in Nat /\ DOMAIN tb.cells = 1 .. Len(tb.cells)
         /\ ArenaOK(a, Len(tb.cells))
         /\ m \in 0 .. MaxSnaps /\ m \in Nat
         /\ DOMAIN sn \subseteq 1 .. m
         /\ \A s \in DOMAIN sn : ArenaOK(sn[s], Len(tb.cells)) /\ Compact(sn[s])
         /\ LeakedOK(lk, Len(tb.cells))
<1>1. TableOK(tb) /\ ArenaOK(a, Len(tb.cells)) /\ m \in 0 .. MaxSnaps
      /\ SnapsOK(sn, m, Len(tb.cells)) /\ LeakedOK(lk, Len(tb.cells))
  BY DEF OwnedInv
<1>2. QED
  BY <1>1, TableTypes, SpaceTimeAssumption DEF SnapsOK

(* get_head_mut: HEAD becomes its own copy of the snapshot it is at. *)
LEMMA OwnStep ==
  ASSUME NEW tb, NEW sn, NEW m, NEW lk, OwnedInv(tb, EmptyArena, sn, m, lk),
         NEW s \in DOMAIN sn
  PROVE  OwnedInv(CloneRefs(tb, sn[s]), CloneArena(sn[s]), sn, m, lk)
<1> DEFINE t == CloneRefs(tb, sn[s])
           b == CloneArena(sn[s])
           n == Len(tb.cells)
<1>1. /\ TableOK(tb) /\ n \in Nat /\ DOMAIN tb.cells = 1 .. n
      /\ m \in 0 .. MaxSnaps /\ SnapsOK(sn, m, n) /\ LeakedOK(lk, n)
      /\ ArenaOK(sn[s], n)
  BY OwnedParts DEF OwnedInv
<1>2. \A p \in DOMAIN tb.cells : p \in Ptrs(sn[s]) => tb.cells[p].refs > 0
  BY HolderFacts
<1>3. /\ TableOK(t) /\ Len(t.cells) = n
      /\ \A p \in DOMAIN tb.cells : t.cells[p].refs = tb.cells[p].refs + One(sn[s], p)
  <2>1. /\ TableOK(t) /\ Len(t.cells) = n
        /\ \A p \in DOMAIN tb.cells :
             t.cells[p] = [refs |-> tb.cells[p].refs + One(sn[s], p), val |-> tb.cells[p].val]
    BY <1>1, <1>2, CloneRefsFacts, Zenon
  <2> HIDE DEF t, n
  <2>2. ASSUME NEW p \in DOMAIN tb.cells
        PROVE  t.cells[p].refs = tb.cells[p].refs + One(sn[s], p)
    <3>1. t.cells[p] = [refs |-> tb.cells[p].refs + One(sn[s], p), val |-> tb.cells[p].val]
      BY <2>1
    <3>2. QED
      BY <3>1
  <2>3. QED
    BY <2>1, <2>2
<1>4. /\ ArenaOK(b, n)
      /\ \A p \in Nat \ {0} : One(b, p) = One(sn[s], p)
  BY <1>1, CloneArenaFacts
<1>5. DOMAIN t.cells = 1 .. n
  BY <1>3, TableTypes
<1> HIDE DEF t, b, n
<1>6. Counted(t, b, sn, lk)
  <2>1. SUFFICES ASSUME NEW p \in 1 .. n
                 PROVE  t.cells[p].refs = Cardinality(Holders(sn, p)) + One(b, p) + lk[p]
    BY <1>5 DEF Counted
  <2>2. /\ tb.cells[p].refs = Cardinality(Holders(sn, p)) + One(EmptyArena, p) + lk[p]
        /\ p \in Nat \ {0} /\ Cardinality(Holders(sn, p)) \in Nat /\ lk[p] \in Nat
    BY <1>1, HolderFacts
  <2>3. One(EmptyArena, p) = 0 /\ One(b, p) = One(sn[s], p) /\ One(sn[s], p) \in Nat
    BY <1>1, <1>4, <2>2, EmptyArenaOK DEF One
  <2>4. t.cells[p].refs = tb.cells[p].refs + One(sn[s], p)
    BY <1>1, <1>3
  <2>5. QED
    BY <2>2, <2>3, <2>4
<1>7. QED
  BY <1>1, <1>3, <1>4, <1>6 DEF OwnedInv, t, b

(* A cell nobody holds can be given to a slot nobody uses. *)
LEMMA InsertStep ==
  ASSUME NEW tb, NEW a, NEW sn, NEW m, NEW lk, OwnedInv(tb, a, sn, m, lk),
         NEW v \in Value, HasRoom(tb), a.free # <<>> \/ Len(a.slots) < MaxSlots
  PROVE  OwnedInv(AddItem(tb, v), ArenaInsert(a, NextCell(tb)), sn, m, lk)
<1> DEFINE t == AddItem(tb, v)
           p == NextCell(tb)
           n == Len(tb.cells)
           k == Len(t.cells)
           b == ArenaInsert(a, p)
           slot == [ptr |-> p, gen |-> a.gen]
<1>1. /\ TableOK(tb) /\ n \in Nat /\ DOMAIN tb.cells = 1 .. n
      /\ m \in 0 .. MaxSnaps /\ SnapsOK(sn, m, n) /\ LeakedOK(lk, n)
      /\ ArenaOK(a, n)
  BY OwnedParts DEF OwnedInv
<1>2. /\ TableOK(t) /\ k >= n
      /\ DOMAIN t.cells = 1 .. n \cup {p}
      /\ p \in 1 .. MaxCells
      /\ t.cells[p] = [refs |-> 1, val |-> v]
      /\ \A q \in 1 .. n : q # p => t.cells[q] = tb.cells[q]
      /\ p \in 1 .. n => tb.cells[p].refs = 0
  BY <1>1, AddFacts
<1>3. k \in Nat /\ DOMAIN t.cells = 1 .. k /\ p \in 1 .. k
  BY <1>2, TableTypes
<1> HIDE DEF t, k
<1>4. p \notin Ptrs(a) /\ lk[p] = 0 /\ Holders(sn, p) = {}
  <2>1. CASE p \in 1 .. n
    BY <1>1, <1>2, <2>1, HolderFacts
  <2>2. CASE p \notin 1 .. n
    <3>1. p > n
      BY <1>1, <1>3, <2>2
    <3>2. p \notin Ptrs(a) /\ \A s \in DOMAIN sn : p \notin Ptrs(sn[s])
      BY <1>1, <3>1, PtrsAreCells DEF SnapsOK
    <3>3. lk[p] = 0
      BY <1>1, <1>2, <3>1 DEF LeakedOK
    <3>4. QED
      BY <3>2, <3>3 DEF Holders
  <2>3. QED
    BY <2>1, <2>2
<1> HIDE DEF p, n
<1>5. ArenaOK(a, k) /\ SnapsOK(sn, m, k) /\ LeakedOK(lk, k)
  <2>1. ArenaOK(a, k) /\ \A s \in DOMAIN sn : ArenaOK(sn[s], k)
    BY <1>1, <1>2, <1>3, ArenaGrows DEF SnapsOK
  <2>2. LeakedOK(lk, k)
    BY <1>1, <1>2, <1>3, SpaceTimeAssumption DEF LeakedOK
  <2>3. QED
    BY <1>1, <2>1, <2>2 DEF SnapsOK
<1>6. /\ a = [slots |-> a.slots, free |-> a.free, gen |-> a.gen]
      /\ a.slots \in Seq(Slots(k)) /\ Len(a.slots) \in 0 .. MaxSlots
      /\ a.free \in Seq(1 .. MaxSlots) /\ a.gen \in 0 .. MaxGen
      /\ DOMAIN a.slots = 1 .. Len(a.slots) /\ DOMAIN a.free = 1 .. Len(a.free)
  BY <1>3, <1>5, ArenaTypes
<1>7. /\ \A i, j \in DOMAIN a.slots :
           a.slots[i].ptr = a.slots[j].ptr /\ a.slots[i].ptr # Nil => i = j
      /\ \A i \in DOMAIN a.free :
           a.free[i] \in DOMAIN a.slots /\ a.slots[a.free[i]].ptr = Nil
      /\ \A i, j \in DOMAIN a.free : a.free[i] = a.free[j] => i = j
      /\ \A i \in DOMAIN a.slots : a.slots[i].ptr # p
  BY <1>4, <1>5 DEF ArenaOK, Ptrs
<1>8. slot \in Slots(k) /\ slot.ptr = p /\ p # Nil /\ p \in Nat
  BY <1>3, <1>6 DEF Slots, Nil
<1>9. /\ ArenaOK(b, k)
      /\ \A q \in Nat \ {0} : q \in Ptrs(b) <=> q = p \/ q \in Ptrs(a)
  <2> HIDE DEF slot
  <2>1. CASE a.free = <<>>
    <3> DEFINE sl == Append(a.slots, slot)
               l == Len(a.slots)
    <3>1. b = [slots |-> sl, free |-> <<>>, gen |-> a.gen]
      <4>1. b = [a EXCEPT !.slots = Append(a.slots, slot)]
        BY <2>1 DEF ArenaInsert, slot
      <4>2. QED
        BY <1>6, <2>1, <4>1
    <3>2. l + 1 <= MaxSlots /\ l \in Nat
      BY <1>6, <2>1, SpaceTimeAssumption
    <3>3. /\ sl \in Seq(Slots(k)) /\ Len(sl) = l + 1
          /\ \A i \in 1 .. l : sl[i] = a.slots[i]
          /\ sl[l + 1] = slot
      BY <1>6, <1>8, AppendProperties
    <3>4. DOMAIN sl = 1 .. l + 1
      BY <3>3, LenProperties
    <3> HIDE DEF sl, l, b
    <3>5. b \in [slots : Seq(Slots(k)), free : Seq(1 .. MaxSlots), gen : 0 .. MaxGen]
      <4>1. <<>> \in Seq(1 .. MaxSlots)
        OBVIOUS
      <4>2. QED
        BY <1>6, <3>1, <3>3, <4>1
    <3>6. b.slots = sl /\ b.free = <<>> /\ DOMAIN b.free = {}
      BY <3>1
    <3>7. \A i \in 1 .. l + 1 : i \in 1 .. l \/ i = l + 1
      BY <3>2
    <3>8. \A i, j \in 1 .. l + 1 : sl[i].ptr = sl[j].ptr /\ sl[i].ptr # Nil => i = j
      BY <1>6, <1>7, <1>8, <3>3, <3>7 DEF l
    <3>9. ArenaOK(b, k)
      BY <3>2, <3>3, <3>4, <3>5, <3>6, <3>8 DEF ArenaOK
    <3>10. ASSUME NEW q \in Nat \ {0}
           PROVE  q \in Ptrs(b) <=> q = p \/ q \in Ptrs(a)
      <4>1. q \in Ptrs(b) <=> \E i \in 1 .. l + 1 : sl[i].ptr = q
        BY <3>4, <3>6 DEF Ptrs
      <4>2. q \in Ptrs(a) <=> \E i \in 1 .. l : a.slots[i].ptr = q
        BY <1>6 DEF Ptrs, l
      <4>3. l + 1 \in 1 .. l + 1 /\ \A i \in 1 .. l : i \in 1 .. l + 1
        BY <3>2
      <4>4. QED
        BY <1>8, <3>3, <3>7, <4>1, <4>2, <4>3
    <3>11. QED
      BY <3>9, <3>10
  <2>2. CASE a.free # <<>>
    <3> DEFINE h == a.free[1]
               sl == [a.slots EXCEPT ![h] = slot]
               f == Tail(a.free)
    <3>1. b = [slots |-> sl, free |-> f, gen |-> a.gen]
      <4>1. b = [a EXCEPT !.slots[h] = slot, !.free = f]
        BY <2>2, <1>6 DEF ArenaInsert, slot
      <4>2. QED
        BY <1>6, <4>1
    <3>2. 1 \in DOMAIN a.free /\ Len(a.free) \in Nat
      BY <1>6, <2>2
    <3>3. h \in DOMAIN a.slots /\ a.slots[h].ptr = Nil
      BY <1>7, <3>2
    <3>4. /\ f \in Seq(1 .. MaxSlots) /\ Len(f) = Len(a.free) - 1
          /\ \A i \in 1 .. Len(f) : f[i] = a.free[i + 1]
      BY <1>6, <2>2
    <3> HIDE DEF h, f
    <3>5. /\ sl \in Seq(Slots(k)) /\ Len(sl) = Len(a.slots)
          /\ \A i \in DOMAIN a.slots : sl[i] = IF i = h THEN slot ELSE a.slots[i]
      BY <1>6, <1>8, <3>3, ExceptSeq
    <3>6. DOMAIN sl = DOMAIN a.slots /\ DOMAIN f = 1 .. Len(f)
      BY <1>6, <3>4, <3>5, LenProperties
    <3> HIDE DEF sl, b
    <3>7. b \in [slots : Seq(Slots(k)), free : Seq(1 .. MaxSlots), gen : 0 .. MaxGen]
      BY <1>6, <3>1, <3>4, <3>5
    <3>8. b.slots = sl /\ b.free = f
      BY <3>1
    <3>9. \A i, j \in DOMAIN sl : sl[i].ptr = sl[j].ptr /\ sl[i].ptr # Nil => i = j
      BY <1>7, <1>8, <3>5, <3>6
    <3>10. \A i \in DOMAIN f : /\ i + 1 \in DOMAIN a.free /\ i + 1 # 1
                               /\ f[i] = a.free[i + 1]
      BY <1>6, <3>2, <3>4, <3>6
    <3>11. \A i \in DOMAIN f : f[i] # h
      BY <1>7, <3>2, <3>10 DEF h
    <3>12. \A i \in DOMAIN f : f[i] \in DOMAIN sl /\ sl[f[i]].ptr = Nil
      BY <1>7, <3>5, <3>6, <3>10, <3>11
    <3>13. ASSUME NEW i \in DOMAIN f, NEW j \in DOMAIN f, f[i] = f[j]
           PROVE  i = j
      <4>1. i + 1 = j + 1
        BY <1>7, <3>10, <3>13
      <4>2. QED
        BY <3>6, <4>1
    <3>14. Len(sl) <= MaxSlots
      BY <1>6, <3>5, SpaceTimeAssumption
    <3>15. ArenaOK(b, k)
      BY <3>7, <3>8, <3>9, <3>12, <3>13, <3>14 DEF ArenaOK
    <3>16. ASSUME NEW q \in Nat \ {0}
           PROVE  q \in Ptrs(b) <=> q = p \/ q \in Ptrs(a)
      <4>1. q \in Ptrs(b) <=> \E i \in DOMAIN sl : sl[i].ptr = q
        BY <3>8 DEF Ptrs
      <4>2. q \in Ptrs(a) <=> \E i \in DOMAIN a.slots : a.slots[i].ptr = q
        BY DEF Ptrs
      <4>3. QED
        BY <1>8, <3>3, <3>5, <3>6, <4>1, <4>2 DEF Nil
    <3>17. QED
      BY <3>15, <3>16
  <2>3. QED
    BY <2>1, <2>2
<1> HIDE DEF b
<1>10. Counted(t, b, sn, lk)
  <2>1. SUFFICES ASSUME NEW q \in 1 .. k
                 PROVE  t.cells[q].refs = Cardinality(Holders(sn, q)) + One(b, q) + lk[q]
    BY <1>3 DEF Counted
  <2>2. CASE q = p
    <3>1. One(b, q) = 1
      BY <1>8, <1>9, <2>2 DEF Nil, One
    <3>2. Cardinality(Holders(sn, q)) = 0 /\ lk[q] = 0 /\ t.cells[q].refs = 1
      <4>1. Holders(sn, q) = {} /\ lk[q] = 0 /\ t.cells[q] = [refs |-> 1, val |-> v]
        BY <1>2, <1>4, <2>2
      <4>2. QED
        BY <4>1, FS_EmptySet
    <3>3. QED
      BY <3>1, <3>2
  <2>3. CASE q # p
    <3>1. q \in 1 .. n /\ t.cells[q] = tb.cells[q]
      BY <1>2, <1>3, <2>3
    <3>2. One(b, q) = One(a, q)
      BY <1>9, <2>3 DEF One
    <3>3. tb.cells[q].refs = Cardinality(Holders(sn, q)) + One(a, q) + lk[q]
      BY <1>1, <3>1, HolderFacts
    <3>4. QED
      BY <3>1, <3>2, <3>3
  <2>4. QED
    BY <2>2, <2>3
<1>11. QED
  BY <1>1, <1>2, <1>5, <1>9, <1>10 DEF OwnedInv, t, b, k, p


(* A write in place changes the contents of one cell. *)
LEMMA WriteFacts ==
  ASSUME NEW tb, TableOK(tb), NEW p \in DOMAIN tb.cells, NEW v \in Value
  PROVE  LET t == [tb EXCEPT !.cells[p].val = v] IN
         /\ TableOK(t) /\ Len(t.cells) = Len(tb.cells)
         /\ t.cells[p] = [refs |-> tb.cells[p].refs, val |-> v]
         /\ \A q \in DOMAIN tb.cells : q # p => t.cells[q] = tb.cells[q]
<1> DEFINE n == Len(tb.cells)
           cell == [refs |-> tb.cells[p].refs, val |-> v]
           c == [tb.cells EXCEPT ![p] = cell]
           t == [tb EXCEPT !.cells[p].val = v]
<1>1. /\ tb = [cells |-> tb.cells, free |-> tb.free]
      /\ tb.cells \in Seq(Cells)
      /\ n \in Nat /\ n <= MaxCells /\ DOMAIN tb.cells = 1 .. n
      /\ tb.free \in Seq(1 .. MaxCells) /\ DOMAIN tb.free = 1 .. Len(tb.free)
      /\ \A q \in 1 .. n : /\ tb.cells[q] \in Cells
                           /\ tb.cells[q].refs \in Nat /\ tb.cells[q].val \in Value
  BY TableTypes
<1>2. t = [cells |-> c, free |-> tb.free]
  <2>1. [tb.cells[p] EXCEPT !.val = v] = cell
    BY <1>1 DEF Cells
  <2>2. t = [tb EXCEPT !.cells = [tb.cells EXCEPT ![p] = [tb.cells[p] EXCEPT !.val = v]]]
    BY <1>1
  <2>3. t = [tb EXCEPT !.cells = c]
    BY <2>1, <2>2, Zenon
  <2> HIDE DEF c, t
  <2>4. QED
    BY <1>1, <2>3
<1>3. cell \in Cells
  BY <1>1 DEF Cells
<1>4. /\ c \in [1 .. n -> Cells] /\ c[p] = cell
      /\ \A q \in 1 .. n : q # p => c[q] = tb.cells[q]
  <2> HIDE DEF cell
  <2>1. QED
    BY <1>1, <1>3, LenProperties
<1>5. cell.refs = tb.cells[p].refs
  OBVIOUS
<1> HIDE DEF t, c, cell, n
<1>6. \A q \in 1 .. n : c[q].refs = tb.cells[q].refs
  BY <1>1, <1>4, <1>5
<1>7. /\ \A k \in 1 .. Len(tb.free) : tb.free[k] \in 1 .. n /\ c[tb.free[k]].refs = 0
      /\ \A j, k \in 1 .. Len(tb.free) : tb.free[j] = tb.free[k] => j = k
      /\ \A q \in 1 .. n : c[q].refs = 0 => \E k \in 1 .. Len(tb.free) : tb.free[k] = q
  BY <1>1, <1>6 DEF TableOK
<1>8. TableOK([cells |-> c, free |-> tb.free])
  BY <1>1, <1>4, <1>7, TableIntro
<1>9. Len(c) = n
  BY <1>1, <1>4, SeqOfFunction
<1>10. QED
  BY <1>1, <1>2, <1>4, <1>8, <1>9 DEF t, cell, n

LEMMA WriteHereStep ==
  ASSUME NEW tb, NEW a, NEW sn, NEW m, NEW lk, OwnedInv(tb, a, sn, m, lk),
         NEW p \in DOMAIN tb.cells, NEW v \in Value
  PROVE  OwnedInv([tb EXCEPT !.cells[p].val = v], a, sn, m, lk)
<1> DEFINE t == [tb EXCEPT !.cells[p].val = v]
           n == Len(tb.cells)
<1>1. TableOK(tb) /\ n \in Nat /\ DOMAIN tb.cells = 1 .. n
  BY OwnedParts
<1>2. /\ TableOK(t) /\ Len(t.cells) = n
      /\ t.cells[p] = [refs |-> tb.cells[p].refs, val |-> v]
      /\ \A q \in 1 .. n : q # p => t.cells[q] = tb.cells[q]
  BY <1>1, WriteFacts, SMTT(30)
<1>3. DOMAIN t.cells = 1 .. n
  BY <1>2, TableTypes
<1> HIDE DEF t, n
<1>4. \A q \in 1 .. n : t.cells[q].refs = tb.cells[q].refs
  BY <1>1, <1>2
<1>5. QED
  BY <1>1, <1>2, <1>3, <1>4 DEF OwnedInv, Counted, t, n

(* Another pointer in a filled slot. *)
Retarget(a, i, p) == [a EXCEPT !.slots[i].ptr = p]

LEMMA RetargetFacts ==
  ASSUME NEW a, NEW n \in Nat, ArenaOK(a, n), NEW i \in DOMAIN a.slots,
         a.slots[i].ptr # Nil, NEW p \in 1 .. n, p \notin Ptrs(a)
  PROVE  /\ ArenaOK(Retarget(a, i, p), n)
         /\ DOMAIN Retarget(a, i, p).slots = DOMAIN a.slots
         /\ Retarget(a, i, p).slots[i] = [ptr |-> p, gen |-> a.slots[i].gen]
         /\ \A j \in DOMAIN a.slots :
              j # i => Retarget(a, i, p).slots[j] = a.slots[j]
<1> DEFINE slot == [ptr |-> p, gen |-> a.slots[i].gen]
           sl == [a.slots EXCEPT ![i] = slot]
           b == Retarget(a, i, p)
<1>1. /\ a = [slots |-> a.slots, free |-> a.free, gen |-> a.gen]
      /\ a.slots \in Seq(Slots(n)) /\ Len(a.slots) \in 0 .. MaxSlots
      /\ a.free \in Seq(1 .. MaxSlots) /\ a.gen \in 0 .. MaxGen
      /\ DOMAIN a.slots = 1 .. Len(a.slots) /\ DOMAIN a.free = 1 .. Len(a.free)
      /\ a.slots[i] \in Slots(n) /\ a.slots[i].gen \in 0 .. MaxGen
  BY ArenaTypes
<1>2. b = [slots |-> sl, free |-> a.free, gen |-> a.gen]
  <2>1. [a.slots[i] EXCEPT !.ptr = p] = slot
    BY <1>1 DEF Slots
  <2>2. b = [a EXCEPT !.slots = [a.slots EXCEPT ![i] = [a.slots[i] EXCEPT !.ptr = p]]]
    BY <1>1 DEF Retarget
  <2>3. b = [a EXCEPT !.slots = sl]
    BY <2>1, <2>2, Zenon
  <2> HIDE DEF sl, b
  <2>4. QED
    BY <1>1, <2>3
<1>3. slot \in Slots(n) /\ slot.ptr = p /\ p # Nil
  BY <1>1 DEF Slots, Nil
<1> HIDE DEF slot, b
<1>4. /\ sl \in Seq(Slots(n)) /\ Len(sl) = Len(a.slots)
      /\ \A j \in DOMAIN a.slots : sl[j] = IF j = i THEN slot ELSE a.slots[j]
  BY <1>1, <1>3, ExceptSeq
<1>5. DOMAIN sl = DOMAIN a.slots
  BY <1>1, <1>4, LenProperties
<1> HIDE DEF sl
<1>6. b \in [slots : Seq(Slots(n)), free : Seq(1 .. MaxSlots), gen : 0 .. MaxGen]
      /\ b.slots = sl /\ b.free = a.free
  BY <1>1, <1>2, <1>4
<1>7. /\ \A j, k \in DOMAIN a.slots :
           a.slots[j].ptr = a.slots[k].ptr /\ a.slots[j].ptr # Nil => j = k
      /\ \A j \in DOMAIN a.free :
           a.free[j] \in DOMAIN a.slots /\ a.slots[a.free[j]].ptr = Nil
      /\ \A j, k \in DOMAIN a.free : a.free[j] = a.free[k] => j = k
      /\ \A j \in DOMAIN a.slots : a.slots[j].ptr # p
  BY DEF ArenaOK, Ptrs
<1>8. \A j, k \in DOMAIN sl : sl[j].ptr = sl[k].ptr /\ sl[j].ptr # Nil => j = k
  BY <1>3, <1>4, <1>5, <1>7
<1>9. \A j \in DOMAIN a.free : a.free[j] \in DOMAIN sl /\ sl[a.free[j]].ptr = Nil
  BY <1>4, <1>5, <1>7
<1>10. Len(sl) <= MaxSlots
  BY <1>1, <1>4, SpaceTimeAssumption
<1>11. ArenaOK(b, n)
  BY <1>6, <1>7, <1>8, <1>9, <1>10 DEF ArenaOK
<1>12. QED
  BY <1>4, <1>5, <1>6, <1>11 DEF b, slot

LEMMA RetargetPtrs ==
  ASSUME NEW a, NEW n \in Nat, ArenaOK(a, n), NEW i \in DOMAIN a.slots,
         a.slots[i].ptr # Nil, NEW p \in 1 .. n, p \notin Ptrs(a), NEW q \in Nat
  PROVE  q \in Ptrs(Retarget(a, i, p)) <=> q = p \/ (q \in Ptrs(a) /\ q # a.slots[i].ptr)
<1> DEFINE b == Retarget(a, i, p)
<1>1. /\ DOMAIN b.slots = DOMAIN a.slots
      /\ b.slots[i] = [ptr |-> p, gen |-> a.slots[i].gen]
      /\ \A j \in DOMAIN a.slots : j # i => b.slots[j] = a.slots[j]
  BY RetargetFacts
<1>2. \A j \in DOMAIN a.slots : a.slots[j].ptr = a.slots[i].ptr => i = j
  BY DEF ArenaOK
<1> HIDE DEF b
<1>3. q \in Ptrs(b) <=> \E j \in DOMAIN a.slots : b.slots[j].ptr = q
  BY <1>1 DEF Ptrs
<1>4. q \in Ptrs(a) <=> \E j \in DOMAIN a.slots : a.slots[j].ptr = q
  BY DEF Ptrs
<1>5. QED
  BY <1>1, <1>2, <1>3, <1>4 DEF b

(* The copy of an object somebody else holds. *)
LEMMA WriteCopyStep ==
  ASSUME NEW tb, NEW a, NEW sn, NEW m, NEW lk, OwnedInv(tb, a, sn, m, lk),
         NEW i \in DOMAIN a.slots, a.slots[i].ptr # Nil, NEW v \in Value,
         HasRoom(tb), tb.cells[a.slots[i].ptr].refs # 1
  PROVE  OwnedInv(DropPtr(AddItem(tb, v), a.slots[i].ptr),
                  Retarget(a, i, NextCell(tb)), sn, m, lk)
<1> DEFINE p == a.slots[i].ptr
           r == NextCell(tb)
           u == AddItem(tb, v)
           t == DropPtr(u, p)
           b == Retarget(a, i, r)
           n == Len(tb.cells)
           k == Len(u.cells)
<1>1. /\ TableOK(tb) /\ n \in Nat /\ DOMAIN tb.cells = 1 .. n
      /\ m \in 0 .. MaxSnaps /\ SnapsOK(sn, m, n) /\ LeakedOK(lk, n)
      /\ ArenaOK(a, n)
  BY OwnedParts DEF OwnedInv
<1>2. /\ TableOK(u) /\ k >= n
      /\ DOMAIN u.cells = 1 .. n \cup {r}
      /\ r \in 1 .. MaxCells
      /\ u.cells[r] = [refs |-> 1, val |-> v]
      /\ \A q \in 1 .. n : q # r => u.cells[q] = tb.cells[q]
      /\ r \in 1 .. n => tb.cells[r].refs = 0
  BY <1>1, AddFacts
<1>3. k \in Nat /\ DOMAIN u.cells = 1 .. k /\ r \in 1 .. k
  BY <1>2, TableTypes
<1> HIDE DEF u, k
<1>4. r \notin Ptrs(a) /\ lk[r] = 0 /\ Holders(sn, r) = {}
  <2>1. CASE r \in 1 .. n
    BY <1>1, <1>2, <2>1, HolderFacts
  <2>2. CASE r \notin 1 .. n
    <3>1. r > n
      BY <1>1, <1>3, <2>2
    <3>2. r \notin Ptrs(a) /\ \A s \in DOMAIN sn : r \notin Ptrs(sn[s])
      BY <1>1, <3>1, PtrsAreCells DEF SnapsOK
    <3>3. lk[r] = 0
      BY <1>1, <1>2, <3>1 DEF LeakedOK
    <3>4. QED
      BY <3>2, <3>3 DEF Holders
  <2>3. QED
    BY <2>1, <2>2
<1>5. p \in 1 .. n /\ p \in Ptrs(a) /\ p \in 1 .. k
  <2>1. p \in 0 .. n /\ p # 0
    BY <1>1, ArenaTypes DEF Nil
  <2>2. p \in Ptrs(a)
    BY DEF Ptrs
  <2>3. QED
    BY <1>1, <1>2, <1>3, <2>1, <2>2
<1> HIDE DEF r, n
<1>6. tb.cells[p].refs \in Nat /\ tb.cells[p].refs > 1 /\ p # r
  BY <1>1, <1>4, <1>5, HolderFacts
<1>7. ArenaOK(a, k) /\ SnapsOK(sn, m, k) /\ LeakedOK(lk, k)
  <2>1. ArenaOK(a, k) /\ \A s \in DOMAIN sn : ArenaOK(sn[s], k)
    BY <1>1, <1>2, <1>3, ArenaGrows DEF SnapsOK
  <2>2. LeakedOK(lk, k)
    BY <1>1, <1>2, <1>3, SpaceTimeAssumption DEF LeakedOK
  <2>3. QED
    BY <1>1, <2>1, <2>2 DEF SnapsOK
<1>8. /\ ArenaOK(b, k)
      /\ \A q \in Nat : q \in Ptrs(b) <=> q = r \/ (q \in Ptrs(a) /\ q # p)
  <2>1. ArenaOK(a, k) /\ k \in Nat /\ r \in 1 .. k /\ r \notin Ptrs(a)
    BY <1>3, <1>4, <1>7
  <2>2. a.slots[i].ptr # Nil /\ i \in DOMAIN a.slots
    OBVIOUS
  <2> HIDE DEF p
  <2>3. /\ ArenaOK(b, k)
        /\ \A q \in Nat : q \in Ptrs(b) <=> q = r \/ (q \in Ptrs(a) /\ q # a.slots[i].ptr)
    <3>1. ArenaOK(Retarget(a, i, r), k)
      BY <2>1, <2>2, RetargetFacts
    <3>2. ASSUME NEW q \in Nat
          PROVE  q \in Ptrs(Retarget(a, i, r)) <=> q = r \/ (q \in Ptrs(a) /\ q # a.slots[i].ptr)
      BY <2>1, <2>2, RetargetPtrs
    <3>3. QED
      BY <3>1, <3>2, Zenon
  <2> HIDE DEF b
  <2>4. QED
    BY <2>3 DEF p
<1> HIDE DEF b, p
<1>9. u.cells[p] = tb.cells[p]
  BY <1>2, <1>5, <1>6
<1>10. /\ TableOK(t) /\ Len(t.cells) = k
       /\ t.cells[p] = [refs |-> tb.cells[p].refs - 1, val |-> tb.cells[p].val]
       /\ \A q \in 1 .. k : q # p => t.cells[q] = u.cells[q]
  <2>1. p \in DOMAIN u.cells /\ u.cells[p].refs > 0
    BY <1>3, <1>5, <1>6, <1>9
  <2>2. /\ TableOK(t) /\ Len(t.cells) = Len(u.cells)
        /\ t.cells[p] = [refs |-> u.cells[p].refs - 1, val |-> u.cells[p].val]
        /\ \A q \in DOMAIN u.cells : q # p => t.cells[q] = u.cells[q]
    BY <1>2, <2>1, DropFacts
  <2> HIDE DEF t
  <2>3. QED
    BY <1>3, <1>9, <2>2 DEF k
<1>11. DOMAIN t.cells = 1 .. k
  BY <1>10, TableTypes
<1> HIDE DEF t
<1>12. Counted(t, b, sn, lk)
  <2>1. SUFFICES ASSUME NEW q \in 1 .. k
                 PROVE  t.cells[q].refs = Cardinality(Holders(sn, q)) + One(b, q) + lk[q]
    BY <1>11 DEF Counted
  <2>2. CASE q = r
    <3>1. One(b, q) = 1
      BY <1>8, <2>2 DEF One
    <3>2. Cardinality(Holders(sn, q)) = 0 /\ lk[q] = 0
      BY <1>4, <2>2, FS_EmptySet
    <3>3. t.cells[q] = [refs |-> 1, val |-> v]
      BY <1>2, <1>6, <1>10, <2>2
    <3>4. QED
      BY <3>1, <3>2, <3>3
  <2>3. CASE q = p
    <3>1. One(b, q) = 0 /\ One(a, q) = 1
      BY <1>5, <1>6, <1>8, <2>3 DEF One
    <3>2. /\ tb.cells[q].refs = Cardinality(Holders(sn, q)) + One(a, q) + lk[q]
          /\ Cardinality(Holders(sn, q)) \in Nat /\ lk[q] \in Nat
      BY <1>1, <1>5, <2>3, HolderFacts
    <3>3. t.cells[q].refs = tb.cells[q].refs - 1
      BY <1>10, <2>3
    <3>4. QED
      BY <3>1, <3>2, <3>3
  <2>4. CASE q # r /\ q # p
    <3>1. q \in 1 .. n /\ t.cells[q] = tb.cells[q]
      BY <1>2, <1>3, <1>10, <2>4
    <3>2. One(b, q) = One(a, q)
      BY <1>8, <2>4 DEF One
    <3>3. tb.cells[q].refs = Cardinality(Holders(sn, q)) + One(a, q) + lk[q]
      BY <1>1, <3>1, HolderFacts
    <3>4. QED
      BY <3>1, <3>2, <3>3
  <2>5. QED
    BY <2>2, <2>3, <2>4
<1>13. QED
  BY <1>1, <1>7, <1>8, <1>10, <1>12 DEF OwnedInv, t, b, u, p, r


(* The arena without the object at a filled slot: the slot is free. *)
LEMMA ArenaRemoveFacts ==
  ASSUME NEW a, NEW n \in Nat, ArenaOK(a, n), NEW id, id[1] \in DOMAIN a.slots,
         a.slots[id[1]].ptr # Nil, a.gen < MaxGen
  PROVE  /\ ArenaOK(ArenaRemove(a, id), n)
         /\ DOMAIN ArenaRemove(a, id).slots = DOMAIN a.slots
         /\ ArenaRemove(a, id).slots[id[1]] = EmptySlot
         /\ \A j \in DOMAIN a.slots :
              j # id[1] => ArenaRemove(a, id).slots[j] = a.slots[j]
<1> DEFINE i == id[1]
           sl == [a.slots EXCEPT ![i] = EmptySlot]
           f == <<i>> \o a.free
           b == ArenaRemove(a, id)
<1>1. /\ a.slots \in Seq(Slots(n)) /\ Len(a.slots) \in 0 .. MaxSlots
      /\ a.free \in Seq(1 .. MaxSlots) /\ a.gen \in 0 .. MaxGen
      /\ DOMAIN a.slots = 1 .. Len(a.slots) /\ DOMAIN a.free = 1 .. Len(a.free)
  BY ArenaTypes
<1>2. b = [slots |-> sl, free |-> f, gen |-> a.gen + 1]
  BY DEF ArenaRemove
<1>3. EmptySlot \in Slots(n) /\ EmptySlot.ptr = Nil
  BY SpaceTimeAssumption DEF Slots, EmptySlot, Nil
<1>4. i \in 1 .. Len(a.slots) /\ i \in 1 .. MaxSlots /\ i \in Nat
  BY <1>1, SpaceTimeAssumption
<1>5. a.gen + 1 \in 0 .. MaxGen
  BY <1>1, SpaceTimeAssumption
<1> HIDE DEF b
<1>6. /\ sl \in Seq(Slots(n)) /\ Len(sl) = Len(a.slots)
      /\ \A j \in DOMAIN a.slots : sl[j] = IF j = i THEN EmptySlot ELSE a.slots[j]
  <2> HIDE DEF i
  <2>1. QED
    BY <1>1, <1>3, <1>4, ExceptSeq
<1>7. DOMAIN sl = DOMAIN a.slots
  <2> HIDE DEF sl
  <2>1. QED
    BY <1>1, <1>6, LenProperties
<1> HIDE DEF sl, i
<1>8. /\ f \in Seq(1 .. MaxSlots) /\ Len(f) = 1 + Len(a.free) /\ Len(a.free) \in Nat
      /\ f[1] = i /\ \A k \in 1 .. Len(f) : k # 1 => f[k] = a.free[k - 1]
  <2>1. <<i>> \in Seq(1 .. MaxSlots) /\ Len(<<i>>) = 1 /\ <<i>>[1] = i
    BY <1>4
  <2>2. /\ f \in Seq(1 .. MaxSlots) /\ Len(f) = Len(<<i>>) + Len(a.free)
        /\ Len(a.free) \in Nat
    BY <1>1, <2>1, ConcatProperties
  <2>3. \A k \in 1 .. 1 + Len(a.free) : f[k] = IF k <= 1 THEN i ELSE a.free[k - 1]
    BY <1>1, <2>1, <2>2
  <2> HIDE DEF f
  <2>4. QED
    BY <2>1, <2>2, <2>3
<1>9. DOMAIN f = 1 .. Len(f)
  <2> HIDE DEF f
  <2>1. QED
    BY <1>8, LenProperties
<1> HIDE DEF f
<1>10. b \in [slots : Seq(Slots(n)), free : Seq(1 .. MaxSlots), gen : 0 .. MaxGen]
       /\ b.slots = sl /\ b.free = f
  BY <1>2, <1>5, <1>6, <1>8
<1>11. /\ \A j, k \in DOMAIN a.slots :
            a.slots[j].ptr = a.slots[k].ptr /\ a.slots[j].ptr # Nil => j = k
       /\ \A j \in DOMAIN a.free :
            a.free[j] \in DOMAIN a.slots /\ a.slots[a.free[j]].ptr = Nil
       /\ \A j, k \in DOMAIN a.free : a.free[j] = a.free[k] => j = k
  BY DEF ArenaOK
<1>12. \A j, k \in DOMAIN sl : sl[j].ptr = sl[k].ptr /\ sl[j].ptr # Nil => j = k
  BY <1>3, <1>6, <1>7, <1>11
<1>13. \A k \in DOMAIN f : k = 1 \/ (k - 1 \in DOMAIN a.free /\ f[k] = a.free[k - 1])
  <2>1. SUFFICES ASSUME NEW k \in 1 .. Len(f), k # 1
                 PROVE  k - 1 \in 1 .. Len(a.free)
    BY <1>1, <1>8, <1>9
  <2>2. QED
    BY <1>8, <2>1
<1>14. i \in DOMAIN a.slots /\ a.slots[i].ptr # Nil
  BY DEF i
<1>15. ASSUME NEW k \in DOMAIN f
       PROVE  f[k] \in DOMAIN sl /\ sl[f[k]].ptr = Nil
  <2>1. CASE k = 1
    BY <1>3, <1>6, <1>7, <1>8, <1>14, <2>1
  <2>2. CASE k # 1
    <3>1. f[k] \in DOMAIN a.slots /\ a.slots[f[k]].ptr = Nil
      BY <1>11, <1>13, <2>2
    <3>2. QED
      BY <1>3, <1>6, <1>7, <3>1
  <2>3. QED
    BY <2>1, <2>2
<1>16. ASSUME NEW j \in DOMAIN f, NEW k \in DOMAIN f, f[j] = f[k]
       PROVE  j = k
  <2>1. ASSUME NEW x \in DOMAIN f, x # 1
        PROVE  f[x] # i
    BY <1>11, <1>13, <1>14, <2>1
  <2>2. CASE j = 1 \/ k = 1
    BY <1>8, <1>16, <2>1, <2>2
  <2>3. CASE j # 1 /\ k # 1
    <3>1. j - 1 = k - 1
      BY <1>11, <1>13, <1>16, <2>3
    <3>2. QED
      BY <1>9, <3>1
  <2>4. QED
    BY <2>2, <2>3
<1>17. Len(sl) <= MaxSlots
  BY <1>1, <1>6, SpaceTimeAssumption
<1>18. ArenaOK(b, n)
  BY <1>10, <1>12, <1>15, <1>16, <1>17 DEF ArenaOK
<1>19. QED
  BY <1>6, <1>7, <1>10, <1>14, <1>18 DEF b, i

LEMMA RemoveStep ==
  ASSUME NEW tb, NEW a, NEW sn, NEW m, NEW lk, OwnedInv(tb, a, sn, m, lk),
         NEW id, id[1] \in DOMAIN a.slots, a.slots[id[1]].ptr # Nil, a.gen < MaxGen
  PROVE  OwnedInv(DropPtr(tb, a.slots[id[1]].ptr), ArenaRemove(a, id), sn, m, lk)
<1> DEFINE i == id[1]
           p == a.slots[i].ptr
           t == DropPtr(tb, p)
           b == ArenaRemove(a, id)
           n == Len(tb.cells)
<1>1. /\ TableOK(tb) /\ n \in Nat /\ DOMAIN tb.cells = 1 .. n
      /\ m \in 0 .. MaxSnaps /\ SnapsOK(sn, m, n) /\ LeakedOK(lk, n)
      /\ ArenaOK(a, n)
  BY OwnedParts DEF OwnedInv
<1>2. p \in 1 .. n /\ p \in Ptrs(a)
  <2>1. p \in 0 .. n /\ p # 0
    BY <1>1, ArenaTypes DEF Nil
  <2>2. p \in Ptrs(a)
    BY DEF Ptrs
  <2>3. QED
    BY <1>1, <2>1, <2>2
<1>3. tb.cells[p].refs \in Nat /\ tb.cells[p].refs > 0
  BY <1>1, <1>2, HolderFacts
<1>4. /\ ArenaOK(b, n)
      /\ DOMAIN b.slots = DOMAIN a.slots
      /\ b.slots[i] = EmptySlot
      /\ \A j \in DOMAIN a.slots : j # i => b.slots[j] = a.slots[j]
  BY <1>1, ArenaRemoveFacts
<1>5. /\ TableOK(t) /\ Len(t.cells) = n
      /\ t.cells[p] = [refs |-> tb.cells[p].refs - 1, val |-> tb.cells[p].val]
      /\ \A q \in DOMAIN tb.cells : q # p => t.cells[q] = tb.cells[q]
  <2> HIDE DEF p
  <2>1. p \in DOMAIN tb.cells
    BY <1>1, <1>2
  <2>2. QED
    BY <1>1, <1>3, <2>1, DropFacts
<1>6. DOMAIN t.cells = 1 .. n
  BY <1>5, TableTypes
<1> HIDE DEF b, t, n
<1>7. ASSUME NEW q \in 1 .. n
      PROVE  q \in Ptrs(b) <=> q \in Ptrs(a) /\ q # p
  <2>1. q \in Ptrs(b) <=> \E j \in DOMAIN a.slots : b.slots[j].ptr = q
    BY <1>4 DEF Ptrs
  <2>2. q \in Ptrs(a) <=> \E j \in DOMAIN a.slots : a.slots[j].ptr = q
    BY DEF Ptrs
  <2>3. EmptySlot.ptr # q
    BY <1>1 DEF EmptySlot, Nil
  <2>4. \A j \in DOMAIN a.slots : a.slots[j].ptr = p => i = j
    BY DEF ArenaOK, OwnedInv
  <2>5. QED
    BY <1>4, <2>1, <2>2, <2>3, <2>4
<1> HIDE DEF p
<1>8. Counted(t, b, sn, lk)
  <2>1. SUFFICES ASSUME NEW q \in 1 .. n
                 PROVE  t.cells[q].refs = Cardinality(Holders(sn, q)) + One(b, q) + lk[q]
    BY <1>6 DEF Counted
  <2>2. /\ tb.cells[q].refs = Cardinality(Holders(sn, q)) + One(a, q) + lk[q]
        /\ Cardinality(Holders(sn, q)) \in Nat /\ lk[q] \in Nat
    BY <1>1, HolderFacts
  <2>3. CASE q = p
    <3>1. One(b, q) = 0 /\ One(a, q) = 1
      BY <1>2, <1>7, <2>3 DEF One
    <3>2. t.cells[q].refs = tb.cells[q].refs - 1
      BY <1>5, <2>3
    <3>3. QED
      BY <2>2, <3>1, <3>2
  <2>4. CASE q # p
    <3>1. One(b, q) = One(a, q)
      BY <1>7, <2>4 DEF One
    <3>2. t.cells[q] = tb.cells[q]
      BY <1>1, <1>5, <2>4
    <3>3. QED
      BY <2>2, <3>1, <3>2
  <2>5. QED
    BY <2>3, <2>4
<1>9. QED
  BY <1>1, <1>4, <1>5, <1>8 DEF OwnedInv, t, b, p


(* A snapshot more or less. *)
With(sn, s, b) == [r \in DOMAIN sn \cup {s} |-> IF r = s THEN b ELSE sn[r]]
Without(sn, s) == [r \in DOMAIN sn \ {s} |-> sn[r]]

LEMMA WithHolders ==
  ASSUME NEW sn, NEW s, NEW b, NEW p, s \notin DOMAIN sn, IsFiniteSet(Holders(sn, p))
  PROVE  Cardinality(Holders(With(sn, s, b), p)) = Cardinality(Holders(sn, p)) + One(b, p)
<1> DEFINE h == Holders(sn, p)
<1>1. s \notin h /\ Cardinality(h) \in Nat
  BY FS_CardinalityType DEF Holders
<1>2. CASE p \in Ptrs(b)
  <2>1. Holders(With(sn, s, b), p) = h \cup {s}
    BY <1>2 DEF Holders, With
  <2> HIDE DEF h
  <2>2. Cardinality(h \cup {s}) = Cardinality(h) + 1
    BY <1>1, FS_AddElement DEF h
  <2>3. QED
    BY <1>2, <2>1, <2>2 DEF One, h
<1>3. CASE p \notin Ptrs(b)
  <2>1. Holders(With(sn, s, b), p) = h
    BY <1>3 DEF Holders, With
  <2>2. QED
    BY <1>1, <1>3, <2>1 DEF One
<1>4. QED
  BY <1>2, <1>3

LEMMA WithoutHolders ==
  ASSUME NEW sn, NEW s \in DOMAIN sn, NEW p, IsFiniteSet(Holders(sn, p))
  PROVE  Cardinality(Holders(Without(sn, s), p)) = Cardinality(Holders(sn, p)) - One(sn[s], p)
<1> DEFINE h == Holders(sn, p)
<1>1. Holders(Without(sn, s), p) = h \ {s}
  BY DEF Holders, Without
<1>2. Cardinality(h) \in Nat
  BY FS_CardinalityType
<1>3. s \in h <=> p \in Ptrs(sn[s])
  BY DEF Holders
<1> HIDE DEF h
<1>4. Cardinality(h \ {s}) = IF s \in h THEN Cardinality(h) - 1 ELSE Cardinality(h)
  BY FS_RemoveElement DEF h
<1>5. QED
  BY <1>1, <1>2, <1>3, <1>4 DEF One, h

(* make_snapshot: arena b is HEAD's own or that of the snapshot it is at;  *)
(* HEAD a is replaced, and nobody gives its references back.               *)
LEMMA SnapshotStep ==
  ASSUME NEW tb, NEW a, NEW sn, NEW m, NEW lk, OwnedInv(tb, a, sn, m, lk),
         NEW b, b = a \/ (a = EmptyArena /\ \E s \in DOMAIN sn : b = sn[s]),
         m < MaxSnaps,
         NEW lk2 \in [1 .. MaxCells -> Nat],
         \A p \in 1 .. MaxCells : lk2[p] = lk[p] + Count(a, p)
  PROVE  OwnedInv(CloneRefs(tb, b), EmptyArena, With(sn, m + 1, CloneArena(b)), m + 1, lk2)
<1> DEFINE t == CloneRefs(tb, b)
           c == CloneArena(b)
           w == With(sn, m + 1, c)
           n == Len(tb.cells)
<1>1. /\ TableOK(tb) /\ n \in Nat /\ DOMAIN tb.cells = 1 .. n
      /\ m \in 0 .. MaxSnaps /\ m \in Nat /\ LeakedOK(lk, n)
      /\ DOMAIN sn \subseteq 1 .. m
      /\ \A s \in DOMAIN sn : ArenaOK(sn[s], n) /\ Compact(sn[s])
      /\ ArenaOK(a, n)
  BY OwnedParts
<1>2. ArenaOK(b, n)
  BY <1>1
<1>3. \A p \in DOMAIN tb.cells : p \in Ptrs(b) => tb.cells[p].refs > 0
  BY HolderFacts
<1>4. /\ TableOK(t) /\ Len(t.cells) = n
      /\ \A p \in DOMAIN tb.cells :
           t.cells[p] = [refs |-> tb.cells[p].refs + One(b, p), val |-> tb.cells[p].val]
  BY <1>1, <1>2, <1>3, CloneRefsFacts, Zenon
<1>5. DOMAIN t.cells = 1 .. n
  BY <1>4, TableTypes
<1>6. /\ ArenaOK(c, n) /\ Compact(c)
      /\ \A p \in Nat \ {0} : One(c, p) = One(b, p)
  BY <1>1, <1>2, CloneArenaFacts
<1> HIDE DEF t, c
<1>7. m + 1 \notin DOMAIN sn /\ m + 1 \in 0 .. MaxSnaps
  BY <1>1, SpaceTimeAssumption
<1>8. SnapsOK(w, m + 1, n)
  <2>1. DOMAIN w \subseteq 1 .. m + 1
    BY <1>1 DEF With
  <2>2. ASSUME NEW s \in DOMAIN w
        PROVE  ArenaOK(w[s], n) /\ Compact(w[s])
    BY <1>1, <1>6 DEF With
  <2>3. QED
    BY <2>1, <2>2 DEF SnapsOK
<1>9. \A p \in 1 .. MaxCells : p > n => p \notin Ptrs(a)
  BY <1>1, PtrsAreCells
<1>10. \A p \in 1 .. MaxCells : lk2[p] = lk[p] + One(a, p)
  BY <1>1, CountIs
<1>11. LeakedOK(lk2, n)
  BY <1>1, <1>9, <1>10 DEF LeakedOK, One
<1> HIDE DEF w, n
<1>12. Counted(t, EmptyArena, w, lk2)
  <2>1. SUFFICES ASSUME NEW p \in 1 .. n
                 PROVE  t.cells[p].refs
                          = Cardinality(Holders(w, p)) + One(EmptyArena, p) + lk2[p]
    BY <1>5 DEF Counted
  <2>2. /\ p \in Nat \ {0} /\ p \in 1 .. MaxCells
        /\ IsFiniteSet(Holders(sn, p)) /\ Cardinality(Holders(sn, p)) \in Nat
        /\ tb.cells[p].refs = Cardinality(Holders(sn, p)) + One(a, p) + lk[p]
        /\ lk[p] \in Nat /\ One(a, p) \in 0 .. 1
    BY <1>1, HolderFacts
  <2>3. Cardinality(Holders(w, p)) = Cardinality(Holders(sn, p)) + One(b, p)
    BY <1>6, <1>7, <2>2, WithHolders DEF w
  <2>4. t.cells[p].refs = tb.cells[p].refs + One(b, p)
    <3>1. t.cells[p] = [refs |-> tb.cells[p].refs + One(b, p), val |-> tb.cells[p].val]
      BY <1>1, <1>4
    <3>2. QED
      BY <3>1
  <2>5. One(EmptyArena, p) = 0 /\ lk2[p] = lk[p] + One(a, p)
    BY <1>1, <1>10, <2>2, EmptyArenaOK
  <2>6. One(b, p) \in Nat
    BY DEF One
  <2>7. QED
    BY <2>2, <2>3, <2>4, <2>5, <2>6
<1>13. QED
  BY <1>1, <1>4, <1>7, <1>8, <1>11, <1>12, EmptyArenaOK DEF OwnedInv, t, w, c

(* checkout throws the arena of a dirty HEAD away. *)
LEMMA ReleaseStep ==
  ASSUME NEW tb, NEW a, NEW sn, NEW m, NEW lk, OwnedInv(tb, a, sn, m, lk)
  PROVE  OwnedInv(DeleteSnapshot(tb, a), EmptyArena, sn, m, lk)
<1> DEFINE t == DeleteSnapshot(tb, a)
           n == Len(tb.cells)
<1>1. /\ TableOK(tb) /\ n \in Nat /\ DOMAIN tb.cells = 1 .. n
      /\ m \in 0 .. MaxSnaps /\ LeakedOK(lk, n) /\ SnapsOK(sn, m, n)
      /\ ArenaOK(a, n)
  BY OwnedParts DEF OwnedInv
<1>2. \A p \in DOMAIN tb.cells : p \in Ptrs(a) => tb.cells[p].refs > 0
  BY HolderFacts
<1>3. /\ TableOK(t) /\ Len(t.cells) = n
      /\ \A p \in DOMAIN tb.cells :
           t.cells[p] = [refs |-> tb.cells[p].refs - One(a, p), val |-> tb.cells[p].val]
  BY <1>1, <1>2, DeleteFacts, Zenon
<1>4. DOMAIN t.cells = 1 .. n
  BY <1>3, TableTypes
<1> HIDE DEF t, n
<1>5. Counted(t, EmptyArena, sn, lk)
  <2>1. SUFFICES ASSUME NEW p \in 1 .. n
                 PROVE  t.cells[p].refs
                          = Cardinality(Holders(sn, p)) + One(EmptyArena, p) + lk[p]
    BY <1>4 DEF Counted
  <2>2. /\ Cardinality(Holders(sn, p)) \in Nat
        /\ tb.cells[p].refs = Cardinality(Holders(sn, p)) + One(a, p) + lk[p]
        /\ lk[p] \in Nat /\ One(a, p) \in 0 .. 1
    BY <1>1, HolderFacts
  <2>3. t.cells[p].refs = tb.cells[p].refs - One(a, p)
    <3>1. t.cells[p] = [refs |-> tb.cells[p].refs - One(a, p), val |-> tb.cells[p].val]
      BY <1>1, <1>3
    <3>2. QED
      BY <3>1
  <2>4. One(EmptyArena, p) = 0
    BY <1>1, EmptyArenaOK
  <2>5. QED
    BY <2>2, <2>3, <2>4
<1>6. QED
  BY <1>1, <1>3, <1>5, EmptyArenaOK DEF OwnedInv, t

LEMMA WithoutOK ==
  ASSUME NEW sn, NEW m, NEW n, NEW s, SnapsOK(sn, m, n)
  PROVE  SnapsOK(Without(sn, s), m, n)
BY DEF SnapsOK, Without

(* drop_snapshot of a snapshot HEAD is not at. *)
LEMMA DropStep ==
  ASSUME NEW tb, NEW a, NEW sn, NEW m, NEW lk, OwnedInv(tb, a, sn, m, lk),
         NEW s \in DOMAIN sn
  PROVE  OwnedInv(DeleteSnapshot(tb, sn[s]), a, Without(sn, s), m, lk)
<1> DEFINE t == DeleteSnapshot(tb, sn[s])
           n == Len(tb.cells)
<1>1. /\ TableOK(tb) /\ n \in Nat /\ DOMAIN tb.cells = 1 .. n
      /\ m \in 0 .. MaxSnaps /\ LeakedOK(lk, n) /\ SnapsOK(sn, m, n)
      /\ ArenaOK(a, n) /\ ArenaOK(sn[s], n)
  BY OwnedParts DEF OwnedInv
<1>2. \A p \in DOMAIN tb.cells : p \in Ptrs(sn[s]) => tb.cells[p].refs > 0
  BY HolderFacts
<1>3. /\ TableOK(t) /\ Len(t.cells) = n
      /\ \A p \in DOMAIN tb.cells :
           t.cells[p] = [refs |-> tb.cells[p].refs - One(sn[s], p), val |-> tb.cells[p].val]
  BY <1>1, <1>2, DeleteFacts, Zenon
<1>4. DOMAIN t.cells = 1 .. n
  BY <1>3, TableTypes
<1> HIDE DEF t, n
<1>5. Counted(t, a, Without(sn, s), lk)
  <2>1. SUFFICES ASSUME NEW p \in 1 .. n
                 PROVE  t.cells[p].refs
                          = Cardinality(Holders(Without(sn, s), p)) + One(a, p) + lk[p]
    BY <1>4 DEF Counted
  <2>2. /\ IsFiniteSet(Holders(sn, p)) /\ Cardinality(Holders(sn, p)) \in Nat
        /\ tb.cells[p].refs = Cardinality(Holders(sn, p)) + One(a, p) + lk[p]
        /\ lk[p] \in Nat /\ One(a, p) \in 0 .. 1
    BY <1>1, HolderFacts
  <2>3. t.cells[p].refs = tb.cells[p].refs - One(sn[s], p)
    <3>1. t.cells[p] = [refs |-> tb.cells[p].refs - One(sn[s], p), val |-> tb.cells[p].val]
      BY <1>1, <1>3
    <3>2. QED
      BY <3>1
  <2>4. Cardinality(Holders(Without(sn, s), p)) = Cardinality(Holders(sn, p)) - One(sn[s], p)
    BY <2>2, WithoutHolders
  <2>5. One(sn[s], p) \in Nat
    BY DEF One
  <2>6. QED
    BY <2>2, <2>3, <2>4, <2>5
<1>6. QED
  BY <1>1, <1>3, <1>5, WithoutOK DEF OwnedInv, t

(* drop_snapshot of the snapshot HEAD is at: HEAD takes its arena. *)
LEMMA TakeOverStep ==
  ASSUME NEW tb, NEW sn, NEW m, NEW lk, OwnedInv(tb, EmptyArena, sn, m, lk),
         NEW s \in DOMAIN sn
  PROVE  OwnedInv(tb, sn[s], Without(sn, s), m, lk)
<1> DEFINE n == Len(tb.cells)
<1>1. /\ TableOK(tb) /\ n \in Nat /\ DOMAIN tb.cells = 1 .. n
      /\ m \in 0 .. MaxSnaps /\ LeakedOK(lk, n) /\ SnapsOK(sn, m, n)
      /\ ArenaOK(sn[s], n)
  BY OwnedParts DEF OwnedInv
<1> HIDE DEF n
<1>2. Counted(tb, sn[s], Without(sn, s), lk)
  <2>1. SUFFICES ASSUME NEW p \in 1 .. n
                 PROVE  tb.cells[p].refs
                          = Cardinality(Holders(Without(sn, s), p)) + One(sn[s], p) + lk[p]
    BY <1>1 DEF Counted
  <2>2. /\ IsFiniteSet(Holders(sn, p)) /\ Cardinality(Holders(sn, p)) \in Nat
        /\ tb.cells[p].refs = Cardinality(Holders(sn, p)) + One(EmptyArena, p) + lk[p]
        /\ lk[p] \in Nat
    BY <1>1, HolderFacts
  <2>3. Cardinality(Holders(Without(sn, s), p)) = Cardinality(Holders(sn, p)) - One(sn[s], p)
    BY <2>2, WithoutHolders
  <2>4. One(sn[s], p) \in Nat
    BY DEF One
  <2>5. One(EmptyArena, p) = 0
    BY <1>1, EmptyArenaOK
  <2>6. QED
    BY <2>2, <2>3, <2>4, <2>5
<1>3. QED
  BY <1>1, <1>2, WithoutOK DEF OwnedInv, n


-----------------------------------------------------------------------------
(* The invariant *)

(* HEAD is dirty, or clean and at one of the snapshots. *)
LEMMA HeadCases ==
  ASSUME StoreInv
  PROVE  \/ /\ head.kind = "dirty" /\ head = Dirty(head.arena) /\ HeadArena = head.arena
            /\ OwnArena = head.arena /\ \A tb : OwnTable(tb) = tb
         \/ \E s \in DOMAIN snaps :
              /\ head.kind = "checkout" /\ head = Checkedout(s)
              /\ head.arena = EmptyArena /\ head.id = s
              /\ HeadArena = snaps[s] /\ OwnArena = CloneArena(snaps[s])
              /\ \A tb : OwnTable(tb) = CloneRefs(tb, snaps[s])
<1>1. CASE head = Dirty(head.arena)
  <2>1. head.kind = "dirty"
    BY <1>1 DEF Dirty
  <2>2. QED
    BY <1>1, <2>1 DEF HeadArena, OwnArena, OwnTable
<1>2. CASE \E s \in DOMAIN snaps : head = Checkedout(s)
  <2>1. PICK s \in DOMAIN snaps : head = Checkedout(s)
    BY <1>2
  <2>2. head.kind = "checkout" /\ head.arena = EmptyArena /\ head.id = s
    BY <2>1 DEF Checkedout
  <2>3. HeadArena = snaps[s]
    BY <2>2 DEF HeadArena
  <2>4. OwnArena = CloneArena(snaps[s]) /\ \A tb : OwnTable(tb) = CloneRefs(tb, snaps[s])
    BY <2>2, <2>3 DEF OwnArena, OwnTable
  <2>5. QED
    BY <2>1, <2>2, <2>3, <2>4
<1>3. QED
  BY <1>1, <1>2 DEF StoreInv, HeadOK

(* What get_head_mut makes of the table and of HEAD. *)
LEMMA Owned ==
  ASSUME StoreInv
  PROVE  OwnedInv(OwnTable(table), OwnArena, snaps, made, leaked)
<1>1. OwnedInv(table, head.arena, snaps, made, leaked)
  BY DEF StoreInv
<1>2. CASE OwnArena = head.arena /\ \A tb : OwnTable(tb) = tb
  <2>1. OwnTable(table) = table
    BY <1>2
  <2>2. QED
    BY <1>1, <1>2, <2>1
<1>3. ASSUME NEW s \in DOMAIN snaps, head.arena = EmptyArena,
             OwnArena = CloneArena(snaps[s]),
             \A tb : OwnTable(tb) = CloneRefs(tb, snaps[s])
      PROVE  OwnedInv(OwnTable(table), OwnArena, snaps, made, leaked)
  <2>1. OwnTable(table) = CloneRefs(table, snaps[s])
    BY <1>3
  <2>2. OwnedInv(table, EmptyArena, snaps, made, leaked)
    BY <1>1, <1>3
  <2>3. QED
    BY <1>3, <2>1, <2>2, OwnStep
<1>4. QED
  BY <1>2, <1>3, HeadCases

(* Counting the references of a snapshot and adding an object commute: the *)
(* new object is in a cell that the snapshot does not point to.            *)
LEMMA AddThenClone ==
  ASSUME NEW tb, NEW sn, NEW m, NEW lk, OwnedInv(tb, EmptyArena, sn, m, lk),
         NEW s \in DOMAIN sn, HasRoom(tb), NEW v \in Value
  PROVE  /\ CloneRefs(AddItem(tb, v), sn[s]) = AddItem(CloneRefs(tb, sn[s]), v)
         /\ NextCell(CloneRefs(tb, sn[s])) = NextCell(tb)
         /\ HasRoom(CloneRefs(tb, sn[s]))
<1> DEFINE a == sn[s]
           n == Len(tb.cells)
           p == NextCell(tb)
           u == AddItem(tb, v)
           c == CloneRefs(tb, a)
           x == CloneRefs(u, a)
           y == AddItem(c, v)
<1>1. /\ TableOK(tb) /\ n \in Nat /\ DOMAIN tb.cells = 1 .. n
      /\ ArenaOK(a, n)
      /\ \A q \in 1 .. n : q \in Ptrs(a) => tb.cells[q].refs > 0
  BY OwnedParts, HolderFacts
<1>2. /\ TableOK(u) /\ Len(u.cells) >= n
      /\ DOMAIN u.cells = DOMAIN tb.cells \cup {p}
      /\ p \in 1 .. MaxCells
      /\ u.cells[p] = [refs |-> 1, val |-> v]
      /\ \A q \in DOMAIN tb.cells : q # p => u.cells[q] = tb.cells[q]
      /\ p \in DOMAIN tb.cells => tb.cells[p].refs = 0
  BY <1>1, AddFacts, Zenon
<1>3. /\ TableOK(c) /\ Len(c.cells) = n /\ c.free = tb.free
      /\ \A q \in DOMAIN tb.cells :
           c.cells[q] = [refs |-> tb.cells[q].refs + One(a, q), val |-> tb.cells[q].val]
  <2>1. \A q \in DOMAIN tb.cells : q \in Ptrs(a) => tb.cells[q].refs > 0
    BY <1>1
  <2>2. QED
    BY <1>1, <2>1, CloneRefsFacts, Zenon
<1>4. DOMAIN c.cells = 1 .. n
  BY <1>3, TableTypes
<1> HIDE DEF c
<1>5. NextCell(c) = p /\ HasRoom(c)
  BY <1>3 DEF NextCell, HasRoom
<1>6. p \notin Ptrs(a)
  <2>1. CASE p \in 1 .. n
    BY <1>1, <1>2, <2>1
  <2>2. CASE p \notin 1 .. n
    <3>1. p \in Nat /\ p # 0
      BY <1>2
    <3>2. p \notin 0 .. n
      BY <1>1, <2>2, <3>1
    <3> HIDE DEF p, a, n
    <3>3. QED
      BY <1>1, <3>2, PtrsAreCells
  <2>3. QED
    BY <2>1, <2>2
<1>7. Len(u.cells) \in Nat /\ ArenaOK(a, Len(u.cells)) /\ DOMAIN u.cells = 1 .. Len(u.cells)
  <2>1. Len(u.cells) \in Nat /\ DOMAIN u.cells = 1 .. Len(u.cells)
    BY <1>2, TableTypes
  <2> HIDE DEF u, a, n
  <2>2. QED
    BY <1>1, <1>2, <2>1, ArenaGrows
<1> HIDE DEF u, a, n, p
<1>8. \A q \in DOMAIN u.cells : q \in Ptrs(a) => u.cells[q].refs > 0
  BY <1>1, <1>2, <1>6
<1>9. /\ TableOK(x) /\ Len(x.cells) = Len(u.cells) /\ x.free = u.free
      /\ \A q \in DOMAIN u.cells :
           x.cells[q] = [refs |-> u.cells[q].refs + One(a, q), val |-> u.cells[q].val]
  BY <1>2, <1>7, <1>8, CloneRefsFacts, Zenon
<1>10. /\ TableOK(y)
       /\ DOMAIN y.cells = DOMAIN c.cells \cup {p}
       /\ y.cells[p] = [refs |-> 1, val |-> v]
       /\ \A q \in DOMAIN c.cells : q # p => y.cells[q] = c.cells[q]
  <2>1. /\ TableOK(y)
        /\ DOMAIN y.cells = DOMAIN c.cells \cup {NextCell(c)}
        /\ y.cells[NextCell(c)] = [refs |-> 1, val |-> v]
        /\ \A q \in DOMAIN c.cells : q # NextCell(c) => y.cells[q] = c.cells[q]
    BY <1>3, <1>5, AddFacts, Zenon
  <2> HIDE DEF y
  <2>2. QED
    BY <1>5, <2>1
<1>11. /\ x = [cells |-> x.cells, free |-> x.free] /\ x.cells \in Seq(Cells)
       /\ DOMAIN x.cells = 1 .. Len(x.cells)
       /\ y = [cells |-> y.cells, free |-> y.free] /\ y.cells \in Seq(Cells)
       /\ DOMAIN y.cells = 1 .. Len(y.cells)
       /\ Len(x.cells) \in Nat /\ Len(y.cells) \in Nat
  BY <1>9, <1>10, TableTypes
<1>12. x.free = y.free
  <2>1. /\ tb = [cells |-> tb.cells, free |-> tb.free]
        /\ c = [cells |-> c.cells, free |-> c.free]
    BY <1>1, <1>3, TableTypes
  <2>2. u.free = IF tb.free = <<>> THEN tb.free ELSE Tail(tb.free)
    BY <2>1 DEF AddItem, u
  <2>3. y.free = IF c.free = <<>> THEN c.free ELSE Tail(c.free)
    BY <2>1 DEF AddItem
  <2>4. QED
    BY <1>3, <1>9, <2>2, <2>3
<1> HIDE DEF x, y
<1>13. x.cells = y.cells
  <2>1. DOMAIN x.cells = DOMAIN y.cells /\ DOMAIN x.cells = 1 .. n \cup {p}
    BY <1>1, <1>2, <1>4, <1>7, <1>9, <1>10, <1>11
  <2>2. ASSUME NEW q \in DOMAIN x.cells
        PROVE  x.cells[q] = y.cells[q]
    <3>1. CASE q = p
      <4>1. One(a, p) = 0
        BY <1>6 DEF One
      <4>2. x.cells[p] = [refs |-> u.cells[p].refs + One(a, p), val |-> u.cells[p].val]
        BY <1>2, <1>9
      <4>3. QED
        BY <1>2, <1>10, <3>1, <4>1, <4>2
    <3>2. CASE q # p
      <4>1. q \in 1 .. n
        BY <2>1, <3>2
      <4>2. u.cells[q] = tb.cells[q] /\ y.cells[q] = c.cells[q]
        BY <1>1, <1>2, <1>4, <1>10, <3>2, <4>1
      <4>3. x.cells[q] = [refs |-> u.cells[q].refs + One(a, q), val |-> u.cells[q].val]
        BY <1>1, <1>2, <1>9, <4>1
      <4>4. c.cells[q] = [refs |-> tb.cells[q].refs + One(a, q), val |-> tb.cells[q].val]
        BY <1>1, <1>3, <4>1
      <4>5. QED
        BY <4>2, <4>3, <4>4
    <3>3. QED
      BY <3>1, <3>2
  <2>3. x.cells = [q \in DOMAIN x.cells |-> x.cells[q]] /\ y.cells = [q \in DOMAIN y.cells |-> y.cells[q]]
    BY <1>11
  <2>4. QED
    BY <2>1, <2>2, <2>3
<1>14. x = y
  <2>1. x = [cells |-> y.cells, free |-> y.free]
    BY <1>11, <1>12, <1>13, Zenon
  <2>2. QED
    BY <1>11, <2>1, Zenon
<1>15. QED
  BY <1>5, <1>14 DEF x, y, u, c, a, p


LEMMA InsertOwned ==
  ASSUME StoreInv, NEW v \in Value, Insert(v)
  PROVE  /\ table' = AddItem(OwnTable(table), v)
         /\ head' = Dirty(ArenaInsert(OwnArena, NextCell(OwnTable(table))))
         /\ HasRoom(OwnTable(table))
         /\ OwnArena.free # <<>> \/ Len(OwnArena.slots) < MaxSlots
         /\ UNCHANGED <<snaps, made, leaked>>
<1>1. /\ HasRoom(table)
      /\ OwnArena.free # <<>> \/ Len(OwnArena.slots) < MaxSlots
      /\ table' = OwnTable(AddItem(table, v))
      /\ head' = Dirty(ArenaInsert(OwnArena, NextCell(table)))
      /\ UNCHANGED <<snaps, made, leaked>>
  BY DEF Insert
<1>2. CASE \A tb : OwnTable(tb) = tb
  <2>1. OwnTable(table) = table /\ OwnTable(AddItem(table, v)) = AddItem(table, v)
    BY <1>2
  <2>2. QED
    BY <1>1, <2>1
<1>3. ASSUME NEW s \in DOMAIN snaps, head.arena = EmptyArena,
             \A tb : OwnTable(tb) = CloneRefs(tb, snaps[s])
      PROVE  /\ table' = AddItem(OwnTable(table), v)
             /\ NextCell(OwnTable(table)) = NextCell(table)
             /\ HasRoom(OwnTable(table))
  <2>1. /\ OwnTable(table) = CloneRefs(table, snaps[s])
        /\ OwnTable(AddItem(table, v)) = CloneRefs(AddItem(table, v), snaps[s])
    BY <1>3
  <2>2. OwnedInv(table, EmptyArena, snaps, made, leaked)
    BY <1>3 DEF StoreInv
  <2>3. /\ CloneRefs(AddItem(table, v), snaps[s]) = AddItem(CloneRefs(table, snaps[s]), v)
        /\ NextCell(CloneRefs(table, snaps[s])) = NextCell(table)
        /\ HasRoom(CloneRefs(table, snaps[s]))
    BY <1>1, <2>2, AddThenClone
  <2>4. QED
    BY <1>1, <2>1, <2>3
<1>4. QED
  BY <1>1, <1>2, <1>3, HeadCases

LEMMA DirtyHead ==
  ASSUME NEW a, NEW sn
  PROVE  Dirty(a).arena = a /\ Dirty(a).kind = "dirty" /\ HeadOK(Dirty(a), sn)
BY DEF Dirty, HeadOK

LEMMA CleanHead ==
  ASSUME NEW sn, NEW s \in DOMAIN sn
  PROVE  Checkedout(s).arena = EmptyArena /\ HeadOK(Checkedout(s), sn)
BY DEF Checkedout, HeadOK

LEMMA InsertInv ==
  ASSUME StoreInv, NEW v \in Value, Insert(v)
  PROVE  StoreInv'
<1>1. OwnedInv(OwnTable(table), OwnArena, snaps, made, leaked)
  BY Owned
<1>2. OwnedInv(AddItem(OwnTable(table), v), ArenaInsert(OwnArena, NextCell(OwnTable(table))),
               snaps, made, leaked)
  BY <1>1, InsertOwned, InsertStep
<1>3. QED
  BY <1>2, InsertOwned, DirtyHead DEF StoreInv

LEMMA BadIdInv ==
  ASSUME StoreInv, NEW id, BadId(id)
  PROVE  StoreInv'
BY Owned, DirtyHead DEF StoreInv, BadId

LEMMA WriteInv ==
  ASSUME StoreInv, NEW id, NEW v \in Value, Write(id, v)
  PROVE  StoreInv'
<1> DEFINE tb == OwnTable(table)
           a  == OwnArena
           p  == PtrAt(a, id)
<1>1. OwnedInv(tb, a, snaps, made, leaked)
  BY Owned
<1>2. TableOK(tb) /\ ArenaOK(a, Len(tb.cells)) /\ Len(tb.cells) \in Nat
      /\ DOMAIN tb.cells = 1 .. Len(tb.cells)
  BY <1>1, OwnedParts
<1>3. p # Nil /\ UNCHANGED <<snaps, made, leaked>>
  BY DEF Write
<1>4. /\ id[1] \in DOMAIN a.slots /\ a.slots[id[1]].ptr = p /\ p \in 1 .. Len(tb.cells)
  BY <1>2, <1>3, PtrAtFacts
<1>5. CASE IsUnique(tb, p)
  <2>1. table' = [tb EXCEPT !.cells[p].val = v] /\ head' = Dirty(a)
    BY <1>5 DEF Write
  <2>2. OwnedInv([tb EXCEPT !.cells[p].val = v], a, snaps, made, leaked)
    BY <1>1, <1>2, <1>4, WriteHereStep
  <2>3. QED
    BY <1>3, <2>1, <2>2, DirtyHead DEF StoreInv
<1>6. CASE ~ IsUnique(tb, p)
  <2>1. /\ HasRoom(tb)
        /\ table' = DropPtr(AddItem(tb, v), p)
        /\ head' = Dirty(Retarget(a, id[1], NextCell(tb)))
    BY <1>6 DEF Write, Retarget
  <2>2. tb.cells[a.slots[id[1]].ptr].refs # 1 /\ a.slots[id[1]].ptr # Nil
    BY <1>3, <1>4, <1>6 DEF IsUnique, Refs
  <2> HIDE DEF p, tb, a
  <2>3. OwnedInv(DropPtr(AddItem(tb, v), a.slots[id[1]].ptr),
                 Retarget(a, id[1], NextCell(tb)), snaps, made, leaked)
    BY <1>1, <1>4, <2>1, <2>2, WriteCopyStep
  <2>4. QED
    BY <1>3, <1>4, <2>1, <2>3, DirtyHead DEF StoreInv
<1>7. QED
  BY <1>5, <1>6

LEMMA RemoveInv ==
  ASSUME StoreInv, NEW id, Remove(id)
  PROVE  StoreInv'
<1> DEFINE tb == OwnTable(table)
           a  == OwnArena
           p  == PtrAt(a, id)
<1>1. OwnedInv(tb, a, snaps, made, leaked)
  BY Owned
<1>2. ArenaOK(a, Len(tb.cells)) /\ Len(tb.cells) \in Nat
  BY <1>1, OwnedParts
<1>3. /\ p # Nil /\ a.gen < MaxGen /\ UNCHANGED <<snaps, made, leaked>>
      /\ table' = DropPtr(tb, p) /\ head' = Dirty(ArenaRemove(a, id))
  BY DEF Remove
<1>4. id[1] \in DOMAIN a.slots /\ a.slots[id[1]].ptr = p
  BY <1>2, <1>3, PtrAtFacts
<1> HIDE DEF tb, a, p
<1>5. OwnedInv(DropPtr(tb, a.slots[id[1]].ptr), ArenaRemove(a, id), snaps, made, leaked)
  BY <1>1, <1>3, <1>4, RemoveStep
<1>6. QED
  BY <1>3, <1>4, <1>5, DirtyHead DEF StoreInv

LEMMA MakeSnapshotInv ==
  ASSUME StoreInv, MakeSnapshot
  PROVE  StoreInv'
<1>1. OwnedInv(table, head.arena, snaps, made, leaked)
  BY DEF StoreInv
<1>2. /\ made < MaxSnaps /\ made' = made + 1
      /\ table' = CloneRefs(table, HeadArena)
      /\ snaps' = With(snaps, made + 1, CloneArena(HeadArena))
      /\ head' = Checkedout(made + 1)
      /\ leaked' = IF head.kind = "dirty"
                     THEN [p \in DOMAIN leaked |-> leaked[p] + Count(HeadArena, p)]
                     ELSE leaked
  BY DEF MakeSnapshot, With
<1>3. LeakedOK(leaked, Len(table.cells)) /\ ArenaOK(head.arena, Len(table.cells))
      /\ Len(table.cells) \in Nat
  BY <1>1, OwnedParts
<1>4. leaked \in [1 .. MaxCells -> Nat]
  BY <1>3 DEF LeakedOK
<1>5. \A p \in 1 .. MaxCells : Count(head.arena, p) \in Nat
  BY <1>3, CountIs DEF One
<1>6. /\ leaked' \in [1 .. MaxCells -> Nat]
      /\ \A p \in 1 .. MaxCells : leaked'[p] = leaked[p] + Count(head.arena, p)
      /\ HeadArena = head.arena \/ (head.arena = EmptyArena /\ \E s \in DOMAIN snaps : HeadArena = snaps[s])
  <2>1. CASE head.kind = "dirty" /\ HeadArena = head.arena
    BY <1>2, <1>4, <1>5, <2>1
  <2>2. ASSUME NEW s \in DOMAIN snaps, head.kind = "checkout", head.arena = EmptyArena,
               HeadArena = snaps[s]
        PROVE  /\ leaked' \in [1 .. MaxCells -> Nat]
               /\ \A p \in 1 .. MaxCells : leaked'[p] = leaked[p] + Count(head.arena, p)
               /\ HeadArena = snaps[s]
    <3>1. leaked' = leaked
      BY <1>2, <2>2
    <3>2. \A p \in 1 .. MaxCells : Count(head.arena, p) = 0
      BY <1>3, <2>2, CountIs, EmptyArenaOK
    <3>3. QED
      BY <1>4, <2>2, <3>1, <3>2
  <2>3. QED
    BY <2>1, <2>2, HeadCases
<1>7. OwnedInv(CloneRefs(table, HeadArena), EmptyArena,
               With(snaps, made + 1, CloneArena(HeadArena)), made + 1, leaked')
  BY <1>1, <1>2, <1>6, SnapshotStep
<1>8. made + 1 \in DOMAIN snaps'
  BY <1>2 DEF With
<1>9. QED
  BY <1>2, <1>7, <1>8, CleanHead DEF StoreInv

LEMMA DropSnapshotInv ==
  ASSUME StoreInv, NEW s \in DOMAIN snaps, DropSnapshot(s)
  PROVE  StoreInv'
<1>1. OwnedInv(table, head.arena, snaps, made, leaked) /\ HeadOK(head, snaps)
  BY DEF StoreInv
<1>2. snaps' = Without(snaps, s) /\ UNCHANGED <<made, leaked>>
  BY DEF DropSnapshot, Without
<1>3. CASE head = Checkedout(s)
  <2>1. head' = Dirty(snaps[s]) /\ table' = table
    BY <1>3 DEF DropSnapshot
  <2>2. head.arena = EmptyArena
    BY <1>3, CleanHead
  <2>3. OwnedInv(table, snaps[s], Without(snaps, s), made, leaked)
    BY <1>1, <2>2, TakeOverStep
  <2>4. QED
    BY <1>2, <2>1, <2>3, DirtyHead DEF StoreInv
<1>4. CASE head # Checkedout(s)
  <2>1. head' = head /\ table' = DeleteSnapshot(table, snaps[s])
    BY <1>4 DEF DropSnapshot
  <2>2. OwnedInv(DeleteSnapshot(table, snaps[s]), head.arena, Without(snaps, s), made, leaked)
    BY <1>1, DropStep
  <2>3. HeadOK(head, Without(snaps, s))
    BY <1>1, <1>4 DEF HeadOK, Without
  <2>4. QED
    BY <1>2, <2>1, <2>2, <2>3 DEF StoreInv
<1>5. QED
  BY <1>3, <1>4

LEMMA CheckoutInv ==
  ASSUME StoreInv, NEW s \in DOMAIN snaps, Checkout(s)
  PROVE  StoreInv'
<1>1. OwnedInv(table, head.arena, snaps, made, leaked)
  BY DEF StoreInv
<1>2. head' = Checkedout(s) /\ UNCHANGED <<snaps, made, leaked>>
  BY DEF Checkout
<1>3. OwnedInv(table', EmptyArena, snaps, made, leaked)
  <2>1. CASE head.kind = "dirty"
    BY <1>1, <2>1, ReleaseStep DEF Checkout
  <2>2. CASE head.kind # "dirty" /\ head.arena = EmptyArena
    BY <1>1, <2>2 DEF Checkout
  <2>3. QED
    BY <2>1, <2>2, HeadCases
<1>4. QED
  BY <1>2, <1>3, CleanHead DEF StoreInv


LEMMA InitInv ==
  ASSUME Init
  PROVE  StoreInv
<1>1. /\ table = EmptyTable /\ head = Dirty(EmptyArena) /\ made = 0 /\ DOMAIN snaps = {}
      /\ leaked = [p \in 1 .. MaxCells |-> 0]
  BY DEF Init
<1>2. TableOK(EmptyTable) /\ EmptyTable.cells = <<>> /\ DOMAIN EmptyTable.cells = {}
  <2>1. EmptyTable = [cells |-> <<>>, free |-> <<>>]
    BY DEF EmptyTable
  <2>2. <<>> \in Seq(Cells) /\ <<>> \in Seq(1 .. MaxCells) /\ Len(<<>>) = 0 /\ DOMAIN <<>> = {}
    OBVIOUS
  <2>3. QED
    BY <2>1, <2>2, SpaceTimeAssumption DEF TableOK
<1>3. Len(EmptyTable.cells) = 0
  BY <1>2
<1>4. head.arena = EmptyArena /\ HeadOK(head, snaps)
  BY <1>1, DirtyHead
<1>5. ArenaOK(EmptyArena, 0) /\ SnapsOK(snaps, 0, 0) /\ LeakedOK(leaked, 0)
      /\ Counted(EmptyTable, EmptyArena, snaps, leaked)
  BY <1>1, <1>2, EmptyArenaOK DEF SnapsOK, LeakedOK, Counted
<1>6. 0 \in 0 .. MaxSnaps
  BY SpaceTimeAssumption
<1>7. QED
  BY <1>1, <1>2, <1>3, <1>4, <1>5, <1>6 DEF StoreInv, OwnedInv

(* An arena points to a cell at most once, so that counting pointers is    *)
(* counting the arenas that hold the cell.                                 *)
LEMMA PointersCounted ==
  ASSUME StoreInv, NEW p \in DOMAIN table.cells
  PROVE  PointersTo(p) = Cardinality(Holders(snaps, p)) + One(head.arena, p)
<1> DEFINE X == {x \in (DOMAIN snaps) \X (1 .. MaxSlots) :
                   x[2] \in DOMAIN snaps[x[1]].slots /\ snaps[x[1]].slots[x[2]].ptr = p}
           H == Holders(snaps, p)
           n == Len(table.cells)
<1>1. OwnedInv(table, head.arena, snaps, made, leaked)
  BY DEF StoreInv
<1>2. /\ n \in Nat /\ ArenaOK(head.arena, n) /\ DOMAIN table.cells = 1 .. n
      /\ \A s \in DOMAIN snaps : ArenaOK(snaps[s], n)
  BY <1>1, OwnedParts
<1>3. p \in Nat \ {0} /\ IsFiniteSet(H) /\ Cardinality(H) \in Nat
  BY <1>1, HolderFacts
<1>4. Cardinality(X) = Cardinality(H)
  <2> DEFINE f == [x \in X |-> x[1]]
  <2>1. ASSUME NEW x \in X
        PROVE  x = <<x[1], x[2]>> /\ x[1] \in H
    BY DEF Ptrs, Holders
  <2>2. ASSUME NEW x \in X, NEW y \in X, x[1] = y[1]
        PROVE  x = y
    <3>1. /\ x[1] \in DOMAIN snaps /\ ArenaOK(snaps[x[1]], n)
          /\ x[2] \in DOMAIN snaps[x[1]].slots /\ snaps[x[1]].slots[x[2]].ptr = p
          /\ y[2] \in DOMAIN snaps[x[1]].slots /\ snaps[x[1]].slots[y[2]].ptr = p
      BY <1>2, <2>2
    <3>2. x[2] = y[2]
      BY <1>3, <3>1 DEF ArenaOK, Nil
    <3> HIDE DEF X
    <3>3. QED
      BY <2>1, <2>2, <3>2
  <2>3. ASSUME NEW s \in H
        PROVE  \E x \in X : x[1] = s
    <3>1. PICK i \in DOMAIN snaps[s].slots : snaps[s].slots[i].ptr = p
      BY DEF Holders, Ptrs
    <3>2. s \in DOMAIN snaps /\ i \in 1 .. MaxSlots
      <4>1. s \in DOMAIN snaps
        BY DEF Holders
      <4>2. Len(snaps[s].slots) \in 0 .. MaxSlots /\ DOMAIN snaps[s].slots = 1 .. Len(snaps[s].slots)
        BY <1>2, <4>1, ArenaTypes
      <4>3. QED
        BY <4>1, <4>2, SpaceTimeAssumption
    <3>3. <<s, i>> \in X /\ <<s, i>>[1] = s
      BY <3>1, <3>2
    <3>4. QED
      BY <3>3
  <2> HIDE DEF X, H
  <2>4. f \in [X -> H]
    BY <2>1
  <2>5. \A x, y \in X : f[x] = f[y] => x = y
    BY <2>2
  <2>6. \A s \in H : \E x \in X : f[x] = s
    BY <2>3
  <2> HIDE DEF f
  <2>7. f \in Injection(X, H) /\ f \in Surjection(X, H)
    BY <2>4, <2>5, <2>6, Fun_IsInj, Fun_IsSurj
  <2>8. QED
    BY <1>3, <2>7, FS_Injection DEF H
<1>5. (IF head.kind = "dirty" THEN Count(head.arena, p) ELSE 0) = One(head.arena, p)
  <2>1. CASE head.kind = "dirty"
    BY <1>2, <1>3, <2>1, CountIs
  <2>2. CASE head.kind # "dirty" /\ head.arena = EmptyArena
    BY <1>2, <2>2, EmptyArenaOK
  <2>3. QED
    BY <2>1, <2>2, HeadCases
<1> HIDE DEF X, H
<1>6. QED
  BY <1>4, <1>5 DEF PointersTo, X, H

LEMMA InvTableExact ==
  ASSUME StoreInv
  PROVE  TableExact
<1> DEFINE n == Len(table.cells)
<1>1. OwnedInv(table, head.arena, snaps, made, leaked) /\ HeadOK(head, snaps)
  BY DEF StoreInv
<1>2. /\ TableOK(table) /\ n \in Nat /\ DOMAIN table.cells = 1 .. n
      /\ ArenaOK(head.arena, n)
      /\ made \in 0 .. MaxSnaps /\ made \in Nat
      /\ DOMAIN snaps \subseteq 1 .. made
      /\ \A s \in DOMAIN snaps : ArenaOK(snaps[s], n)
      /\ LeakedOK(leaked, n)
  BY <1>1, OwnedParts
<1>3. n <= MaxCells
  BY <1>2, TableTypes
<1> HIDE DEF n
<1>4. ASSUME NEW a, ArenaOK(a, n)
      PROVE  a \in Arenas
  <2>1. Slots(n) \subseteq [ptr : 0 .. MaxCells, gen : 0 .. MaxGen]
    BY <1>2, <1>3, SpaceTimeAssumption DEF Slots
  <2>2. /\ a = [slots |-> a.slots, free |-> a.free, gen |-> a.gen]
        /\ a.slots \in Seq(Slots(n)) /\ a.free \in Seq(1 .. MaxSlots) /\ a.gen \in 0 .. MaxGen
    BY <1>2, <1>4, ArenaTypes
  <2>3. a.slots \in Seq([ptr : 0 .. MaxCells, gen : 0 .. MaxGen])
    BY <2>1, <2>2, SeqMonotonic
  <2>4. \A t \in Seq([ptr : 0 .. MaxCells, gen : 0 .. MaxGen]), f \in Seq(1 .. MaxSlots),
           g \in 0 .. MaxGen : [slots |-> t, free |-> f, gen |-> g] \in Arenas
    BY DEF Arenas
  <2>5. QED
    BY <2>2, <2>3, <2>4, Zenon
<1>5. TypeOK
  <2>1. table \in [cells : Seq([refs : Nat, val : Value]), free : Seq(1 .. MaxCells)]
    BY <1>2 DEF TableOK, Cells
  <2>2. head \in [kind : {"dirty", "checkout"}, arena : Arenas, id : 0 .. MaxSnaps]
    <3>1. head.arena \in Arenas
      BY <1>2, <1>4
    <3>2. CASE head = Dirty(head.arena)
      <4>1. 0 \in 0 .. MaxSnaps
        BY SpaceTimeAssumption
      <4>2. \A a \in Arenas : Dirty(a) \in [kind : {"dirty", "checkout"}, arena : Arenas, id : 0 .. MaxSnaps]
        BY <4>1 DEF Dirty
      <4>3. QED
        BY <3>1, <3>2, <4>2, Zenon
    <3>3. ASSUME NEW s \in DOMAIN snaps, head = Checkedout(s), head.arena = EmptyArena
          PROVE  head \in [kind : {"dirty", "checkout"}, arena : Arenas, id : 0 .. MaxSnaps]
      <4>1. s \in 0 .. MaxSnaps /\ EmptyArena \in Arenas
        BY <1>2, <3>1, <3>3, SpaceTimeAssumption
      <4>2. QED
        BY <3>3, <4>1 DEF Checkedout
    <3>4. QED
      BY <3>2, <3>3, HeadCases
  <2>3. head.kind = "checkout" => head.id \in DOMAIN snaps
    <3>1. head.kind = "dirty" \/ head.id \in DOMAIN snaps
      BY HeadCases
    <3>2. QED
      BY <3>1
  <2>4. leaked \in [1 .. MaxCells -> Nat]
    BY <1>2 DEF LeakedOK
  <2>5. \A s \in DOMAIN snaps : snaps[s] \in Arenas
    BY <1>2, <1>4
  <2>6. QED
    BY <1>2, <2>1, <2>2, <2>3, <2>4, <2>5 DEF TypeOK
<1>6. RefsCounted
  <2>1. SUFFICES ASSUME NEW p \in DOMAIN table.cells
                 PROVE  table.cells[p].refs = PointersTo(p) + leaked[p]
    BY DEF RefsCounted, Refs
  <2>2. table.cells[p].refs = Cardinality(Holders(snaps, p)) + One(head.arena, p) + leaked[p]
    BY <1>1, HolderFacts
  <2>3. PointersTo(p) = Cardinality(Holders(snaps, p)) + One(head.arena, p)
    BY PointersCounted
  <2>4. QED
    BY <2>2, <2>3
<1>7. FreeListExact
  <2>1. IsInjective(table.free)
    BY <1>2 DEF TableOK, IsInjective
  <2>2. Range(table.free) = {p \in DOMAIN table.cells : table.cells[p].refs = 0}
    BY <1>2 DEF TableOK, Range
  <2>3. QED
    BY <2>1, <2>2 DEF FreeListExact, FreeListOK, Refs
<1>8. QED
  BY <1>5, <1>6, <1>7 DEF TableExact

LEMMA NextInv == StoreInv /\ [Next]_vars => StoreInv'
<1>1. SUFFICES ASSUME StoreInv, Next
               PROVE  StoreInv'
  <2>1. StoreInv /\ UNCHANGED vars => StoreInv'
    BY DEF StoreInv, OwnedInv, vars
  <2>2. QED
    BY <2>1
<1>2. ASSUME NEW v \in Value, Insert(v)
      PROVE  StoreInv'
  BY <1>1, <1>2, InsertInv
<1>3. ASSUME NEW id \in Id, BadId(id) \/ Remove(id) \/ \E v \in Value : Write(id, v)
      PROVE  StoreInv'
  BY <1>1, <1>3, BadIdInv, RemoveInv, WriteInv
<1>4. ASSUME MakeSnapshot
      PROVE  StoreInv'
  BY <1>1, <1>4, MakeSnapshotInv
<1>5. ASSUME NEW s \in DOMAIN snaps, DropSnapshot(s) \/ Checkout(s)
      PROVE  StoreInv'
  BY <1>1, <1>5, DropSnapshotInv, CheckoutInv
<1>6. QED
  BY <1>1, <1>2, <1>3, <1>4, <1>5 DEF Next

(* StoreInv is an invariant of SpaceTime.                                  *)
THEOREM StoreInvariant == Spec => []StoreInv
<1>1. Init => StoreInv
  BY InitInv
<1>2. QED
  BY <1>1, NextInv, PTL DEF Spec

(* References are exact up to one leak: in every state, each cell of the   *)
(* slab has as many references as there are pointers to it in snapshots    *)
(* and in HEAD, plus those of dirty HEADs that make_snapshot replaced and  *)
(* never gave back, and the free list holds exactly the cells without any  *)
(* (table.rs:6, :142-178; lib.rs:32-83, :139-149).                         *)
THEOREM ReferencesExact == Spec => []TableExact
<1>1. StoreInv => TableExact
  BY InvTableExact
<1>2. QED
  BY <1>1, StoreInvariant, PTL


-----------------------------------------------------------------------------
(* What arenas contain *)

Names(a) == {id \in Id : PtrAt(a, id) # Nil}

(* Contents, over a table that need not be the current one. *)
Objects(tb, a) == [id \in Names(a) |-> tb.cells[PtrAt(a, id)].val]

Name(a, i) == <<i, a.slots[i].gen>>

LEMMA NameFacts ==
  ASSUME NEW a, NEW n \in Nat, ArenaOK(a, n)
  PROVE  /\ \A id \in Names(a) : /\ id[1] \in Filled(a) /\ id = Name(a, id[1]) /\ id \in Id
                                 /\ PtrAt(a, id) = a.slots[id[1]].ptr
                                 /\ PtrAt(a, id) \in Ptrs(a) /\ PtrAt(a, id) \in 1 .. n
         /\ \A i \in Filled(a) : /\ Name(a, i) \in Names(a) /\ Name(a, i)[1] = i
                                 /\ PtrAt(a, Name(a, i)) = a.slots[i].ptr
<1>1. /\ Len(a.slots) \in 0 .. MaxSlots /\ DOMAIN a.slots = 1 .. Len(a.slots)
      /\ \A i \in DOMAIN a.slots : a.slots[i].ptr \in 0 .. n /\ a.slots[i].gen \in 0 .. MaxGen
  BY ArenaTypes
<1>2. ASSUME NEW id \in Names(a)
      PROVE  /\ id[1] \in Filled(a) /\ id = Name(a, id[1]) /\ id \in Id
             /\ PtrAt(a, id) = a.slots[id[1]].ptr
             /\ PtrAt(a, id) \in Ptrs(a) /\ PtrAt(a, id) \in 1 .. n
  <2>1. id \in Id /\ PtrAt(a, id) # Nil
    BY DEF Names
  <2>2. id = <<id[1], id[2]>>
    BY <2>1 DEF Id
  <2>3. /\ id[1] \in DOMAIN a.slots
        /\ a.slots[id[1]].ptr = PtrAt(a, id) /\ a.slots[id[1]].gen = id[2]
        /\ PtrAt(a, id) \in Ptrs(a) /\ PtrAt(a, id) \in 1 .. n
    BY <2>1, PtrAtFacts
  <2>4. id = Name(a, id[1])
    BY <2>2, <2>3 DEF Name
  <2>5. id[1] \in Filled(a)
    BY <2>1, <2>3 DEF Filled
  <2>6. QED
    BY <2>1, <2>3, <2>4, <2>5
<1>3. ASSUME NEW i \in Filled(a)
      PROVE  /\ Name(a, i) \in Names(a) /\ Name(a, i)[1] = i
             /\ PtrAt(a, Name(a, i)) = a.slots[i].ptr
  <2>1. i \in 1 .. Len(a.slots) /\ i \in 1 .. MaxSlots /\ a.slots[i].ptr # Nil
        /\ a.slots[i].gen \in 0 .. MaxGen
    BY <1>1, SpaceTimeAssumption DEF Filled
  <2>2. Name(a, i)[1] = i /\ Name(a, i)[2] = a.slots[i].gen /\ Name(a, i) \in Id
    BY <2>1 DEF Name, Id
  <2>3. PtrAt(a, Name(a, i)) = a.slots[i].ptr
    BY <2>1, <2>2 DEF PtrAt
  <2>4. QED
    BY <2>1, <2>2, <2>3 DEF Names
<1>4. QED
  BY <1>2, <1>3

(* Names of the same slot, or of the same cell, are the same. *)
LEMMA NamesDiffer ==
  ASSUME NEW a, NEW n \in Nat, ArenaOK(a, n), NEW x \in Names(a), NEW y \in Names(a),
         x[1] = y[1] \/ PtrAt(a, x) = PtrAt(a, y)
  PROVE  x = y
<1>1. /\ x[1] \in Filled(a) /\ y[1] \in Filled(a) /\ x = Name(a, x[1]) /\ y = Name(a, y[1])
      /\ PtrAt(a, x) = a.slots[x[1]].ptr /\ PtrAt(a, y) = a.slots[y[1]].ptr
  BY NameFacts
<1>2. x[1] = y[1]
  BY <1>1 DEF ArenaOK, Filled
<1>3. QED
  BY <1>1, <1>2

(* The contents of an arena depend on the cells it points to only. *)
LEMMA SameObjects ==
  ASSUME NEW a, NEW n \in Nat, ArenaOK(a, n), NEW t, NEW u,
         \A p \in 1 .. n : p \in Ptrs(a) => t.cells[p].val = u.cells[p].val
  PROVE  Objects(t, a) = Objects(u, a)
<1>1. \A id \in Names(a) : PtrAt(a, id) \in 1 .. n /\ PtrAt(a, id) \in Ptrs(a)
  BY NameFacts
<1>2. \A id \in Names(a) : t.cells[PtrAt(a, id)].val = u.cells[PtrAt(a, id)].val
  BY <1>1
<1>3. QED
  BY <1>2 DEF Objects

(* The contents of HEAD and of the snapshots survive get_head_mut. *)
LEMMA OwnedObjects ==
  ASSUME StoreInv
  PROVE  /\ Objects(OwnTable(table), OwnArena) = Objects(table, HeadArena)
         /\ \A s \in DOMAIN snaps : Objects(OwnTable(table), snaps[s]) = Objects(table, snaps[s])
<1>1. OwnedInv(table, head.arena, snaps, made, leaked)
  BY DEF StoreInv
<1>2. /\ TableOK(table) /\ Len(table.cells) \in Nat
      /\ DOMAIN table.cells = 1 .. Len(table.cells)
      /\ \A s \in DOMAIN snaps : ArenaOK(snaps[s], Len(table.cells)) /\ Compact(snaps[s])
  BY <1>1, OwnedParts
<1>3. CASE OwnArena = head.arena /\ HeadArena = head.arena /\ \A tb : OwnTable(tb) = tb
  <2>1. OwnTable(table) = table
    BY <1>3
  <2>2. QED
    BY <1>3, <2>1
<1>4. ASSUME NEW s \in DOMAIN snaps, HeadArena = snaps[s], OwnArena = CloneArena(snaps[s]),
             \A tb : OwnTable(tb) = CloneRefs(tb, snaps[s])
      PROVE  /\ OwnArena = HeadArena
             /\ \A r \in DOMAIN snaps : Objects(OwnTable(table), snaps[r]) = Objects(table, snaps[r])
  <2>1. OwnArena = HeadArena
    BY <1>2, <1>4, CompactIsItsCopy
  <2>2. \A p \in DOMAIN table.cells : p \in Ptrs(snaps[s]) => table.cells[p].refs > 0
    BY <1>1, HolderFacts
  <2>3. \A p \in DOMAIN table.cells : CloneRefs(table, snaps[s]).cells[p] =
          [refs |-> table.cells[p].refs + One(snaps[s], p), val |-> table.cells[p].val]
    BY <1>2, <2>2, CloneRefsFacts, Zenon
  <2>4. OwnTable(table) = CloneRefs(table, snaps[s])
    BY <1>4
  <2>5. \A p \in 1 .. Len(table.cells) : OwnTable(table).cells[p].val = table.cells[p].val
    <3>1. ASSUME NEW p \in 1 .. Len(table.cells)
          PROVE  CloneRefs(table, snaps[s]).cells[p].val = table.cells[p].val
      <4>1. CloneRefs(table, snaps[s]).cells[p] =
              [refs |-> table.cells[p].refs + One(snaps[s], p), val |-> table.cells[p].val]
        BY <1>2, <2>3
      <4>2. QED
        BY <4>1
    <3>2. QED
      BY <2>4, <3>1
  <2>6. QED
    BY <1>2, <2>1, <2>5, SameObjects
<1>5. ASSUME NEW s \in DOMAIN snaps, HeadArena = snaps[s], OwnArena = CloneArena(snaps[s]),
             \A tb : OwnTable(tb) = CloneRefs(tb, snaps[s])
      PROVE  /\ Objects(OwnTable(table), OwnArena) = Objects(table, HeadArena)
             /\ \A r \in DOMAIN snaps : Objects(OwnTable(table), snaps[r]) = Objects(table, snaps[r])
  BY <1>4, <1>5
<1>6. QED
  BY <1>3, <1>5, HeadCases


(* Ids of the slots an operation leaves alone find what they found.        *)
LEMMA OtherSlots ==
  ASSUME NEW a, NEW b, NEW x,
         x[1] \in 1 .. Len(b.slots) <=> x[1] \in 1 .. Len(a.slots),
         x[1] \in 1 .. Len(a.slots) => b.slots[x[1]] = a.slots[x[1]]
  PROVE  PtrAt(b, x) = PtrAt(a, x)
<1>1. CASE x[1] \in 1 .. Len(a.slots)
  BY <1>1 DEF PtrAt
<1>2. CASE x[1] \notin 1 .. Len(a.slots)
  BY <1>2 DEF PtrAt
<1>3. QED
  BY <1>1, <1>2

(* The slot ArenaInsert fills. *)
NextSlot(a) == IF a.free = <<>> THEN Len(a.slots) + 1 ELSE Head(a.free)

LEMMA ArenaInsertSlots ==
  ASSUME NEW a, NEW n \in Nat, ArenaOK(a, n), NEW p \in Nat,
         a.free # <<>> \/ Len(a.slots) < MaxSlots
  PROVE  /\ NextSlot(a) \in 1 .. MaxSlots
         /\ NextSlot(a) \in DOMAIN a.slots => a.slots[NextSlot(a)].ptr = Nil
         /\ 1 .. Len(ArenaInsert(a, p).slots) = 1 .. Len(a.slots) \cup {NextSlot(a)}
         /\ ArenaInsert(a, p).slots[NextSlot(a)] = [ptr |-> p, gen |-> a.gen]
         /\ \A j \in 1 .. Len(a.slots) :
              j # NextSlot(a) => ArenaInsert(a, p).slots[j] = a.slots[j]
<1> DEFINE slot == [ptr |-> p, gen |-> a.gen]
           b == ArenaInsert(a, p)
           l == Len(a.slots)
           i == NextSlot(a)
<1>1. /\ a = [slots |-> a.slots, free |-> a.free, gen |-> a.gen]
      /\ a.slots \in Seq(Slots(n)) /\ l \in 0 .. MaxSlots
      /\ a.free \in Seq(1 .. MaxSlots)
      /\ DOMAIN a.slots = 1 .. l /\ DOMAIN a.free = 1 .. Len(a.free)
      /\ a.gen \in 0 .. MaxGen
  BY ArenaTypes
<1>2. l \in Nat /\ l <= MaxSlots
  BY <1>1, SpaceTimeAssumption
<1> DEFINE T == [ptr : Nat, gen : 0 .. MaxGen]
<1>3. a.slots \in Seq(T) /\ slot \in T
  <2>1. Slots(n) \subseteq T
    BY DEF Slots
  <2>2. slot \in T
    BY <1>1
  <2> HIDE DEF T
  <2>3. QED
    BY <1>1, <2>1, <2>2, SeqMonotonic
<1> HIDE DEF T
<1>4. CASE a.free = <<>>
  <2>1. b.slots = Append(a.slots, slot) /\ i = l + 1
    <3>1. b = [a EXCEPT !.slots = Append(a.slots, slot)] /\ i = l + 1
      BY <1>4 DEF ArenaInsert, NextSlot
    <3>2. QED
      BY <1>1, <3>1
  <2> HIDE DEF slot, b, i, l
  <2>2. /\ Len(b.slots) = l + 1 /\ b.slots[l + 1] = slot
        /\ \A j \in 1 .. l : b.slots[j] = a.slots[j]
    BY <1>3, <2>1, AppendProperties DEF l
  <2>3. i \in 1 .. MaxSlots /\ i \notin DOMAIN a.slots
    BY <1>1, <1>2, <1>4, <2>1, SpaceTimeAssumption DEF l
  <2>4. 1 .. Len(b.slots) = 1 .. l \cup {i}
    BY <1>2, <2>1, <2>2
  <2>5. QED
    BY <2>1, <2>2, <2>3, <2>4 DEF slot, b, i, l
<1>5. CASE a.free # <<>>
  <2>1. b.slots = [a.slots EXCEPT ![i] = slot] /\ i = a.free[1]
    <3>1. b = [a EXCEPT !.slots[i] = slot, !.free = Tail(a.free)] /\ i = a.free[1]
      BY <1>1, <1>5 DEF ArenaInsert, NextSlot
    <3>2. QED
      BY <1>1, <3>1
  <2>2. 1 \in DOMAIN a.free
    BY <1>1, <1>5
  <2>3. i \in 1 .. l /\ a.slots[i].ptr = Nil
    <3>1. a.free[1] \in DOMAIN a.slots /\ a.slots[a.free[1]].ptr = Nil
      BY <2>2 DEF ArenaOK
    <3>2. QED
      BY <1>1, <2>1, <3>1, Zenon
  <2>4. i \in 1 .. MaxSlots /\ 1 .. l = 1 .. l \cup {i}
    BY <1>2, <2>3, SpaceTimeAssumption
  <2> HIDE DEF slot, b, i, l
  <2>5. /\ Len(b.slots) = l
        /\ \A j \in 1 .. l : b.slots[j] = IF j = i THEN slot ELSE a.slots[j]
    BY <1>3, <2>1, <2>3, ExceptSeq DEF l
  <2>6. 1 .. Len(b.slots) = 1 .. l \cup {i} /\ b.slots[i] = slot
        /\ \A j \in 1 .. l : j # i => b.slots[j] = a.slots[j]
    BY <2>3, <2>4, <2>5
  <2>7. QED
    BY <2>3, <2>4, <2>6 DEF slot, b, i, l
<1>6. QED
  BY <1>4, <1>5

(* insert adds an object, under a name that HEAD does not have. *)
LEMMA InsertObjects ==
  ASSUME NEW tb, NEW a, NEW sn, NEW m, NEW lk, OwnedInv(tb, a, sn, m, lk),
         NEW v \in Value, HasRoom(tb), a.free # <<>> \/ Len(a.slots) < MaxSlots
  PROVE  /\ \E id \in Id \ Names(a) :
              Objects(AddItem(tb, v), ArenaInsert(a, NextCell(tb)))
                = With(Objects(tb, a), id, v)
         /\ \A s \in DOMAIN sn : Objects(AddItem(tb, v), sn[s]) = Objects(tb, sn[s])
<1> DEFINE t == AddItem(tb, v)
           p == NextCell(tb)
           n == Len(tb.cells)
           b == ArenaInsert(a, p)
           i == NextSlot(a)
           id == <<i, a.gen>>
<1>1. /\ TableOK(tb) /\ n \in Nat /\ DOMAIN tb.cells = 1 .. n
      /\ ArenaOK(a, n) /\ \A s \in DOMAIN sn : ArenaOK(sn[s], n)
  BY OwnedParts
<1>2. /\ p \in 1 .. MaxCells
      /\ t.cells[p] = [refs |-> 1, val |-> v]
      /\ \A q \in 1 .. n : q # p => t.cells[q] = tb.cells[q]
      /\ p \in 1 .. n => tb.cells[p].refs = 0
  BY <1>1, AddFacts
<1>3. p \in Nat /\ p # Nil
  BY <1>2 DEF Nil
<1>4. ASSUME NEW q \in 1 .. n, q \in Ptrs(a) \/ \E s \in DOMAIN sn : q \in Ptrs(sn[s])
      PROVE  t.cells[q].val = tb.cells[q].val
  <2>1. tb.cells[q].refs > 0
    BY <1>1, <1>4, HolderFacts
  <2>2. q # p
    BY <1>2, <2>1
  <2>3. QED
    BY <1>2, <2>2
<1> HIDE DEF t
<1>5. \A s \in DOMAIN sn : Objects(t, sn[s]) = Objects(tb, sn[s])
  <2> HIDE DEF n
  <2>1. QED
    BY <1>1, <1>4, SameObjects
<1>6. /\ i \in 1 .. MaxSlots
      /\ i \in DOMAIN a.slots => a.slots[i].ptr = Nil
      /\ 1 .. Len(b.slots) = 1 .. Len(a.slots) \cup {i}
      /\ b.slots[i] = [ptr |-> p, gen |-> a.gen]
      /\ \A j \in 1 .. Len(a.slots) : j # i => b.slots[j] = a.slots[j]
  BY <1>1, <1>3, ArenaInsertSlots
<1>7. id \in Id /\ id[1] = i /\ id[2] = a.gen
  BY <1>1, <1>6, ArenaTypes DEF Id
<1> HIDE DEF b, i, p
<1>8. id \notin Names(a)
  <2>1. ASSUME id \in Names(a)
        PROVE  FALSE
    <3>1. i \in Filled(a)
      BY <1>1, <1>7, <2>1, NameFacts
    <3>2. QED
      BY <1>6, <3>1 DEF Filled
  <2>2. QED
    BY <2>1
<1>9. PtrAt(b, id) = p
  BY <1>6, <1>7 DEF PtrAt
<1>10. ASSUME NEW x \in Id, x # id
       PROVE  PtrAt(b, x) = PtrAt(a, x)
  <2>1. CASE x[1] # i
    <3>1. /\ x[1] \in 1 .. Len(b.slots) <=> x[1] \in 1 .. Len(a.slots)
          /\ x[1] \in 1 .. Len(a.slots) => b.slots[x[1]] = a.slots[x[1]]
      BY <1>6, <2>1
    <3>2. QED
      BY <3>1, OtherSlots, Zenon
  <2>2. CASE x[1] = i
    <3>1. x[2] # a.gen
      BY <1>10, <2>2 DEF Id
    <3>2. PtrAt(b, x) = Nil
      BY <1>6, <2>2, <3>1 DEF PtrAt
    <3>3. PtrAt(a, x) = Nil
      <4>1. CASE i \in DOMAIN a.slots
        BY <1>6, <2>2, <4>1 DEF PtrAt
      <4>2. CASE i \notin DOMAIN a.slots
        <5>1. i \notin 1 .. Len(a.slots)
          BY <1>1, <4>2, ArenaTypes
        <5>2. QED
          BY <2>2, <5>1 DEF PtrAt
      <4>3. QED
        BY <4>1, <4>2
    <3>4. QED
      BY <3>2, <3>3
  <2>3. QED
    BY <2>1, <2>2
<1> HIDE DEF id
<1>11. Names(b) = Names(a) \cup {id}
  BY <1>3, <1>7, <1>9, <1>10 DEF Names
<1>12. \A x \in Names(a) : t.cells[PtrAt(b, x)].val = tb.cells[PtrAt(a, x)].val
  <2>1. SUFFICES ASSUME NEW x \in Names(a)
                 PROVE  t.cells[PtrAt(b, x)].val = tb.cells[PtrAt(a, x)].val
    OBVIOUS
  <2>2. x \in Id /\ PtrAt(a, x) \in 1 .. n /\ PtrAt(a, x) \in Ptrs(a)
    BY <1>1, NameFacts
  <2>3. PtrAt(b, x) = PtrAt(a, x)
    BY <1>8, <1>10, <2>2
  <2>4. QED
    BY <1>4, <2>2, <2>3
<1>13. t.cells[PtrAt(b, id)].val = v
  BY <1>2, <1>9
<1>14. Objects(t, b) = With(Objects(tb, a), id, v)
  BY <1>8, <1>11, <1>12, <1>13 DEF Objects, With
<1>15. QED
  BY <1>5, <1>7, <1>8, <1>14 DEF t, b, p


(* get_mut, when nothing else refers to the object. *)
LEMMA WriteHereObjects ==
  ASSUME NEW tb, NEW a, NEW sn, NEW m, NEW lk, OwnedInv(tb, a, sn, m, lk),
         NEW id \in Names(a), NEW v \in Value, tb.cells[PtrAt(a, id)].refs = 1
  PROVE  /\ Objects([tb EXCEPT !.cells[PtrAt(a, id)].val = v], a)
              = With(Objects(tb, a), id, v)
         /\ \A s \in DOMAIN sn :
              Objects([tb EXCEPT !.cells[PtrAt(a, id)].val = v], sn[s]) = Objects(tb, sn[s])
<1> DEFINE p == PtrAt(a, id)
           t == [tb EXCEPT !.cells[p].val = v]
           n == Len(tb.cells)
<1>1. /\ TableOK(tb) /\ n \in Nat /\ DOMAIN tb.cells = 1 .. n
      /\ ArenaOK(a, n) /\ \A s \in DOMAIN sn : ArenaOK(sn[s], n)
  BY OwnedParts
<1>2. p \in 1 .. n /\ p \in Ptrs(a)
  BY <1>1, NameFacts
<1> HIDE DEF p
<1>3. /\ t.cells[p] = [refs |-> tb.cells[p].refs, val |-> v]
      /\ \A q \in 1 .. n : q # p => t.cells[q] = tb.cells[q]
  <2>1. p \in DOMAIN tb.cells
    BY <1>1, <1>2
  <2>2. /\ t.cells[p] = [refs |-> tb.cells[p].refs, val |-> v]
        /\ \A q \in DOMAIN tb.cells : q # p => t.cells[q] = tb.cells[q]
    BY <1>1, <2>1, WriteFacts, ZenonT(30)
  <2> HIDE DEF t
  <2>3. QED
    BY <1>1, <2>2
<1> HIDE DEF t
<1>4. \A s \in DOMAIN sn : p \notin Ptrs(sn[s])
  BY <1>1, <1>2, HolderFacts DEF p
<1>5. \A s \in DOMAIN sn : Objects(t, sn[s]) = Objects(tb, sn[s])
  <2>1. ASSUME NEW s \in DOMAIN sn, NEW q \in 1 .. n, q \in Ptrs(sn[s])
        PROVE  t.cells[q].val = tb.cells[q].val
    BY <1>3, <1>4, <2>1
  <2> HIDE DEF n
  <2>2. QED
    BY <1>1, <2>1, SameObjects
<1>6. \A x \in Names(a) : x # id => t.cells[PtrAt(a, x)].val = tb.cells[PtrAt(a, x)].val
  <2>1. SUFFICES ASSUME NEW x \in Names(a), x # id
                 PROVE  t.cells[PtrAt(a, x)].val = tb.cells[PtrAt(a, x)].val
    OBVIOUS
  <2>2. PtrAt(a, x) \in 1 .. n
    BY <1>1, NameFacts
  <2>3. PtrAt(a, x) # p
    BY <1>1, <2>1, NamesDiffer DEF p
  <2>4. QED
    BY <1>3, <2>2, <2>3
<1>7. t.cells[PtrAt(a, id)].val = v
  BY <1>3 DEF p
<1>8. Objects(t, a) = With(Objects(tb, a), id, v)
  BY <1>6, <1>7 DEF Objects, With
<1>9. QED
  BY <1>5, <1>8 DEF t, p

(* get_mut, when something else refers to the object. *)
LEMMA WriteCopyObjects ==
  ASSUME NEW tb, NEW a, NEW sn, NEW m, NEW lk, OwnedInv(tb, a, sn, m, lk),
         NEW id \in Names(a), NEW v \in Value, HasRoom(tb)
  PROVE  /\ Objects(DropPtr(AddItem(tb, v), PtrAt(a, id)), Retarget(a, id[1], NextCell(tb)))
              = With(Objects(tb, a), id, v)
         /\ \A s \in DOMAIN sn :
              Objects(DropPtr(AddItem(tb, v), PtrAt(a, id)), sn[s]) = Objects(tb, sn[s])
<1> DEFINE p == PtrAt(a, id)
           r == NextCell(tb)
           u == AddItem(tb, v)
           t == DropPtr(u, p)
           i == id[1]
           b == Retarget(a, i, r)
           n == Len(tb.cells)
           k == Len(u.cells)
<1>1. /\ TableOK(tb) /\ n \in Nat /\ DOMAIN tb.cells = 1 .. n
      /\ ArenaOK(a, n) /\ \A s \in DOMAIN sn : ArenaOK(sn[s], n)
  BY OwnedParts
<1>2. /\ TableOK(u) /\ k >= n
      /\ DOMAIN u.cells = 1 .. n \cup {r}
      /\ u.cells[r] = [refs |-> 1, val |-> v]
      /\ \A q \in 1 .. n : q # r => u.cells[q] = tb.cells[q]
      /\ r \in 1 .. n => tb.cells[r].refs = 0
  BY <1>1, AddFacts
<1>3. k \in Nat /\ DOMAIN u.cells = 1 .. k /\ r \in 1 .. k
  BY <1>2, TableTypes
<1>4. /\ p \in 1 .. n /\ p \in Ptrs(a) /\ i \in Filled(a)
      /\ p = a.slots[i].ptr /\ id = Name(a, i) /\ id \in Id
  BY <1>1, NameFacts
<1> HIDE DEF u, k, r, p
<1>5. ASSUME NEW q \in 1 .. n, q \in Ptrs(a) \/ \E s \in DOMAIN sn : q \in Ptrs(sn[s])
      PROVE  q # r /\ u.cells[q] = tb.cells[q]
  <2>1. tb.cells[q].refs > 0
    BY <1>1, <1>5, HolderFacts
  <2>2. QED
    BY <1>2, <2>1
<1>6. r \notin Ptrs(a)
  <2>1. CASE r \in 1 .. n
    BY <1>5, <2>1
  <2>2. CASE r \notin 1 .. n
    <3>1. r \notin 0 .. n
      BY <1>1, <1>3, <2>2
    <3> HIDE DEF n
    <3>2. QED
      BY <1>1, <3>1, PtrsAreCells
  <2>3. QED
    BY <2>1, <2>2
<1>7. p # r /\ p \in DOMAIN u.cells /\ u.cells[p].refs > 0
  <2>1. tb.cells[p].refs > 0
    BY <1>1, <1>4, HolderFacts
  <2>2. QED
    BY <1>2, <1>4, <1>5, <2>1
<1>8. /\ t.cells[p] = [refs |-> u.cells[p].refs - 1, val |-> u.cells[p].val]
      /\ \A q \in DOMAIN u.cells : q # p => t.cells[q] = u.cells[q]
  BY <1>2, <1>7, DropFacts
<1> HIDE DEF t
<1>9. ASSUME NEW q \in 1 .. n, q \in Ptrs(a) \/ \E s \in DOMAIN sn : q \in Ptrs(sn[s])
      PROVE  t.cells[q].val = tb.cells[q].val
  <2>1. q # r /\ u.cells[q] = tb.cells[q] /\ q \in DOMAIN u.cells
    BY <1>2, <1>5, <1>9
  <2>2. CASE q = p
    BY <1>8, <2>1, <2>2
  <2>3. CASE q # p
    BY <1>8, <2>1, <2>3
  <2>4. QED
    BY <2>2, <2>3
<1>10. \A s \in DOMAIN sn : Objects(t, sn[s]) = Objects(tb, sn[s])
  <2> HIDE DEF n
  <2>1. QED
    BY <1>1, <1>9, SameObjects
<1>11. t.cells[r].val = v
  BY <1>2, <1>7, <1>8
<1>12. /\ ArenaOK(b, k)
       /\ DOMAIN b.slots = DOMAIN a.slots
       /\ b.slots[i] = [ptr |-> r, gen |-> a.slots[i].gen]
       /\ \A j \in DOMAIN a.slots : j # i => b.slots[j] = a.slots[j]
  <2>1. i \in DOMAIN a.slots /\ a.slots[i].ptr # Nil
    BY <1>4 DEF Filled
  <2> HIDE DEF n
  <2>2. ArenaOK(a, k)
    BY <1>1, <1>2, <1>3, ArenaGrows
  <2> HIDE DEF i
  <2>3. QED
    BY <1>3, <1>6, <2>1, <2>2, RetargetFacts
<1> HIDE DEF b
<1>13. 1 .. Len(b.slots) = 1 .. Len(a.slots) /\ DOMAIN a.slots = 1 .. Len(a.slots)
  BY <1>1, <1>3, <1>12, ArenaTypes
<1>14. ASSUME NEW x \in Id, x # id
       PROVE  PtrAt(b, x) = PtrAt(a, x)
  <2>1. CASE x[1] # i
    <3>1. /\ x[1] \in 1 .. Len(b.slots) <=> x[1] \in 1 .. Len(a.slots)
          /\ x[1] \in 1 .. Len(a.slots) => b.slots[x[1]] = a.slots[x[1]]
      BY <1>12, <1>13, <2>1
    <3>2. QED
      BY <3>1, OtherSlots, Zenon
  <2>2. CASE x[1] = i
    <3>1. x[2] # a.slots[i].gen
      BY <1>4, <1>14, <2>2 DEF Id, Name
    <3>2. PtrAt(b, x) = Nil /\ PtrAt(a, x) = Nil
      BY <1>12, <2>2, <3>1 DEF PtrAt
    <3>3. QED
      BY <3>2
  <2>3. QED
    BY <2>1, <2>2
<1>15. PtrAt(b, id) = r
  <2>1. id[2] = a.slots[i].gen
    BY <1>4 DEF Name
  <2>2. i \in 1 .. Len(b.slots)
    BY <1>4, <1>13 DEF Filled
  <2>3. r # Nil
    BY <1>3 DEF Nil
  <2>4. QED
    BY <1>12, <2>1, <2>2, <2>3 DEF PtrAt
<1>16. r # Nil
  BY <1>3 DEF Nil
<1>17. Names(b) = Names(a)
  BY <1>14, <1>15, <1>16 DEF Names
<1>18. ASSUME NEW x \in Names(a), x # id
       PROVE  t.cells[PtrAt(b, x)].val = tb.cells[PtrAt(a, x)].val
  <2>1. PtrAt(a, x) \in 1 .. n /\ PtrAt(a, x) \in Ptrs(a) /\ x \in Id
    BY <1>1, NameFacts
  <2>2. QED
    BY <1>9, <1>14, <1>18, <2>1
<1>19. t.cells[PtrAt(b, id)].val = v
  BY <1>11, <1>15
<1> HIDE DEF i
<1>20. Objects(t, b) = With(Objects(tb, a), id, v)
  BY <1>17, <1>18, <1>19 DEF Objects, With
<1>21. QED
  BY <1>10, <1>20 DEF t, b, u, p, r, i

(* remove and pop *)
LEMMA RemoveObjects ==
  ASSUME NEW tb, NEW a, NEW sn, NEW m, NEW lk, OwnedInv(tb, a, sn, m, lk),
         NEW id \in Names(a), a.gen < MaxGen
  PROVE  /\ Objects(DropPtr(tb, PtrAt(a, id)), ArenaRemove(a, id))
              = Without(Objects(tb, a), id)
         /\ \A s \in DOMAIN sn :
              Objects(DropPtr(tb, PtrAt(a, id)), sn[s]) = Objects(tb, sn[s])
<1> DEFINE p == PtrAt(a, id)
           t == DropPtr(tb, p)
           i == id[1]
           b == ArenaRemove(a, id)
           n == Len(tb.cells)
<1>1. /\ TableOK(tb) /\ n \in Nat /\ DOMAIN tb.cells = 1 .. n
      /\ ArenaOK(a, n) /\ \A s \in DOMAIN sn : ArenaOK(sn[s], n)
  BY OwnedParts
<1>2. /\ p \in 1 .. n /\ p \in Ptrs(a) /\ i \in Filled(a)
      /\ p = a.slots[i].ptr /\ id = Name(a, i) /\ id \in Id
  BY <1>1, NameFacts
<1>3. tb.cells[p].refs > 0
  BY <1>1, <1>2, HolderFacts
<1>4. \A q \in 1 .. n : t.cells[q].val = tb.cells[q].val
  <2> HIDE DEF p
  <2>1. /\ t.cells[p] = [refs |-> tb.cells[p].refs - 1, val |-> tb.cells[p].val]
        /\ \A q \in DOMAIN tb.cells : q # p => t.cells[q] = tb.cells[q]
    <3>1. p \in DOMAIN tb.cells
      BY <1>1, <1>2, Zenon
    <3>2. QED
      BY <1>1, <1>3, <3>1, DropFacts, ZenonT(30)
  <2> HIDE DEF t
  <2>2. ASSUME NEW q \in 1 .. n
        PROVE  t.cells[q].val = tb.cells[q].val
    <3>1. CASE q = p
      BY <2>1, <3>1
    <3>2. CASE q # p
      BY <1>1, <2>1, <3>2
    <3>3. QED
      BY <3>1, <3>2
  <2>3. QED
    BY <2>2
<1> HIDE DEF t
<1>5. \A s \in DOMAIN sn : Objects(t, sn[s]) = Objects(tb, sn[s])
  <2> HIDE DEF n
  <2>1. QED
    BY <1>1, <1>4, SameObjects
<1>6. /\ ArenaOK(b, n)
      /\ DOMAIN b.slots = DOMAIN a.slots
      /\ b.slots[i] = EmptySlot
      /\ \A j \in DOMAIN a.slots : j # i => b.slots[j] = a.slots[j]
  <2>1. i \in DOMAIN a.slots /\ a.slots[i].ptr # Nil
    BY <1>2 DEF Filled
  <2>2. QED
    BY <1>1, <2>1, ArenaRemoveFacts
<1> HIDE DEF b
<1>7. 1 .. Len(b.slots) = 1 .. Len(a.slots) /\ DOMAIN a.slots = 1 .. Len(a.slots)
  BY <1>1, <1>6, ArenaTypes
<1>8. \A x \in Id : x[1] = i => PtrAt(b, x) = Nil
  BY <1>6 DEF PtrAt, EmptySlot, Nil
<1>9. ASSUME NEW x \in Id, x[1] # i
      PROVE  PtrAt(b, x) = PtrAt(a, x)
  <2>1. /\ x[1] \in 1 .. Len(b.slots) <=> x[1] \in 1 .. Len(a.slots)
        /\ x[1] \in 1 .. Len(a.slots) => b.slots[x[1]] = a.slots[x[1]]
    BY <1>6, <1>7, <1>9
  <2>2. QED
    BY <2>1, OtherSlots, Zenon
<1>10. \A x \in Names(a) : x[1] = i => x = id
  BY <1>1, NamesDiffer
<1>11. Names(b) = Names(a) \ {id}
  BY <1>2, <1>8, <1>9, <1>10 DEF Names
<1>12. ASSUME NEW x \in Names(a), x # id
       PROVE  t.cells[PtrAt(b, x)].val = tb.cells[PtrAt(a, x)].val
  <2>1. PtrAt(a, x) \in 1 .. n /\ x \in Id
    BY <1>1, NameFacts
  <2>2. PtrAt(b, x) = PtrAt(a, x)
    BY <1>9, <1>10, <1>12, <2>1
  <2>3. QED
    BY <1>4, <2>1, <2>2
<1> HIDE DEF i
<1>13. Objects(t, b) = Without(Objects(tb, a), id)
  BY <1>11, <1>12 DEF Objects, Without
<1>14. QED
  BY <1>5, <1>13 DEF t, b, p

(* The names of the first k objects, in the order of their slots. *)
FirstNames(a, k) == {x \in Names(a) : \E m \in 1 .. k : x[1] = InOrder(Filled(a))[m]}

LEMMA FirstNamesCount ==
  ASSUME NEW a, NEW n \in Nat, ArenaOK(a, n), NEW k \in 0 .. Cardinality(Filled(a))
  PROVE  Cardinality(FirstNames(a, k)) = k
<1> DEFINE F == Filled(a)
           c == Cardinality(F)
           o == InOrder(F)
           X == FirstNames(a, k)
           f == [m \in 1 .. k |-> Name(a, o[m])]
<1>1. /\ c \in Nat /\ k \in Nat /\ \A m \in 1 .. k : m \in 1 .. c
      /\ \A m \in 1 .. c : o[m] \in F
      /\ \A l, m \in 1 .. c : o[l] = o[m] => l = m
  <2>1. Len(a.slots) \in Nat /\ DOMAIN a.slots = 1 .. Len(a.slots)
    BY ArenaTypes, SpaceTimeAssumption
  <2>2. F \in SUBSET (1 .. Len(a.slots))
    BY <2>1 DEF Filled
  <2> HIDE DEF F
  <2>3. /\ c \in 0 .. Len(a.slots) /\ o \in [1 .. c -> F]
        /\ \A l, m \in 1 .. c : o[l] = o[m] => l = m
    BY <2>1, <2>2, InOrderFacts
  <2>4. c \in Nat /\ k \in 0 .. c
    BY <2>1, <2>3 DEF F
  <2> HIDE DEF c, o
  <2>5. QED
    BY <2>3, <2>4
<1>2. \A m \in 1 .. c : Name(a, o[m]) \in Names(a) /\ Name(a, o[m])[1] = o[m]
  BY <1>1, NameFacts
<1>3. \A m \in 1 .. k : Name(a, o[m]) \in X
  BY <1>1, <1>2 DEF FirstNames
<1>4. \A l, m \in 1 .. k : Name(a, o[l]) = Name(a, o[m]) => l = m
  <2>1. SUFFICES ASSUME NEW l \in 1 .. k, NEW m \in 1 .. k, Name(a, o[l]) = Name(a, o[m])
                 PROVE  l = m
    OBVIOUS
  <2>2. o[l] = o[m]
    BY <1>1, <1>2, <2>1
  <2>3. QED
    BY <1>1, <2>2
<1>5. \A x \in X : \E m \in 1 .. k : Name(a, o[m]) = x
  BY NameFacts DEF FirstNames
<1> HIDE DEF X, o, c, F
<1>6. f \in [1 .. k -> X]
  BY <1>3
<1>7. \A l, m \in 1 .. k : f[l] = f[m] => l = m
  BY <1>4
<1>8. \A x \in X : \E m \in 1 .. k : f[m] = x
  BY <1>5
<1> HIDE DEF f
<1>9. f \in Injection(1 .. k, X) /\ f \in Surjection(1 .. k, X)
  BY <1>6, <1>7, <1>8, Fun_IsInj, Fun_IsSurj
<1>10. IsFiniteSet(1 .. k) /\ Cardinality(1 .. k) = k
  BY <1>1, FS_Interval
<1>11. Cardinality(X) = Cardinality(1 .. k)
  <2>1. f \in Bijection(1 .. k, X)
    BY <1>9 DEF Bijection
  <2>2. QED
    BY <1>10, <2>1, FS_Bijection DEF ExistsBijection
<1>12. QED
  BY <1>10, <1>11 DEF X

(* A dictionary without gaps in its names, as SnapshotStore has it. *)
Rank(w, x) == Cardinality({y \in DOMAIN w : y[1] <= x[1]})
CompactOf(w) ==
  [k \in (1 .. Cardinality(DOMAIN w)) \X {0} |-> w[CHOOSE x \in DOMAIN w : Rank(w, x) = k[1]]]

(* A name's rank is the place of its slot among those in use. *)
LEMMA Ranks ==
  ASSUME NEW a, NEW n \in Nat, ArenaOK(a, n), NEW w, DOMAIN w = Names(a)
  PROVE  LET c == Cardinality(Filled(a))
             o == InOrder(Filled(a))
         IN  /\ Cardinality(DOMAIN w) = c
             /\ \A k \in 1 .. c : (CHOOSE x \in DOMAIN w : Rank(w, x) = k) = Name(a, o[k])
<1> DEFINE F == Filled(a)
           c == Cardinality(F)
           o == InOrder(F)
<1>1. /\ c \in Nat
      /\ \A m \in 1 .. c : o[m] \in F /\ o[m] \in Int
      /\ \A l, m \in 1 .. c : l < m => o[l] < o[m]
      /\ \A i \in F : \E m \in 1 .. c : o[m] = i
  <2>1. Len(a.slots) \in Nat /\ DOMAIN a.slots = 1 .. Len(a.slots)
    BY ArenaTypes, SpaceTimeAssumption
  <2>2. F \in SUBSET (1 .. Len(a.slots))
    BY <2>1 DEF Filled
  <2> HIDE DEF F
  <2>3. /\ c \in 0 .. Len(a.slots) /\ o \in [1 .. c -> F]
        /\ \A l, m \in 1 .. c : l < m => o[l] < o[m]
        /\ \A i \in F : \E m \in 1 .. c : o[m] = i
    BY <2>1, <2>2, InOrderFacts DEF Increasing
  <2> HIDE DEF o, c
  <2>4. c \in Nat /\ \A m \in 1 .. c : o[m] \in F
    BY <2>1, <2>3
  <2>5. \A i \in F : i \in Int
    BY <2>1, <2>2
  <2>6. QED
    BY <2>3, <2>4, <2>5
<1>2. /\ \A x \in Names(a) : x[1] \in F /\ x = Name(a, x[1])
      /\ \A i \in F : Name(a, i) \in Names(a) /\ Name(a, i)[1] = i
  BY NameFacts
<1>3. \A k \in 0 .. c : Cardinality(FirstNames(a, k)) = k
  BY FirstNamesCount
<1>4. FirstNames(a, c) = Names(a)
  BY <1>1, <1>2 DEF FirstNames
<1>5. Cardinality(DOMAIN w) = c
  <2>1. c \in 0 .. c
    BY <1>1
  <2> HIDE DEF c
  <2>2. QED
    BY <1>3, <1>4, <2>1
<1>6. ASSUME NEW x \in Names(a), NEW m \in 1 .. c, x[1] = o[m]
      PROVE  Rank(w, x) = m
  <2>1. {y \in DOMAIN w : y[1] <= x[1]} = FirstNames(a, m)
    <3>1. ASSUME NEW y \in Names(a), NEW l \in 1 .. c, y[1] = o[l]
          PROVE  y[1] <= x[1] <=> l \in 1 .. m
      <4>1. /\ o[l] \in Int /\ o[m] \in Int /\ l \in Int /\ m \in Int
            /\ l < m => o[l] < o[m]
            /\ m < l => o[m] < o[l]
        BY <1>1, <1>6, <3>1
      <4>2. l = m => o[l] = o[m]
        OBVIOUS
      <4>3. l <= m <=> o[l] <= o[m]
        BY <4>1, <4>2
      <4>4. l \in 1 .. m <=> l <= m
        BY <1>1
      <4>5. QED
        BY <1>6, <3>1, <4>3, <4>4
    <3>2. \A l \in 1 .. m : l \in 1 .. c
      BY <1>1
    <3> HIDE DEF F, c, o
    <3>3. ASSUME NEW y \in Names(a)
          PROVE  y[1] <= x[1] <=> \E l \in 1 .. m : y[1] = o[l]
      <4>1. PICK l \in 1 .. c : y[1] = o[l]
        BY <1>1, <1>2
      <4>2. y[1] <= x[1] <=> l \in 1 .. m
        BY <3>1, <4>1
      <4>3. ASSUME NEW k \in 1 .. m, y[1] = o[k]
            PROVE  y[1] <= x[1]
        BY <3>1, <3>2, <4>3
      <4>4. QED
        BY <4>1, <4>2, <4>3
    <3>4. QED
      BY <3>3 DEF FirstNames, o, F
  <2>2. m \in 0 .. c
    BY <1>1
  <2>3. QED
    BY <1>3, <2>1, <2>2 DEF Rank
<1>7. ASSUME NEW k \in 1 .. c
      PROVE  (CHOOSE x \in DOMAIN w : Rank(w, x) = k) = Name(a, o[k])
  <2>1. Name(a, o[k]) \in Names(a) /\ Name(a, o[k])[1] = o[k]
    BY <1>1, <1>2
  <2>2. Rank(w, Name(a, o[k])) = k
    BY <1>6, <2>1
  <2>3. ASSUME NEW x \in Names(a), Rank(w, x) = k
        PROVE  x = Name(a, o[k])
    <3>1. PICK m \in 1 .. c : o[m] = x[1]
      BY <1>1, <1>2
    <3>2. m = k
      BY <1>6, <2>3, <3>1
    <3>3. QED
      BY <1>2, <3>1, <3>2
  <2> HIDE DEF c, o
  <2>4. QED
    BY <2>1, <2>2, <2>3
<1>8. QED
  BY <1>5, <1>7

(* make_snapshot keeps the objects, and renames them. *)
LEMMA CloneObjects ==
  ASSUME NEW a, NEW n \in Nat, ArenaOK(a, n), NEW t, NEW u,
         \A p \in 1 .. n : p \in Ptrs(a) => t.cells[p].val = u.cells[p].val
  PROVE  Objects(t, CloneArena(a)) = CompactOf(Objects(u, a))
<1> DEFINE c == Cardinality(Filled(a))
           o == InOrder(Filled(a))
           b == CloneArena(a)
           w == Objects(u, a)
<1>1. /\ c \in 0 .. MaxSlots /\ Len(Pointers(a)) = c
      /\ \A k \in 1 .. c : o[k] \in Filled(a) /\ Pointers(a)[k] = a.slots[o[k]].ptr
  BY PointersFacts
<1>2. DOMAIN w = Names(a) /\ \A x \in Names(a) : w[x] = u.cells[PtrAt(a, x)].val
  BY DEF Objects
<1>3. /\ Cardinality(DOMAIN w) = c
      /\ \A k \in 1 .. c : (CHOOSE x \in DOMAIN w : Rank(w, x) = k) = Name(a, o[k])
  <2> HIDE DEF w
  <2>1. QED
    BY <1>2, Ranks
<1>4. ASSUME NEW k \in 1 .. c
      PROVE  /\ Name(a, o[k]) \in Names(a)
             /\ PtrAt(a, Name(a, o[k])) = Pointers(a)[k]
             /\ Pointers(a)[k] \in 1 .. n /\ Pointers(a)[k] \in Ptrs(a)
  <2>1. /\ Name(a, o[k]) \in Names(a) /\ PtrAt(a, Name(a, o[k])) = Pointers(a)[k]
    BY <1>1, NameFacts
  <2>2. QED
    BY <2>1, NameFacts
<1> HIDE DEF c, o
<1>5. b.slots = [i \in 1 .. c |-> [ptr |-> Pointers(a)[i], gen |-> 0]]
  BY <1>1 DEF CloneArena, Collect
<1>6. Len(b.slots) = c /\ c \in Nat /\ \A k \in 1 .. c : k \in 1 .. MaxSlots
  BY <1>1, <1>5, SpaceTimeAssumption
<1> HIDE DEF b
<1>7. ASSUME NEW x \in (1 .. c) \X {0}
      PROVE  x \in Names(b) /\ PtrAt(b, x) = Pointers(a)[x[1]]
  <2>1. x[1] \in 1 .. c /\ x[2] = 0 /\ x \in Id
    BY <1>6, <1>7, SpaceTimeAssumption DEF Id
  <2>2. b.slots[x[1]] = [ptr |-> Pointers(a)[x[1]], gen |-> 0] /\ Pointers(a)[x[1]] # Nil
    BY <1>4, <1>5, <2>1 DEF Nil
  <2>3. PtrAt(b, x) = Pointers(a)[x[1]]
    BY <1>6, <2>1, <2>2 DEF PtrAt
  <2>4. QED
    BY <2>1, <2>2, <2>3 DEF Names
<1>8. ASSUME NEW x \in Names(b)
      PROVE  x \in (1 .. c) \X {0}
  <2>1. x \in Id /\ x[1] \in 1 .. c /\ b.slots[x[1]].gen = x[2]
    BY <1>6, <1>8 DEF Names, PtrAt
  <2>2. x[2] = 0
    BY <1>5, <2>1
  <2>3. QED
    BY <2>1, <2>2 DEF Id
<1>9. Names(b) = (1 .. c) \X {0}
  BY <1>7, <1>8
<1>10. ASSUME NEW x \in (1 .. c) \X {0}
       PROVE  t.cells[PtrAt(b, x)].val = w[CHOOSE y \in DOMAIN w : Rank(w, y) = x[1]]
  <2>1. x[1] \in 1 .. c
    BY <1>10
  <2>2. PtrAt(b, x) = Pointers(a)[x[1]]
    BY <1>7, <1>10
  <2>3. (CHOOSE y \in DOMAIN w : Rank(w, y) = x[1]) = Name(a, o[x[1]])
    BY <1>3, <2>1
  <2>4. w[Name(a, o[x[1]])] = u.cells[Pointers(a)[x[1]]].val
    BY <1>2, <1>4, <2>1
  <2>5. t.cells[Pointers(a)[x[1]]].val = u.cells[Pointers(a)[x[1]]].val
    BY <1>4, <2>1
  <2>6. QED
    BY <2>2, <2>3, <2>4, <2>5
<1> HIDE DEF w
<1>11. Objects(t, b) = CompactOf(w)
  BY <1>3, <1>9, <1>10 DEF Objects, CompactOf
<1>12. QED
  BY <1>11 DEF b, w

(* The state of SnapshotStore that a state of SpaceTime stands for. *)
Work  == Contents(HeadArena)
Saved == [s \in DOMAIN snaps |-> Contents(snaps[s])]
At    == IF head.kind = "checkout" THEN head.id ELSE 0

LEMMA Mapping ==
  /\ Work = Objects(table, HeadArena)
  /\ Saved = [s \in DOMAIN snaps |-> Objects(table, snaps[s])]
  /\ Work' = Objects(table', HeadArena')
  /\ Saved' = [s \in DOMAIN snaps' |-> Objects(table', snaps'[s])]
<1>1. Contents(HeadArena) = Objects(table, HeadArena)
  BY DEF Contents, Objects, Names
<1>2. Contents(HeadArena)' = Objects(table', HeadArena')
  BY DEF Contents, Objects, Names
<1>3. Saved = [s \in DOMAIN snaps |-> Objects(table, snaps[s])]
  BY DEF Saved, Contents, Objects, Names
<1>4. Saved' = [s \in DOMAIN snaps' |-> Objects(table', snaps'[s])]
  BY DEF Saved, Contents, Objects, Names
<1>5. QED
  BY <1>1, <1>2, <1>3, <1>4 DEF Work

LEMMA NextDirty ==
  ASSUME NEW b, head' = Dirty(b)
  PROVE  HeadArena' = b /\ At' = 0
BY DEF Dirty, HeadArena, At

LEMMA NextClean ==
  ASSUME NEW s, head' = Checkedout(s)
  PROVE  HeadArena' = snaps'[s] /\ At' = s
BY DEF Checkedout, HeadArena, At

LEMMA SavedKept ==
  ASSUME UNCHANGED snaps,
         \A s \in DOMAIN snaps : Objects(table', snaps[s]) = Objects(table, snaps[s])
  PROVE  Saved' = Saved
BY Mapping

(* A method that writes to HEAD, once HEAD is its own. *)
LEMMA OwnedWork ==
  ASSUME StoreInv
  PROVE  /\ Objects(OwnTable(table), OwnArena) = Work
         /\ DOMAIN Work = Names(OwnArena)
         /\ \A s \in DOMAIN snaps : Objects(OwnTable(table), snaps[s]) = Objects(table, snaps[s])
<1>1. /\ Objects(OwnTable(table), OwnArena) = Objects(table, HeadArena)
      /\ \A s \in DOMAIN snaps : Objects(OwnTable(table), snaps[s]) = Objects(table, snaps[s])
  BY OwnedObjects
<1>2. DOMAIN Objects(OwnTable(table), OwnArena) = Names(OwnArena)
  BY DEF Objects
<1>3. QED
  BY <1>1, <1>2, Mapping

LEMMA InsertRefines ==
  ASSUME StoreInv, NEW v \in Value, Insert(v)
  PROVE  Store!Insert(v)
<1> DEFINE tb == OwnTable(table)
           a  == OwnArena
<1>1. OwnedInv(tb, a, snaps, made, leaked)
  BY Owned
<1>2. /\ table' = AddItem(tb, v)
      /\ head' = Dirty(ArenaInsert(a, NextCell(tb)))
      /\ HasRoom(tb)
      /\ a.free # <<>> \/ Len(a.slots) < MaxSlots
      /\ UNCHANGED <<snaps, made, leaked>>
  BY InsertOwned
<1>3. /\ Objects(tb, a) = Work /\ DOMAIN Work = Names(a)
      /\ \A s \in DOMAIN snaps : Objects(tb, snaps[s]) = Objects(table, snaps[s])
  BY OwnedWork
<1> HIDE DEF tb, a
<1>4. PICK id \in Id \ Names(a) :
        Objects(AddItem(tb, v), ArenaInsert(a, NextCell(tb))) = With(Objects(tb, a), id, v)
  BY <1>1, <1>2, InsertObjects
<1>5. \A s \in DOMAIN snaps : Objects(AddItem(tb, v), snaps[s]) = Objects(tb, snaps[s])
  BY <1>1, <1>2, InsertObjects
<1>6. HeadArena' = ArenaInsert(a, NextCell(tb)) /\ At' = 0
  BY <1>2, NextDirty
<1>7. Work' = With(Work, id, v)
  BY <1>2, <1>3, <1>4, <1>6, Mapping
<1>8. Saved' = Saved
  BY <1>2, <1>3, <1>5, SavedKept
<1>9. id \in Id \ DOMAIN Work
  BY <1>3, <1>4
<1>10. QED
  BY <1>2, <1>6, <1>7, <1>8, <1>9
  DEF Store!Insert, Store!With, Store!None, With, Work, Saved, At

LEMMA BadIdRefines ==
  ASSUME StoreInv, NEW id, BadId(id)
  PROVE  Store!Miss
<1>1. table' = OwnTable(table) /\ head' = Dirty(OwnArena) /\ UNCHANGED <<snaps, made, leaked>>
  BY DEF BadId
<1>2. HeadArena' = OwnArena /\ At' = 0
  BY <1>1, NextDirty
<1>3. Work' = Work /\ Saved' = Saved
  BY <1>1, <1>2, OwnedWork, Mapping, SavedKept
<1>4. QED
  BY <1>1, <1>2, <1>3 DEF Store!Miss, Store!None, Work, Saved, At

LEMMA WriteRefines ==
  ASSUME StoreInv, NEW id \in Id, NEW v \in Value, Write(id, v)
  PROVE  Store!Write(id, v)
<1> DEFINE tb == OwnTable(table)
           a  == OwnArena
           p  == PtrAt(a, id)
<1>1. OwnedInv(tb, a, snaps, made, leaked)
  BY Owned
<1>2. TableOK(tb) /\ ArenaOK(a, Len(tb.cells)) /\ Len(tb.cells) \in Nat
      /\ DOMAIN tb.cells = 1 .. Len(tb.cells)
  BY <1>1, OwnedParts
<1>3. p # Nil /\ UNCHANGED <<snaps, made, leaked>>
  BY DEF Write
<1>4. id \in Names(a)
  BY <1>3 DEF Names
<1>5. /\ Objects(tb, a) = Work /\ DOMAIN Work = Names(a)
      /\ \A s \in DOMAIN snaps : Objects(tb, snaps[s]) = Objects(table, snaps[s])
  BY OwnedWork
<1>6. Work' = With(Work, id, v) /\ Saved' = Saved /\ At' = 0
  <2>1. CASE IsUnique(tb, p)
    <3>1. table' = [tb EXCEPT !.cells[p].val = v] /\ head' = Dirty(a)
      BY <2>1 DEF Write
    <3>2. tb.cells[p].refs = 1
      BY <2>1 DEF IsUnique, Refs
    <3> HIDE DEF tb, a
    <3>3. /\ Objects(table', a) = With(Objects(tb, a), id, v)
          /\ \A s \in DOMAIN snaps : Objects(table', snaps[s]) = Objects(tb, snaps[s])
      BY <1>1, <1>4, <3>1, <3>2, WriteHereObjects
    <3>4. HeadArena' = a /\ At' = 0
      BY <3>1, NextDirty
    <3>5. Work' = With(Work, id, v)
      BY <1>5, <3>3, <3>4, Mapping
    <3>6. QED
      BY <1>3, <1>5, <3>3, <3>4, <3>5, SavedKept
  <2>2. CASE ~ IsUnique(tb, p)
    <3> DEFINE b == Retarget(a, id[1], NextCell(tb))
    <3>1. HasRoom(tb) /\ table' = DropPtr(AddItem(tb, v), p) /\ head' = Dirty(b)
      BY <2>2 DEF Write, Retarget
    <3> HIDE DEF tb, a
    <3>2. /\ Objects(table', b) = With(Objects(tb, a), id, v)
          /\ \A s \in DOMAIN snaps : Objects(table', snaps[s]) = Objects(tb, snaps[s])
      BY <1>1, <1>4, <3>1, WriteCopyObjects
    <3> HIDE DEF b
    <3>3. HeadArena' = b /\ At' = 0
      BY <3>1, NextDirty
    <3>4. Work' = With(Work, id, v)
      BY <1>5, <3>2, <3>3, Mapping
    <3>5. QED
      BY <1>3, <1>5, <3>2, <3>3, <3>4, SavedKept
  <2>3. QED
    BY <2>1, <2>2
<1>7. QED
  BY <1>3, <1>4, <1>5, <1>6 DEF Store!Write, Store!With, Store!None, With, Work, Saved, At

LEMMA RemoveRefines ==
  ASSUME StoreInv, NEW id \in Id, Remove(id)
  PROVE  Store!Remove(id)
<1> DEFINE tb == OwnTable(table)
           a  == OwnArena
           p  == PtrAt(a, id)
           b  == ArenaRemove(a, id)
<1>1. OwnedInv(tb, a, snaps, made, leaked)
  BY Owned
<1>2. /\ p # Nil /\ a.gen < MaxGen /\ UNCHANGED <<snaps, made, leaked>>
      /\ table' = DropPtr(tb, p) /\ head' = Dirty(b)
  BY DEF Remove
<1>3. id \in Names(a)
  BY <1>2 DEF Names
<1>4. /\ Objects(tb, a) = Work /\ DOMAIN Work = Names(a)
      /\ \A s \in DOMAIN snaps : Objects(tb, snaps[s]) = Objects(table, snaps[s])
  BY OwnedWork
<1> HIDE DEF tb, a
<1>5. /\ Objects(table', b) = Without(Objects(tb, a), id)
      /\ \A s \in DOMAIN snaps : Objects(table', snaps[s]) = Objects(tb, snaps[s])
  BY <1>1, <1>2, <1>3, RemoveObjects
<1> HIDE DEF b
<1>6. HeadArena' = b /\ At' = 0
  BY <1>2, NextDirty
<1>7. Work' = Without(Work, id) /\ Saved' = Saved
  BY <1>2, <1>4, <1>5, <1>6, Mapping, SavedKept
<1>8. QED
  BY <1>2, <1>3, <1>4, <1>6, <1>7
  DEF Store!Remove, Store!Without, Store!None, Without, Work, Saved, At

(* HEAD's arena, its own or a snapshot's. *)
LEMMA HeadArenaFacts ==
  ASSUME StoreInv
  PROVE  /\ ArenaOK(HeadArena, Len(table.cells))
         /\ \A p \in DOMAIN table.cells : p \in Ptrs(HeadArena) => table.cells[p].refs > 0
<1>1. OwnedInv(table, head.arena, snaps, made, leaked)
  BY DEF StoreInv
<1>2. /\ ArenaOK(head.arena, Len(table.cells))
      /\ \A s \in DOMAIN snaps : ArenaOK(snaps[s], Len(table.cells))
  BY <1>1, OwnedParts
<1>3. \A p \in DOMAIN table.cells :
        /\ p \in Ptrs(head.arena) => table.cells[p].refs > 0
        /\ \A s \in DOMAIN snaps : p \in Ptrs(snaps[s]) => table.cells[p].refs > 0
  BY <1>1, HolderFacts
<1>4. HeadArena = head.arena \/ \E s \in DOMAIN snaps : HeadArena = snaps[s]
  BY HeadCases
<1>5. QED
  BY <1>2, <1>3, <1>4

LEMMA MakeSnapshotRefines ==
  ASSUME StoreInv, MakeSnapshot
  PROVE  Store!MakeSnapshot
<1> DEFINE n == Len(table.cells)
           b == CloneArena(HeadArena)
           s == made + 1
<1>1. OwnedInv(table, head.arena, snaps, made, leaked)
  BY DEF StoreInv
<1>2. /\ made' = s /\ table' = CloneRefs(table, HeadArena)
      /\ snaps' = With(snaps, s, b) /\ head' = Checkedout(s)
  BY DEF MakeSnapshot, With
<1>3. /\ TableOK(table) /\ n \in Nat /\ DOMAIN table.cells = 1 .. n
      /\ \A r \in DOMAIN snaps : ArenaOK(snaps[r], n)
      /\ s \notin DOMAIN snaps
  <2>1. DOMAIN snaps \subseteq 1 .. made /\ made \in Nat
    BY <1>1, OwnedParts
  <2>2. QED
    BY <1>1, <2>1, OwnedParts
<1>4. /\ ArenaOK(HeadArena, n)
      /\ \A p \in DOMAIN table.cells : p \in Ptrs(HeadArena) => table.cells[p].refs > 0
  BY HeadArenaFacts
<1>5. \A p \in 1 .. n : table'.cells[p].val = table.cells[p].val
  <2>1. SUFFICES ASSUME NEW p \in 1 .. n
                 PROVE  CloneRefs(table, HeadArena).cells[p].val = table.cells[p].val
    BY <1>2
  <2>2. \A q \in DOMAIN table.cells : CloneRefs(table, HeadArena).cells[q] =
          [refs |-> table.cells[q].refs + One(HeadArena, q), val |-> table.cells[q].val]
    BY <1>3, <1>4, CloneRefsFacts, Zenon
  <2>3. CloneRefs(table, HeadArena).cells[p] =
          [refs |-> table.cells[p].refs + One(HeadArena, p), val |-> table.cells[p].val]
    BY <1>3, <2>2
  <2>4. QED
    BY <2>3
<1> HIDE DEF n
<1>6. Objects(table', b) = CompactOf(Work)
  BY <1>3, <1>4, <1>5, CloneObjects, Mapping
<1>7. \A r \in DOMAIN snaps : Objects(table', snaps[r]) = Objects(table, snaps[r])
  BY <1>3, <1>5, SameObjects
<1> HIDE DEF b, s
<1>8. HeadArena' = b /\ At' = s
  BY <1>2, NextClean DEF With
<1>9. Work' = CompactOf(Work)
  BY <1>6, <1>8, Mapping
<1>10. Saved' = With(Saved, s, CompactOf(Work))
  BY <1>2, <1>3, <1>6, <1>7, Mapping DEF With
<1>11. Store!Compacted = CompactOf(Work)
  <2>1. \A S : Store!Cardinality(S) = Cardinality(S)
    BY Zenon DEF Store!Cardinality, Cardinality
  <2>2. \A x : Store!Place(x) = Rank(Work, x)
    BY <2>1, Zenon DEF Store!Place, Rank, Work
  <2>3. Store!Compacted =
          [k \in (1 .. Cardinality(DOMAIN Work)) \X {0} |->
             Work[CHOOSE x \in DOMAIN Work : Store!Place(x) = k[1]]]
    BY <2>1 DEF Store!Compacted, Work
  <2> DEFINE f(k) == Work[CHOOSE x \in DOMAIN Work : Store!Place(x) = k[1]]
             g(k) == Work[CHOOSE x \in DOMAIN Work : Rank(Work, x) = k[1]]
             K    == (1 .. Cardinality(DOMAIN Work)) \X {0}
  <2>4. \A k \in K : f(k) = g(k)
    <3>1. SUFFICES ASSUME NEW k \in K
                   PROVE  f(k) = g(k)
      OBVIOUS
    <3>2. (CHOOSE x \in DOMAIN Work : Store!Place(x) = k[1])
            = (CHOOSE x \in DOMAIN Work : Rank(Work, x) = k[1])
      BY <2>2
    <3>3. QED
      BY <3>2, Zenon
  <2>5. Store!Compacted = [k \in K |-> f(k)] /\ CompactOf(Work) = [k \in K |-> g(k)]
    BY <2>3, Zenon DEF CompactOf
  <2> HIDE DEF f, g, K
  <2>6. QED
    BY <2>4, <2>5
<1>12. QED
  BY <1>2, <1>8, <1>9, <1>10, <1>11 DEF Store!MakeSnapshot, Store!With, With, Work, Saved, At, s

(* Deleting a snapshot, or a dirty HEAD, changes no object that is kept. *)
LEMMA DeleteKeepsObjects ==
  ASSUME StoreInv, NEW b,
         b = head.arena \/ \E s \in DOMAIN snaps : b = snaps[s]
  PROVE  /\ \A s \in DOMAIN snaps :
              Objects(DeleteSnapshot(table, b), snaps[s]) = Objects(table, snaps[s])
         /\ Objects(DeleteSnapshot(table, b), HeadArena) = Objects(table, HeadArena)
<1> DEFINE n == Len(table.cells)
           t == DeleteSnapshot(table, b)
<1>1. OwnedInv(table, head.arena, snaps, made, leaked)
  BY DEF StoreInv
<1>2. /\ TableOK(table) /\ n \in Nat /\ DOMAIN table.cells = 1 .. n
      /\ ArenaOK(head.arena, n) /\ \A r \in DOMAIN snaps : ArenaOK(snaps[r], n)
  BY <1>1, OwnedParts
<1>3. ArenaOK(b, n) /\ \A p \in DOMAIN table.cells : p \in Ptrs(b) => table.cells[p].refs > 0
  BY <1>1, <1>2, HolderFacts
<1>4. \A p \in DOMAIN table.cells :
        t.cells[p] = [refs |-> table.cells[p].refs - One(b, p), val |-> table.cells[p].val]
  BY <1>2, <1>3, DeleteFacts, Zenon
<1> HIDE DEF t, n
<1>5. \A p \in 1 .. n : t.cells[p].val = table.cells[p].val
  <2>1. SUFFICES ASSUME NEW p \in 1 .. n
                 PROVE  t.cells[p].val = table.cells[p].val
    OBVIOUS
  <2>2. t.cells[p] = [refs |-> table.cells[p].refs - One(b, p), val |-> table.cells[p].val]
    BY <1>2, <1>4
  <2>3. QED
    BY <2>2
<1>6. ArenaOK(HeadArena, n)
  BY HeadArenaFacts DEF n
<1>7. QED
  BY <1>2, <1>5, <1>6, SameObjects DEF t

LEMMA DropSnapshotRefines ==
  ASSUME StoreInv, NEW s \in DOMAIN snaps, DropSnapshot(s)
  PROVE  Store!DropSnapshot(s)
<1>1. /\ snaps' = Without(snaps, s) /\ UNCHANGED <<made, leaked>>
      /\ s # 0
  <2>1. DOMAIN snaps \subseteq 1 .. made /\ made \in Nat
    BY OwnedParts DEF StoreInv
  <2>2. QED
    BY <2>1 DEF DropSnapshot, Without
<1>2. /\ \A r \in DOMAIN snaps : Objects(table', snaps[r]) = Objects(table, snaps[r])
      /\ Work' = Work
      /\ At' = IF At = s THEN 0 ELSE At
  <2>1. CASE head = Checkedout(s)
    <3>1. head' = Dirty(snaps[s]) /\ table' = table
      BY <2>1 DEF DropSnapshot
    <3>2. HeadArena = snaps[s] /\ At = s
      BY <2>1 DEF Checkedout, HeadArena, At
    <3>3. HeadArena' = snaps[s] /\ At' = 0
      BY <3>1, NextDirty
    <3>4. QED
      BY <3>1, <3>2, <3>3, Mapping
  <2>2. CASE head # Checkedout(s)
    <3>1. head' = head /\ table' = DeleteSnapshot(table, snaps[s])
      BY <2>2 DEF DropSnapshot
    <3>2. /\ \A r \in DOMAIN snaps : Objects(table', snaps[r]) = Objects(table, snaps[r])
          /\ Objects(table', HeadArena) = Objects(table, HeadArena)
      BY <3>1, DeleteKeepsObjects
    <3>3. HeadArena' = HeadArena /\ At' = At /\ At # s
      <4>1. CASE head.kind = "dirty"
        BY <1>1, <3>1, <4>1 DEF HeadArena, At
      <4>2. ASSUME NEW r \in DOMAIN snaps, head = Checkedout(r), head.kind = "checkout", head.id = r
            PROVE  HeadArena' = HeadArena /\ At' = At /\ At # s
        <5>1. r # s
          BY <2>2, <4>2
        <5>2. snaps'[r] = snaps[r]
          BY <1>1, <5>1 DEF Without
        <5>3. QED
          BY <3>1, <4>2, <5>1, <5>2 DEF HeadArena, At
      <4>3. QED
        BY <4>1, <4>2, HeadCases
    <3>4. QED
      BY <3>2, <3>3, Mapping
  <2>3. QED
    BY <2>1, <2>2
<1>3. Saved' = Without(Saved, s) /\ s \in DOMAIN Saved
  BY <1>1, <1>2, Mapping DEF Without
<1>4. QED
  BY <1>1, <1>2, <1>3
  DEF Store!DropSnapshot, Store!Without, Store!None, Without, Work, Saved, At

LEMMA CheckoutRefines ==
  ASSUME StoreInv, NEW s \in DOMAIN snaps, Checkout(s)
  PROVE  Store!Checkout(s)
<1>1. head' = Checkedout(s) /\ UNCHANGED <<snaps, made, leaked>>
  BY DEF Checkout
<1>2. HeadArena' = snaps[s] /\ At' = s
  BY <1>1, NextClean
<1>3. \A r \in DOMAIN snaps : Objects(table', snaps[r]) = Objects(table, snaps[r])
  BY DeleteKeepsObjects DEF Checkout
<1>4. Saved' = Saved /\ s \in DOMAIN Saved /\ Work' = Saved[s]
  BY <1>1, <1>2, <1>3, Mapping, SavedKept
<1>5. QED
  BY <1>1, <1>2, <1>4 DEF Store!Checkout, Work, Saved, At

LEMMA InitRefines == Init => Store!Init
<1>1. SUFFICES ASSUME Init
               PROVE  Store!Init
  OBVIOUS
<1>2. /\ HeadArena = EmptyArena /\ At = 0 /\ made = 0 /\ DOMAIN snaps = {}
  BY <1>1 DEF Init, Dirty, HeadArena, At
<1>3. Names(EmptyArena) = {}
  BY DEF Names, PtrAt, EmptyArena, Nil
<1>4. Work = [i \in {} |-> 0]
  <2>1. Work = [id \in Names(EmptyArena) |-> table.cells[PtrAt(EmptyArena, id)].val]
    BY <1>2, Mapping DEF Objects
  <2>2. QED
    BY <1>3, <2>1
<1>5. Saved = [s \in {} |-> 0]
  BY <1>2 DEF Saved
<1>6. QED
  BY <1>2, <1>4, <1>5 DEF Store!Init, Store!None, Work, Saved, At

LEMMA NextRefines ==
  ASSUME StoreInv, [Next]_vars
  PROVE  [Store!Next]_(Store!svars)
<1>1. ASSUME NEW v \in Value, Insert(v)
      PROVE  Store!Next
  BY <1>1, InsertRefines DEF Store!Next
<1>2. ASSUME NEW id \in Id, BadId(id) \/ Remove(id) \/ \E v \in Value : Write(id, v)
      PROVE  Store!Next
  BY <1>2, BadIdRefines, RemoveRefines, WriteRefines DEF Store!Next
<1>3. ASSUME MakeSnapshot
      PROVE  Store!Next
  BY <1>3, MakeSnapshotRefines DEF Store!Next
<1>4. ASSUME NEW s \in DOMAIN snaps, DropSnapshot(s) \/ Checkout(s)
      PROVE  Store!Next
  <2>1. Store!DropSnapshot(s) \/ Store!Checkout(s)
    BY <1>4, DropSnapshotRefines, CheckoutRefines
  <2>2. s \in DOMAIN [r \in DOMAIN snaps |-> Contents(snaps[r])]
    OBVIOUS
  <2>3. QED
    BY <2>1, <2>2 DEF Store!Next
<1>5. ASSUME UNCHANGED vars
      PROVE  UNCHANGED Store!svars
  <2>1. Work' = Work /\ Saved' = Saved /\ At' = At /\ made' = made
    BY <1>5, Mapping DEF vars, HeadArena, At
  <2>2. QED
    BY <2>1 DEF Store!svars, Work, Saved, At
<1>6. QED
  BY <1>1, <1>2, <1>3, <1>4, <1>5 DEF Next

(* Sharing is invisible: whatever is inserted, written, removed, put in    *)
(* snapshots, dropped or checked out, and in whatever order, HEAD and the  *)
(* snapshots contain what a store of full copies would, under the same     *)
(* ids (lib.rs:92-204).                                                    *)
THEOREM SharingIsInvisible == Spec => ImplementsStore
<1>1. Init => Store!Init
  BY InitRefines
<1>2. StoreInv /\ [Next]_vars => [Store!Next]_(Store!svars)
  BY NextRefines
<1>3. QED
  BY <1>1, <1>2, StoreInvariant, PTL DEF Spec, ImplementsStore, Store!Spec
=============================================================================
